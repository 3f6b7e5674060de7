--------------------------- MODULE MCTelegramTurn ---------------------------
EXTENDS TelegramTurn, TLC

CONSTANTS poll, bot
=============================================================================
