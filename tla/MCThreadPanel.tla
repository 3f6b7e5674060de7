--------------------------- MODULE MCThreadPanel ---------------------------
EXTENDS ThreadPanel, TLC

CONSTANTS poll, bot

MCLoops == {poll}
============================================================================
