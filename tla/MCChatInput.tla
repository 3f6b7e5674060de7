----------------------------- MODULE MCChatInput -----------------------------
EXTENDS ChatInput

CONSTANTS folderA, folderB

MCProjects == {folderA, folderB}
MCHome == <<folderA, folderA, folderB>>
=============================================================================
