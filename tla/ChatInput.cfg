SPECIFICATION Spec
CONSTANTS
  folderA = folderA
  folderB = folderB
  None = None
  Projects <- MCProjects
  Home <- MCHome
  PageSize = 1
  MaxUpdates = 2
  MaxFaults = 1
INVARIANTS VoiceInv TextsRunWhereMeant UpdateRunsOnce  PageShowsThreads
PROPERTIES EveryUpdateHandled
CHECK_DEADLOCK FALSE
