SPECIFICATION FilesSpec
CONSTANTS
  File = {a, n}
  Tracked = {a}
  Folder = Folder
  Slots = {r1}
  Lister = {l1}
  NoCall = NoCall
  Rate = 1
  MaxCalls = 4
  MaxClock = 3
PROPERTIES KeptListMatches
CHECK_DEADLOCK FALSE
