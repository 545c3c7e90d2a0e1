SPECIFICATION PageSpec
CHECK_DEADLOCK FALSE
CONSTANTS
  e1 = e1
  e2 = e2
  h1 = h1
  h2 = h2
  Embedder = {e1, e2}
  Context = {h1, h2}
  None = None
  NoContext = NoContext
  Configs <- MCConfigs
  MaxPages = 2
  MaxQueue = 1
  MaxToken = 2
  MaxWaiting = 4
  main = main
  f = f
  v1 = v1
  c0 = c0
  Name = {main, f, v1, c0}
  NoName = "none"
  Text = {f, "none"}
  Tag = {v1}
  CommitName = c0
  DefaultName = main
  NoJob = NoJob
  MaxOthers = 1
  MaxReloads = 2
  InputBytes = 64
  Wrap = 1024
  MaxLength = 136
INVARIANTS
  AnswerIsNotWasted
  WorkbenchHasItsPort
  DataIsOwnOrUnpurged
  ExtensionsBelongToContext
  SessionFollowsToken
  RequestsKeepUp
  ExistingRefIsLoaded
  BaseIsOwnOrTold
  HashesPaddedMessage
PROPERTIES
  StartsSettle
  FailureIsTold
  ActivationSettles
  SearchCatchesUp
