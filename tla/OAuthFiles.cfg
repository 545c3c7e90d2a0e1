SPECIFICATION OAuthFilesSpec
CHECK_DEADLOCK FALSE
CONSTANTS
  t1 = t1
  t2 = t2
  u1 = u1
  u2 = u2
  a1 = a1
  k1 = k1
  k2 = k2
  Tab = {t1, t2}
  Owner = {u1, u2}
  AccessToken = {a1}
  Lifetime = {1, 3}
  Buffer = 2
  RefreshBuffer = 1
  TimerRange = 100
  ProtectRefreshToken = TRUE
  Slot = {k1, k2}
  MaxTime = 5
  TabsMaxTime = 2
  NoToken = NoToken
  NoTimer = NoTimer
  NoHandshake = NoHandshake
  Idle = Idle
  a = a
  n = n
  r1 = r1
  r2 = r2
  l1 = l1
  File = {a, n}
  Tracked = {a}
  Folder = Folder
  Slots = {r1, r2}
  Lister = {l1}
  NoCall = NoCall
  Rate = 1
  MaxCalls = 3
  MaxClock = 2
INVARIANTS
  TypeOK
  CachesConverge
  RefreshIsPlanned
PROPERTIES
  TimerGuaranteesRefresh
  DisposedComesToRest
  StorageSettles
  CallsEnd
  FolderTakesNoFile
  FreshListMatches
