SPECIFICATION Spec
CONSTANTS
  Tab = {t1}
  Owner = {"u1"}
  AccessToken = {"a1"}
  Lifetime = {3}
  Buffer = 2
  RefreshBuffer = 1
  TimerRange = 100
  ProtectRefreshToken = FALSE
  Slot = {"k1"}
  MaxTime = 3
  NoToken = NoToken
  NoTimer = NoTimer
  NoHandshake = NoHandshake
  Idle = Idle
PROPERTIES DisposedDoesNotRefresh
