SPECIFICATION SessionSpec
CONSTANTS
  Resource = {f1}
  MaxLoads = 3
  Run = {}
  Command = {c1, c2}
  NotRunning = NotRunning
PROPERTIES
  LossIsConfirmed
CHECK_DEADLOCK FALSE
