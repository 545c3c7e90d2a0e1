SPECIFICATION Spec
CONSTANTS
  f = f
  g = g
  x = x
  y = y
  z = z
  File = {f, g}
  Content = {x, y, z}
  Absent = Absent
  main = main
  patch = patch
  Branch = {main, patch}
  Default = main
  NoBranch = NoBranch
  Idle = Idle
  Typed = {x, y, Absent}
  Pushed = {z, Absent}
  FirstTrees <- MCFirstTrees
  MaxCommits = 1
  MaxPushes = 1
INVARIANTS NewBranchIsNew
CHECK_DEADLOCK FALSE
