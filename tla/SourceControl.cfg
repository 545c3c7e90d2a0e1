SPECIFICATION SourceControlSpec
CONSTANTS
  k1 = k1
  k2 = k2
  f = f
  g = g
  x = x
  y = y
  z = z
  main = main
  patch = patch
  Resource = {f}
  MaxLoads = 3
  Run <- MCRun
  Command = {c1}
  NotRunning = NotRunning
  File = {f, g}
  Content = {x, y, z}
  Absent = Absent
  Branch = {main, patch}
  Default = main
  NoBranch = NoBranch
  Idle = Idle
  Typed = {x, y, Absent}
  Pushed = {z, Absent}
  FirstTrees <- MCFirstTrees
  MaxCommits = 1
  MaxPushes = 1
SYMMETRY Symmetry
VIEW PartObserved
INVARIANTS
  NewestOwnsAll
  WorkbenchIsUsable
  ViewFollowsChanges
  CommitIsWhatWasSeen
  OthersChangesSurvive
  OverwriteIsCounted
  AmendIsRefusedOnlyIf
PROPERTIES
  ReloadDropsOnlyLateChanges
CHECK_DEADLOCK FALSE
