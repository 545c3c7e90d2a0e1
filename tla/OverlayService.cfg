SPECIFICATION ServiceSpec
CONSTANTS
  f = f
  g = g
  Name <- MCName
  Path <- MCPath
  Base <- MCBase
  Content = {c0, c1}
  c0 = c0
  c1 = c1
  Absent = Absent
  Dir = Dir
  NoRename = NoRename
SYMMETRY Symmetry
INVARIANTS
  ReaddirAgreesWithStat
  FileListIsVisibleFiles
  ViewIsTree
  StatusIsDiff
PROPERTIES
  ImplementsPlainFS
  CopyingIsInvisible
