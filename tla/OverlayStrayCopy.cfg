SPECIFICATION ServiceSpec
CONSTANTS
  Name <- MCName
  Path <- MCPath
  Base <- MCBase
  Content = {c0, c1}
  c0 = c0
  c1 = c1
  Absent = Absent
  Dir = Dir
  NoRename = NoRename
PROPERTIES
  StrayCopyIsInvisible
