SPECIFICATION MCSpec
CONSTANTS
  a1 = a1
  a2 = a2
  p1 = p1
  p2 = p2
  c1 = c1
  c2 = c2
  Absent = Absent
  NoHash = NoHash
  NoAgent = NoAgent
  Agents <- MCAgents
  Paths <- MCPaths
  Contents <- MCContents
SYMMETRY Alike
CHECK_DEADLOCK FALSE
INVARIANTS
  TypeOK
  UndoReturnsToStart
PROPERTY
  TombstonesAreRunCreations
  FirstRecordDecides
