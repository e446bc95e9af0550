SPECIFICATION SpecFaulty
CONSTANTS
  Absent = Absent
  NoHash = NoHash
  NoAgent = NoAgent
  Agents = {a1, a2}
  Paths = {p1, p2}
  Contents = {c1}
CHECK_DEADLOCK FALSE
PROPERTY
  TombstonesAreRunCreations
