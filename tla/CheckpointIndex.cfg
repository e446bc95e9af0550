SPECIFICATION Spec
CONSTANTS
  w1 = w1
  w2 = w2
  Processes <- MCProcesses
  MaxCheckpoints = 2
  MaxBytes = 2
  Clock = 3
  Nobody = Nobody
SYMMETRY Alike
INVARIANTS
  TypeOK
  KeptAreRestorable
  PayloadHasContents
  RetentionBounds
