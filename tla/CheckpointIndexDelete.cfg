SPECIFICATION Spec
CONSTANTS
  Processes = {w1, w2}
  MaxCheckpoints = 2
  MaxBytes = 3
  Clock = 3
  Nobody = Nobody
PROPERTY
  RemovedStaysOut
