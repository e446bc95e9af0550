SPECIFICATION MCSpec
CONSTANTS
  c1 = c1
  c2 = c2
  Callers = {c1, c2}
  MaxAgents = 2
  MaxSubagents = 2
  Assignments = {{"f"}}
  MayCancel = TRUE
  MayGiveUp = TRUE
  Commands = {"j1", "j2", "j3"}
  Nobody = nobody
  Reaper = reaper
  Exits = {"zero", "error"}
  MaxJobs = 1
  RingCap = 2
  MaxTasks = 2
SYMMETRY Alike
INVARIANTS
  TypesOK
  SpawnsAreKept
  LivingIsFindable
  ShutdownIsWanted
CHECK_DEADLOCK FALSE
