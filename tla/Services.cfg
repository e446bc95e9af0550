SPECIFICATION MCSpec
CONSTANTS
  Kinds = {"import_error", "schedule"}
  Files = {"f1"}
  NoFile = "none"
  KindWindow <- MCKindWindow
  FileWindow = 2
  MaxWindow = 2
  Hour = 2
  AutoFixPerHour = 1
  MaxTime = 3
  MaxEvents = 3
  TaskFiles = {"f", "g"}
  NoTaskFile = "none"
  Priorities = {0, 1}
  DrainLoops = {"l1", "l2"}
  TaskSlots = 2
  MaxPending = 2
  MaxTasks = 3
  MaxStops = 1
  Sessions = {"s1", "s2"}
  NoSession = "none"
  Requests = {"t1", "t2", "t3"}
  Backlog = 2
  RequestSlots = 1
  MaxCalls = 2
  ToolCalls = {"c1", "c2", "c3"}
  ToolSlots = 2
INVARIANTS
  CapsHold
  AckedHasReader
PROPERTIES
  DecidesByHistory
  TasksAreKept
CHECK_DEADLOCK FALSE
