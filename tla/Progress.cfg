SPECIFICATION MCSpec
CONSTANTS
  Scenarios = {"calls", "registry", "worker", "backlog", "http", "stdio"}
PROPERTIES
  RunReturns
  JobsConverge
  WorkerListens
  WaitingRuns
  AnswersAreWritten
CHECK_DEADLOCK FALSE
