SPECIFICATION MCSpec
CONSTANTS
    a = a
    b = b
    c = c
    p = p
    q = q
    Agents <- MCAgents
    Procs <- MCProcs
    Nobody = Nobody
    MaxRuns = 2
    MaxRetries = 1
    MaxEpoch = 3
SYMMETRY Alike
INVARIANTS
    TypeOK
    OneRunnerPerDispatch
    AdoptedIsCurrent
    AdoptedIsFinished
PROPERTIES
    QueuedTaskKept
    FreshResultKept
CHECK_DEADLOCK FALSE
