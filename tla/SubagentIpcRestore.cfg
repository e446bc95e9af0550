SPECIFICATION Spec
CONSTANTS
    Agents = {a}
    Procs = {p}
    Nobody = Nobody
    MaxRuns = 1
    MaxRetries = 1
    MaxEpoch = 2
PROPERTY RestoredStaysRestored
CHECK_DEADLOCK FALSE
