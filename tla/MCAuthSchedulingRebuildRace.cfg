CONSTANTS
    a1 = a1  a2 = a2  w1 = w1  w2 = w2  w3 = w3
    Auths = {a1}
    Absent = Absent
    Workers = {w1, w2, w3}
    Idle = Idle
    MaxEpoch = 3
    MaxGen = 3
    MaxSyncs = 1
SPECIFICATION Spec
SYMMETRY WorkerSymmetry
CHECK_DEADLOCK FALSE
INVARIANT EnabledIsScheduled
