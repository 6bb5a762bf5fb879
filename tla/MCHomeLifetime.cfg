CONSTANTS
    q1 = q1  q2 = q2
    MaxGen = 2
    MaxClients = 2
    MaxConfigs = 1
    Requests = {q1}
SPECIFICATION FairSpec
VIEW Relevant
CHECK_DEADLOCK FALSE
INVARIANTS TypeOK DispatchesSettled OneLifetime NothingLeftBehind
PROPERTIES NoCommitAfterCancel ReplacementReturns
