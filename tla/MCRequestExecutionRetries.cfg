CONSTANTS
    r1 = r1  r2 = r2  c1 = c1  c2 = c2  c3 = c3
    Requests = {r1}
    Streams = {r1}
    Creds = {c1, c2, c3}
    NoCred = NoCred
    Cap <- CapFirst
    Retry <- RetryFirst
    SameRetry <- SameRetryFirst
    Models <- ModelsSecond
    MaxCredentials = 2
    Deadlines = {"short"}
SPECIFICATION FairSpec
INVARIANTS RetryBudget NeverReplayed
PROPERTY EveryRequestReturns
