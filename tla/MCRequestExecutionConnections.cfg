CONSTANTS
    r1 = r1  r2 = r2  c1 = c1  c2 = c2  c3 = c3
    Requests = {r1, r2}
    Streams = {r1}
    Creds = {c1, c2}
    NoCred = NoCred
    Cap <- CapFirst
    Retry <- RetryFirst
    SameRetry <- Never
    Models <- OneModel
    MaxCredentials = 0
    Deadlines = {"long"}
SPECIFICATION Spec
VIEW Relevant
INVARIANT ConnectionsExact
