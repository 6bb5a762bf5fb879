CONSTANTS
    m1 = m1  m2 = m2
    Models = {m1, m2}
    NoState = NoState
    NoShard = NoShard
    NoHint = NoHint
    Hints = {2}
    Base = 1
    Top = 2
    CloudflareMin = 2
    Transient = 1
    Medium = 1
    Long = 2
    Occurring = {"credential", "notFound", "support", "transient", "cloudflare", "quota"}
    MaxTime = 40
SPECIFICATION Spec
INVARIANTS EveryBlockEnds SchedulerAgrees
PROPERTIES FailuresStayLocal CredentialWindowHolds QuotaWindowsHold BackoffOncePerWindow
VIEW SinceNow
