CONSTANTS
    m1 = m1  m2 = m2
    Models = {m1, m2}
    NoState = NoState
    NoShard = NoShard
    NoHint = NoHint
    Hints = {1, 3}
    Base = 1
    Top = 2
    CloudflareMin = 2
    Transient = 1
    Medium = 2
    Long = 3
    Occurring = {"quota"}
    MaxTime = 40
SPECIFICATION Spec
PROPERTY RetryHintTakesEffect
VIEW SinceNow
