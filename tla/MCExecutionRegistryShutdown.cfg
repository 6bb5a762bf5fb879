CONSTANTS
    c1 = c1  c2 = c2  g1 = g1  s1 = s1
    MaxDispatches = 2
    Groups = {}
    Unaccounted = Unaccounted
    Sinks = {}
    NoSink = NoSink
    Callers = {c1, c2}
    MaxBarrier = 2
    MaxFreezes = 2
SPECIFICATION FairSpec
VIEW Relevant
CHECK_DEADLOCK FALSE
INVARIANTS ClosedBeforeRelease NoLostWakeup DrainedIsFinal ClosedIsFinal BarrierComplete
PROPERTIES CallsReturn
