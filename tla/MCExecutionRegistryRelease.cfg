CONSTANTS
    c1 = c1  c2 = c2  g1 = g1  s1 = s1
    MaxDispatches = 2
    Groups = {g1}
    Unaccounted = Unaccounted
    Sinks = {s1}
    NoSink = NoSink
    Callers = {c1}
    MaxBarrier = 0
    MaxFreezes = 0
SPECIFICATION FairSpec
CHECK_DEADLOCK FALSE
INVARIANTS CountedOnce ReportedBeforeRemoved SinkOwed
PROPERTIES SinkCatchesUp
