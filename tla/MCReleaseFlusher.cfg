CONSTANTS
    g1 = g1  g2 = g2  s1 = s1  f1 = f1
    Groups = {g1, g2}
    MaxSeq = 2
    Senders = {s1}
    NoSender = NoSender
    Flushers = {f1}
SPECIFICATION FairSpec
INVARIANTS TicketsHonest PromptWhenHealthy
PROPERTIES ImplementsLedger DeliveredDespiteOthers
