CONSTANTS
    c1 = c1  c2 = c2  m1 = m1  p1 = p1  p2 = p2  w1 = w1  w2 = w2
    Clients = {c1, c2}
    Client = c1
    Models = {m1}
    Providers = {p1, p2}
    NoProvider = NoProvider
    NoList = NoList
    NoAuth = NoAuth
    Workers = {w1, w2}
    Queue = queue
    Registrar = registrar
    Kinds = {"other"}
    Offers <- OnceOrTwice
    OtherOffers <- JustOnce
    MaxResults = 2
    MaxUpdates = 3
    MaxPasses = 1
    MaxEvents = 5
SPECIFICATION Spec
VIEW Relevant
INVARIANTS BookkeepingExact MarksFollowManager RegistrationsMatchCredentials
