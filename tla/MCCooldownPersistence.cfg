CONSTANTS
    a1 = a1  a2 = a2  w1 = w1  w2 = w2
    Auths = {a1, a2}
    CredentialWide = {a1}
    Workers = {w1, w2}
    Main = main
    Nobody = nobody
    MaxTime = 2
SPECIFICATION Spec
INVARIANTS SavedSurvives DiskMatchesMemory ForgottenStaysForgotten
SYMMETRY Symmetry
