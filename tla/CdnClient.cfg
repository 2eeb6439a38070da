\* Two workers share a list of two servers (one may refuse), the keys and a
\* cache that two chunks fill.
SPECIFICATION Spec
CONSTANTS
    Main = main
    Workers = {w1, w2}
    Depots = {d1, d2}
    c1 = c1
    c2 = c2
    c3 = c3
    Shas = {c1, c2, c3}
    Size <- MCSize
    MaxBytes = 4
    Tries = 2
    Lists <- MCOneList
    Accepts = {1}
    MaxCalls = 5
    Nothing = Nothing
INVARIANTS
    Consistent
    WorkersFindAll
    GivesUpAfterAll
