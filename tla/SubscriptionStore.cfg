\* The web server and a command use one output directory.
SPECIFICATION Spec
CONSTANTS
    Procs = {p1, p2}
    Ids = {i1, i2}
    MaxGid = 1
    None = None
    Down = Down
    Absent = Absent
    Empty = Empty
    Torn = Torn
    MaxUnsure = 1
CONSTRAINT FewUnsure
SYMMETRY Symmetry
INVARIANTS
    OnlyRacesTear
    OnlyStaleListsLose
