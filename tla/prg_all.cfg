\* The programs of a domain, one component at a time.
CONSTANTS
    Procs = {p1, p2}
    Msgs = {m1}
    Inodes = {i1, i2, i3}
    None = None
    Part = Part
    Users = {u1, u2}
    BadLine = BadLine
    MaxLines = 2
    MaxWords = 2
    Limit = 256
SPECIFICATION ProgramsSpec
SYMMETRY SameFiles
INVARIANTS
    WholeUnlessSwept
    OneCopyAlone
    UpgradeIsWhole
    ListsAreCarriedOut
    SetupKeepsOld
PROPERTIES
    WholeTableSurvives
