\* Two writers, every fault.
CONSTANTS
    Procs = {p1, p2}
    Names = {n1, n2}
    Vals = {v1}
    Absent = Absent
    Inodes = {i1, i2, i3}
    None = None
    Faults = {"io", "kill"}
SPECIFICATION Spec
SYMMETRY Interchangeable
INVARIANTS
    TypeOK
    TornOnlyIfRobbed
    LockExclusive
PROPERTIES
    PublishedIsFrozen
    FreshUpdateIsExact
    OrphanLockIsForever
