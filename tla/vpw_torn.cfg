\* Two writers, no faults: the destructor unlinks the lock of another.
CONSTANTS
    Procs = {p1, p2}
    Names = {n1, n2}
    Vals = {v1}
    Absent = Absent
    Inodes = {i1, i2, i3}
    None = None
    Faults = {}
SPECIFICATION Spec
INVARIANTS
    TableIsWhole
