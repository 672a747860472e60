\* Two writers, no faults: an update copied before the lock was taken.
CONSTANTS
    Procs = {p1, p2}
    Names = {n1, n2}
    Vals = {v1}
    Absent = Absent
    Inodes = {i1, i2, i3}
    None = None
    Faults = {}
SPECIFICATION Spec
PROPERTIES
    AtomicMap
