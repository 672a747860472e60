\* Two writers that may fail but are not killed, each scheduled fairly.
CONSTANTS
    Procs = {p1, p2}
    Names = {n1}
    Vals = {v1}
    Absent = Absent
    Inodes = {i1, i2, i3}
    None = None
    Faults = {"io"}
SPECIFICATION FairSpec
PROPERTIES
    LockIsReleased
    CallsReturn
