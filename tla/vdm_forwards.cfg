\* A .tmp file left by a killed process, then vchforwards.
CONSTANTS
    Procs = {p1}
    Users = {u1}
    Attrs = {"forwards"}
    Words = {w1}
    Requests = {"adduser", "chforwards"}
    Serves <- ServeAll
    Absent = Absent
    Inodes = {i1, i2}
    None = None
    Faults = {"kill"}
SPECIFICATION Spec
PROPERTIES
    MailIsKept
