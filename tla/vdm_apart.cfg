\* Two processes, each with a user of its own; writes may fail.  Past the
\* first stolen lock or stale copy the property says nothing: there it ends.
CONSTANTS
    Procs = {p1, p2}
    Users = {u1, u2}
    Attrs = {"forwards"}
    Words = {w1}
    Requests = {"adduser", "chattr"}
    Serves <- ServeApart
    Absent = Absent
    Inodes = {i1, i2, i3}
    None = None
    Faults = {"io"}
SPECIFICATION Spec
CONSTRAINT Orderly
SYMMETRY SameSides
PROPERTIES
    MailIsKept
