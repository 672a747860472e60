\* A request and another one after it; every message is more than one write.
CONSTANTS
    Procs = {1, 2}
    Users = {u1}
    Attrs = {"forwards"}
    Words = {w1}
    Requests = {"adduser"}
    Serves <- ServeAll
    Absent = Absent
    Inodes = {i1, i2, i3}
    None = None
    Faults = {"io"}
    Tries = 2
    User = u1
    Body = 2
    Text = 2
    Room = 2
SPECIFICATION SessionSpec
INVARIANTS
    AnswersAreTrue
    OneEffect
PROPERTIES
    NotCutShort
    ConnectionsEnd
CHECK_DEADLOCK FALSE
