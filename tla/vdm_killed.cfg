\* One process at a time, killed at any point.
CONSTANTS
    Procs = {p1}
    Users = {u1, u2}
    Attrs = {"forwards"}
    Words = {w1, w2}
    Requests = {"adduser", "chattr", "deluser"}
    Serves <- ServeAll
    Absent = Absent
    Inodes = {i1, i2}
    None = None
    Faults = {"kill"}
SPECIFICATION Spec
INVARIANTS
    AccountsAreWhole
PROPERTIES
    MailGoesWithAccount
    AtomicAccounts
    AtomicTable
