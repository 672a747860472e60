\* Two messages, every fault, and an account that changes.
CONSTANTS
    Msgs = {m1, m2}
    Files = {f1, f2}
    MaxTries = 2
    None = None
    Default <- CatchAll
    Faults = {"io", "kill", "power", "scripts", "account"}
SPECIFICATION Spec
CHECK_DEADLOCK FALSE
SYMMETRY Interchangeable
INVARIANTS
    TypeOK
    NewIsWhole
    DoneIsDelivered
PROPERTIES
    NewIsKept
