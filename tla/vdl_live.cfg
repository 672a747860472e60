\* Every attempt ends while the maildir is there.
CONSTANTS
    Msgs = {m1, m2}
    Files = {f1, f2}
    MaxTries = 1
    None = None
    Default = None
    Faults = {"kill"}
SPECIFICATION FairSpec
CHECK_DEADLOCK FALSE
PROPERTIES
    AttemptsEnd
