\* No crash, no fault: one location is edited and its server has no entity tags.
SPECIFICATION Spec
CONSTANTS
    Urls = {u1, u2}
    Tagged = {u1}
    Items = 2
    MaxVersion = 2
    ResolveAttempts = 2
    RecordAttempts = 2
    MaxFaults = 0
    MaxEdits = 1
INVARIANT UnchangedIsIngested
