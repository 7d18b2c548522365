SPECIFICATION Spec
CONSTANTS
    Clients = {c1, c2}
    MaxIds = 2
    MaxFaults = 0
INVARIANT NoOrphanSchedule
