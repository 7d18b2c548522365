SPECIFICATION Spec
CONSTANTS
    Clients = {c1, c2}
    MaxIds = 2
    MaxFaults = 2
INVARIANTS SchedulesMirrored OnlyTemporalHides
SYMMETRY ClientSymmetry
