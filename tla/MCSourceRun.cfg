\* Two locations, one on a server with entity tags, and two items a fetch.
SPECIFICATION Spec
CONSTANTS
    Urls = {u1, u2}
    Tagged = {u1}
    Items = 2
    MaxVersion = 2
    ResolveAttempts = 2
    RecordAttempts = 2
    MaxFaults = 2
    MaxEdits = 1
INVARIANTS OnlyIngestedIsSkipped RunRowTrue EachItemRunsOnce
PROPERTIES EventuallyIngested
