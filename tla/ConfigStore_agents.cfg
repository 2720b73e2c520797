SPECIFICATION Spec
CONSTANTS
    Procs = {p1, p2}
    Settings = {s1, s2}
    Caches = {c1, c2}
    NoCache = c1
    MaxWrites = 2
    MaxEdits = 1
    MaxFaults = 1
SYMMETRY Symmetry
INVARIANTS
    TypeOK
    AgentSettingsApproved
PROPERTIES
    WriteIsAtomic
    CacheWriteIsNarrow
