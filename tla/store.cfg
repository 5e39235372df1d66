SPECIFICATION Spec
CONSTANTS
    Api = api
    Workers = {w1}
    AuthSecret = TRUE
    MaxSaves = 3
    MaxOutages = 1
    MaxRemovals = 1
INVARIANTS
    TypeOK
    DiskIsCurrent
    LoadsAreCurrent
