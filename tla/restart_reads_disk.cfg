SPECIFICATION Spec
CONSTANTS
    Api = api
    Workers = {w1}
    AuthSecret = TRUE
    MaxSaves = 2
    MaxOutages = 1
    MaxRemovals = 0
INVARIANT
    RestartReadsDisk
