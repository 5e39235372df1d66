SPECIFICATION MCSpec
CONSTANTS
    Scans = {t1, t2}
    Alone = t1
    Configs = 2
    Enabled = {1}
    Versions = 2
    Files = 2
    Reloads = 1
    Threshold = 2
    MaxFaults = 3
    Length = 4
    Priorities = {1, 2}
    MaxFindings = 4
INVARIANTS
    TypeOK
    SetsFromOneAnswer
    BreakerCounts
    TermsKnown
    KeptAreDisjoint
    StrongestAreKept
    DroppedForAStronger
PROPERTIES
    PeopleKept
    FreshInTheEnd
CHECK_DEADLOCK FALSE
