SPECIFICATION MCSpec
CONSTANTS
    Applies = {a1, a2}
    Reviews = {r1}
    Scan = scan
    Route = route
    NoReview = noReview
    NoFindings = noFindings
    Nothing = nothing
    Torn = torn
    MaxKeys = 2
    MaxRestarts = 1
    MaxRetries = 1
    Letters = {"a", "A", "b", " ", "x", "0", "1", "ENTITY", "EMAIL", "IPV4", "IBAN", "MAC"}
    Values <- MCValues
    Canonical <- MCCanonical
    Types = {"EMAIL", "IPV4", "IBAN", "MAC"}
    Prefixed = {"EMAIL"}
    Preserving = {"IPV4"}
    Custom <- MCCustom
    Numeral <- MCNumeral
    Free <- MCFree
    Gap = " "
    Texts <- MCTexts
    MaxFindings = 3
    MaxAtOnce = 2
INVARIANTS
    TypeOK
    ConsoleTracked
    ZipReverts
    ZipOpens
    PseudonymsTellApart
    ReplacedAsWholes
    RevertRestores
    RunsHideTheSame
PROPERTIES
    GoneInTheEnd
CHECK_DEADLOCK FALSE
