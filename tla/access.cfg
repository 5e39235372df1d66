SPECIFICATION Spec
CONSTANTS
    Procs = {p1, p2}
    Requests = {r1, r2}
    Users = {adm, usr}
    Clean <- MCClean
    Admin = adm
    LdapUsers = {usr}
    LdapAdmins = {}
    LdapOperators = {}
    DefaultRole = "admin"
    adm = adm
    usr = usr
    Tasks <- MCTasks
    Sids = {s1, s2}
    NoSid = noSid
    NoProc = noProc
    MaxSent = 2
    MaxFaults = 1
INVARIANTS
    TypeOK
    RevokedStaysOut
    SessionHasCsrf
    AuthorisedDuring
PROPERTY
    AccountsKept
SYMMETRY Symmetry
CHECK_DEADLOCK FALSE
