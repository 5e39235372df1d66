------------------------------- MODULE Access -------------------------------
(***************************************************************************)
(* Who may do what: login, sessions with their CSRF tokens, and the local  *)
(* user accounts (core/auth.py, core/user_manager.py, core/ldap_auth.py,   *)
(* their routes and the middleware of main.py).                            *)
(*                                                                         *)
(* Several API processes share Redis (sessions) and one SQLite file        *)
(* (accounts).  In a process the coroutine of a request runs without an    *)
(* await from one call to the next, so what interleaves is: requests of    *)
(* different processes at every call, and requests of one process between  *)
(* the middleware, the dependencies (which run in a thread) and the body   *)
(* of the route.  The lock of user_manager is one per process.             *)
(***************************************************************************)
EXTENDS Naturals, FiniteSets

CONSTANTS
    Procs,       \* the API processes
    Requests,    \* bound: requests in progress at a time
    Users,       \* user names
    Clean,       \* Clean[u]: a name as typed, stripped and in lower case
    Admin,       \* AUTH_USERNAME
    LdapUsers,   \* the names with exactly one entry in the directory
    LdapAdmins,  \* those in the configured administrators' group
    LdapOperators, \* those in the configured operators' group
    DefaultRole, \* auth_default_role, for those in neither
    Tasks,       \* what the requests with a session ask for
    Sids,        \* bound: the sessions ever created
    NoSid,       \* a request without a session
    NoProc,      \* no request
    MaxSent,     \* bound: the requests with a session
    MaxFaults    \* bound: failed Redis calls, restarts of processes, dumps, expiries

Roles == {"operator", "admin"}
Accounts == {"create", "role", "password", "delete"}
Operations == {"login", "logout", "logoutAll"} \cup Accounts

ASSUME NamesAssumption ==
    /\ Clean \in [Users -> Users]
    /\ Admin \in Users /\ LdapUsers \subseteq Users
    /\ LdapAdmins \subseteq LdapUsers /\ LdapOperators \subseteq LdapUsers
    /\ DefaultRole \in Roles
    /\ Tasks \subseteq [op : Operations \ {"login"}, target : Users, role : Roles,
                       cookie : BOOLEAN]
    /\ NoSid \notin Sids /\ NoProc \notin Procs
    /\ MaxSent \in Nat /\ MaxFaults \in Nat

VARIABLES
    db,        \* db[u]: the role in the users table, "none" if there is no row
    redisSes,  \* the auth:session:* keys
    redisCsrf, \* the auth:csrf:* keys
    memSes,    \* memSes[p]: _sessions of a process without Redis
    memCsrf,   \* memCsrf[p]: its _csrf_tokens
    client,    \* client[p]: whether p has a Redis client; it keeps it for good
    up,        \* up[p]: how far the start of p is
    expired,   \* the sessions whose expires_at is past
    dump,      \* the last RDB file of Redis, and the logins it was written amidst
    req,       \* req[r]: the request, its progress and its local variables
    session,   \* session[s]: what is signed in the token, or that s is unused
    sent,      \* requests with a session so far
    faults,    \* failures and expiries so far
    handed,    \* observer: the sessions whose token a client has received
    revoked,   \* observer: the sessions whose removal was confirmed
    overlap,   \* observer: the sessions stored during a global logout, and those a
               \* restart of Redis brought back amidst their login or removal
    revived,   \* observer: the removed sessions a restart of Redis brought back
    admins     \* observer: the requests whose user was admin while they ran

stores == <<redisSes, redisCsrf, memSes, memCsrf>>
observers == <<handed, revoked, overlap, revived, admins>>
vars == <<db, stores, client, up, expired, dump, req, session, sent, faults,
          observers>>

Places == {"idle", "auth", "admin", "body",        \* every request
           "store", "storeCsrf",                            \* login
           "forget",                                        \* logout
           "keys", "csrfKeys", "sweep", "sweepCsrf",        \* global logout
           "insert", "remove"}                              \* accounts

NotLoggedIn == [user |-> Admin, told |-> "none"]

Idle == [op |-> "login", at |-> "idle", proc |-> NoProc,
         sid |-> NoSid, target |-> Admin, role |-> "operator", cookie |-> TRUE,
         found |-> {}, csrfs |-> {}, unread |-> FALSE]

\* cookie: whether the token came as a cookie, not as "Authorization: Bearer";
\* unread (an observer): whether the check of the role could not read the table.
Request == [op : Operations, at : Places, proc : Procs \cup {NoProc}, sid : Sids \cup {NoSid},
            target : Users, role : Roles, cookie : BOOLEAN, found : SUBSET Sids,
            csrfs : SUBSET Sids, unread : BOOLEAN]

TypeOK ==
    /\ db \in [Users -> Roles \cup {"none"}]
    /\ redisSes \subseteq Sids /\ redisCsrf \subseteq Sids
    /\ memSes \in [Procs -> SUBSET Sids] /\ memCsrf \in [Procs -> SUBSET Sids]
    /\ client \in [Procs -> BOOLEAN]
    /\ up \in [Procs -> {"starting", "bootstrap", "up"}]
    /\ expired \subseteq Sids
    /\ dump \in [ses : SUBSET Sids, csrf : SUBSET Sids, amidst : SUBSET Sids]
    /\ req \in [Requests -> Request]
    /\ session \in [Sids -> [user : Users, told : Roles \cup {"none"}]]
    /\ sent \in 0..MaxSent /\ faults \in 0..MaxFaults
    /\ handed \subseteq Sids /\ revoked \subseteq Sids
    /\ overlap \subseteq Sids /\ revived \subseteq Sids
    /\ admins \subseteq Requests

Init ==
    /\ db = [u \in Users |-> "none"]
    /\ redisSes = {} /\ redisCsrf = {}
    /\ memSes = [p \in Procs |-> {}] /\ memCsrf = [p \in Procs |-> {}]
    /\ client = [p \in Procs |-> FALSE]
    /\ up = [p \in Procs |-> "starting"]
    /\ expired = {}
    /\ dump = [ses |-> {}, csrf |-> {}, amidst |-> {}]
    /\ req = [r \in Requests |-> Idle]
    /\ session = [s \in Sids |-> NotLoggedIn]
    /\ sent = 0 /\ faults = 0
    /\ handed = {} /\ revoked = {} /\ overlap = {} /\ revived = {} /\ admins = {}

-----------------------------------------------------------------------------
(* The run of a request.                                                   *)

\* Places inside a coroutine that holds the event loop of its process.
Running == {"store", "storeCsrf", "forget", "keys", "csrfKeys", "sweep",
            "sweepCsrf", "insert", "remove"}

LoopFree(p) == \A r \in Requests : req[r].proc = p => req[r].at \notin Running

At(r, place) ==
    /\ req[r].at = place
    /\ place \in Running \/ place = "admin" \/ LoopFree(req[r].proc)

Goto(r, place) == req' = [req EXCEPT ![r].at = place]

End(r) == req' = [req EXCEPT ![r] = Idle]

\* The role a session acts with: the one in the table, read at each validation;
\* a name without a row is an operator, or the administrator of the settings.
OfSettings(u) == IF u = Admin THEN "admin" ELSE "operator"
Effective(table, u) == IF table[u] # "none" THEN table[u] ELSE OfSettings(u)

UserOf(r) == session[req[r].sid].user

\* The observer follows who was an administrator while a request ran.
Observe(table) ==
    admins' = {r \in Requests : /\ req'[r].at # "idle" /\ req'[r].sid # NoSid
                                /\ \/ r \in admins /\ req[r].at # "idle"
                                   \/ Effective(table, session[req'[r].sid].user) = "admin"}

SweepRunning ==
    \E r \in Requests : req[r].at \in {"csrfKeys", "sweep", "sweepCsrf"}

-----------------------------------------------------------------------------
(* Start of a process: the table is created and, if it is empty, the       *)
(* administrator of the settings is added (initialize, _bootstrap_admin).  *)

StartCounts(p) ==
    /\ up[p] = "starting"
    /\ up' = [up EXCEPT ![p] = IF \A u \in Users : db[u] = "none"
                               THEN "bootstrap" ELSE "up"]
    /\ UNCHANGED <<db, stores, client, expired, dump, req, session, sent, faults, observers>>

(* Wrong on purpose: the row of the administrator is replaced.             *)
StartReplaces(p) ==
    /\ up[p] = "bootstrap"
    /\ up' = [up EXCEPT ![p] = "up"]
    /\ db' = [db EXCEPT ![Admin] = "admin"]
    /\ UNCHANGED req /\ Observe(db')
    /\ UNCHANGED <<stores, client, expired, dump, session, sent, faults, handed, revoked,
                   overlap, revived>>

\* If another process was faster the insertion fails and is only logged.
StartInserts(p) ==
    /\ up[p] = "bootstrap"
    /\ up' = [up EXCEPT ![p] = "up"]
    /\ db' = IF db[Admin] = "none" THEN [db EXCEPT ![Admin] = "admin"] ELSE db
    /\ UNCHANGED req /\ Observe(db')
    /\ UNCHANGED <<stores, client, expired, dump, session, sent, faults, handed, revoked,
                   overlap, revived>>

\* A process that is restarted loses its requests and its memory.
Restart(p) ==
    /\ up[p] # "starting" /\ faults < MaxFaults /\ faults' = faults + 1
    /\ up' = [up EXCEPT ![p] = "starting"]
    /\ client' = [client EXCEPT ![p] = FALSE]
    /\ memSes' = [memSes EXCEPT ![p] = {}]
    /\ memCsrf' = [memCsrf EXCEPT ![p] = {}]
    /\ req' = [r \in Requests |-> IF req[r].proc = p THEN Idle ELSE req[r]]
    /\ Observe(db)
    /\ UNCHANGED <<db, redisSes, redisCsrf, expired, dump, session, sent, handed, revoked,
                   overlap, revived>>

\* A call that needs Redis connects first; until the ping succeeds, and for
\* five seconds after a failed one, the process works in its own memory.
Connect(p) ==
    /\ up[p] = "up" /\ ~client[p]
    /\ client' = [client EXCEPT ![p] = TRUE]
    /\ UNCHANGED <<db, stores, up, expired, dump, req, session, sent, faults, observers>>

-----------------------------------------------------------------------------
(* Login.                                                                  *)

(* Wrong on purpose: a role that the table does not know.                  *)
GroupRolesUnknown(u) == {"user"} \cup (IF u \in LdapAdmins THEN {"admin"} ELSE {})

\* The directory: the service account must bind, the search must find exactly
\* one entry, the user's bind must succeed; a group that cannot be read counts
\* as one the user is not in (authenticate_ldap).  Any step may fail.
GroupRoles(u) == {DefaultRole} \cup (IF u \in LdapAdmins THEN {"admin"} ELSE {})
                               \cup (IF u \in LdapOperators THEN {"operator"} ELSE {})
LdapAnswers(u) == IF u \in LdapUsers THEN GroupRoles(u) ELSE {}

\* The table first, then the name and password of the settings.
LocalAnswers(u) == ({db[u]} \ {"none"}) \cup (IF u = Clean[Admin] THEN {"admin"} ELSE {})

\* The credentials are those of the name in lower case; the session is for the name
\* as it was typed.
Login(r, p, s, u) ==
    /\ req[r].at = "idle" /\ up[p] = "up" /\ LoopFree(p)
    /\ session[s] = NotLoggedIn
    /\ \E role \in LdapAnswers(Clean[u]) \cup LocalAnswers(Clean[u]) :
         session' = [session EXCEPT ![s] = [user |-> u, told |-> role]]
    /\ req' = [req EXCEPT ![r] = [Idle EXCEPT !.at = "store", !.proc = p, !.sid = s]]
    /\ UNCHANGED <<db, stores, client, up, expired, dump, sent, faults, observers>>

\* Session and CSRF token are two keys, written one after the other.
StoreSession(r) ==
    /\ At(r, "store") /\ client[req[r].proc]
    /\ redisSes' = redisSes \cup {req[r].sid}
    /\ overlap' = IF SweepRunning THEN overlap \cup {req[r].sid} ELSE overlap
    /\ Goto(r, "storeCsrf")
    /\ UNCHANGED <<db, redisCsrf, memSes, memCsrf, client, up, expired, dump, session, sent,
                   faults, handed, revoked, revived, admins>>

StoreCsrf(r) ==
    /\ At(r, "storeCsrf")
    /\ redisCsrf' = redisCsrf \cup {req[r].sid}
    /\ overlap' = IF SweepRunning THEN overlap \cup {req[r].sid} ELSE overlap
    /\ handed' = handed \cup {req[r].sid}
    /\ End(r)
    /\ UNCHANGED <<db, redisSes, memSes, memCsrf, client, up, expired, dump, session, sent,
                   faults, revoked, revived, admins>>

StoreInMemory(r) ==
    LET p == req[r].proc IN
    /\ At(r, "store") /\ ~client[p]
    /\ memSes' = [memSes EXCEPT ![p] = @ \cup {req[r].sid}]
    /\ memCsrf' = [memCsrf EXCEPT ![p] = @ \cup {req[r].sid}]
    /\ handed' = handed \cup {req[r].sid}
    /\ End(r)
    /\ UNCHANGED <<db, redisSes, redisCsrf, client, up, expired, dump, session, sent, faults,
                   revoked, overlap, revived, admins>>

-----------------------------------------------------------------------------
(* A request with a session: middleware and dependencies.                  *)

Sessions(p) == IF client[p] THEN redisSes ELSE memSes[p]
Csrfs(p) == IF client[p] THEN redisCsrf ELSE memCsrf[p]

\* validate_session, up to the role
Valid(r) == /\ req[r].sid \in Sessions(req[r].proc)
            /\ req[r].sid \notin expired

\* csrf_middleware runs first, being registered last; without the token of its
\* cookie the answer is 403 and nothing changes.  A request without a cookie is
\* passed on: its session comes as a Bearer token.
CsrfMiddleware(r, p, s, task) ==
    /\ req[r].at = "idle" /\ up[p] = "up" /\ LoopFree(p)
    /\ sent < MaxSent /\ sent' = sent + 1
    /\ s \in handed /\ (task.cookie => s \in Csrfs(p))
    /\ req' = [req EXCEPT ![r] =
          [Idle EXCEPT !.at = "auth", !.proc = p, !.sid = s, !.op = task.op,
                       !.target = task.target, !.role = task.role,
                       !.cookie = task.cookie]]
    /\ Observe(db)
    /\ UNCHANGED <<db, stores, client, up, expired, dump, session, faults, handed,
                   revoked, overlap, revived>>

(* Wrong on purpose: the token only.                                       *)
DropToken(p, s) ==
    /\ redisCsrf' = IF client[p] THEN redisCsrf \ {s} ELSE redisCsrf
    /\ memCsrf' = IF client[p] THEN memCsrf ELSE [memCsrf EXCEPT ![p] = @ \ {s}]
    /\ UNCHANGED <<redisSes, memSes>>

\* Session first, token second.
DropSession(p, s) ==
    IF client[p]
    THEN /\ redisSes' = redisSes \ {s} /\ redisCsrf' = redisCsrf \ {s}
         /\ UNCHANGED <<memSes, memCsrf>>
    ELSE /\ memSes' = [memSes EXCEPT ![p] = @ \ {s}]
         /\ memCsrf' = [memCsrf EXCEPT ![p] = @ \ {s}]
         /\ UNCHANGED <<redisSes, redisCsrf>>

\* auth_middleware; a session past its expiry is removed, token and all: 401.
AuthMiddleware(r) ==
    /\ At(r, "auth")
    /\ IF Valid(r)
       THEN Goto(r, IF req[r].op \in {"logout", "logoutAll"} THEN "body" ELSE "admin")
       ELSE End(r)
    /\ IF req[r].sid \in expired THEN DropSession(req[r].proc, req[r].sid)
       ELSE UNCHANGED stores
    /\ UNCHANGED <<db, client, up, expired, dump, session, sent, faults, observers>>

\* validate_csrf_dependency, which knows no Bearer tokens: 401 without a cookie.
PassesCsrf(r) == req[r].cookie /\ req[r].sid \in Csrfs(req[r].proc)

(* Wrong on purpose: the role is the one signed at the login.              *)
RequireTold(r) ==
    /\ At(r, "admin")
    /\ IF PassesCsrf(r) /\ Valid(r) /\ session[req[r].sid].told = "admin"
       THEN Goto(r, "body") ELSE End(r)
    /\ UNCHANGED <<db, stores, client, up, expired, dump, session, sent, faults, observers>>

\* The dependencies of an account operation, in a thread: the token, then
\* _require_admin: the session is validated once more and its user must be an
\* administrator now.
RequireAdmin(r) ==
    /\ At(r, "admin")
    /\ IF PassesCsrf(r) /\ Valid(r) /\ Effective(db, UserOf(r)) = "admin"
       THEN Goto(r, "body") ELSE End(r)
    /\ UNCHANGED <<db, stores, client, up, expired, dump, session, sent, faults, observers>>

\* When the table cannot be read (an exception), the administrator of the settings
\* acts as one, whatever the row says.
RequireAdminUnread(r) ==
    /\ At(r, "admin")
    /\ PassesCsrf(r) /\ Valid(r) /\ OfSettings(UserOf(r)) = "admin"
    /\ req' = [req EXCEPT ![r].at = "body", ![r].unread = TRUE]
    /\ UNCHANGED <<db, stores, client, up, expired, dump, session, sent, faults, observers>>

-----------------------------------------------------------------------------
(* Logout, of one session or of all.                                       *)

Body(r, op) == At(r, "body") /\ req[r].op = op

(* Wrong on purpose: the token first.                                      *)
LogoutTokenFirst(r) ==
    /\ Body(r, "logout") /\ client[req[r].proc]
    /\ redisCsrf' = redisCsrf \ {req[r].sid}
    /\ Goto(r, "forget")
    /\ UNCHANGED <<db, redisSes, memSes, memCsrf, client, up, expired, dump, session, sent,
                   faults, observers>>

Logout(r) ==
    /\ Body(r, "logout") /\ client[req[r].proc]
    /\ redisSes' = redisSes \ {req[r].sid}
    /\ revived' = revived \ {req[r].sid}
    /\ Goto(r, "forget")
    /\ UNCHANGED <<db, redisCsrf, memSes, memCsrf, client, up, expired, dump, session, sent,
                   faults, handed, revoked, overlap, admins>>

Forget(r) ==
    /\ At(r, "forget")
    /\ redisCsrf' = redisCsrf \ {req[r].sid}
    /\ revoked' = revoked \cup {req[r].sid}
    /\ End(r)
    /\ UNCHANGED <<db, redisSes, memSes, memCsrf, client, up, expired, dump, session, sent,
                   faults, handed, overlap, revived, admins>>

\* Without Redis the session is removed from this process only.
LogoutInMemory(r) ==
    LET p == req[r].proc IN
    /\ Body(r, "logout") /\ ~client[p]
    /\ revoked' = revoked \cup ({req[r].sid} \cap memSes[p])
    /\ DropSession(p, req[r].sid)
    /\ End(r)
    /\ UNCHANGED <<db, client, up, expired, dump, session, sent, faults, handed, overlap, revived, admins>>

LogoutAll(r) ==
    /\ Body(r, "logoutAll")
    /\ IF Valid(r) THEN Goto(r, "keys") ELSE End(r)
    /\ UNCHANGED <<db, stores, client, up, expired, dump, session, sent, faults, observers>>

\* destroy_all_sessions: the two lists of keys, then the two removals.
Keys(r) ==
    /\ At(r, "keys") /\ client[req[r].proc]
    /\ req' = [req EXCEPT ![r].at = "csrfKeys", ![r].found = redisSes]
    /\ UNCHANGED <<db, stores, client, up, expired, dump, session, sent, faults, observers>>

CsrfKeys(r) ==
    /\ At(r, "csrfKeys")
    /\ req' = [req EXCEPT ![r].at = "sweep", ![r].csrfs = redisCsrf]
    /\ UNCHANGED <<db, stores, client, up, expired, dump, session, sent, faults, observers>>

Sweep(r) ==
    /\ At(r, "sweep")
    /\ redisSes' = redisSes \ req[r].found
    /\ revived' = revived \ req[r].found
    /\ Goto(r, "sweepCsrf")
    /\ UNCHANGED <<db, redisCsrf, memSes, memCsrf, client, up, expired, dump, session, sent,
                   faults, handed, revoked, overlap, admins>>

SweepCsrf(r) ==
    /\ At(r, "sweepCsrf")
    /\ redisCsrf' = redisCsrf \ req[r].csrfs
    /\ revoked' = revoked \cup req[r].found
    /\ End(r)
    /\ UNCHANGED <<db, redisSes, memSes, memCsrf, client, up, expired, dump, session, sent,
                   faults, handed, overlap, revived, admins>>

ClearMemory(r) ==
    LET p == req[r].proc IN
    /\ At(r, "keys") /\ ~client[p]
    /\ memSes' = [memSes EXCEPT ![p] = {}] /\ memCsrf' = [memCsrf EXCEPT ![p] = {}]
    /\ revoked' = revoked \cup memSes[p]
    /\ End(r)
    /\ UNCHANGED <<db, redisSes, redisCsrf, client, up, expired, dump, session, sent, faults,
                   handed, overlap, revived, admins>>

-----------------------------------------------------------------------------
(* Accounts.                                                               *)

\* create_user looks first and inserts afterwards, in a transaction of its own;
\* a row another process added in between fails the insertion.
Create(r) ==
    /\ Body(r, "create")
    /\ IF db[Clean[req[r].target]] = "none" THEN Goto(r, "insert") ELSE End(r)
    /\ UNCHANGED <<db, stores, client, up, expired, dump, session, sent, faults, observers>>

Insert(r) ==
    /\ At(r, "insert")
    /\ db' = [db EXCEPT ![Clean[req[r].target]] = IF @ = "none" THEN req[r].role ELSE @]
    /\ End(r) /\ Observe(db')
    /\ UNCHANGED <<stores, client, up, expired, dump, session, sent, faults, handed, revoked,
                   overlap, revived>>

\* update_user_role: nothing keeps the last administrator from being demoted.
UpdateRole(r) ==
    /\ Body(r, "role")
    /\ db' = [db EXCEPT ![req[r].target] = IF @ = "none" THEN @ ELSE req[r].role]
    /\ End(r) /\ Observe(db')
    /\ UNCHANGED <<stores, client, up, expired, dump, session, sent, faults, handed, revoked,
                   overlap, revived>>

\* The route validates once more, and may not read the table this time; an
\* administrator who changed the password of somebody else ends all sessions.
UpdatePassword(r) ==
    LET u == UserOf(r) IN
    /\ Body(r, "password")
    /\ \E role \in {Effective(db, u), OfSettings(u)} :
          IF Valid(r) /\ db[req[r].target] # "none" /\ role = "admin" /\ u # req[r].target
          THEN Goto(r, "keys") ELSE End(r)
    /\ UNCHANGED <<db, stores, client, up, expired, dump, session, sent, faults, observers>>

\* delete_user: the role and the number of administrators are read before the
\* transaction of the deletion begins.
Delete(r) ==
    /\ Body(r, "delete")
    /\ IF \/ db[req[r].target] = "operator"
          \/ /\ db[req[r].target] = "admin"
             /\ Cardinality({u \in Users : db[u] = "admin"}) > 1
       THEN Goto(r, "remove") ELSE End(r)
    /\ UNCHANGED <<db, stores, client, up, expired, dump, session, sent, faults, observers>>

Remove(r) ==
    /\ At(r, "remove")
    /\ db' = [db EXCEPT ![req[r].target] = "none"]
    /\ End(r) /\ Observe(db')
    /\ UNCHANGED <<stores, client, up, expired, dump, session, sent, faults, handed, revoked,
                   overlap, revived>>

-----------------------------------------------------------------------------
(* Time and failures.                                                      *)

Expire(s) ==
    /\ s \in handed \ expired /\ faults < MaxFaults /\ faults' = faults + 1
    /\ expired' = expired \cup {s}
    /\ UNCHANGED <<db, stores, client, up, dump, req, session, sent, observers>>

\* The token's key was written last, with the same time to live.
RedisExpires(s) ==
    /\ s \in expired
    /\ \/ s \in redisSes /\ redisSes' = redisSes \ {s} /\ UNCHANGED redisCsrf
       \/ /\ s \in redisCsrf \ redisSes
          /\ redisCsrf' = redisCsrf \ {s} /\ UNCHANGED redisSes
    /\ UNCHANGED <<db, memSes, memCsrf, client, up, expired, dump, req, session, sent, faults,
                   observers>>

\* Redis writes an RDB file now and then: docker-compose.yml calls the sessions
\* volatile (28-36) but leaves the default save points on and gives them a volume.
RedisDumps ==
    /\ faults < MaxFaults /\ faults' = faults + 1
    /\ dump' = [ses    |-> redisSes,
                csrf   |-> redisCsrf,
                amidst |-> {req[r].sid : r \in {q \in Requests : req[q].at = "storeCsrf"}}]
    /\ UNCHANGED <<db, stores, client, up, expired, req, session, sent,
                   observers>>

\* A restarted Redis has the sessions and tokens of its last dump.  The observers
\* note the sessions that come back, and those it finds amidst their login or
\* their removal.
RedisRestarts ==
    /\ redisSes' = dump.ses /\ redisCsrf' = dump.csrf
    /\ revived' = (revived \cup (dump.ses \ redisSes)) \cap dump.ses
    /\ overlap' = overlap \cup dump.amidst
                     \cup {req[r].sid : r \in {q \in Requests : req[q].at = "forget"}}
                     \cup (IF SweepRunning THEN dump.ses ELSE {})
    /\ UNCHANGED <<db, memSes, memCsrf, client, up, expired, dump, req, session, sent, faults,
                   handed, revoked, admins>>

\* A Redis call of a request raises, executed or not: a login answers 500, a
\* validation 401; a logout answers as if it had worked.
RedisFails(r) ==
    /\ req[r].at \in {"auth", "admin", "store", "storeCsrf", "forget",
                      "keys", "csrfKeys", "sweep", "sweepCsrf"}
       \/ Body(r, "logout")
    /\ client[req[r].proc] /\ faults < MaxFaults /\ faults' = faults + 1
    /\ \/ UNCHANGED <<redisSes, redisCsrf>>
       \/ /\ req[r].at = "store" /\ redisSes' = redisSes \cup {req[r].sid}
          /\ UNCHANGED redisCsrf
       \/ /\ req[r].at = "storeCsrf" /\ redisCsrf' = redisCsrf \cup {req[r].sid}
          /\ UNCHANGED redisSes
       \/ /\ req[r].at = "body" /\ redisSes' = redisSes \ {req[r].sid}
          /\ UNCHANGED redisCsrf
       \/ /\ req[r].at = "sweep" /\ redisSes' = redisSes \ req[r].found
          /\ UNCHANGED redisCsrf
    /\ End(r)
    /\ UNCHANGED <<db, memSes, memCsrf, client, up, expired, dump, session, sent, observers>>

Next ==
    \/ \E p \in Procs :
         StartCounts(p) \/ StartInserts(p) \/ Restart(p) \/ Connect(p)
    \/ \E r \in Requests, p \in Procs, s \in Sids, u \in Users :
         Login(r, p, s, u)
    \/ \E r \in Requests, p \in Procs, s \in Sids, task \in Tasks :
         CsrfMiddleware(r, p, s, task)
    \/ \E r \in Requests :
         \/ StoreSession(r) \/ StoreCsrf(r) \/ StoreInMemory(r)
         \/ AuthMiddleware(r) \/ RequireAdmin(r) \/ RequireAdminUnread(r)
         \/ Logout(r) \/ Forget(r) \/ LogoutInMemory(r)
         \/ LogoutAll(r) \/ Keys(r) \/ CsrfKeys(r) \/ Sweep(r) \/ SweepCsrf(r)
         \/ ClearMemory(r)
         \/ Create(r) \/ Insert(r) \/ UpdateRole(r) \/ UpdatePassword(r)
         \/ Delete(r) \/ Remove(r) \/ RedisFails(r)
    \/ \E s \in Sids : Expire(s) \/ RedisExpires(s)
    \/ RedisDumps \/ RedisRestarts

Spec == Init /\ [][Next]_vars

-----------------------------------------------------------------------------
(* Properties.                                                             *)

\* Once a logout, of one session or of all, has removed a session, no process
\* accepts it again, although logins write their two keys while keys are listed
\* and removed elsewhere (destroy_session, destroy_all_sessions).  Only a restart of
\* Redis from a dump that is older than the removal brings a session back, until it
\* is removed once more.
RevokedStaysOut ==
    \A s \in revoked \ revived, p \in Procs : s \notin Sessions(p)

\* A session in Redis whose login was answered has its CSRF token, without which
\* it could neither change anything nor log out: both keys are written before
\* the answer, and every removal takes the session first.  The exceptions are a
\* login whose keys are written while another process lists and removes the
\* keys of all sessions, and a restart of Redis from a dump written between the
\* two keys of a login, or in the middle of a removal.
SessionHasCsrf == (handed \cap redisSes) \ overlap \subseteq redisCsrf

\* What an account operation does, it does for a user who was an administrator
\* at some moment of the request, whatever role the login had told and although
\* roles change between the middleware, the dependency and the body.  The one
\* exception is the administrator of the settings, whose row may say otherwise
\* when the check of the role cannot read the table.
AuthorisedDuring ==
    \A r \in Requests :
        /\ req[r].op \in Accounts
        /\ req[r].at \notin {"auth", "admin"}
        => r \in admins \/ (req[r].unread /\ UserOf(r) = Admin)

\* The role of an existing account changes only by a role change or a deletion
\* that names it: neither a second creation of the name, nor the bootstrap of a
\* process that starts beside others or after a restart, replaces a row.
AccountsKept ==
    [][\A u \in Users : db[u] # "none" /\ db'[u] # db[u] =>
          \E r \in Requests : /\ req[r].target = u
                              /\ req[r].op \in {"role", "delete"}
                              /\ req[r].at \in {"body", "remove"}]_vars

=============================================================================
