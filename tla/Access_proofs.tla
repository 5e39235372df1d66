---------------------------- MODULE Access_proofs ----------------------------
(* Sessions and accounts for any number of processes, requests, users and     *)
(* sessions, and any failures.                                                *)
EXTENDS Access, TLAPS

-----------------------------------------------------------------------------
(* Every reachable state is well typed. *)

\* A request in progress has a process and a session.
InProgress == \A r \in Requests : req[r].at # "idle" => req[r].proc \in Procs /\ req[r].sid \in Sids

TypeInv == TypeOK /\ InProgress

LEMMA IdleTyped == Idle \in Request /\ Idle.at = "idle" /\ NotLoggedIn.user \in Users
BY NamesAssumption DEF Idle, Request, Operations, Places, Roles, NotLoggedIn

LEMMA TypeInit == Init => TypeInv
<1> SUFFICES ASSUME Init PROVE TypeInv
  OBVIOUS
<1>1. req \in [Requests -> Request] /\ InProgress
  BY IdleTyped DEF Init, InProgress
<1>2. session \in [Sids -> [user : Users, told : Roles \cup {"none"}]]
  BY NamesAssumption DEF Init, NotLoggedIn
<1>3. sent \in 0..MaxSent /\ faults \in 0..MaxFaults
  BY NamesAssumption DEF Init
<1> QED
  BY <1>1, <1>2, <1>3 DEF Init, TypeInv, TypeOK

\* What a request becomes: it moves on, ends, or begins.
LEMMA GotoTyped ==
    ASSUME TypeInv, NEW r \in Requests, req[r].at # "idle", NEW place \in Places, Goto(r, place)
    PROVE  req' \in [Requests -> Request] /\ InProgress'
<1>1. req[r] \in Request /\ req \in [Requests -> Request]
  BY DEF TypeInv, TypeOK
<1>2. [req[r] EXCEPT !.at = place] \in Request
  BY <1>1 DEF Request
<1>3. req' = [req EXCEPT ![r] = [req[r] EXCEPT !.at = place]]
  BY Zenon DEF Goto
<1> QED
  BY <1>1, <1>2, <1>3 DEF TypeInv, InProgress, Request

LEMMA EndTyped ==
    ASSUME TypeInv, NEW r \in Requests, End(r)
    PROVE  req' \in [Requests -> Request] /\ InProgress'
BY IdleTyped DEF TypeInv, TypeOK, InProgress, End

LEMMA ObserveTyped == ASSUME NEW t, Observe(t) PROVE admins' \subseteq Requests
BY DEF Observe

LEMMA DropTyped ==
    ASSUME TypeOK, NEW p \in Procs, NEW s, DropSession(p, s)
    PROVE  /\ redisSes' \subseteq redisSes /\ redisCsrf' \subseteq redisCsrf
           /\ memSes' \in [Procs -> SUBSET Sids] /\ memCsrf' \in [Procs -> SUBSET Sids]
           /\ \A q \in Procs : memSes'[q] \subseteq memSes[q] /\ memCsrf'[q] \subseteq memCsrf[q]
BY DEF TypeOK, DropSession

LEMMA AnswersTyped ==
    ASSUME TypeOK, NEW u \in Users PROVE LdapAnswers(u) \cup LocalAnswers(u) \subseteq Roles
BY NamesAssumption DEF TypeOK, LdapAnswers, GroupRoles, LocalAnswers, Roles

LEMMA LoginAnswers ==
    ASSUME TypeOK, NEW r, NEW p, NEW s, NEW u \in Users, Login(r, p, s, u)
    PROVE  \E role \in Roles : session' = [session EXCEPT ![s] = [user |-> u, told |-> role]]
<1>1. Clean[u] \in Users
  BY NamesAssumption
<1> QED
  BY <1>1, AnswersTyped DEF Login

\* The steps of one request that is in progress.
RequestStep(r) ==
    \/ StoreSession(r) \/ StoreCsrf(r) \/ StoreInMemory(r)
    \/ AuthMiddleware(r) \/ RequireAdmin(r) \/ RequireAdminUnread(r)
    \/ Logout(r) \/ Forget(r) \/ LogoutInMemory(r)
    \/ LogoutAll(r) \/ Keys(r) \/ CsrfKeys(r) \/ Sweep(r) \/ SweepCsrf(r) \/ ClearMemory(r)
    \/ Create(r) \/ Insert(r) \/ UpdateRole(r) \/ UpdatePassword(r) \/ Delete(r) \/ Remove(r)
    \/ RedisFails(r)

LEMMA StepInProgress ==
    ASSUME TypeInv, NEW r \in Requests, RequestStep(r)
    PROVE  req[r].at # "idle" /\ req[r].proc \in Procs /\ req[r].sid \in Sids
<1>1. req[r].at # "idle"
  BY DEF RequestStep, StoreSession, StoreCsrf, StoreInMemory, AuthMiddleware, RequireAdmin, RequireAdminUnread,
     Logout, Forget, LogoutInMemory, LogoutAll, Keys, CsrfKeys, Sweep, SweepCsrf, ClearMemory,
     Create, Insert, UpdateRole, UpdatePassword, Delete, Remove, RedisFails, At, Body
<1> QED
  BY <1>1 DEF TypeInv, InProgress

LEMMA StepRequests ==
    ASSUME TypeInv, NEW r \in Requests, RequestStep(r)
    PROVE  req' \in [Requests -> Request] /\ InProgress'
<1>0. req[r].at # "idle"
  BY StepInProgress
<1>1. CASE \E place \in Places : Goto(r, place)
  BY <1>0, <1>1, GotoTyped
<1>2. CASE End(r)
  BY <1>2, EndTyped
<1>3. CASE Keys(r)
  <2>1. req' = [req EXCEPT ![r] = [req[r] EXCEPT !.at = "csrfKeys", !.found = redisSes]]
    BY <1>3, Zenon DEF Keys
  <2>2. req[r] \in Request /\ redisSes \in SUBSET Sids /\ "csrfKeys" \in Places
    BY DEF TypeInv, TypeOK, Places
  <2>3. [req[r] EXCEPT !.at = "csrfKeys", !.found = redisSes] \in Request
    BY <2>2 DEF Request
  <2> QED
    BY <1>0, <2>1, <2>2, <2>3 DEF TypeInv, TypeOK, InProgress, Request
<1>4. CASE CsrfKeys(r)
  <2>1. req' = [req EXCEPT ![r] = [req[r] EXCEPT !.at = "sweep", !.csrfs = redisCsrf]]
    BY <1>4, Zenon DEF CsrfKeys
  <2>2. req[r] \in Request /\ redisCsrf \in SUBSET Sids /\ "sweep" \in Places
    BY DEF TypeInv, TypeOK, Places
  <2>3. [req[r] EXCEPT !.at = "sweep", !.csrfs = redisCsrf] \in Request
    BY <2>2 DEF Request
  <2> QED
    BY <1>0, <2>1, <2>2, <2>3 DEF TypeInv, TypeOK, InProgress, Request
<1>5. {"storeCsrf", "body", "admin", "forget", "keys", "sweepCsrf", "insert", "remove"} \subseteq Places
  BY DEF Places
<1>6. CASE RequireAdminUnread(r)
  <2>1. req' = [req EXCEPT ![r] = [req[r] EXCEPT !.at = "body", !.unread = TRUE]]
    BY <1>6, Zenon DEF RequireAdminUnread
  <2>2. req[r] \in Request /\ "body" \in Places
    BY DEF TypeInv, TypeOK, Places
  <2>3. [req[r] EXCEPT !.at = "body", !.unread = TRUE] \in Request
    BY <2>2 DEF Request
  <2> QED
    BY <1>0, <2>1, <2>2, <2>3 DEF TypeInv, TypeOK, InProgress, Request
<1> QED
  BY <1>1, <1>2, <1>3, <1>4, <1>5, <1>6 DEF RequestStep, StoreSession, StoreCsrf, StoreInMemory,
     AuthMiddleware, RequireAdmin, RequireAdminUnread, Logout, Forget, LogoutInMemory, LogoutAll, Sweep, SweepCsrf,
     ClearMemory, Create, Insert, UpdateRole, UpdatePassword, Delete, Remove, RedisFails

\* The variables a step of a request may leave alone.
StoresType ==
    /\ redisSes \subseteq Sids /\ redisCsrf \subseteq Sids
    /\ memSes \in [Procs -> SUBSET Sids] /\ memCsrf \in [Procs -> SUBSET Sids]

ObserversType ==
    /\ handed \subseteq Sids /\ revoked \subseteq Sids /\ overlap \subseteq Sids
    /\ revived \subseteq Sids /\ admins \subseteq Requests

LEMMA StepStores ==
    ASSUME TypeInv, NEW r \in Requests, RequestStep(r)
    PROVE  StoresType'
<1> USE DEF TypeInv, TypeOK, StoresType
<1>0. req[r].proc \in Procs /\ req[r].sid \in Sids
  BY StepInProgress
<1>1. CASE StoreSession(r) \/ StoreCsrf(r) \/ StoreInMemory(r)
  <2>1. CASE StoreSession(r) \/ StoreCsrf(r)
    BY <1>0, <2>1 DEF StoreSession, StoreCsrf
  <2>2. CASE StoreInMemory(r)
    BY <1>0, <2>2 DEF StoreInMemory
  <2> QED
    BY <1>1, <2>1, <2>2
<1>2. CASE AuthMiddleware(r) \/ LogoutInMemory(r)
  BY <1>0, <1>2, DropTyped DEF AuthMiddleware, LogoutInMemory, stores
<1>3. CASE Logout(r) \/ Forget(r) \/ Sweep(r) \/ SweepCsrf(r) \/ ClearMemory(r)
  BY <1>0, <1>3 DEF Logout, Forget, Sweep, SweepCsrf, ClearMemory
<1>4. CASE RequireAdmin(r) \/ RequireAdminUnread(r) \/ LogoutAll(r) \/ Keys(r) \/ CsrfKeys(r) \/ Create(r) \/ Insert(r)
           \/ UpdateRole(r) \/ UpdatePassword(r) \/ Delete(r) \/ Remove(r)
  BY <1>4 DEF RequireAdmin, RequireAdminUnread, LogoutAll, Keys, CsrfKeys, Create, Insert, UpdateRole,
     UpdatePassword, Delete, Remove, stores
<1>5. CASE RedisFails(r)
  BY <1>0, <1>5 DEF RedisFails
<1> QED
  BY <1>1, <1>2, <1>3, <1>4, <1>5 DEF RequestStep

LEMMA StepObservers ==
    ASSUME TypeInv, NEW r \in Requests, RequestStep(r)
    PROVE  ObserversType'
<1> USE DEF TypeInv, TypeOK, ObserversType
<1>0. req[r].proc \in Procs /\ req[r].sid \in Sids /\ req[r].found \subseteq Sids
  BY StepInProgress DEF Request
<1>1. CASE StoreSession(r) \/ StoreCsrf(r) \/ StoreInMemory(r)
  BY <1>0, <1>1 DEF StoreSession, StoreCsrf, StoreInMemory
<1>2. CASE Logout(r) \/ Forget(r) \/ LogoutInMemory(r) \/ Sweep(r) \/ SweepCsrf(r) \/ ClearMemory(r)
  BY <1>0, <1>2 DEF Logout, Forget, LogoutInMemory, Sweep, SweepCsrf, ClearMemory
<1>3. CASE Insert(r) \/ UpdateRole(r) \/ Remove(r)
  BY <1>3, ObserveTyped DEF Insert, UpdateRole, Remove
<1>4. CASE AuthMiddleware(r) \/ RequireAdmin(r) \/ RequireAdminUnread(r) \/ LogoutAll(r) \/ Keys(r)
           \/ CsrfKeys(r) \/ Create(r) \/ UpdatePassword(r) \/ Delete(r) \/ RedisFails(r)
  BY <1>4 DEF AuthMiddleware, RequireAdmin, RequireAdminUnread, LogoutAll, Keys, CsrfKeys, Create,
     UpdatePassword, Delete, RedisFails, observers
<1> QED
  BY <1>1, <1>2, <1>3, <1>4 DEF RequestStep

LEMMA StepRest ==
    ASSUME TypeInv, NEW r \in Requests, RequestStep(r)
    PROVE  /\ db' \in [Users -> Roles \cup {"none"}] /\ faults' \in 0..MaxFaults
           /\ UNCHANGED <<client, up, expired, dump, session, sent>>
<1> USE DEF TypeInv, TypeOK
<1>0. req[r].target \in Users /\ req[r].role \in Roles /\ Clean[req[r].target] \in Users
  BY NamesAssumption DEF Request
<1>1. CASE Insert(r) \/ UpdateRole(r) \/ Remove(r)
  BY <1>0, <1>1 DEF Insert, UpdateRole, Remove
<1>2. CASE RedisFails(r)
  BY <1>2, NamesAssumption DEF RedisFails
<1>3. CASE StoreSession(r) \/ StoreCsrf(r) \/ StoreInMemory(r) \/ AuthMiddleware(r)
           \/ RequireAdmin(r) \/ RequireAdminUnread(r) \/ Logout(r) \/ Forget(r) \/ LogoutInMemory(r) \/ LogoutAll(r)
           \/ Keys(r) \/ CsrfKeys(r) \/ Sweep(r) \/ SweepCsrf(r) \/ ClearMemory(r) \/ Create(r)
           \/ UpdatePassword(r) \/ Delete(r)
  BY <1>3 DEF StoreSession, StoreCsrf, StoreInMemory, AuthMiddleware, RequireAdmin, RequireAdminUnread, Logout,
     Forget, LogoutInMemory, LogoutAll, Keys, CsrfKeys, Sweep, SweepCsrf, ClearMemory, Create,
     UpdatePassword, Delete
<1> QED
  BY <1>1, <1>2, <1>3 DEF RequestStep

LEMMA NextSplits ==
    Next => \/ \E p \in Procs : StartCounts(p) \/ StartInserts(p) \/ Restart(p) \/ Connect(p)
            \/ \E r \in Requests, p \in Procs, s \in Sids, u \in Users : Login(r, p, s, u)
            \/ \E r \in Requests, p \in Procs, s \in Sids, task \in Tasks :
                  CsrfMiddleware(r, p, s, task)
            \/ \E r \in Requests : RequestStep(r)
            \/ \E s \in Sids : Expire(s) \/ RedisExpires(s)
            \/ RedisDumps \/ RedisRestarts
BY DEF Next, RequestStep

LEMMA LoginTyped ==
    ASSUME TypeInv, NEW r \in Requests, NEW p \in Procs, NEW s \in Sids, NEW u \in Users,
           Login(r, p, s, u)
    PROVE  TypeInv'
<1> DEFINE begun == [Idle EXCEPT !.at = "store", !.proc = p, !.sid = s]
<1>1. begun \in Request /\ begun.proc = p /\ begun.sid = s
  BY IdleTyped DEF Idle, Request, Places
<1>2. req' = [req EXCEPT ![r] = begun]
  BY DEF Login
<1>3. req' \in [Requests -> Request] /\ InProgress'
  <2> HIDE DEF begun
  <2> QED
    BY <1>1, <1>2 DEF TypeInv, TypeOK, InProgress
<1>4. PICK role \in Roles : session' = [session EXCEPT ![s] = [user |-> u, told |-> role]]
  BY LoginAnswers DEF TypeInv
<1>5. session' \in [Sids -> [user : Users, told : Roles \cup {"none"}]]
  BY <1>4 DEF TypeInv, TypeOK
<1> QED
  BY <1>3, <1>5 DEF Login, stores, observers, TypeInv, TypeOK

LEMMA MiddlewareTyped ==
    ASSUME TypeInv, NEW r \in Requests, NEW p \in Procs, NEW s \in Sids, NEW task \in Tasks,
           CsrfMiddleware(r, p, s, task)
    PROVE  TypeInv'
<1> DEFINE begun == [Idle EXCEPT !.at = "auth", !.proc = p, !.sid = s, !.op = task.op,
                                 !.target = task.target, !.role = task.role,
                                 !.cookie = task.cookie]
<1>0. task.op \in Operations /\ task.target \in Users /\ task.role \in Roles /\ task.cookie \in BOOLEAN
  BY NamesAssumption
<1>1. begun \in Request /\ begun.proc = p /\ begun.sid = s
  BY <1>0, IdleTyped DEF Idle, Request, Places
<1>2. req' = [req EXCEPT ![r] = begun]
  BY DEF CsrfMiddleware
<1>3. req' \in [Requests -> Request] /\ InProgress'
  <2> HIDE DEF begun
  <2> QED
    BY <1>1, <1>2 DEF TypeInv, TypeOK, InProgress
<1>4. sent' \in 0..MaxSent
  BY NamesAssumption DEF CsrfMiddleware, TypeInv, TypeOK
<1> QED
  BY <1>3, <1>4, ObserveTyped DEF CsrfMiddleware, stores, TypeInv, TypeOK

LEMMA RestartTyped ==
    ASSUME TypeInv, NEW p \in Procs, Restart(p)
    PROVE  TypeInv'
<1>1. req' \in [Requests -> Request] /\ InProgress'
  BY IdleTyped DEF Restart, TypeInv, TypeOK, InProgress
<1>2. faults' \in 0..MaxFaults
  BY NamesAssumption DEF Restart, TypeInv, TypeOK
<1> QED
  BY <1>1, <1>2, ObserveTyped DEF Restart, TypeInv, TypeOK

LEMMA TypeNext == TypeInv /\ [Next]_vars => TypeInv'
<1> SUFFICES ASSUME TypeInv, [Next]_vars PROVE TypeInv'
  OBVIOUS
<1>1. ASSUME NEW p \in Procs, StartCounts(p) \/ StartInserts(p) \/ Connect(p) PROVE TypeInv'
  <2>1. UNCHANGED <<req, stores, expired, dump, session, sent, faults, handed, revoked, overlap,
                    revived>>
    BY <1>1 DEF StartCounts, StartInserts, Connect, observers
  <2>2. admins' \subseteq Requests
    BY <1>1, ObserveTyped DEF StartCounts, StartInserts, Connect, observers, TypeInv, TypeOK
  <2>3. db' \in [Users -> Roles \cup {"none"}] /\ client' \in [Procs -> BOOLEAN]
        /\ up' \in [Procs -> {"starting", "bootstrap", "up"}]
    BY <1>1, NamesAssumption DEF StartCounts, StartInserts, Connect, TypeInv, TypeOK, Roles
  <2> QED
    BY <2>1, <2>2, <2>3 DEF TypeInv, TypeOK, InProgress, stores
<1>2. ASSUME NEW r \in Requests, RequestStep(r) PROVE TypeInv'
  BY <1>2, StepRequests, StepStores, StepObservers, StepRest
     DEF TypeInv, TypeOK, StoresType, ObserversType
<1>3. ASSUME NEW s \in Sids, Expire(s) \/ RedisExpires(s) PROVE TypeInv'
  BY <1>3, NamesAssumption DEF Expire, RedisExpires, TypeInv, TypeOK, InProgress, stores, observers
<1>4. CASE RedisDumps \/ RedisRestarts
  <2>1. \A q \in Requests : req[q].at # "idle" => req[q].sid \in Sids
    BY DEF TypeInv, InProgress
  <2>2. CASE RedisDumps
    BY <2>1, <2>2, NamesAssumption DEF RedisDumps, TypeInv, TypeOK, InProgress, stores, observers
  <2>3. CASE RedisRestarts
    BY <2>1, <2>3, NamesAssumption DEF RedisRestarts, TypeInv, TypeOK, InProgress
  <2> QED
    BY <1>4, <2>2, <2>3
<1>5. CASE UNCHANGED vars
  BY <1>5 DEF vars, TypeInv, TypeOK, InProgress, stores, observers
<1> QED
  BY <1>1, <1>2, <1>3, <1>4, <1>5, NextSplits, LoginTyped, MiddlewareTyped, RestartTyped

\* For any processes, requests, users and sessions every reachable state of the
\* stores, the accounts and the requests is well typed: a login never tells a role
\* the table does not know (auth.py, user_manager.py, ldap_auth.py).
THEOREM AccessTypeCorrect == Spec => []TypeOK
BY TypeInit, TypeNext, PTL DEF Spec, TypeInv

-----------------------------------------------------------------------------
(* Accounts: a row changes only by a request that names it. *)

\* A deletion is the only operation that comes to the removal of a row.
Removes == \A r \in Requests : req[r].at = "remove" => req[r].op = "delete"

LEMMA RemovesNext == TypeInv /\ Removes /\ [Next]_vars => Removes'
<1> SUFFICES ASSUME TypeInv, Removes, [Next]_vars PROVE Removes'
  OBVIOUS
<1> USE DEF Removes, TypeInv, TypeOK
<1>1. ASSUME NEW r \in Requests, RequestStep(r) PROVE Removes'
  <2>1. \A q \in Requests \ {r} : req'[q] = req[q]
    BY <1>1 DEF RequestStep, StoreSession, StoreCsrf, StoreInMemory, AuthMiddleware,
       RequireAdmin, RequireAdminUnread, Logout, Forget, LogoutInMemory, LogoutAll, Keys, CsrfKeys, Sweep,
       SweepCsrf, ClearMemory, Create, Insert, UpdateRole, UpdatePassword, Delete, Remove,
       RedisFails, Goto, End
  <2>2. CASE Delete(r)
    BY <2>1, <2>2 DEF Delete, Body, Goto, End, Idle, Request
  <2>3. CASE End(r)
    BY <2>1, <2>3 DEF End, Idle
  <2>4. ASSUME NEW place \in Places \ {"remove"}, Goto(r, place) PROVE Removes'
    BY <2>1, <2>4 DEF Goto, Request
  <2>5. CASE Keys(r) \/ CsrfKeys(r)
    BY <2>1, <2>5 DEF Keys, CsrfKeys, Request
  <2>6. {"storeCsrf", "body", "admin", "forget", "keys", "sweepCsrf", "insert"}
           \subseteq Places \ {"remove"}
    BY DEF Places
  <2>7. CASE RequireAdminUnread(r)
    BY <2>1, <2>7 DEF RequireAdminUnread, Request
  <2> QED
    BY <1>1, <2>2, <2>3, <2>4, <2>5, <2>6, <2>7 DEF RequestStep, StoreSession, StoreCsrf,
       StoreInMemory, AuthMiddleware, RequireAdmin, RequireAdminUnread, Logout, Forget, LogoutInMemory, LogoutAll,
       Sweep, SweepCsrf, ClearMemory, Create, Insert, UpdateRole, UpdatePassword, Remove,
       RedisFails
<1>2. ASSUME NEW r \in Requests, NEW p \in Procs, NEW s \in Sids, NEW u \in Users,
             Login(r, p, s, u)
      PROVE  Removes'
  BY <1>2 DEF Login, Idle
<1>3. ASSUME NEW r \in Requests, NEW p \in Procs, NEW s \in Sids, NEW task \in Tasks,
             CsrfMiddleware(r, p, s, task)
      PROVE  Removes'
  BY <1>3 DEF CsrfMiddleware, Idle
<1>4. ASSUME NEW p \in Procs, Restart(p) PROVE Removes'
  BY <1>4 DEF Restart, Idle
<1>5. CASE UNCHANGED req
  BY <1>5
<1> QED
  BY <1>1, <1>2, <1>3, <1>4, <1>5, NextSplits DEF StartCounts, StartInserts, Connect, Expire,
     RedisExpires, RedisDumps, RedisRestarts, vars

\* For any processes, users and requests an account's role changes only by a role
\* change or a deletion that names it (user_manager.py).
THEOREM AccountsAreKept == Spec => AccountsKept
<1> DEFINE Kept == \A u \in Users : db[u] # "none" /\ db'[u] # db[u] =>
              \E r \in Requests : /\ req[r].target = u
                                  /\ req[r].op \in {"role", "delete"}
                                  /\ req[r].at \in {"body", "remove"}
<1>1. TypeInv /\ Removes /\ [Next]_vars => [Kept]_vars
  <2> SUFFICES ASSUME TypeInv, Removes, [Next]_vars PROVE [Kept]_vars
    OBVIOUS
  <2> USE DEF TypeInv, TypeOK
  <2>1. ASSUME NEW p \in Procs, StartInserts(p) PROVE Kept
    BY <2>1, NamesAssumption DEF StartInserts
  <2>2. ASSUME NEW r \in Requests, Insert(r) PROVE Kept
    BY <2>2, NamesAssumption DEF Insert, Request
  <2>3. ASSUME NEW r \in Requests, UpdateRole(r) PROVE Kept
    BY <2>3 DEF UpdateRole, Body, At
  <2>4. ASSUME NEW r \in Requests, Remove(r) PROVE Kept
    BY <2>4 DEF Remove, Removes, At
  <2>5. CASE UNCHANGED db
    BY <2>5
  <2> QED
    BY <2>1, <2>2, <2>3, <2>4, <2>5 DEF Next, vars, StartCounts, Restart, Connect, Login,
       CsrfMiddleware, StoreSession, StoreCsrf, StoreInMemory, AuthMiddleware, RequireAdmin, RequireAdminUnread,
       Logout, Forget, LogoutInMemory, LogoutAll, Keys, CsrfKeys, Sweep, SweepCsrf,
       ClearMemory, Create, UpdatePassword, Delete, RedisFails, Expire, RedisExpires,
       RedisDumps, RedisRestarts
<1>2. Spec => [](TypeInv /\ Removes)
  <2>1. Init => Removes
    BY DEF Init, Removes, Idle
  <2> QED
    BY <2>1, TypeInit, TypeNext, RemovesNext, PTL DEF Spec
<1> QED
  BY <1>1, <1>2, PTL DEF Spec, AccountsKept

-----------------------------------------------------------------------------
(* Where a session can be: the inductive invariant. *)

\* A session that is not stored yet.
Unseen(s) ==
    /\ s \notin redisSes /\ s \notin redisCsrf /\ s \notin handed /\ s \notin revoked
    /\ s \notin dump.ses /\ s \notin dump.csrf
    /\ \A p \in Procs : s \notin memSes[p]
    /\ \A q \in Requests : s \notin req[q].found

\* Sessions are stored once, by the login that created them.
Created ==
    /\ \A s \in Sids : session[s] = NotLoggedIn =>
          Unseen(s) /\ \A q \in Requests : req[q].at # "idle" => req[q].sid # s
    /\ \A r \in Requests : req[r].at = "store" =>
          /\ Unseen(req[r].sid)
          /\ \A q \in Requests \ {r} : req[q].at # "idle" => req[q].sid # req[r].sid

\* A session in the memory of a process is nowhere else, and only requests to that
\* process, past their login or their authentication, have it.
InOnePlace ==
    /\ memCsrf = memSes
    /\ \A p \in Procs : \A s \in memSes[p] :
          /\ s \notin redisSes /\ s \notin redisCsrf /\ s \notin dump.ses /\ s \notin dump.csrf
          /\ \A q \in Procs \ {p} : s \notin memSes[q]
          /\ \A r \in Requests : s \notin req[r].found
          /\ \A r \in Requests : req[r].at \notin {"idle", "auth"} /\ req[r].sid = s =>
                req[r].proc = p /\ req[r].at # "storeCsrf"

\* What a logout is about to confirm has left Redis, unless a restart brought it back;
\* a confirmed one that is still in a memory is out of the sight of its process.
Out(s) == s \notin redisSes \/ s \in revived

Leaving ==
    /\ \A r \in Requests : req[r].at = "forget" => client[req[r].proc] /\ Out(req[r].sid)
    /\ \A r \in Requests : req[r].at = "sweepCsrf" => \A s \in req[r].found : Out(s)
    /\ \A s \in revoked : Out(s) /\ \A p \in Procs : s \in memSes[p] => client[p]

SessionInv == Created /\ InOnePlace /\ Leaving

LEMMA SessionInit == Init => SessionInv
BY DEF Init, SessionInv, Created, Unseen, InOnePlace, Leaving, Out, Idle

\* Steps that only take away: stores shrink and requests go on or end.
Fewer ==
    /\ redisSes' \subseteq redisSes /\ redisCsrf' \subseteq redisCsrf
    /\ memCsrf' = memSes' /\ \A p \in Procs : memSes'[p] \subseteq memSes[p]
    /\ UNCHANGED <<session, handed, client, dump, revived>>
    /\ revoked' = revoked
    /\ \A q \in Requests :
          /\ req'[q].found \subseteq req[q].found
          /\ req'[q].at # "idle" =>
                req[q].at # "idle" /\ req'[q].sid = req[q].sid /\ req'[q].proc = req[q].proc
          /\ req'[q].at \in {"store", "storeCsrf", "forget", "sweepCsrf"} =>
                req'[q].at = req[q].at
          /\ req'[q].at \notin {"idle", "auth"} =>
                req[q].at # "auth" \/ req[q].sid \in Sessions(req[q].proc)

LEMMA FewerKeeps ==
    ASSUME TypeInv, TypeInv', SessionInv, Fewer PROVE SessionInv'
<1>1. \A s : Unseen(s) => Unseen(s)'
  BY DEF Fewer, Unseen
<1>2. Created'
  BY <1>1 DEF Fewer, SessionInv, Created
<1>3. InOnePlace'
  BY DEF Fewer, SessionInv, InOnePlace, Sessions, TypeInv, InProgress
<1>4. Leaving'
  BY DEF Fewer, SessionInv, Leaving, Out
<1> QED
  BY <1>2, <1>3, <1>4 DEF SessionInv

\* What a step of a request does to the other requests, and to its own.
LEMMA OthersStay ==
    ASSUME TypeInv, NEW r \in Requests, RequestStep(r)
    PROVE  \A q \in Requests \ {r} : req'[q] = req[q]
BY DEF TypeInv, TypeOK, RequestStep, StoreSession, StoreCsrf, StoreInMemory, AuthMiddleware,
   RequireAdmin, RequireAdminUnread, Logout, Forget, LogoutInMemory, LogoutAll, Keys, CsrfKeys, Sweep,
   SweepCsrf, ClearMemory, Create, Insert, UpdateRole, UpdatePassword, Delete, Remove,
   RedisFails, Goto, End

LEMMA Moved ==
    ASSUME TypeInv, NEW r \in Requests, NEW place, Goto(r, place)
    PROVE  /\ req'[r].at = place /\ req'[r].sid = req[r].sid /\ req'[r].proc = req[r].proc
           /\ req'[r].found = req[r].found /\ req'[r].op = req[r].op
           /\ req'[r].unread = req[r].unread
<1>1. req[r] \in Request /\ req'[r] = [req[r] EXCEPT !.at = place]
  BY DEF TypeInv, TypeOK, Goto
<1> QED
  BY <1>1 DEF Request

LEMMA UnreadMoves ==
    ASSUME TypeInv, NEW r \in Requests, RequireAdminUnread(r)
    PROVE  /\ req'[r].at = "body" /\ req'[r].sid = req[r].sid /\ req'[r].proc = req[r].proc
           /\ req'[r].found = req[r].found /\ req'[r].op = req[r].op
           /\ req'[r].unread /\ req[r].at = "admin" /\ UserOf(r) = Admin
<1>1. req[r] \in Request /\ req'[r] = [req[r] EXCEPT !.at = "body", !.unread = TRUE]
  BY Zenon DEF TypeInv, TypeOK, RequireAdminUnread
<1>2. /\ req'[r].at = "body" /\ req'[r].sid = req[r].sid /\ req'[r].proc = req[r].proc
      /\ req'[r].found = req[r].found /\ req'[r].op = req[r].op /\ req'[r].unread = TRUE
  BY <1>1 DEF Request
<1>3. req[r].at = "admin" /\ UserOf(r) = Admin
  BY DEF RequireAdminUnread, At, OfSettings
<1> QED
  BY <1>2, <1>3

LEMMA Ended ==
    ASSUME TypeInv, NEW r \in Requests, End(r)
    PROVE  /\ req'[r].at = "idle" /\ req'[r].found = {} /\ req'[r].op = "login"
BY DEF TypeInv, TypeOK, End, Idle

LEMMA DropFewer ==
    ASSUME TypeOK, memCsrf = memSes, NEW p \in Procs, NEW s, DropSession(p, s)
    PROVE  memCsrf' = memSes'
BY DEF TypeOK, DropSession

LEMMA SessionFewer ==
    ASSUME TypeInv, TypeInv', SessionInv, NEW r \in Requests,
           \/ AuthMiddleware(r) \/ RequireAdmin(r) \/ RequireAdminUnread(r) \/ LogoutAll(r) \/ CsrfKeys(r) \/ Create(r)
           \/ Insert(r) \/ UpdateRole(r) \/ UpdatePassword(r) \/ Delete(r) \/ Remove(r)
    PROVE  SessionInv'
<1>0. RequestStep(r)
  BY DEF RequestStep
<1>1. memCsrf = memSes /\ req[r].at # "idle" /\ req[r].proc \in Procs
  BY <1>0, StepInProgress DEF SessionInv, InOnePlace
<1>2. \/ End(r)
      \/ \E place \in {"body", "admin", "keys", "insert", "remove"} : Goto(r, place)
      \/ CsrfKeys(r) \/ RequireAdminUnread(r)
  BY DEF AuthMiddleware, RequireAdmin, LogoutAll, Create, Insert, UpdateRole, UpdatePassword,
     Delete, Remove
<1>3. /\ req'[r].found \subseteq req[r].found
      /\ req'[r].at # "idle" => req'[r].sid = req[r].sid /\ req'[r].proc = req[r].proc
      /\ req'[r].at \notin {"store", "storeCsrf", "forget", "sweepCsrf"}
  <2>1. CASE CsrfKeys(r)
    BY <2>1 DEF CsrfKeys, TypeInv, TypeOK, Request
  <2>2. CASE RequireAdminUnread(r)
    BY <2>2, UnreadMoves
  <2> QED
    BY <1>2, <2>1, <2>2, Moved, Ended
<1>4. UNCHANGED <<session, handed, client, revoked, dump, revived>>
  BY DEF AuthMiddleware, RequireAdmin, RequireAdminUnread, LogoutAll, CsrfKeys, Create, Insert, UpdateRole,
     UpdatePassword, Delete, Remove, observers
<1>5. /\ redisSes' \subseteq redisSes /\ redisCsrf' \subseteq redisCsrf
      /\ memCsrf' = memSes' /\ \A p \in Procs : memSes'[p] \subseteq memSes[p]
  BY <1>1, DropTyped, DropFewer DEF TypeInv, AuthMiddleware, RequireAdmin, RequireAdminUnread, LogoutAll, CsrfKeys,
     Create, Insert, UpdateRole, UpdatePassword, Delete, Remove, stores
<1>6. \A q \in Requests \ {r} : req'[q] = req[q]
  BY <1>0, OthersStay
<1>8. req'[r].at \notin {"idle", "auth"} =>
          req[r].at # "auth" \/ req[r].sid \in Sessions(req[r].proc)
  BY <1>2, Ended DEF AuthMiddleware, RequireAdmin, RequireAdminUnread, LogoutAll, CsrfKeys, Create,
     Insert, UpdateRole, UpdatePassword, Delete, Remove, Body, At, Valid
<1>7. Fewer
  BY <1>1, <1>3, <1>4, <1>5, <1>6, <1>8 DEF Fewer
<1> QED
  BY <1>7, FewerKeeps

\* A session comes into Redis, at the login, or the answer to the login is lost.
LEMMA SessionStored ==
    ASSUME TypeInv, TypeInv', SessionInv, NEW r \in Requests,
           RequestStep(r), req[r].at = "store",
           redisSes' = redisSes \cup {req[r].sid},
           Goto(r, "storeCsrf") \/ End(r),
           UNCHANGED <<redisCsrf, memSes, memCsrf, client, session, handed, revoked, dump, revived>>
    PROVE  SessionInv'
<1> DEFINE s == req[r].sid
<1> USE DEF SessionInv
<1>0. s \in Sids /\ Unseen(s) /\ session[s] # NotLoggedIn
      /\ \A q \in Requests \ {r} : req[q].at # "idle" => req[q].sid # s
  BY StepInProgress DEF Created
<1>1. \A q \in Requests \ {r} : req'[q] = req[q]
  BY OthersStay
<1>2. /\ req'[r].at \in {"storeCsrf", "idle"} /\ req'[r].found \subseteq req[r].found
      /\ req'[r].at # "idle" => req'[r].sid = s /\ req'[r].proc = req[r].proc
  BY Moved, Ended
<1>3. \A t : t # s /\ Unseen(t) => Unseen(t)'
  BY <1>1, <1>2 DEF Unseen
<1>4. Created'
  BY <1>0, <1>1, <1>2, <1>3 DEF Created
<1>5. InOnePlace'
  BY <1>0, <1>1, <1>2 DEF InOnePlace, Unseen
<1>6. Leaving'
  BY <1>0, <1>1, <1>2 DEF Leaving, Out, Unseen
<1> QED
  BY <1>4, <1>5, <1>6

LEMMA SessionCsrf ==
    ASSUME TypeInv, TypeInv', SessionInv, NEW r \in Requests,
           RequestStep(r), req[r].at = "storeCsrf", End(r),
           redisCsrf' = redisCsrf \cup {req[r].sid},
           handed' \in {handed, handed \cup {req[r].sid}},
           UNCHANGED <<redisSes, memSes, memCsrf, client, session, revoked, dump, revived>>
    PROVE  SessionInv'
<1> DEFINE s == req[r].sid
<1> USE DEF SessionInv
<1>0. s \in Sids /\ session[s] # NotLoggedIn /\ (\A p \in Procs : s \notin memSes[p])
      /\ \A q \in Requests : req[q].at = "store" => req[q].sid # s
  BY StepInProgress DEF Created, InOnePlace
<1>1. \A q \in Requests \ {r} : req'[q] = req[q]
  BY OthersStay
<1>2. req'[r].at = "idle" /\ req'[r].found = {}
  BY Ended
<1>3. \A t : t # s /\ Unseen(t) => Unseen(t)'
  BY <1>1, <1>2 DEF Unseen
<1>4. Created'
  BY <1>0, <1>1, <1>2, <1>3 DEF Created
<1>5. InOnePlace'
  BY <1>0, <1>1, <1>2 DEF InOnePlace
<1>6. Leaving'
  BY <1>1, <1>2 DEF Leaving, Out
<1> QED
  BY <1>4, <1>5, <1>6

LEMMA SessionInMemory ==
    ASSUME TypeInv, TypeInv', SessionInv, NEW r \in Requests, StoreInMemory(r)
    PROVE  SessionInv'
<1> DEFINE s == req[r].sid
           p == req[r].proc
<1> USE DEF SessionInv
<1>a. RequestStep(r) /\ req[r].at = "store" /\ End(r) /\ handed' = handed \cup {s}
      /\ UNCHANGED <<redisSes, redisCsrf, client, session, revoked, dump, revived>>
      /\ memSes' = [memSes EXCEPT ![p] = @ \cup {s}]
      /\ memCsrf' = [memCsrf EXCEPT ![p] = @ \cup {s}]
  BY DEF RequestStep, StoreInMemory, At
<1>0. s \in Sids /\ p \in Procs /\ Unseen(s) /\ session[s] # NotLoggedIn
      /\ \A q \in Requests \ {r} : req[q].at # "idle" => req[q].sid # s
  BY <1>a, StepInProgress DEF Created
<1>1. \A q \in Requests \ {r} : req'[q] = req[q]
  BY <1>a, OthersStay
<1>2. req'[r].at = "idle" /\ req'[r].found = {}
  BY <1>a, Ended
<1>b. /\ \A q \in Procs : memSes'[q] = IF q = p THEN memSes[q] \cup {s} ELSE memSes[q]
      /\ memCsrf' = memSes'
  <2>1. memSes \in [Procs -> SUBSET Sids] /\ memCsrf = memSes
    BY DEF TypeInv, TypeOK, InOnePlace
  <2>2. memCsrf' = memSes'
    BY ONLY <1>a, <2>1
  <2>3. memSes' = [memSes EXCEPT ![p] = @ \cup {s}]
    BY ONLY <1>a
  <2> HIDE DEF s, p
  <2>4. \A q \in Procs : memSes'[q] = IF q = p THEN memSes[q] \cup {s} ELSE memSes[q]
    BY ONLY <2>1, <2>3
  <2> QED
    BY <2>2, <2>4
<1>3. \A t : t # s /\ Unseen(t) => Unseen(t)'
  BY <1>a, <1>b, <1>1, <1>2 DEF Unseen
<1>4. Created'
  BY <1>a, <1>0, <1>1, <1>2, <1>3 DEF Created
<1>5. InOnePlace'
  BY <1>a, <1>b, <1>0, <1>1, <1>2 DEF InOnePlace, Unseen
<1>6. Leaving'
  BY <1>a, <1>b, <1>0, <1>1, <1>2 DEF Leaving, Out, Unseen
<1> QED
  BY <1>4, <1>5, <1>6

\* A logout: what leaves Redis, and what is confirmed.
LEMMA SessionLogout ==
    ASSUME TypeInv, TypeInv', SessionInv, NEW r \in Requests,
           Logout(r) \/ Forget(r) \/ LogoutInMemory(r)
    PROVE  SessionInv'
<1> USE DEF SessionInv
<1>a. RequestStep(r) /\ UNCHANGED <<client, session, handed, dump>>
  BY DEF RequestStep, Logout, Forget, LogoutInMemory, observers
<1>0. req[r].sid \in Sids /\ req[r].proc \in Procs /\ req[r].at \in {"body", "forget"}
      /\ session[req[r].sid] # NotLoggedIn
      /\ \A q \in Requests : req[q].at = "store" => req[q].sid # req[r].sid
  BY <1>a, StepInProgress DEF Created, Logout, Forget, LogoutInMemory, Body, At
<1>1. \A q \in Requests \ {r} : req'[q] = req[q]
  BY <1>a, OthersStay
<1>2. CASE Logout(r)
  <2>1. /\ req'[r].at = "forget" /\ req'[r].sid = req[r].sid /\ req'[r].proc = req[r].proc
        /\ req'[r].found = req[r].found
        /\ client[req[r].proc] /\ redisSes' = redisSes \ {req[r].sid}
        /\ revived' = revived \ {req[r].sid}
        /\ UNCHANGED <<redisCsrf, memSes, memCsrf, revoked>>
    BY <1>2, Moved DEF Logout, observers
  <2>2. \A t : Unseen(t) => Unseen(t)'
    BY <1>a, <1>1, <2>1 DEF Unseen
  <2>3. Created'
    BY <1>a, <1>0, <1>1, <2>1, <2>2 DEF Created
  <2>4. InOnePlace'
    BY <1>a, <1>0, <1>1, <2>1 DEF InOnePlace
  <2>5. Leaving'
    BY <1>a, <1>0, <1>1, <2>1 DEF Leaving, Out
  <2> QED
    BY <2>3, <2>4, <2>5
<1>3. CASE Forget(r) \/ LogoutInMemory(r)
  <2>0. memCsrf = memSes
    BY DEF InOnePlace
  <2>1. /\ req'[r].at = "idle" /\ req'[r].found = {}
        /\ redisSes' = redisSes /\ redisCsrf' \subseteq redisCsrf /\ revived' = revived
        /\ memCsrf' = memSes' /\ \A p \in Procs : memSes'[p] \subseteq memSes[p]
        /\ revoked' \subseteq revoked \cup {req[r].sid}
    <3>1. CASE Forget(r)
      BY <1>a, <2>0, <3>1, Ended DEF Forget
    <3>2. CASE LogoutInMemory(r)
      <4>1. /\ DropSession(req[r].proc, req[r].sid) /\ ~client[req[r].proc] /\ End(r)
            /\ revived' = revived
            /\ revoked' \subseteq revoked \cup {req[r].sid}
        BY <3>2 DEF LogoutInMemory
      <4>2. redisSes' = redisSes /\ redisCsrf' = redisCsrf
        BY <4>1 DEF DropSession
      <4> QED
        BY <1>0, <2>0, <4>1, <4>2, Ended, DropTyped, DropFewer DEF TypeInv
    <3> QED
      BY <1>3, <3>1, <3>2
  <2>2. \A t : t # req[r].sid /\ Unseen(t) => Unseen(t)'
    BY <1>a, <1>1, <2>1 DEF Unseen
  <2>3. Created'
    BY <1>a, <1>0, <1>1, <2>1, <2>2 DEF Created
  <2>4. InOnePlace'
    BY <1>a, <1>1, <2>1 DEF InOnePlace
  <2>5. \A t \in revoked' \ revoked :
           Out(t)' /\ \A p \in Procs : t \in memSes'[p] => client[p]
    <3>1. CASE Forget(r)
      BY <1>0, <2>1, <3>1 DEF Forget, At, Leaving, Out, InOnePlace
    <3>2. CASE LogoutInMemory(r)
      <4>1. \A t \in revoked' \ revoked : t = req[r].sid /\ t \in memSes[req[r].proc]
        BY <3>2 DEF LogoutInMemory
      <4>2. memSes'[req[r].proc] = memSes[req[r].proc] \ {req[r].sid}
        BY <1>0, <3>2 DEF LogoutInMemory, DropSession, TypeInv, TypeOK
      <4> QED
        BY <1>0, <2>1, <4>1, <4>2 DEF InOnePlace, Out
    <3> QED
      BY <1>3, <3>1, <3>2
  <2>6. Leaving'
    BY <1>a, <1>1, <2>1, <2>5 DEF Leaving, Out
  <2> QED
    BY <2>3, <2>4, <2>6
<1> QED
  BY <1>2, <1>3

\* A global logout: the keys it lists, what it removes, and what is confirmed.
LEMMA SessionLogoutAll ==
    ASSUME TypeInv, TypeInv', SessionInv, NEW r \in Requests,
           Keys(r) \/ Sweep(r) \/ SweepCsrf(r) \/ ClearMemory(r)
    PROVE  SessionInv'
<1> USE DEF SessionInv
<1>a. RequestStep(r) /\ UNCHANGED <<client, session, handed, dump>>
  BY DEF RequestStep, Keys, Sweep, SweepCsrf, ClearMemory, observers
<1>0. /\ req[r].proc \in Procs /\ req[r].at \in {"keys", "sweep", "sweepCsrf"}
      /\ \A t \in req[r].found : session[t] # NotLoggedIn
      /\ \A t \in req[r].found : \A q \in Requests : req[q].at = "store" => req[q].sid # t
  <2>1. req[r].found \subseteq Sids
    BY DEF TypeInv, TypeOK, Request
  <2> QED
    BY <1>a, <2>1, StepInProgress DEF Created, Unseen, Keys, Sweep, SweepCsrf, ClearMemory, At
<1>1. \A q \in Requests \ {r} : req'[q] = req[q]
  BY <1>a, OthersStay
<1>2. CASE Keys(r)
  <2>1. /\ req'[r].at = "csrfKeys" /\ req'[r].sid = req[r].sid /\ req'[r].proc = req[r].proc
        /\ req'[r].found = redisSes
        /\ UNCHANGED <<redisSes, redisCsrf, memSes, memCsrf, revoked, revived>>
    BY <1>2 DEF Keys, stores, observers, TypeInv, TypeOK, Request
  <2>2. \A t : Unseen(t) => Unseen(t)'
    BY <1>a, <1>1, <2>1 DEF Unseen
  <2>3. Created'
    BY <1>a, <1>0, <1>1, <2>1, <2>2 DEF Created
  <2>4. InOnePlace'
    BY <1>a, <1>0, <1>1, <2>1 DEF InOnePlace
  <2>5. Leaving'
    BY <1>a, <1>1, <2>1 DEF Leaving, Out
  <2> QED
    BY <2>3, <2>4, <2>5
<1>3. CASE Sweep(r)
  <2>1. /\ req'[r].at = "sweepCsrf" /\ req'[r].sid = req[r].sid /\ req'[r].proc = req[r].proc
        /\ req'[r].found = req[r].found /\ redisSes' = redisSes \ req[r].found
        /\ revived' = revived \ req[r].found
        /\ UNCHANGED <<redisCsrf, memSes, memCsrf, revoked>>
    BY <1>3, Moved DEF Sweep, observers
  <2>2. \A t : Unseen(t) => Unseen(t)'
    BY <1>a, <1>1, <2>1 DEF Unseen
  <2>3. Created'
    BY <1>a, <1>0, <1>1, <2>1, <2>2 DEF Created
  <2>4. InOnePlace'
    BY <1>a, <1>0, <1>1, <2>1 DEF InOnePlace
  <2>5. Leaving'
    BY <1>a, <1>1, <2>1 DEF Leaving, Out
  <2> QED
    BY <2>3, <2>4, <2>5
<1>4. CASE SweepCsrf(r)
  <2>1. /\ req'[r].at = "idle" /\ req'[r].found = {} /\ redisCsrf' \subseteq redisCsrf
        /\ revoked' = revoked \cup req[r].found /\ (\A t \in req[r].found : Out(t))
        /\ UNCHANGED <<redisSes, memSes, memCsrf, revived>>
    BY <1>4, Ended DEF SweepCsrf, At, Leaving, Out
  <2>2. \A t : t \notin req[r].found /\ Unseen(t) => Unseen(t)'
    BY <1>a, <1>1, <2>1 DEF Unseen
  <2>3. Created'
    BY <1>a, <1>0, <1>1, <2>1, <2>2 DEF Created
  <2>4. InOnePlace'
    BY <1>a, <1>1, <2>1 DEF InOnePlace
  <2>5. Leaving'
    BY <1>a, <1>1, <2>1 DEF Leaving, Out, InOnePlace
  <2> QED
    BY <2>3, <2>4, <2>5
<1>5. CASE ClearMemory(r)
  <2> DEFINE p == req[r].proc
  <2>1. /\ req'[r].at = "idle" /\ req'[r].found = {}
        /\ revoked' = revoked \cup memSes[p]
        /\ memSes' = [memSes EXCEPT ![p] = {}] /\ memCsrf' = [memCsrf EXCEPT ![p] = {}]
        /\ UNCHANGED <<redisSes, redisCsrf, revived>>
    BY <1>5, Ended DEF ClearMemory
  <2>2. /\ \A q \in Procs : memSes'[q] = IF q = p THEN {} ELSE memSes[q]
        /\ memCsrf' = memSes'
    BY <1>0, <2>1 DEF InOnePlace, TypeInv, TypeOK
  <2>3. \A t : t \notin memSes[p] /\ Unseen(t) => Unseen(t)'
    BY <1>a, <1>1, <2>1, <2>2 DEF Unseen
  <2>4. Created'
    <3>1. \A t : Unseen(t) => t \notin memSes[p]
      BY <1>0 DEF Unseen
    <3> QED
      BY <1>a, <1>1, <2>1, <2>3, <3>1 DEF Created
  <2>5. InOnePlace'
    BY <1>a, <1>1, <2>1, <2>2 DEF InOnePlace
  <2>6. Leaving'
    BY <1>a, <1>0, <1>1, <2>1, <2>2 DEF Leaving, Out, InOnePlace
  <2> QED
    BY <2>4, <2>5, <2>6
<1> QED
  BY <1>2, <1>3, <1>4, <1>5

\* A login and a request with a session begin.
LEMMA SessionLogin ==
    ASSUME TypeInv, TypeInv', SessionInv, NEW r \in Requests, NEW p \in Procs, NEW s \in Sids,
           NEW u \in Users, Login(r, p, s, u)
    PROVE  SessionInv'
<1> USE DEF SessionInv
<1>0. /\ Unseen(s) /\ \A q \in Requests : req[q].at # "idle" => req[q].sid # s
      /\ UNCHANGED <<redisSes, redisCsrf, memSes, memCsrf, client, handed, revoked, dump, revived>>
  BY DEF Login, Created, stores, observers
<1>1. /\ \A q \in Requests \ {r} : req'[q] = req[q]
      /\ req'[r].at = "store" /\ req'[r].sid = s /\ req'[r].found = {}
  BY DEF Login, Idle, TypeInv, TypeOK
<1>2. \A t : Unseen(t) => Unseen(t)'
  BY <1>0, <1>1 DEF Unseen
<1>3. \A t \in Sids : session'[t] = NotLoggedIn => t # s /\ session[t] = NotLoggedIn
  <2>1. PICK role \in Roles : session' = [session EXCEPT ![s] = [user |-> u, told |-> role]]
    BY LoginAnswers DEF TypeInv
  <2>2. role # "none"
    BY <2>1 DEF Roles
  <2>3. [user |-> u, told |-> role] # NotLoggedIn
    BY <2>2 DEF NotLoggedIn
  <2> QED
    BY <2>1, <2>3 DEF TypeInv, TypeOK
<1>4. Created'
  BY <1>0, <1>1, <1>2, <1>3 DEF Created
<1>5. InOnePlace'
  BY <1>0, <1>1 DEF InOnePlace, Unseen
<1>6. Leaving'
  BY <1>0, <1>1 DEF Leaving, Out
<1> QED
  BY <1>4, <1>5, <1>6

LEMMA SessionMiddleware ==
    ASSUME TypeInv, TypeInv', SessionInv, NEW r \in Requests, NEW p \in Procs, NEW s \in Sids,
           NEW task \in Tasks, CsrfMiddleware(r, p, s, task)
    PROVE  SessionInv'
<1> USE DEF SessionInv
<1>0. /\ s \in handed
      /\ UNCHANGED <<redisSes, redisCsrf, memSes, memCsrf, client, session, handed, revoked, dump,
                     revived>>
  BY DEF CsrfMiddleware, stores
<1>1. /\ \A q \in Requests \ {r} : req'[q] = req[q]
      /\ req'[r].at = "auth" /\ req'[r].sid = s /\ req'[r].found = {} /\ req'[r].proc = p
  BY DEF CsrfMiddleware, Idle, TypeInv, TypeOK
<1>2. \A t : Unseen(t) => Unseen(t)' /\ t # s
  BY <1>0, <1>1 DEF Unseen
<1>3. Created'
  BY <1>0, <1>1, <1>2 DEF Created
<1>4. InOnePlace'
  BY <1>0, <1>1 DEF InOnePlace
<1>5. Leaving'
  BY <1>0, <1>1 DEF Leaving, Out
<1> QED
  BY <1>3, <1>4, <1>5

\* A process restarts, or connects.
LEMMA SessionRestart ==
    ASSUME TypeInv, TypeInv', SessionInv, NEW p \in Procs, Restart(p) \/ Connect(p)
    PROVE  SessionInv'
<1> USE DEF SessionInv
<1>1. CASE Restart(p)
  <2>1. /\ UNCHANGED <<redisSes, redisCsrf, session, handed, revoked, dump, revived>>
        /\ \A q \in Procs : client'[q] = (client[q] /\ q # p)
        /\ \A q \in Procs : memSes'[q] = IF q = p THEN {} ELSE memSes[q]
        /\ memCsrf' = memSes'
        /\ \A r \in Requests : IF req[r].proc = p THEN req'[r] = Idle ELSE req'[r] = req[r]
    <3>1. /\ UNCHANGED <<redisSes, redisCsrf, session, handed, revoked, dump, revived>>
          /\ client' = [client EXCEPT ![p] = FALSE]
          /\ memSes' = [memSes EXCEPT ![p] = {}] /\ memCsrf' = [memCsrf EXCEPT ![p] = {}]
          /\ req' = [r \in Requests |-> IF req[r].proc = p THEN Idle ELSE req[r]]
          /\ memCsrf = memSes
      BY <1>1 DEF Restart, InOnePlace
    <3>2. \A q \in Procs : client'[q] = (client[q] /\ q # p)
      BY <3>1 DEF TypeInv, TypeOK
    <3> QED
      BY <3>1, <3>2 DEF TypeInv, TypeOK
  <2>2. \A t : Unseen(t) => Unseen(t)'
    BY <2>1 DEF Unseen, Idle
  <2>3. Created'
    BY <2>1, <2>2 DEF Created, Idle
  <2>4. InOnePlace'
    BY <2>1 DEF InOnePlace, Idle
  <2>5. Leaving'
    <3>1. \A r \in Requests : req'[r].at # "idle" =>
             req'[r] = req[r] /\ req[r].proc # p /\ req[r].proc \in Procs
      BY <2>1 DEF Idle, TypeInv, InProgress
    <3>a. \A t : Out(t) => t \notin redisSes' \/ t \in revived'
      BY <2>1 DEF Out
    <3>2. \A r \in Requests : req'[r].at = "forget" =>
             /\ client'[req'[r].proc]
             /\ req'[r].sid \notin redisSes' \/ req'[r].sid \in revived'
      <4> SUFFICES ASSUME NEW r \in Requests, req'[r].at = "forget"
                   PROVE  /\ client'[req'[r].proc]
                          /\ req'[r].sid \notin redisSes' \/ req'[r].sid \in revived'
        OBVIOUS
      <4>1. req'[r] = req[r] /\ req[r].proc # p /\ req[r].proc \in Procs
        BY <3>1
      <4>2. client[req[r].proc] /\ Out(req[r].sid)
        BY <4>1 DEF Leaving
      <4>3. client'[req'[r].proc]
        BY <2>1, <4>1, <4>2, Zenon
      <4>4. req[r].sid \notin redisSes' \/ req[r].sid \in revived'
        BY <3>a, <4>2
      <4> QED
        BY <4>1, <4>3, <4>4
    <3>3. \A r \in Requests : req'[r].at = "sweepCsrf" =>
             \A s \in req'[r].found : s \notin redisSes' \/ s \in revived'
      BY <3>1, <3>a DEF Leaving
    <3>4. \A t \in revoked' : /\ t \notin redisSes' \/ t \in revived'
                              /\ \A q \in Procs : t \in memSes'[q] => client'[q]
      BY <2>1 DEF Leaving, Out
    <3> QED
      BY <3>2, <3>3, <3>4 DEF Leaving, Out
  <2> QED
    BY <2>3, <2>4, <2>5
<1>2. CASE Connect(p)
  BY <1>2 DEF Connect, stores, observers, Created, Unseen, InOnePlace, Leaving, Out, TypeInv, TypeOK,
     InProgress
<1> QED
  BY <1>1, <1>2

\* Redis writes a dump, and comes back with it.
LEMMA SessionDumps == ASSUME TypeInv, SessionInv, RedisDumps PROVE SessionInv'
<1>1. \A s : Unseen(s) => Unseen(s)'
  BY DEF RedisDumps, stores, observers, Unseen
<1>2. Created'
  BY <1>1 DEF RedisDumps, SessionInv, Created
<1>3. InOnePlace'
  BY DEF RedisDumps, stores, SessionInv, InOnePlace
<1>4. Leaving'
  BY DEF RedisDumps, stores, observers, SessionInv, Leaving, Out
<1> QED
  BY <1>2, <1>3, <1>4 DEF SessionInv

LEMMA SessionReturns == ASSUME TypeInv, SessionInv, RedisRestarts PROVE SessionInv'
<1>1. \A s : Unseen(s) => Unseen(s)'
  BY DEF RedisRestarts, Unseen
<1>2. Created'
  BY <1>1 DEF RedisRestarts, SessionInv, Created
<1>3. InOnePlace'
  BY DEF RedisRestarts, SessionInv, InOnePlace
<1>4. \A s : Out(s) => Out(s)'
  BY DEF RedisRestarts, Out
<1>5. Leaving'
  BY <1>4 DEF RedisRestarts, SessionInv, Leaving
<1> QED
  BY <1>2, <1>3, <1>5 DEF SessionInv

LEMMA SessionNext == TypeInv /\ SessionInv /\ [Next]_vars => SessionInv'
<1> SUFFICES ASSUME TypeInv, TypeInv', SessionInv, [Next]_vars PROVE SessionInv'
  BY TypeNext
<1>0. memCsrf = memSes
  BY DEF SessionInv, InOnePlace
<1>1. ASSUME UNCHANGED <<memSes, memCsrf, session, handed, client, revoked, req, dump, revived>>,
             redisSes' \subseteq redisSes, redisCsrf' \subseteq redisCsrf
      PROVE  SessionInv'
  BY <1>0, <1>1, FewerKeeps DEF Fewer
<1>2. ASSUME NEW r \in Requests, RedisFails(r) PROVE SessionInv'
  <2>0. /\ RequestStep(r) /\ End(r)
        /\ UNCHANGED <<memSes, memCsrf, session, handed, client, revoked, dump, revived>>
    BY <1>2 DEF RedisFails, RequestStep, observers
  <2>1. CASE req[r].at = "store" /\ redisSes' = redisSes \cup {req[r].sid} /\ UNCHANGED redisCsrf
    BY <2>0, <2>1, SessionStored
  <2>2. CASE req[r].at = "storeCsrf" /\ redisCsrf' = redisCsrf \cup {req[r].sid} /\ UNCHANGED redisSes
    BY <2>0, <2>2, SessionCsrf
  <2>3. CASE redisSes' \subseteq redisSes /\ redisCsrf' \subseteq redisCsrf
    <3>1. Fewer
      BY <1>0, <2>0, <2>3, Ended, OthersStay DEF Fewer
    <3> QED
      BY <3>1, FewerKeeps
  <2> QED
    BY <1>2, <2>1, <2>2, <2>3 DEF RedisFails
<1>3. ASSUME NEW r \in Requests, RequestStep(r) PROVE SessionInv'
  <2>1. CASE StoreSession(r)
    BY <1>3, <2>1, SessionStored DEF StoreSession, At
  <2>2. CASE StoreCsrf(r)
    BY <1>3, <2>2, SessionCsrf DEF StoreCsrf, At
  <2> QED
    BY <1>2, <1>3, <2>1, <2>2, SessionInMemory, SessionFewer, SessionLogout, SessionLogoutAll
       DEF RequestStep
<1>4. ASSUME NEW p \in Procs, StartCounts(p) \/ StartInserts(p) PROVE SessionInv'
  BY <1>1, <1>4 DEF StartCounts, StartInserts, stores, observers
<1>5. ASSUME NEW s \in Sids, Expire(s) \/ RedisExpires(s) PROVE SessionInv'
  BY <1>1, <1>5 DEF Expire, RedisExpires, stores, observers
<1>6. CASE RedisDumps \/ RedisRestarts
  BY <1>6, SessionDumps, SessionReturns
<1>7. CASE UNCHANGED vars
  BY <1>1, <1>7 DEF vars, stores, observers
<1> QED
  BY <1>3, <1>4, <1>5, <1>6, <1>7, NextSplits, SessionLogin, SessionMiddleware, SessionRestart

\* For any processes, requests and sessions, with Redis or without it, whatever
\* restarts or fails, no process accepts a session whose removal was confirmed
\* (auth.py, destroy_session, destroy_all_sessions).
THEOREM RevokedIsOut == Spec => []RevokedStaysOut
<1>1. SessionInv => RevokedStaysOut
  BY DEF SessionInv, Leaving, Out, RevokedStaysOut, Sessions
<1> QED
  BY <1>1, TypeInit, TypeNext, SessionInit, SessionNext, PTL DEF Spec

-----------------------------------------------------------------------------
(* Who was an administrator. *)

\* The observer has every request with a session whose user is one now.
Observed ==
    \A r \in Requests :
        req[r].at # "idle" /\ req[r].op # "login" /\ Effective(db, UserOf(r)) = "admin"
            => r \in admins

\* A session keeps its user.
LEMMA UsersStay ==
    ASSUME TypeInv, SessionInv, [Next]_vars
    PROVE  \A r \in Requests : req[r].at # "idle" => session'[req[r].sid] = session[req[r].sid]
<1>1. ASSUME NEW r \in Requests, NEW p \in Procs, NEW s \in Sids, NEW u \in Users,
             Login(r, p, s, u)
      PROVE  \A q \in Requests : req[q].at # "idle" => session'[req[q].sid] = session[req[q].sid]
  <2>1. \A q \in Requests : req[q].at # "idle" => req[q].sid # s /\ req[q].sid \in Sids
    BY <1>1 DEF Login, SessionInv, Created, TypeInv, InProgress
  <2>2. \E v : session' = [session EXCEPT ![s] = v]
    BY <1>1 DEF Login
  <2> QED
    BY <2>1, <2>2 DEF TypeInv, TypeOK
<1>2. ASSUME NEW r \in Requests, RequestStep(r) PROVE UNCHANGED session
  BY <1>2, StepRest
<1> QED
  BY <1>1, <1>2, NextSplits DEF StartCounts, StartInserts, Restart, Connect, CsrfMiddleware,
     Expire, RedisExpires, RedisDumps, RedisRestarts, vars

\* The observer notes every request that is in progress after the step.
LEMMA ObserveNotes ==
    ASSUME TypeInv, InProgress', Observe(db'), UNCHANGED session
    PROVE  /\ Observed'
           /\ \A r \in admins : req'[r].at # "idle" /\ req[r].at # "idle" => r \in admins'
<1>1. \A r \in Requests : req'[r].at # "idle" => req'[r].sid # NoSid
  BY NamesAssumption DEF InProgress
<1> QED
  BY <1>1 DEF Observe, Observed, Effective, UserOf, TypeInv, TypeOK

\* A request that is not in progress asks for nothing.
IdleAsks == \A r \in Requests : req[r].at = "idle" => req[r].op = "login"

AdminInv == Observed /\ IdleAsks /\ AuthorisedDuring

LEMMA AdminSame ==
    ASSUME TypeInv, SessionInv, [Next]_vars, AdminInv, NEW r \in Requests,
           \A q \in Requests \ {r} : req'[q] = req[q],
           UNCHANGED <<db, admins>>, req[r].at # "idle",
           \/ req'[r].op = "login" /\ req'[r].at = "idle"
           \/ /\ req'[r].op = req[r].op /\ req'[r].sid = req[r].sid /\ req'[r].at # "idle"
              /\ \/ req'[r].at \in {"auth", "admin"}
                 \/ req[r].at \notin {"auth", "admin"} /\ req'[r].unread = req[r].unread
                 \/ req[r].op \notin Accounts
                 \/ Effective(db, UserOf(r)) = "admin"
                 \/ req'[r].unread /\ UserOf(r) = Admin
    PROVE  AdminInv'
<1>1. \A q \in Requests : req[q].at # "idle" => session'[req[q].sid] = session[req[q].sid]
  BY UsersStay
<1>2. Observed'
  BY <1>1 DEF AdminInv, Observed, Effective, UserOf
<1>3. "login" \notin Accounts
  BY DEF Accounts
<1>4. AuthorisedDuring'
  <2> SUFFICES ASSUME NEW q \in Requests, req'[q].op \in Accounts,
                      req'[q].at \notin {"auth", "admin"}
               PROVE  q \in admins' \/ (req'[q].unread /\ UserOf(q)' = Admin)
    BY DEF AuthorisedDuring
  <2>1. req[q].op \in Accounts /\ req[q].at # "idle" /\ UserOf(q)' = UserOf(q)
    BY <1>1, <1>3 DEF AdminInv, IdleAsks, UserOf
  <2>2. CASE q # r
    BY <2>1, <2>2 DEF AdminInv, AuthorisedDuring
  <2>3. CASE q = r
    <3>1. CASE Effective(db, UserOf(r)) = "admin"
      BY <2>1, <2>3, <3>1 DEF AdminInv, Observed, Accounts
    <3>2. CASE req[r].at \notin {"auth", "admin"} /\ req'[r].unread = req[r].unread
      BY <2>1, <2>3, <3>2 DEF AdminInv, AuthorisedDuring
    <3> QED
      BY <1>3, <2>1, <2>3, <3>1, <3>2
  <2> QED
    BY <2>2, <2>3
<1>5. IdleAsks'
  BY DEF AdminInv, IdleAsks
<1> QED
  BY <1>2, <1>4, <1>5 DEF AdminInv

\* Requests that go on or end while the accounts change, and the observer looks.
LEMMA AdminObserved ==
    ASSUME TypeInv, TypeInv', AdminInv, Observe(db'), UNCHANGED session,
           \A q \in Requests : req'[q] # req[q] => req'[q] = Idle
    PROVE  AdminInv'
<1>0. \A q \in Requests : req'[q] = req[q] \/ (req'[q].at = "idle" /\ req'[q].op = "login")
  BY DEF Idle
<1>1. Observed' /\ \A q \in admins : req'[q].at # "idle" /\ req[q].at # "idle" => q \in admins'
  BY ObserveNotes DEF TypeInv
<1>2. IdleAsks'
  BY <1>0 DEF AdminInv, IdleAsks
<1>3. AuthorisedDuring'
  BY <1>0, <1>1 DEF AdminInv, IdleAsks, AuthorisedDuring, UserOf, Accounts
<1> QED
  BY <1>1, <1>2, <1>3 DEF AdminInv

LEMMA AdminStep ==
    ASSUME TypeInv, TypeInv', SessionInv, AdminInv, [Next]_vars, NEW r \in Requests, RequestStep(r)
    PROVE  AdminInv'
<1>0. req[r].at # "idle" /\ (\A q \in Requests \ {r} : req'[q] = req[q]) /\ UNCHANGED session
  BY StepInProgress, OthersStay, StepRest
<1>1. CASE Insert(r) \/ UpdateRole(r) \/ Remove(r)
  <2>1. Observe(db') /\ End(r)
    BY <1>1 DEF Insert, UpdateRole, Remove
  <2> QED
    <3>1. \A q \in Requests : req'[q] # req[q] => req'[q] = Idle
      <4>1. req'[r] = Idle
        BY <2>1 DEF End, TypeInv, TypeOK
      <4> QED
        BY <1>0, <4>1
    <3> QED
      BY <1>0, <2>1, <3>1, AdminObserved
<1>2. CASE ~(Insert(r) \/ UpdateRole(r) \/ Remove(r))
  <2>1. UNCHANGED <<db, admins>>
    BY <1>2 DEF RequestStep, StoreSession, StoreCsrf, StoreInMemory, AuthMiddleware,
       RequireAdmin, RequireAdminUnread, Logout, Forget, LogoutInMemory, LogoutAll, Keys, CsrfKeys, Sweep,
       SweepCsrf, ClearMemory, Create, UpdatePassword, Delete, RedisFails, observers
  <2>2. CASE End(r)
    BY <1>0, <2>1, <2>2, Ended, AdminSame
  <2>3. ASSUME NEW place, Goto(r, place), place # "idle",
               \/ place = "admin" \/ req[r].at \notin {"auth", "admin"}
               \/ req[r].op \notin Accounts
               \/ Effective(db, UserOf(r)) = "admin"
        PROVE  AdminInv'
    BY <1>0, <2>1, <2>3, Moved, AdminSame
  <2>4. CASE Keys(r) \/ CsrfKeys(r)
    <3>1. /\ req'[r].op = req[r].op /\ req'[r].sid = req[r].sid /\ req'[r].unread = req[r].unread
          /\ req'[r].at \in {"csrfKeys", "sweep"} /\ req[r].at \in {"keys", "csrfKeys"}
      BY <2>4 DEF Keys, CsrfKeys, At, TypeInv, TypeOK, Request
    <3> QED
      BY <1>0, <2>1, <3>1, AdminSame
  <2>5. CASE AuthMiddleware(r) \/ RequireAdmin(r)
    BY <2>2, <2>3, <2>5 DEF AuthMiddleware, RequireAdmin, Accounts
  <2>8. CASE RequireAdminUnread(r)
    BY <1>0, <2>1, <2>8, UnreadMoves, AdminSame
  <2>6. CASE StoreSession(r) \/ Logout(r) \/ LogoutAll(r) \/ Sweep(r) \/ Create(r)
             \/ UpdatePassword(r) \/ Delete(r)
    BY <2>2, <2>3, <2>6 DEF StoreSession, Logout, LogoutAll, Sweep, Create, UpdatePassword,
       Delete, Body, At
  <2>7. CASE StoreCsrf(r) \/ StoreInMemory(r) \/ Forget(r) \/ LogoutInMemory(r) \/ SweepCsrf(r)
             \/ ClearMemory(r) \/ RedisFails(r)
    BY <2>2, <2>7 DEF StoreCsrf, StoreInMemory, Forget, LogoutInMemory, SweepCsrf, ClearMemory,
       RedisFails
  <2> QED
    BY <1>2, <2>4, <2>5, <2>6, <2>7, <2>8 DEF RequestStep
<1> QED
  BY <1>1, <1>2

LEMMA AdminNext == TypeInv /\ SessionInv /\ AdminInv /\ [Next]_vars => AdminInv'
<1> SUFFICES ASSUME TypeInv, TypeInv', SessionInv, AdminInv, [Next]_vars PROVE AdminInv'
  BY TypeNext
<1>1. ASSUME NEW p \in Procs, StartInserts(p) \/ Restart(p) PROVE AdminInv'
  <2>1. Observe(db') /\ UNCHANGED session
    BY <1>1 DEF StartInserts, Restart, Observe
  <2>2. \A q \in Requests : req'[q] # req[q] => req'[q] = Idle
    <3>1. CASE StartInserts(p)
      BY <3>1 DEF StartInserts
    <3>2. CASE Restart(p)
      BY <3>2 DEF Restart
    <3> QED
      BY <1>1, <3>1, <3>2
  <2> QED
    BY <2>1, <2>2, AdminObserved
<1>2. ASSUME NEW r \in Requests, NEW p \in Procs, NEW s \in Sids, NEW u \in Users,
             Login(r, p, s, u)
      PROVE  AdminInv'
  <2>1. /\ \A q \in Requests \ {r} : req'[q] = req[q]
        /\ req'[r].at = "store" /\ req'[r].op = "login" /\ UNCHANGED <<db, admins>>
    BY <1>2 DEF Login, Idle, TypeInv, TypeOK, observers
  <2>2. \A q \in Requests : req[q].at # "idle" => session'[req[q].sid] = session[req[q].sid]
    BY UsersStay
  <2>3. Observed'
    BY <2>1, <2>2 DEF AdminInv, Observed, Effective, UserOf
  <2> QED
    BY <2>1, <2>2, <2>3 DEF AdminInv, IdleAsks, AuthorisedDuring, UserOf, Accounts
<1>3. ASSUME NEW r \in Requests, NEW p \in Procs, NEW s \in Sids, NEW task \in Tasks,
             CsrfMiddleware(r, p, s, task)
      PROVE  AdminInv'
  <2>1. /\ \A q \in Requests \ {r} : req'[q] = req[q]
        /\ req'[r].at = "auth" /\ UNCHANGED <<db, session>> /\ Observe(db')
    BY <1>3 DEF CsrfMiddleware, Idle, TypeInv, TypeOK, Observe
  <2>2. Observed' /\ \A q \in admins : req'[q].at # "idle" /\ req[q].at # "idle" => q \in admins'
    BY <2>1, ObserveNotes DEF TypeInv
  <2> QED
    BY <2>1, <2>2 DEF AdminInv, IdleAsks, AuthorisedDuring, UserOf, Accounts
<1>4. CASE UNCHANGED <<db, session, req, admins>>
  BY <1>4 DEF AdminInv, Observed, IdleAsks, AuthorisedDuring, Effective, UserOf
<1>5. ASSUME NEW r \in Requests, RequestStep(r) PROVE AdminInv'
  BY <1>5, AdminStep
<1> QED
  BY <1>1, <1>2, <1>3, <1>4, <1>5, NextSplits DEF StartCounts, Connect, Expire, RedisExpires,
     RedisDumps, RedisRestarts, vars, observers

\* For any processes, users and requests an account operation goes past its checks
\* only for a user who was an administrator while the request ran (auth.py,
\* validate_session; users_routes.py, _require_admin).
THEOREM AdminsOnly == Spec => []AuthorisedDuring
<1>1. Init => AdminInv
  BY DEF Init, AdminInv, Observed, IdleAsks, AuthorisedDuring, Idle, Accounts
<1>2. AdminInv => AuthorisedDuring
  BY DEF AdminInv
<1> QED
  BY <1>1, <1>2, TypeInit, TypeNext, SessionInit, SessionNext, AdminNext, PTL DEF Spec

-----------------------------------------------------------------------------
(* A session and its CSRF token. *)

\* No answer can hand out the session as it is now: its login is over, and it is out
\* of Redis or was never handed out.
Past(s) ==
    /\ session[s] # NotLoggedIn
    /\ \A q \in Requests : req[q].at \in {"store", "storeCsrf"} => req[q].sid # s
    /\ s \notin redisSes \/ s \notin handed

\* A token in the list of a global logout: its session is in the other list, or may go.
Accounted(r, s) == s \in req[r].found \/ s \in overlap \/ Past(s)

\* A session whose login is over without an answer.
Unanswered(s) ==
    /\ session[s] # NotLoggedIn /\ s \notin handed
    /\ \A q \in Requests : req[q].at \in {"store", "storeCsrf"} => req[q].sid # s

\* The last dump has the token of each session it has, except for the logins it was
\* written amidst, those the observer knows of and those that were never answered.
DumpInv ==
    \A s \in dump.ses \ dump.csrf : s \in dump.amidst \/ s \in overlap \/ Unanswered(s)

\* What is being removed has left Redis, unless a restart brought it back.
Gone(s) == s \notin redisSes \/ s \in overlap

GoneInv ==
    /\ \A r \in Requests : req[r].at = "forget" => Gone(req[r].sid)
    /\ \A r \in Requests : req[r].at = "sweepCsrf" => \A s \in req[r].found : Gone(s)

CsrfInv ==
    /\ \A r \in Requests : req[r].at = "storeCsrf" =>
          /\ req[r].sid \notin redisCsrf /\ req[r].sid \notin handed
          /\ req[r].sid \notin dump.csrf
          /\ \A q \in Requests \ {r} : req[q].at # "idle" => req[q].sid # req[r].sid
    /\ \A r \in Requests : req[r].at = "csrfKeys" => \A s \in redisCsrf : Accounted(r, s)
    /\ \A r \in Requests : req[r].at \in {"sweep", "sweepCsrf"} =>
          \A s \in req[r].csrfs : Accounted(r, s)
    /\ SessionHasCsrf
    /\ DumpInv
    /\ GoneInv

\* Steps that only take away, and never the token of a session that stays.
Calm ==
    /\ redisSes' \subseteq redisSes /\ redisCsrf' \subseteq redisCsrf
    /\ \A s \in redisCsrf \ redisCsrf' : s \notin redisSes' \/ s \in overlap \/ s \notin handed
    /\ UNCHANGED <<session, handed, overlap, dump>>
    /\ \A q \in Requests :
          /\ req'[q].at # "idle" => req[q].at # "idle" /\ req'[q].sid = req[q].sid
          /\ req'[q].at \in {"store", "storeCsrf"} => req'[q].at = req[q].at
          /\ req'[q].at = "csrfKeys" => req'[q] = req[q]
          /\ req'[q].at \in {"sweep", "sweepCsrf"} =>
                /\ req'[q].found = req[q].found
                /\ \/ req[q].at = "csrfKeys" /\ req'[q].csrfs = redisCsrf
                   \/ req[q].at \in {"sweep", "sweepCsrf"} /\ req'[q].csrfs = req[q].csrfs
          /\ req'[q].at = "forget" => req[q].at = "forget" \/ req[q].sid \notin redisSes'
          /\ req'[q].at = "sweepCsrf" =>
                req[q].at = "sweepCsrf" \/ req[q].found \cap redisSes' = {}

LEMMA CalmKeeps == ASSUME CsrfInv, Calm PROVE CsrfInv'
<1>1. \A s : Past(s) => Past(s)'
  BY DEF Calm, Past
<1>2. \A q \in Requests : req'[q].at \in {"csrfKeys", "sweep", "sweepCsrf"} =>
         \A s : Accounted(q, s) => Accounted(q, s)'
  BY <1>1 DEF Calm, Accounted
<1>3. \A r \in Requests : req'[r].at = "storeCsrf" =>
         /\ req'[r].sid \notin redisCsrf' /\ req'[r].sid \notin handed'
         /\ req'[r].sid \notin dump'.csrf
         /\ \A q \in Requests \ {r} : req'[q].at # "idle" => req'[q].sid # req'[r].sid
  BY DEF Calm, CsrfInv
<1>4. ASSUME NEW r \in Requests, req'[r].at = "csrfKeys", NEW s \in redisCsrf'
      PROVE  Accounted(r, s)'
  BY <1>2, <1>4 DEF Calm, CsrfInv
<1>5. ASSUME NEW r \in Requests, req'[r].at \in {"sweep", "sweepCsrf"}, NEW s \in req'[r].csrfs
      PROVE  Accounted(r, s)'
  BY <1>2, <1>5 DEF Calm, CsrfInv
<1>6. SessionHasCsrf'
  BY DEF Calm, CsrfInv, SessionHasCsrf
<1>7. DumpInv'
  BY DEF Calm, CsrfInv, DumpInv, Unanswered
<1>8. GoneInv'
  BY DEF Calm, CsrfInv, GoneInv, Gone
<1> QED
  BY <1>3, <1>4, <1>5, <1>6, <1>7, <1>8 DEF CsrfInv

\* What a request keeps as it moves.
LEMMA MovedLists ==
    ASSUME TypeInv, NEW r \in Requests, NEW place, Goto(r, place)
    PROVE  req'[r].at = place /\ req'[r].sid = req[r].sid
           /\ req'[r].found = req[r].found /\ req'[r].csrfs = req[r].csrfs
<1>1. req[r] \in Request /\ req'[r] = [req[r] EXCEPT !.at = place]
  BY DEF TypeInv, TypeOK, Goto
<1> QED
  BY <1>1 DEF Request

\* A step of a request that goes on or ends, and takes from the stores at most.
LEMMA CalmStep ==
    ASSUME TypeInv, NEW r \in Requests, RequestStep(r),
           \/ End(r)
           \/ \E place \in {"body", "admin", "keys", "insert", "remove"} : Goto(r, place)
           \/ Goto(r, "forget") /\ req[r].sid \notin redisSes'
           \/ CsrfKeys(r)
           \/ RequireAdminUnread(r)
           \/ Goto(r, "sweepCsrf") /\ req[r].at = "sweep" /\ req[r].found \cap redisSes' = {},
           redisSes' \subseteq redisSes, redisCsrf' \subseteq redisCsrf,
           \A s \in redisCsrf \ redisCsrf' : s \notin redisSes' \/ s \in overlap \/ s \notin handed,
           UNCHANGED <<session, handed, overlap, dump>>
    PROVE  Calm
<1>1. req[r].at # "idle" /\ \A q \in Requests \ {r} : req'[q] = req[q]
  BY StepInProgress, OthersStay
<1>2. CASE End(r)
  BY <1>1, <1>2, Ended DEF Calm
<1>6. CASE RequireAdminUnread(r)
  BY <1>1, <1>6, UnreadMoves DEF Calm
<1>3. ASSUME NEW place \in {"body", "admin", "keys", "insert", "remove"}, Goto(r, place)
      PROVE  Calm
  BY <1>1, <1>3, MovedLists DEF Calm
<1>7. CASE Goto(r, "forget") /\ req[r].sid \notin redisSes'
  BY <1>1, <1>7, MovedLists DEF Calm
<1>4. CASE CsrfKeys(r)
  <2>1. /\ req[r].at = "csrfKeys" /\ req'[r].at = "sweep" /\ req'[r].csrfs = redisCsrf
        /\ req'[r].found = req[r].found /\ req'[r].sid = req[r].sid
    BY <1>4 DEF CsrfKeys, At, TypeInv, TypeOK, Request
  <2> QED
    BY <1>1, <2>1 DEF Calm
<1>5. CASE Goto(r, "sweepCsrf") /\ req[r].at = "sweep" /\ req[r].found \cap redisSes' = {}
  BY <1>1, <1>5, MovedLists DEF Calm
<1> QED
  BY <1>2, <1>3, <1>4, <1>5, <1>6, <1>7

LEMMA DropsTogether ==
    ASSUME NEW p, NEW s, DropSession(p, s)
    PROVE  /\ redisSes' \subseteq redisSes /\ redisCsrf' \subseteq redisCsrf
           /\ \A t \in redisCsrf \ redisCsrf' : t \notin redisSes'
BY DEF DropSession

LEMMA CsrfCalm ==
    ASSUME TypeInv, SessionInv, CsrfInv, NEW r \in Requests,
           \/ AuthMiddleware(r) \/ RequireAdmin(r) \/ RequireAdminUnread(r)
           \/ Logout(r) \/ Forget(r) \/ LogoutInMemory(r)
           \/ LogoutAll(r) \/ CsrfKeys(r) \/ Sweep(r) \/ SweepCsrf(r) \/ ClearMemory(r)
           \/ Create(r) \/ Insert(r) \/ UpdateRole(r) \/ UpdatePassword(r) \/ Delete(r) \/ Remove(r)
    PROVE  CsrfInv'
<1>a. RequestStep(r)
  BY DEF RequestStep
<1>1. CASE AuthMiddleware(r) \/ LogoutInMemory(r)
  <2>1. \/ UNCHANGED stores
        \/ DropSession(req[r].proc, req[r].sid)
    BY <1>1 DEF AuthMiddleware, LogoutInMemory
  <2>2. End(r) \/ \E place \in {"body", "admin"} : Goto(r, place)
    BY <1>1 DEF AuthMiddleware, LogoutInMemory
  <2>3. UNCHANGED <<session, handed, overlap, dump>>
    BY <1>1 DEF AuthMiddleware, LogoutInMemory, observers
  <2> QED
    BY <1>a, <2>1, <2>2, <2>3, DropsTogether, CalmStep, CalmKeeps DEF stores
<1>2. CASE RequireAdmin(r) \/ RequireAdminUnread(r) \/ LogoutAll(r) \/ CsrfKeys(r) \/ Create(r) \/ Insert(r)
           \/ UpdateRole(r) \/ UpdatePassword(r) \/ Delete(r) \/ Remove(r) \/ ClearMemory(r)
  <2>1. UNCHANGED <<redisSes, redisCsrf, session, handed, overlap, dump>>
    BY <1>2 DEF RequireAdmin, RequireAdminUnread, LogoutAll, CsrfKeys, Create, Insert, UpdateRole, UpdatePassword,
       Delete, Remove, ClearMemory, stores, observers
  <2>2. \/ End(r) \/ CsrfKeys(r) \/ RequireAdminUnread(r)
        \/ \E place \in {"body", "keys", "insert", "remove"} : Goto(r, place)
    BY <1>2 DEF RequireAdmin, LogoutAll, Create, Insert, UpdateRole, UpdatePassword,
       Delete, Remove, ClearMemory
  <2> QED
    BY <1>a, <2>1, <2>2, CalmStep, CalmKeeps
<1>3. CASE Logout(r)
  <2>1. req[r].sid \notin redisSes' /\ redisSes' \subseteq redisSes
    BY <1>3 DEF Logout
  <2> QED
    BY <1>a, <1>3, <2>1, CalmStep, CalmKeeps DEF Logout
<1>4. CASE Forget(r)
  <2>1. Gone(req[r].sid)
    BY <1>4 DEF Forget, At, CsrfInv, GoneInv
  <2> QED
    BY <1>a, <1>4, <2>1, CalmStep, CalmKeeps DEF Forget, Gone
<1>5. CASE Sweep(r)
  <2>1. req[r].found \cap redisSes' = {} /\ redisSes' \subseteq redisSes
    BY <1>5 DEF Sweep
  <2> QED
    BY <1>a, <1>5, <2>1, CalmStep, CalmKeeps DEF Sweep, At
<1>6. CASE SweepCsrf(r)
  <2>1. \A s \in req[r].csrfs : s \notin redisSes \/ s \in overlap \/ s \notin handed
    BY <1>6 DEF SweepCsrf, At, CsrfInv, GoneInv, Gone, Accounted, Past
  <2> QED
    BY <1>a, <1>6, <2>1, CalmStep, CalmKeeps DEF SweepCsrf
<1> QED
  BY <1>1, <1>2, <1>3, <1>4, <1>5, <1>6

\* The session of a login comes into Redis.
LEMMA CsrfStored ==
    ASSUME TypeInv, SessionInv, CsrfInv, NEW r \in Requests,
           RequestStep(r), req[r].at = "store",
           redisSes' = redisSes \cup {req[r].sid},
           Goto(r, "storeCsrf") \/ End(r),
           overlap \subseteq overlap',
           UNCHANGED <<redisCsrf, session, handed, dump>>
    PROVE  CsrfInv'
<1> DEFINE s == req[r].sid
<1>0. /\ s \notin redisCsrf /\ s \notin handed
      /\ \A q \in Requests \ {r} : req[q].at # "idle" => req[q].sid # s
  BY DEF SessionInv, Created, Unseen
<1>1. /\ \A q \in Requests \ {r} : req'[q] = req[q]
      /\ \/ req'[r].at = "idle"
         \/ req'[r].at = "storeCsrf" /\ req'[r].sid = s
  BY OthersStay, MovedLists, Ended
<1>2. \A t : Past(t) => Past(t)'
  BY <1>1 DEF Past
<1>3. \A q \in Requests \ {r} : \A t : Accounted(q, t) => Accounted(q, t)'
  BY <1>1, <1>2 DEF Accounted
<1>4. SessionHasCsrf'
  BY <1>0 DEF CsrfInv, SessionHasCsrf
<1>5. DumpInv'
  BY <1>1 DEF CsrfInv, DumpInv, Unanswered
<1>6. GoneInv'
  <2>1. /\ \A q \in Requests : s \notin req[q].found
        /\ \A q \in Requests \ {r} : req[q].at # "idle" => req[q].sid # s
    BY <1>0 DEF SessionInv, Created, Unseen
  <2> QED
    BY <1>1, <2>1 DEF CsrfInv, GoneInv, Gone
<1>7. s \notin dump.csrf
  BY DEF SessionInv, Created, Unseen
<1> QED
  BY <1>0, <1>1, <1>3, <1>4, <1>5, <1>6, <1>7 DEF CsrfInv

\* Its token follows; either the answer hands the session out, or it is lost.
LEMMA CsrfAnswered ==
    ASSUME TypeInv, SessionInv, CsrfInv, NEW r \in Requests,
           RequestStep(r), req[r].at = "storeCsrf", End(r),
           redisCsrf' = redisCsrf \cup {req[r].sid},
           \/ handed' = handed
           \/ handed' = handed \cup {req[r].sid} /\ (SweepRunning => req[r].sid \in overlap'),
           overlap \subseteq overlap',
           UNCHANGED <<redisSes, session, dump>>
    PROVE  CsrfInv'
<1> DEFINE s == req[r].sid
<1>0. /\ session[s] # NotLoggedIn /\ s \notin handed
      /\ \A q \in Requests \ {r} : req[q].at # "idle" => req[q].sid # s
  BY StepInProgress DEF SessionInv, Created, CsrfInv
<1>1. (\A q \in Requests \ {r} : req'[q] = req[q]) /\ req'[r].at = "idle"
  BY OthersStay, Ended
<1>2. \A t : Past(t) => t # s /\ Past(t)'
  BY <1>1 DEF Past
<1>3. \A q \in Requests \ {r} : \A t : Accounted(q, t) => Accounted(q, t)'
  BY <1>1, <1>2 DEF Accounted
<1>4. ASSUME NEW q \in Requests, req'[q].at = "csrfKeys", NEW t \in {s}
      PROVE  Accounted(q, t)'
  <2>1. CASE handed' = handed
    <3>1. Past(t)'
      BY <1>0, <1>1, <2>1 DEF Past
    <3> QED
      BY <3>1 DEF Accounted
  <2>2. CASE handed' # handed
    BY <1>1, <1>4, <2>2 DEF SweepRunning, Accounted
  <2> QED
    BY <2>1, <2>2
<1>5. SessionHasCsrf'
  BY DEF CsrfInv, SessionHasCsrf
<1>9. DumpInv' /\ GoneInv'
  <2>1. \A t : Unanswered(t) => t # s
    BY DEF Unanswered
  <2> QED
    BY <1>1, <2>1 DEF CsrfInv, DumpInv, Unanswered, GoneInv, Gone
<1>6. ASSUME NEW q \in Requests, req'[q].at = "storeCsrf"
      PROVE  /\ req'[q].sid \notin redisCsrf' /\ req'[q].sid \notin handed'
             /\ req'[q].sid \notin dump'.csrf
             /\ \A o \in Requests \ {q} : req'[o].at # "idle" => req'[o].sid # req'[q].sid
  BY <1>0, <1>1, <1>6 DEF CsrfInv
<1>7. ASSUME NEW q \in Requests, req'[q].at = "csrfKeys", NEW t \in redisCsrf'
      PROVE  Accounted(q, t)'
  BY <1>1, <1>3, <1>4, <1>7 DEF CsrfInv
<1>8. ASSUME NEW q \in Requests, req'[q].at \in {"sweep", "sweepCsrf"}, NEW t \in req'[q].csrfs
      PROVE  Accounted(q, t)'
  BY <1>1, <1>3, <1>8 DEF CsrfInv
<1> QED
  BY <1>5, <1>6, <1>7, <1>8, <1>9 DEF CsrfInv

LEMMA CsrfInMemory ==
    ASSUME TypeInv, SessionInv, CsrfInv, NEW r \in Requests, StoreInMemory(r)
    PROVE  CsrfInv'
<1> DEFINE s == req[r].sid
<1>a. /\ RequestStep(r) /\ req[r].at = "store" /\ End(r) /\ handed' = handed \cup {s}
      /\ UNCHANGED <<redisSes, redisCsrf, session, overlap, dump>>
  BY DEF RequestStep, StoreInMemory, At
<1>0. /\ s \notin redisSes
      /\ \A q \in Requests \ {r} : req[q].at # "idle" => req[q].sid # s
  BY <1>a DEF SessionInv, Created, Unseen
<1>1. (\A q \in Requests \ {r} : req'[q] = req[q]) /\ req'[r].at = "idle"
  BY <1>a, OthersStay, Ended
<1>2. \A t : Past(t) => Past(t)'
  BY <1>a, <1>1 DEF Past
<1>3. \A q \in Requests \ {r} : \A t : Accounted(q, t) => Accounted(q, t)'
  BY <1>a, <1>1, <1>2 DEF Accounted
<1>4. SessionHasCsrf'
  BY <1>a, <1>0 DEF CsrfInv, SessionHasCsrf
<1>5. DumpInv' /\ GoneInv'
  <2>1. \A t : Unanswered(t) => t # s
    BY <1>a DEF Unanswered
  <2> QED
    BY <1>a, <1>1, <2>1 DEF CsrfInv, DumpInv, Unanswered, GoneInv, Gone
<1> QED
  BY <1>a, <1>0, <1>1, <1>3, <1>4, <1>5 DEF CsrfInv

\* The first list: a token in Redis without its session is left from a session that
\* is gone.
LEMMA CsrfListed ==
    ASSUME TypeInv, SessionInv, CsrfInv, NEW r \in Requests, Keys(r)
    PROVE  CsrfInv'
<1>a. RequestStep(r) /\ UNCHANGED <<redisSes, redisCsrf, session, handed, overlap, dump>>
  BY DEF RequestStep, Keys, stores, observers
<1>0. req[r].at = "keys" /\ \A q \in Requests \ {r} : req'[q] = req[q]
  BY <1>a, OthersStay DEF Keys, At
<1>1. req'[r].at = "csrfKeys" /\ req'[r].sid = req[r].sid /\ req'[r].found = redisSes
  BY DEF Keys, TypeInv, TypeOK, Request
<1>2. \A s \in redisCsrf \ redisSes : Past(s)
  <2>1. \A s \in redisCsrf : s \in Sids
    BY DEF TypeInv, TypeOK
  <2> QED
    BY <2>1 DEF SessionInv, Created, Unseen, CsrfInv, Past
<1>3. \A s : Past(s) => Past(s)'
  BY <1>a, <1>0, <1>1 DEF Past
<1>4. \A q \in Requests \ {r} : \A s : Accounted(q, s) => Accounted(q, s)'
  BY <1>a, <1>0, <1>3 DEF Accounted
<1>5. \A s \in redisCsrf' : Accounted(r, s)'
  BY <1>a, <1>1, <1>2, <1>3 DEF Accounted
<1>6. SessionHasCsrf'
  BY <1>a DEF CsrfInv, SessionHasCsrf
<1>7. ASSUME NEW q \in Requests, req'[q].at = "storeCsrf"
      PROVE  /\ req'[q].sid \notin redisCsrf' /\ req'[q].sid \notin handed'
             /\ req'[q].sid \notin dump'.csrf
             /\ \A o \in Requests \ {q} : req'[o].at # "idle" => req'[o].sid # req'[q].sid
  BY <1>a, <1>0, <1>1, <1>7 DEF CsrfInv
<1>8. DumpInv' /\ GoneInv'
  BY <1>a, <1>0, <1>1 DEF CsrfInv, DumpInv, Unanswered, GoneInv, Gone
<1> QED
  BY <1>a, <1>0, <1>1, <1>4, <1>5, <1>6, <1>7, <1>8 DEF CsrfInv

\* A request begins.
LEMMA CsrfBegins ==
    ASSUME TypeInv, SessionInv, CsrfInv, NEW r \in Requests, NEW s \in Sids, req[r].at = "idle",
           \A q \in Requests \ {r} : req'[q] = req[q],
           req'[r].at \in {"store", "auth"}, req'[r].sid = s,
           \A t \in Sids \ {s} : session'[t] = session[t],
           \/ session[s] = NotLoggedIn /\ session'[s] # NotLoggedIn
           \/ s \in handed /\ session'[s] = session[s] /\ req'[r].at = "auth",
           UNCHANGED <<redisSes, redisCsrf, handed, overlap, dump>>
    PROVE  CsrfInv'
<1>1. ASSUME NEW t \in Sids, Past(t) PROVE Past(t)'
  BY <1>1 DEF Past
<1>2. \A q \in Requests \ {r} : \A t \in Sids : Accounted(q, t) => Accounted(q, t)'
  BY <1>1 DEF Accounted
<1>3. redisCsrf \subseteq Sids /\ \A q \in Requests : req[q].csrfs \subseteq Sids
  BY DEF TypeInv, TypeOK, Request
<1>4. ASSUME NEW q \in Requests, req'[q].at = "storeCsrf"
      PROVE  /\ req'[q].sid \notin redisCsrf' /\ req'[q].sid \notin handed'
             /\ req'[q].sid \notin dump'.csrf
             /\ \A o \in Requests \ {q} : req'[o].at # "idle" => req'[o].sid # req'[q].sid
  <2>1. q # r /\ req[q].at = "storeCsrf" /\ req'[q] = req[q]
    BY <1>4
  <2>2. req[q].sid # s
    <3>1. CASE session[s] = NotLoggedIn
      BY <2>1, <3>1 DEF SessionInv, Created
    <3>2. CASE s \in handed
      BY <2>1, <3>2 DEF CsrfInv
    <3> QED
      BY <3>1, <3>2
  <2> QED
    BY <2>1, <2>2 DEF CsrfInv
<1>5. SessionHasCsrf'
  BY DEF CsrfInv, SessionHasCsrf
<1>6. GoneInv'
  BY DEF CsrfInv, GoneInv, Gone
<1>7. DumpInv'
  <2>1. ASSUME NEW t \in Sids, Unanswered(t) PROVE Unanswered(t)'
    BY <2>1 DEF Unanswered
  <2>2. dump.ses \subseteq Sids
    BY DEF TypeInv, TypeOK
  <2> QED
    BY <2>1, <2>2 DEF CsrfInv, DumpInv
<1> QED
  BY <1>2, <1>3, <1>4, <1>5, <1>6, <1>7 DEF CsrfInv

\* Redis writes a dump, and comes back with it.
LEMMA CsrfDumps == ASSUME TypeInv, SessionInv, CsrfInv, RedisDumps PROVE CsrfInv'
<1>1. /\ dump'.ses = redisSes /\ dump'.csrf = redisCsrf
      /\ dump'.amidst = {req[r].sid : r \in {q \in Requests : req[q].at = "storeCsrf"}}
      /\ UNCHANGED <<redisSes, redisCsrf, req, session, handed, overlap>>
  BY DEF RedisDumps, stores, observers
<1>2. DumpInv'
  <2> SUFFICES ASSUME NEW s \in redisSes, s \notin redisCsrf, s \notin overlap,
                      \A q \in Requests : req[q].at = "storeCsrf" => req[q].sid # s
               PROVE  Unanswered(s)
    BY <1>1 DEF DumpInv, Unanswered
  <2>1. s \in Sids
    BY DEF TypeInv, TypeOK
  <2> QED
    BY <2>1 DEF Unanswered, SessionInv, Created, Unseen, CsrfInv, SessionHasCsrf
<1>3. GoneInv' /\ SessionHasCsrf'
  BY <1>1 DEF CsrfInv, GoneInv, Gone, SessionHasCsrf
<1>4. \A q, s : Accounted(q, s) => Accounted(q, s)'
  BY <1>1 DEF Accounted, Past
<1> QED
  BY <1>1, <1>2, <1>3, <1>4 DEF CsrfInv

LEMMA CsrfReturns == ASSUME TypeInv, SessionInv, CsrfInv, RedisRestarts PROVE CsrfInv'
<1>1. /\ redisSes' = dump.ses /\ redisCsrf' = dump.csrf
      /\ UNCHANGED <<req, session, handed, dump>>
      /\ overlap \subseteq overlap' /\ dump.amidst \subseteq overlap'
      /\ \A r \in Requests : req[r].at = "forget" => req[r].sid \in overlap'
      /\ SweepRunning => dump.ses \subseteq overlap'
  BY DEF RedisRestarts
<1>2. SessionHasCsrf'
  BY <1>1 DEF CsrfInv, DumpInv, Unanswered, SessionHasCsrf
<1>3. DumpInv'
  BY <1>1 DEF CsrfInv, DumpInv, Unanswered
<1>4. GoneInv'
  BY <1>1 DEF GoneInv, Gone, SweepRunning
<1>5. ASSUME NEW q \in Requests, req[q].at \in {"csrfKeys", "sweep", "sweepCsrf"}, NEW s,
             \/ Accounted(q, s)
             \/ s \in dump.csrf
      PROVE  Accounted(q, s)'
  <2>1. CASE s \in dump.ses
    BY <1>1, <1>5, <2>1 DEF SweepRunning, Accounted
  <2>2. CASE s \notin dump.ses /\ Accounted(q, s)
    BY <1>1, <2>2 DEF Accounted, Past
  <2>3. CASE s \notin dump.ses /\ s \in dump.csrf
    <3>1. s \in Sids
      BY <2>3 DEF TypeInv, TypeOK
    <3>2. Past(s)'
      BY <1>1, <2>3, <3>1 DEF Past, SessionInv, Created, Unseen, CsrfInv
    <3> QED
      BY <3>2 DEF Accounted
  <2> QED
    BY <1>5, <2>1, <2>2, <2>3
<1> QED
  BY <1>1, <1>2, <1>3, <1>4, <1>5 DEF CsrfInv

LEMMA CsrfNext == TypeInv /\ SessionInv /\ CsrfInv /\ [Next]_vars => CsrfInv'
<1> SUFFICES ASSUME TypeInv, SessionInv, CsrfInv, [Next]_vars PROVE CsrfInv'
  OBVIOUS
<1>1. ASSUME UNCHANGED <<session, handed, overlap, dump>>,
             \A q \in Requests : req'[q] = req[q] \/ req'[q].at = "idle",
             redisSes' \subseteq redisSes, redisCsrf' \subseteq redisCsrf,
             \A s \in redisCsrf \ redisCsrf' : s \notin redisSes'
      PROVE  CsrfInv'
  BY <1>1, CalmKeeps DEF Calm
<1>2. ASSUME NEW r \in Requests, RedisFails(r) PROVE CsrfInv'
  <2>0. /\ RequestStep(r) /\ End(r)
        /\ UNCHANGED <<session, handed, overlap, dump>>
    BY <1>2 DEF RedisFails, RequestStep, observers
  <2>1. CASE req[r].at = "store" /\ redisSes' = redisSes \cup {req[r].sid} /\ UNCHANGED redisCsrf
    BY <2>0, <2>1, CsrfStored
  <2>2. CASE req[r].at = "storeCsrf" /\ redisCsrf' = redisCsrf \cup {req[r].sid} /\ UNCHANGED redisSes
    BY <2>0, <2>2, CsrfAnswered
  <2>3. CASE redisSes' \subseteq redisSes /\ UNCHANGED redisCsrf
    BY <2>0, <2>3, CalmStep, CalmKeeps
  <2> QED
    BY <1>2, <2>1, <2>2, <2>3 DEF RedisFails
<1>3. ASSUME NEW r \in Requests, RequestStep(r) PROVE CsrfInv'
  <2>1. CASE StoreSession(r)
    BY <1>3, <2>1, CsrfStored DEF StoreSession, At
  <2>2. CASE StoreCsrf(r)
    BY <1>3, <2>2, CsrfAnswered DEF StoreCsrf, At
  <2> QED
    BY <1>2, <1>3, <2>1, <2>2, CsrfInMemory, CsrfListed, CsrfCalm DEF RequestStep
<1>4. ASSUME NEW p \in Procs, StartCounts(p) \/ StartInserts(p) \/ Connect(p) \/ Restart(p)
      PROVE  CsrfInv'
  <2>1. /\ UNCHANGED <<session, handed, overlap, redisSes, redisCsrf, dump>>
        /\ \A q \in Requests : req'[q] = req[q] \/ req'[q].at = "idle"
    BY <1>4 DEF StartCounts, StartInserts, Connect, Restart, stores, observers, Idle
  <2> QED
    BY <1>1, <2>1
<1>5. ASSUME NEW s \in Sids, Expire(s) \/ RedisExpires(s) PROVE CsrfInv'
  BY <1>1, <1>5 DEF Expire, RedisExpires, stores, observers
<1>6. CASE RedisDumps \/ RedisRestarts
  BY <1>6, CsrfDumps, CsrfReturns
<1>7. ASSUME NEW r \in Requests, NEW p \in Procs, NEW s \in Sids, NEW u \in Users,
             Login(r, p, s, u)
      PROVE  CsrfInv'
  <2>1. PICK role \in Roles : session' = [session EXCEPT ![s] = [user |-> u, told |-> role]]
    BY <1>7, LoginAnswers DEF TypeInv
  <2>2. role # "none"
    BY <2>1 DEF Roles
  <2>3. session'[s] # NotLoggedIn /\ \A t \in Sids \ {s} : session'[t] = session[t]
    BY <2>1, <2>2 DEF NotLoggedIn, TypeInv, TypeOK
  <2>4. /\ \A q \in Requests \ {r} : req'[q] = req[q]
        /\ req'[r].at = "store" /\ req'[r].sid = s /\ req[r].at = "idle"
        /\ session[s] = NotLoggedIn /\ UNCHANGED <<redisSes, redisCsrf, handed, overlap, dump>>
    BY <1>7 DEF Login, Idle, TypeInv, TypeOK, stores, observers
  <2> QED
    BY <2>3, <2>4, CsrfBegins
<1>8. ASSUME NEW r \in Requests, NEW p \in Procs, NEW s \in Sids, NEW task \in Tasks,
             CsrfMiddleware(r, p, s, task)
      PROVE  CsrfInv'
  <2>1. /\ \A q \in Requests \ {r} : req'[q] = req[q]
        /\ req'[r].at = "auth" /\ req'[r].sid = s /\ req[r].at = "idle" /\ s \in handed
        /\ UNCHANGED <<session, redisSes, redisCsrf, handed, overlap, dump>>
    BY <1>8 DEF CsrfMiddleware, Idle, TypeInv, TypeOK, stores
  <2> QED
    BY <2>1, CsrfBegins
<1>9. CASE UNCHANGED vars
  BY <1>1, <1>9 DEF vars, stores, observers
<1> QED
  BY <1>3, <1>4, <1>5, <1>6, <1>7, <1>8, <1>9, NextSplits

\* For any processes, requests and sessions, whatever restarts, fails or expires, a
\* session in Redis that a client was given has its CSRF token, unless its login met a
\* global logout (auth.py, create_session, destroy_session, destroy_all_sessions).
THEOREM SessionsKeepTheirCsrf == Spec => []SessionHasCsrf
<1>1. Init => CsrfInv
  BY DEF Init, CsrfInv, SessionHasCsrf, DumpInv, GoneInv, Idle
<1>2. CsrfInv => SessionHasCsrf
  BY DEF CsrfInv
<1> QED
  BY <1>1, <1>2, TypeInit, TypeNext, SessionInit, SessionNext, CsrfNext, PTL DEF Spec

=============================================================================
