------------------------------ MODULE MCAccess ------------------------------
(***************************************************************************)
(* Access for TLC: processes, requests and sessions are alike.             *)
(***************************************************************************)
EXTENDS Access, TLC

Symmetry == Permutations(Procs) \cup Permutations(Requests) \cup Permutations(Sids)

CONSTANTS adm, usr

\* AUTH_USERNAME has a capital: usr is the same name in lower case.
MCClean == [u \in Users |-> usr]

Task(op, target, role) == [op |-> op, target |-> target, role |-> role, cookie |-> TRUE]

\* A logout with a Bearer token, and the accounts an administrator adds, changes
\* and removes, among them the own.
MCTasks ==
    { [Task("logout", adm, "operator") EXCEPT !.cookie = FALSE],
      Task("logout", adm, "operator"),
      Task("logoutAll", adm, "operator"),
      Task("create", usr, "admin"),
      Task("role", adm, "operator"),
      Task("password", usr, "operator"),
      Task("delete", adm, "operator"),
      Task("delete", usr, "operator") }

=============================================================================
