------------------------------ MODULE Detection ------------------------------
(***************************************************************************)
(* Detection in the API process: the people of the directory and the terms *)
(* of the dictionaries, which the settings routes exchange while console   *)
(* scans read them (detectors/ldap_detector.py, ldap_client.py,            *)
(* dictionary_detector.py, core/circuit_breaker.py), and what becomes of   *)
(* findings that overlap (detectors/engine.py).                            *)
(*                                                                         *)
(* Three kinds of threads: the event loop, on which the routes run one at  *)
(* a time; the thread that refreshes the cache of the directory; and the   *)
(* scans in the thread pool.  Only this process is ever configured for     *)
(* LDAP: the workers that scan files have no such state.                   *)
(***************************************************************************)
EXTENDS Naturals

CONSTANTS
    Scans,         \* bound: the scans at a time
    Configs,       \* bound: the configurations posted, the n-th being n
    Enabled,       \* those that enable LDAP
    Versions,      \* bound: the states the directory goes through
    Files,         \* the dictionary files
    Reloads,       \* bound: reloads of the dictionaries
    Threshold,     \* failure_threshold of the breaker
    MaxFaults      \* bound: failures while matching

ASSUME BoundsAssumption ==
    /\ Configs \in Nat /\ Enabled \subseteq 1..Configs
    /\ Versions \in Nat \ {0} /\ Files \in Nat \ {0} /\ Reloads \in Nat
    /\ Threshold \in Nat \ {0} /\ MaxFaults \in Nat

VARIABLES
    directory,  \* the version of the directory
    posted,     \* the configurations posted so far
    config,     \* _ldap_config, 0 if there is none: what new scans use
    cached,     \* the _config of the cache
    at,         \* at[x]: where a refresh is
    used,       \* used[x]: the configuration of its client
    answer,     \* answer[x]: what the directory answered
    lock,       \* the lock of the cache, held while structures are exchanged
    accounts,   \* _accounts_set and _account_to_canonical
    names,      \* _fullname_set and _fullname_reverse_map
    breaker,    \* _LDAP_CIRCUIT_BREAKER
    scan,       \* scan[t]: a scan and its local variables
    terms,      \* _terms: which of the lists it is
    lists,      \* lists[n]: the files whose terms are in the n-th list, and the files
                \* that could not be read for it (an observer)
    faults      \* failures so far

ldap == <<directory, posted, config, cached, at, used, answer, lock>>
vars == <<ldap, accounts, names, breaker, scan, terms, lists, faults>>

Refreshers == {"loop", "route"}
Nobody == "nobody"

\* What the lookup structures are built from: nothing, or entries of one version
\* of the directory, asked for with one configuration; all of them, unless cut.
Empty == [version |-> 0, by |-> 0, cut |-> FALSE]
Answer == [version : 0..Versions, by : 0..Configs, cut : BOOLEAN]

NextChunk(cfg) == [at |-> "chunk", cfg |-> cfg, accounts |-> Empty,
                   names |-> Empty, list |-> 0, early |-> FALSE]

TypeOK ==
    /\ directory \in 1..Versions
    /\ posted \in 0..Configs /\ config \in 0..Configs /\ cached \in 0..Configs
    /\ at \in [Refreshers -> {"none", "wait", "check", "client", "query", "swap",
                              "names", "post", "fill"}]
    /\ used \in [Refreshers -> 0..Configs]
    /\ answer \in [Refreshers -> Answer]
    /\ lock \in Refreshers \cup {Nobody}
    /\ accounts \in Answer /\ names \in Answer
    /\ breaker \in [state : {"CLOSED", "OPEN", "HALF-OPEN"},
                    failures : 0..MaxFaults, elapsed : BOOLEAN]
    /\ scan \in [Scans -> [at : {"chunk", "listed", "terms", "ldap", "lookup", "match"},
                           cfg : 0..Configs, accounts : Answer, names : Answer,
                           list : 0..Reloads, early : BOOLEAN]]
    /\ terms \in 0..Reloads
    /\ lists \in [0..Reloads -> [loaded : 0..Files, failed : 0..Files]]
    /\ faults \in 0..MaxFaults

Init ==
    /\ directory = 1
    /\ posted = 0 /\ config = 0 /\ cached = 0
    /\ at = [x \in Refreshers |-> IF x = "loop" THEN "none" ELSE "wait"]
    /\ used = [x \in Refreshers |-> 0]
    /\ answer = [x \in Refreshers |-> Empty]
    /\ lock = Nobody
    /\ accounts = Empty /\ names = Empty
    /\ breaker = [state |-> "CLOSED", failures |-> 0, elapsed |-> FALSE]
    /\ scan = [t \in Scans |-> NextChunk(0)]
    /\ terms = 0
    /\ \E n \in 0..Files :
          lists = [l \in 0..Reloads |-> IF l = 0 THEN [loaded |-> n, failed |-> Files - n]
                                        ELSE [loaded |-> 0, failed |-> 0]]
    /\ faults = 0

Goto(x, place) == at' = [at EXCEPT ![x] = place]

-----------------------------------------------------------------------------
(* Configuring: the variable for new scans, then the cache under its lock. *)

PostConfig ==
    /\ at["route"] = "wait" /\ posted < Configs
    /\ posted' = posted + 1
    /\ config' = posted + 1
    /\ Goto("route", "post")
    /\ UNCHANGED <<directory, cached, used, answer, lock, accounts, names,
                   breaker, scan, terms, lists, faults>>

\* The thread is started if it does not run yet; it is never stopped.
Configure ==
    /\ at["route"] = "post" /\ lock = Nobody
    /\ cached' = posted
    /\ at' = [at EXCEPT !["route"] = "wait",
                        !["loop"] = IF @ = "none" /\ posted \in Enabled
                                    THEN "check" ELSE @]
    /\ UNCHANGED <<directory, posted, config, used, answer, lock, accounts,
                   names, breaker, scan, terms, lists, faults>>

DirectoryChanges ==
    /\ directory < Versions /\ directory' = directory + 1
    /\ UNCHANGED <<posted, config, cached, at, used, answer, lock, accounts,
                   names, breaker, scan, terms, lists, faults>>

-----------------------------------------------------------------------------
(* A refresh, by the thread after its interval or by a route.              *)

Asleep(x) == at[x] = "wait"

StartRefresh(x) ==
    /\ Asleep(x)
    /\ Goto(x, "check")
    /\ UNCHANGED <<directory, posted, config, cached, used, answer, lock,
                   accounts, names, breaker, scan, terms, lists, faults>>

CheckEnabled(x) ==
    /\ at[x] = "check"
    /\ Goto(x, IF cached \in Enabled THEN "client" ELSE "wait")
    /\ UNCHANGED <<directory, posted, config, cached, used, answer, lock,
                   accounts, names, breaker, scan, terms, lists, faults>>

\* The configuration is read again for the client.
NewClient(x) ==
    /\ at[x] = "client"
    /\ used' = [used EXCEPT ![x] = cached]
    /\ Goto(x, "query")
    /\ UNCHANGED <<directory, posted, config, cached, answer, lock, accounts,
                   names, breaker, scan, terms, lists, faults>>

\* What a search gives that ends without an exception: the entries, some of them
\* (max_entries; a fallback search at one of its limits), or none (a fallback search
\* with any other result code, which nobody looks at).
Found(cfg) ==
    {[version |-> directory, by |-> cfg, cut |-> c] : c \in BOOLEAN}
        \cup {[Empty EXCEPT !.cut = TRUE]}

\* query_users: pages, or a simple search if they fail.  A client whose
\* configuration was disabled in the meantime answers with no entries.
Query(x) ==
    /\ at[x] = "query"
    /\ \E a \in (IF used[x] \in Enabled THEN Found(used[x]) ELSE {Empty}) :
          answer' = [answer EXCEPT ![x] = a]
    /\ Goto(x, "swap")
    /\ UNCHANGED <<directory, posted, config, cached, used, lock, accounts,
                   names, breaker, scan, terms, lists, faults>>

(* Wrong on purpose: a failed query is an empty answer; it ends the thread. *)
QueryFailsEmpty(x) ==
    /\ at[x] = "query" /\ used[x] \in Enabled
    /\ Goto(x, "swap")
    /\ answer' = [answer EXCEPT ![x] = Empty]
    /\ UNCHANGED <<directory, posted, config, cached, used, lock, accounts,
                   names, breaker, scan, terms, lists, faults>>
QueryFailsRaises(x) ==
    /\ at[x] = "query" /\ used[x] \in Enabled
    /\ Goto(x, IF x = "loop" THEN "none" ELSE "wait")
    /\ used' = [used EXCEPT ![x] = 0]
    /\ UNCHANGED <<directory, posted, config, cached, answer, lock, accounts,
                   names, breaker, scan, terms, lists, faults>>

\* An exception of the query is caught; the refresh ends and nothing is cleared.
QueryFails(x) ==
    /\ at[x] = "query" /\ used[x] \in Enabled
    /\ Goto(x, "wait")
    /\ used' = [used EXCEPT ![x] = 0]
    /\ UNCHANGED <<directory, posted, config, cached, answer, lock, accounts,
                   names, breaker, scan, terms, lists, faults>>

SwapAccounts(x) ==
    /\ at[x] = "swap" /\ lock = Nobody
    /\ lock' = x
    /\ accounts' = answer[x]
    /\ Goto(x, "names")
    /\ UNCHANGED <<directory, posted, config, cached, used, answer, names,
                   breaker, scan, terms, lists, faults>>

SwapNames(x) ==
    /\ at[x] = "names"
    /\ names' = answer[x]
    /\ lock' = Nobody
    /\ Goto(x, "wait")
    /\ used' = [used EXCEPT ![x] = 0]
    /\ answer' = [answer EXCEPT ![x] = Empty]
    /\ UNCHANGED <<directory, posted, config, cached, accounts, breaker, scan,
                   terms, lists, faults>>

-----------------------------------------------------------------------------
(* Reload of the dictionaries: a new list, then the files one by one.      *)

(* Wrong on purpose: the list in use is emptied and filled again.          *)
ReloadInPlace ==
    /\ at["route"] = "wait" /\ terms < Reloads
    /\ lists' = [lists EXCEPT ![terms] = [loaded |-> 0, failed |-> 0]]
    /\ Goto("route", "fill")
    /\ UNCHANGED <<directory, posted, config, cached, used, answer, lock,
                   accounts, names, breaker, scan, terms, faults>>

Reload ==
    /\ at["route"] = "wait" /\ terms < Reloads
    /\ terms' = terms + 1
    /\ Goto("route", "fill")
    /\ UNCHANGED <<directory, posted, config, cached, used, answer, lock,
                   accounts, names, breaker, scan, lists, faults>>

Seen(n) == lists[n].loaded + lists[n].failed

(* Wrong on purpose: one file too many.                                    *)
LoadFileOnceMore ==
    /\ at["route"] = "fill"
    /\ \/ lists' = [lists EXCEPT ![terms].loaded = @ + 1]
       \/ lists' = [lists EXCEPT ![terms].failed = @ + 1]
    /\ Goto("route", IF Seen(terms) = Files THEN "wait" ELSE "fill")
    /\ UNCHANGED <<directory, posted, config, cached, used, answer, lock,
                   accounts, names, breaker, scan, terms, faults>>

\* A file that cannot be read is logged and left out; if the whole directory is
\* missing, every file is.
LoadFile ==
    /\ at["route"] = "fill"
    /\ \/ lists' = [lists EXCEPT ![terms].loaded = @ + 1]
       \/ lists' = [lists EXCEPT ![terms].failed = @ + 1]
    /\ Goto("route", IF Seen(terms) + 1 = Files THEN "wait" ELSE "fill")
    /\ UNCHANGED <<directory, posted, config, cached, used, answer, lock,
                   accounts, names, breaker, scan, terms, faults>>

-----------------------------------------------------------------------------
(* A scan: a chunk after the other, each searched for terms and for people. *)

ScanStep == UNCHANGED <<ldap, accounts, names, terms, lists>>

EndChunk(t) == scan' = [scan EXCEPT ![t] = NextChunk(@.cfg)]

AfterTerms(t) == scan' = [scan EXCEPT ![t] =
    [NextChunk(@.cfg) EXCEPT !.at = IF scan[t].cfg \in Enabled THEN "ldap" ELSE "chunk"]]

\* The LDAP detector is added if LDAP is enabled, and keeps the configuration
\* for all chunks of the scan.
BeginScan(t) ==
    /\ scan[t].at = "chunk" /\ scan[t].cfg # config
    /\ scan' = [scan EXCEPT ![t].cfg = config]
    /\ ScanStep /\ UNCHANGED <<breaker, faults>>

\* detect reads the list twice, once to see whether it is empty and once to walk
\* through it; early notes whether a reload was going on at either time.
BeginTerms(t) ==
    /\ scan[t].at = "chunk"
    /\ IF lists[terms].loaded = 0 THEN AfterTerms(t)
       ELSE scan' = [scan EXCEPT ![t].at = "listed", ![t].early = at["route"] = "fill"]
    /\ ScanStep /\ UNCHANGED <<breaker, faults>>

\* The walk ends at the end its list has by then.
WalkTerms(t) ==
    /\ scan[t].at = "listed"
    /\ scan' = [scan EXCEPT ![t].at = "terms", ![t].list = terms,
                            ![t].early = @ \/ at["route"] = "fill"]
    /\ ScanStep /\ UNCHANGED <<breaker, faults>>

EndTerms(t) ==
    /\ scan[t].at = "terms"
    /\ AfterTerms(t)
    /\ ScanStep /\ UNCHANGED <<breaker, faults>>

\* is_open; if the breaker is open the chunk goes without people.
Admit(t) ==
    /\ scan[t].at = "ldap"
    /\ breaker.state = "OPEN" => breaker.elapsed
    /\ breaker' = IF breaker.state = "OPEN"
                  THEN [breaker EXCEPT !.state = "HALF-OPEN"] ELSE breaker
    /\ scan' = [scan EXCEPT ![t].at = "lookup"]
    /\ ScanStep /\ UNCHANGED faults

Skip(t) ==
    /\ scan[t].at = "ldap"
    /\ breaker.state = "OPEN" /\ ~breaker.elapsed
    /\ EndChunk(t)
    /\ ScanStep /\ UNCHANGED <<breaker, faults>>

(* Wrong on purpose: without the lock.                                     *)
LookupUnlocked(t) ==
    /\ scan[t].at = "lookup"
    /\ scan' = [scan EXCEPT ![t].at = "match", ![t].accounts = accounts,
                            ![t].names = names]
    /\ ScanStep /\ UNCHANGED <<breaker, faults>>

Lookup(t) ==
    /\ scan[t].at = "lookup" /\ lock = Nobody
    /\ scan' = [scan EXCEPT ![t].at = "match", ![t].accounts = accounts,
                            ![t].names = names]
    /\ ScanStep /\ UNCHANGED <<breaker, faults>>

(* Wrong on purpose: a success of a call that was admitted before the breaker
   opened does not close it.                                               *)
MatchSucceedsOnTrial(t) ==
    /\ scan[t].at = "match"
    /\ breaker' = [breaker EXCEPT !.failures = 0, !.elapsed = FALSE,
                                  !.state = IF @ = "OPEN" THEN @ ELSE "CLOSED"]
    /\ EndChunk(t)
    /\ ScanStep /\ UNCHANGED faults

\* record_success, from whatever state.
MatchSucceeds(t) ==
    /\ scan[t].at = "match"
    /\ breaker' = [breaker EXCEPT !.state = "CLOSED", !.failures = 0,
                                  !.elapsed = FALSE]
    /\ EndChunk(t)
    /\ ScanStep /\ UNCHANGED faults

\* record_failure; the engine drops the exception with the findings.
MatchFails(t) ==
    /\ scan[t].at = "match" /\ faults < MaxFaults
    /\ faults' = faults + 1
    /\ breaker' = [state |-> IF breaker.failures + 1 >= Threshold
                             THEN "OPEN" ELSE breaker.state,
                   failures |-> breaker.failures + 1, elapsed |-> FALSE]
    /\ EndChunk(t)
    /\ ScanStep

\* The recovery timeout since the last failure is over.
Elapse ==
    /\ breaker.state = "OPEN" /\ ~breaker.elapsed
    /\ breaker' = [breaker EXCEPT !.elapsed = TRUE]
    /\ UNCHANGED <<ldap, accounts, names, scan, terms, lists, faults>>

Refresh(x) ==
    \/ StartRefresh(x) \/ CheckEnabled(x) \/ NewClient(x)
    \/ Query(x) \/ QueryFails(x) \/ SwapAccounts(x) \/ SwapNames(x)

Next ==
    \/ PostConfig \/ Configure \/ DirectoryChanges
    \/ \E x \in Refreshers : Refresh(x)
    \/ Reload \/ LoadFile
    \/ \E t \in Scans :
         \/ BeginScan(t) \/ BeginTerms(t) \/ WalkTerms(t) \/ EndTerms(t)
         \/ Admit(t) \/ Skip(t) \/ Lookup(t) \/ MatchSucceeds(t) \/ MatchFails(t)
    \/ Elapse

Spec == Init /\ [][Next]_vars

\* The refreshing thread sleeps for a finite interval and is scheduled; a route
\* that has begun goes on; and the directory answers now and again.
Fairness ==
    /\ WF_vars(Configure)
    /\ \A x \in Refreshers :
         WF_vars(CheckEnabled(x) \/ NewClient(x) \/ Query(x) \/ SwapNames(x))
    /\ \A x \in Refreshers : SF_vars(SwapAccounts(x))
    /\ WF_vars(StartRefresh("loop")) /\ SF_vars(Query("loop"))

FairSpec == Spec /\ Fairness

-----------------------------------------------------------------------------
(* Properties.                                                             *)

\* A chunk is matched against accounts and names that one answer of the directory
\* gave, although two threads exchange the structures one by one while others
\* read them (LdapCache, under its lock).
SetsFromOneAnswer ==
    \A t \in Scans : scan[t].at = "match" => scan[t].accounts = scan[t].names

\* The breaker is closed exactly while fewer than Threshold failures have gone by
\* since the last success: a failed trial opens it again at once, and the success
\* of any call closes it, also of one admitted before other scans opened it
\* (CircuitBreaker).
BreakerCounts == breaker.state = "CLOSED" <=> breaker.failures < Threshold

\* A chunk that is searched for terms, and during neither of whose two reads of the
\* list a reload was going on, is searched for the terms of every file that could
\* be read when that list was filled, even if reloads begin between the reads or
\* while it is searched.
TermsKnown ==
    \A t \in Scans : scan[t].at = "terms" /\ ~scan[t].early => Seen(scan[t].list) = Files

Forgotten == accounts.version # 0 /\ accounts'.version = 0
Disabled == \E c \in 1..posted : c \notin Enabled
CutShort == \E x \in Refreshers : at[x] = "swap" /\ at'[x] = "names" /\ answer[x].cut

\* People once known stay known while LDAP is enabled: a query that ends with an
\* exception does not empty the cache, nor does a refresh that another overtakes.
\* Two things do: a search of the directory that was cut short but raised nothing, and
\* a configuration that was disabled after a refresh had passed its check.
PeopleKept == [][Forgotten => Disabled \/ CutShort]_vars

\* When the configuration and the directory no longer change and no answer is cut
\* short any more, the cache holds in the end what the directory has, by that
\* configuration: the refresh of the interval makes up for failed queries, for
\* truncated answers and for an older answer that was stored after a newer one.
FreshInTheEnd ==
    \A c \in Enabled, v \in 1..Versions :
        <>[](cached = c /\ directory = v /\ \A x \in Refreshers : ~answer[x].cut)
            => <>[](accounts = [version |-> v, by |-> c, cut |-> FALSE] /\ names = accounts)

=============================================================================
