---------------------------- MODULE RateLimiter ----------------------------
(***************************************************************************)
(* The sliding-window rate limiter (core/rate_limit.py): a window shared   *)
(* by all API processes in a Redis sorted set, and one window per process  *)
(* in memory that takes over whenever Redis does not answer.  A process    *)
(* answers one request at a time: the routes are coroutines that call the  *)
(* limiter without an await.  What interleaves are the processes, the      *)
(* cleanup thread of each, and the clock, which goes on between reading it *)
(* and using what was read.                                                *)
(***************************************************************************)
EXTENDS Integers, FiniteSets

CONSTANTS
    Procs,        \* the API processes (uvicorn workers)
    Keys,         \* the buckets, one for each scope and client address
    NoKey,        \* no request
    Limit,        \* requests admitted for each window
    Window,       \* its length (window_seconds)
    Slack,        \* what the key lives longer than the window (10 s)
    Delay,        \* bound: ticks between reading the clock and the answer
    Retry,        \* _REDIS_RETRY_INTERVAL_SECONDS
    TTL,          \* RATE_LIMIT_CLEANUP_TTL_SECONDS
    MaxClients,   \* RATE_LIMIT_MAX_CLIENTS
    MaxTime,      \* bound: the last instant
    MaxRequests,  \* bound: the requests in all
    MaxFaults     \* bound: failed Redis calls and restarts in all

ASSUME BoundsAssumption ==
    /\ Limit \in Nat \ {0} /\ Window \in Nat \ {0} /\ Slack \in Nat
    /\ Delay \in Nat /\ Retry \in Nat /\ TTL \in Nat /\ MaxClients \in Nat
    /\ MaxTime \in Nat /\ MaxRequests \in Nat /\ MaxFaults \in Nat

\* The socket timeouts (0.3 s) are short beside the window, and a bucket is
\* kept longer than the window (300 s against 60 s).
ASSUME TimingAssumption == Delay < Window /\ Window <= TTL

ASSUME NamesAssumption == "redis" \notin Procs /\ NoKey \notin Keys

VARIABLES
    clock,      \* time.time()
    window,     \* window[k]: the members (instants) of rate_limit:{k} in Redis
    dump,       \* the last RDB file of Redis, and what was true when it was written
    client,     \* client[p]: whether p has a cached Redis client
    lastCheck,  \* lastCheck[p]: the last attempt of p to connect, -1 if none
    held,       \* held[p]: the buckets p has in memory
    newer,      \* newer[p][k]: those used since bucket k was
    stamps,     \* stamps[p][k]: the timestamps of a bucket, with their request
    last,       \* last[p][k]: its last_access
    pc,         \* pc[p]: where the request of p is
    key,        \* key[p]: its bucket
    now,        \* now[p]: the instant it read before asking Redis
    served,     \* requests begun so far
    faults,     \* failures so far
    log,        \* observer: the admissions of the last window
    errored     \* observer: recent requests a Redis call failed on, and refusals
                \* that a restart of Redis brought back

memory == <<held, newer, stamps, last>>
limiter == <<window, dump, client, lastCheck, memory>>
request == <<pc, key, now>>
observers == <<log, errored>>
vars == <<clock, limiter, request, served, faults, observers>>

Time == 0..MaxTime
Stamp == [id : 1..MaxRequests, at : Time]
Admission == [id : 1..MaxRequests, key : Keys, by : Procs \cup {"redis"},
              stamp : Time, at : Time]

Request == [key : Keys, stamp : Time]

Types ==
    /\ clock \in Time
    /\ window \in [Keys -> SUBSET Time]
    /\ dump \in [window : [Keys -> SUBSET Time], log : SUBSET Admission,
                 undone : SUBSET Request]
    /\ client \in [Procs -> BOOLEAN]
    /\ lastCheck \in [Procs -> Time \cup {-1}]
    /\ held \in [Procs -> SUBSET Keys]
    /\ newer \in [Procs -> [Keys -> SUBSET Keys]]
    /\ stamps \in [Procs -> [Keys -> SUBSET Stamp]]
    /\ last \in [Procs -> [Keys -> Time]]
    /\ pc \in [Procs -> {"idle", "check", "undo", "oldest", "memory"}]
    /\ key \in [Procs -> Keys \cup {NoKey}]
    /\ now \in [Procs -> Time]
    /\ served \in 0..MaxRequests
    /\ faults \in 0..MaxFaults
    /\ log \subseteq Admission
    /\ errored \subseteq Request

\* The type invariant: besides the types of the variables, the size of a bucket,
\* which never holds more timestamps than requests it may admit.
TypeOK ==
    /\ Types
    /\ \A p \in Procs, k \in Keys : Cardinality(stamps[p][k]) <= Limit

Init ==
    /\ clock = 0
    /\ window = [k \in Keys |-> {}]
    /\ dump = [window |-> window, log |-> {}, undone |-> {}]
    /\ client = [p \in Procs |-> FALSE]
    /\ lastCheck = [p \in Procs |-> -1]
    /\ held = [p \in Procs |-> {}]
    /\ newer = [p \in Procs |-> [k \in Keys |-> {}]]
    /\ stamps = [p \in Procs |-> [k \in Keys |-> {}]]
    /\ last = [p \in Procs |-> [k \in Keys |-> 0]]
    /\ pc = [p \in Procs |-> "idle"]
    /\ key = [p \in Procs |-> NoKey]
    /\ now = [p \in Procs |-> 0]
    /\ served = 0
    /\ faults = 0
    /\ log = {}
    /\ errored = {}

-----------------------------------------------------------------------------
(* The request, up to the choice of the storage.                           *)

Goto(p, label) == pc' = [pc EXCEPT ![p] = label]

\* The request is answered; its local variables are gone.
Answer(p) ==
    /\ Goto(p, "idle")
    /\ key' = [key EXCEPT ![p] = NoKey]
    /\ now' = [now EXCEPT ![p] = 0]

\* The observer: a member of the sorted set stands for one admission.  A
\* second request of the same instant takes it over, and its removal removes
\* it for both.
Owners(k, t) == {e \in log : e.by = "redis" /\ e.key = k /\ e.stamp = t}

Admit(p, by, t) ==
    [id |-> served, key |-> key[p], by |-> by, stamp |-> t, at |-> clock]

\* A process that failed to reach Redis a moment ago does not try again.
RetryDue(p) == lastCheck[p] = -1 \/ clock - lastCheck[p] >= Retry

\* The instant is read before the client is asked for (429-432).
Begin(p, k) ==
    /\ pc[p] = "idle" /\ served < MaxRequests
    /\ served' = served + 1
    /\ key' = [key EXCEPT ![p] = k]
    /\ now' = [now EXCEPT ![p] = clock]

BeginCached(p, k) ==
    /\ client[p]
    /\ Begin(p, k) /\ Goto(p, "check")
    /\ UNCHANGED <<clock, limiter, faults, observers>>

BeginConnects(p, k) ==
    /\ ~client[p] /\ RetryDue(p)
    /\ Begin(p, k) /\ Goto(p, "check")
    /\ client' = [client EXCEPT ![p] = TRUE]
    /\ lastCheck' = [lastCheck EXCEPT ![p] = clock]
    /\ UNCHANGED <<clock, window, dump, memory, faults, observers>>

\* The ping fails or takes more than 0.3 s.
BeginFails(p, k) ==
    /\ ~client[p] /\ RetryDue(p) /\ faults < MaxFaults
    /\ Begin(p, k) /\ Goto(p, "memory")
    /\ lastCheck' = [lastCheck EXCEPT ![p] = clock]
    /\ faults' = faults + 1
    /\ UNCHANGED <<clock, window, dump, client, memory, observers>>

BeginTooSoon(p, k) ==
    /\ ~client[p] /\ ~RetryDue(p)
    /\ Begin(p, k) /\ Goto(p, "memory")
    /\ UNCHANGED <<clock, limiter, faults, observers>>

-----------------------------------------------------------------------------
(* The shared window.                                                      *)

(* Wrong on purpose: the window ends one instant too early.                *)
RecentTooShort(p) == {t \in window[key[p]] : t > now[p] - Window + 1}

\* ZREMRANGEBYSCORE removes what is at or before the cutoff.
Recent(p) == {t \in window[key[p]] : t > now[p] - Window}

Counted(p) == [window EXCEPT ![key[p]] = Recent(p) \cup {now[p]}]

\* The pipeline: remove, count, add and set the expiry in one transaction.
Check(p) ==
    /\ pc[p] = "check"
    /\ window' = Counted(p)
    /\ \/ /\ Cardinality(Recent(p)) >= Limit
          /\ Goto(p, "undo")
          /\ log' = log \ Owners(key[p], now[p])
       \/ /\ Cardinality(Recent(p)) < Limit
          /\ Goto(p, "oldest")
          /\ log' = (log \ Owners(key[p], now[p])) \cup {Admit(p, "redis", now[p])}
    /\ UNCHANGED <<clock, dump, client, lastCheck, memory, key, now,
                   served, faults, errored>>

(* Wrong on purpose: what a refused request added stays.                   *)
UndoNothing(p) ==
    /\ pc[p] = "undo"
    /\ Answer(p)
    /\ UNCHANGED <<clock, limiter, served, faults, observers>>

\* Over the limit: what the pipeline added is removed and the request refused.
Undo(p) ==
    /\ pc[p] = "undo"
    /\ window' = [window EXCEPT ![key[p]] = @ \ {now[p]}]
    /\ log' = log \ Owners(key[p], now[p])
    /\ Answer(p)
    /\ UNCHANGED <<clock, dump, client, lastCheck, memory, served,
                   faults, errored>>

\* Within it: the oldest member is read for the answer's reset time.
Oldest(p) ==
    /\ pc[p] = "oldest"
    /\ Answer(p)
    /\ UNCHANGED <<clock, limiter, served, faults, observers>>

\* Any Redis error gives the client up, allows an attempt at once and sends
\* the request to the memory.  A call that timed out may have been executed.
GiveUp(p) ==
    /\ faults < MaxFaults /\ faults' = faults + 1
    /\ client' = [client EXCEPT ![p] = FALSE]
    /\ lastCheck' = [lastCheck EXCEPT ![p] = -1]
    /\ errored' = errored \cup {[key |-> key[p], stamp |-> now[p]]}
    /\ Goto(p, "memory")
    /\ UNCHANGED <<clock, dump, memory, key, now, served>>

CheckFails(p) ==
    /\ pc[p] = "check"
    /\ GiveUp(p)
    /\ \/ window' = Counted(p) /\ log' = log \ Owners(key[p], now[p])
       \/ UNCHANGED <<window, log>>

UndoFails(p) ==
    /\ pc[p] = "undo"
    /\ GiveUp(p)
    /\ \/ /\ window' = [window EXCEPT ![key[p]] = @ \ {now[p]}]
          /\ log' = log \ Owners(key[p], now[p])
       \/ UNCHANGED <<window, log>>

\* The request is counted in the shared window and will be in the memory too.
OldestFails(p) ==
    /\ pc[p] = "oldest"
    /\ GiveUp(p)
    /\ log' = log \ Owners(key[p], now[p])
    /\ UNCHANGED window

\* The key expires some seconds after the last request that counted.
RedisExpires(k) ==
    /\ window[k] # {} /\ \A t \in window[k] : clock > t + Window + Slack
    /\ window' = [window EXCEPT ![k] = {}]
    /\ UNCHANGED <<clock, dump, client, lastCheck, memory, request,
                   served, faults, observers>>

\* Redis writes an RDB file now and then (docker-compose.yml gives it a volume and
\* leaves the default save points on).
RedisDumps ==
    /\ faults < MaxFaults
    /\ dump' = [window |-> window,
                log    |-> {e \in log : e.by = "redis"},
                undone |-> {[key |-> key[p], stamp |-> now[p]] :
                               p \in {q \in Procs : pc[q] = "undo"}}]
    /\ UNCHANGED <<clock, window, client, lastCheck, memory, request,
                   served, faults, observers>>

\* A restarted Redis has the windows of its last dump.  The observer goes back to
\* the admissions these know of, and notes the refusals they have come back with.
RedisRestarts ==
    /\ faults < MaxFaults /\ faults' = faults + 1
    /\ window' = dump.window
    /\ log' = {e \in log : e.by # "redis"} \cup {e \in dump.log : e.at > clock - Window}
    /\ errored' = errored \cup {u \in dump.undone : u.stamp > clock - Window}
    /\ UNCHANGED <<clock, dump, client, lastCheck, memory, request, served>>

-----------------------------------------------------------------------------
(* The window in memory.                                                   *)

\* The bucket is made, or moves to the end (an OrderedDict).
MoveToEnd(p) ==
    /\ held' = [held EXCEPT ![p] = @ \cup {key[p]}]
    /\ newer' = [newer EXCEPT ![p] =
                    [k \in Keys |-> IF k \in held[p] \ {key[p]}
                                    THEN newer[p][k] \cup {key[p]} ELSE {}]]

\* The timestamps that are not before the cutoff.
Fresh(p) == {s \in stamps[p][key[p]] : s.at >= clock - Window}

(* Wrong on purpose: a full bucket takes one request more.                 *)
MemoryAdmitsWhenFull(p) ==
    /\ pc[p] = "memory" /\ Cardinality(Fresh(p)) <= Limit
    /\ MoveToEnd(p)
    /\ stamps' = [stamps EXCEPT ![p][key[p]] =
                     Fresh(p) \cup {[id |-> served, at |-> clock]}]
    /\ last' = [last EXCEPT ![p][key[p]] = clock]
    /\ log' = log \cup {Admit(p, p, clock)}
    /\ Answer(p)
    /\ UNCHANGED <<clock, window, dump, client, lastCheck, served, faults, errored>>

(* Wrong on purpose: last_access stays at the creation of the bucket.      *)
MemoryAdmitsUnseen(p) ==
    /\ pc[p] = "memory" /\ Cardinality(Fresh(p)) < Limit
    /\ MoveToEnd(p)
    /\ stamps' = [stamps EXCEPT ![p][key[p]] =
                     Fresh(p) \cup {[id |-> served, at |-> clock]}]
    /\ log' = log \cup {Admit(p, p, clock)}
    /\ Answer(p)
    /\ UNCHANGED <<clock, window, dump, client, lastCheck, last, served, faults, errored>>

\* check_limit: a bucket moves to the end, is filtered and, if there is room,
\* receives the request; last_access follows admissions only.
MemoryAdmits(p) ==
    /\ pc[p] = "memory" /\ Cardinality(Fresh(p)) < Limit
    /\ MoveToEnd(p)
    /\ stamps' = [stamps EXCEPT ![p][key[p]] =
                     Fresh(p) \cup {[id |-> served, at |-> clock]}]
    /\ last' = [last EXCEPT ![p][key[p]] = clock]
    /\ log' = log \cup {Admit(p, p, clock)}
    /\ Answer(p)
    /\ UNCHANGED <<clock, window, dump, client, lastCheck, served, faults, errored>>

MemoryRefuses(p) ==
    /\ pc[p] = "memory" /\ Cardinality(Fresh(p)) >= Limit
    /\ MoveToEnd(p)
    /\ stamps' = [stamps EXCEPT ![p][key[p]] = Fresh(p)]
    /\ Answer(p)
    /\ UNCHANGED <<clock, window, dump, client, lastCheck, last, served, faults,
                   observers>>

\* The cleanup thread: buckets without an admission for TTL go, then the least
\* recently used ones beyond the maximum.  The observer forgets the admissions
\* of an evicted bucket.
Live(p) == {k \in held[p] : last[p][k] >= clock - TTL}

(* Wrong on purpose: one bucket too many stays.                            *)
EvictedLate(p) == {k \in Live(p) : Cardinality(newer[p][k] \cap Live(p)) > MaxClients}

Evicted(p) == {k \in Live(p) : Cardinality(newer[p][k] \cap Live(p)) >= MaxClients}

Kept(p) == Live(p) \ Evicted(p)

Cleanup(p) ==
    /\ held[p] # Kept(p)
    /\ held' = [held EXCEPT ![p] = Kept(p)]
    /\ newer' = [newer EXCEPT ![p] =
                    [k \in Keys |-> IF k \in Kept(p) THEN @[k] \cap Kept(p) ELSE {}]]
    /\ stamps' = [stamps EXCEPT ![p] =
                     [k \in Keys |-> IF k \in Kept(p) THEN @[k] ELSE {}]]
    /\ last' = [last EXCEPT ![p] =
                   [k \in Keys |-> IF k \in Kept(p) THEN @[k] ELSE 0]]
    /\ log' = {e \in log : ~(e.by = p /\ e.key \in Evicted(p))}
    /\ UNCHANGED <<clock, window, dump, client, lastCheck, request, served, faults,
                   errored>>

\* Time passes, but a request is not kept waiting for more than Delay.
Tick ==
    /\ clock < MaxTime
    /\ \A p \in Procs : pc[p] # "idle" => clock - now[p] < Delay
    /\ clock' = clock + 1
    /\ log' = {e \in log : e.at > clock + 1 - Window}
    /\ errored' = {e \in errored : e.stamp > clock + 1 - Window}
    /\ UNCHANGED <<limiter, request, served, faults>>

Next ==
    \/ \E p \in Procs, k \in Keys :
         \/ BeginCached(p, k) \/ BeginConnects(p, k)
         \/ BeginFails(p, k) \/ BeginTooSoon(p, k)
    \/ \E p \in Procs :
         \/ Check(p) \/ CheckFails(p) \/ Undo(p) \/ UndoFails(p)
         \/ Oldest(p) \/ OldestFails(p)
         \/ MemoryAdmits(p) \/ MemoryRefuses(p) \/ Cleanup(p)
    \/ \E k \in Keys : RedisExpires(k)
    \/ RedisDumps \/ RedisRestarts
    \/ Tick

Spec == Init /\ [][Next]_vars

-----------------------------------------------------------------------------
(* Properties.                                                             *)

AdmittedBy(who, k, since) ==
    {e \in log : e.by = who /\ e.key = k /\ e.at > since}

\* However the processes interleave, and although each uses an instant it read
\* up to Delay earlier, Redis never admits more than Limit requests of a client
\* in a stretch of Window - Delay: the oldest of them is still a member when the
\* last one is counted.  (Requests of the very same instant share a member: the
\* observer counts them once.)
SharedLimit ==
    \A k \in Keys :
        Cardinality(AdmittedBy("redis", k, clock - (Window - Delay))) <= Limit

\* While Redis is away each process admits at most Limit requests of a client in
\* a window, whatever its cleanup thread removes for age; only an eviction for
\* lack of room forgets.
MemoryLimit ==
    \A p \in Procs, k \in Keys :
        Cardinality(AdmittedBy(p, k, clock - Window)) <= Limit

\* Whatever the order in which buckets were made, used and removed, a cleanup
\* that removes one leaves no more than MaxClients.
CleanupMakesRoom ==
    [][\A p \in Procs : held[p] \ held'[p] # {}
                           => Cardinality(held'[p]) <= MaxClients]_vars

\* A refused request leaves nothing behind: whatever is counted in the shared
\* window belongs to an admission, to a request that is about to remove it or to
\* one on which a Redis call failed, or it is too old to be counted.  Only a dump
\* between the two calls of a refusal, and a restart from it, make it count.
RefusedUncounted ==
    \A k \in Keys : \A t \in window[k] :
        \/ t <= clock - Window
        \/ Owners(k, t) # {}
        \/ \E p \in Procs : pc[p] = "undo" /\ key[p] = k /\ now[p] = t
        \/ [key |-> k, stamp |-> t] \in errored

=============================================================================
