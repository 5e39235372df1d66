------------------------- MODULE RateLimiter_proofs -------------------------
(* The rate limiter for any number of processes, clients, requests and        *)
(* failures: its types, the shared window, the windows in memory and the       *)
(* cleanup that bounds them.                                                   *)
EXTENDS RateLimiter, FiniteSetTheorems, WellFoundedInduction, TLAPS

-----------------------------------------------------------------------------
(* What the requests and the sorted sets look like. *)

LEMMA Bounds ==
    /\ Limit \in Nat /\ Limit >= 1 /\ Window \in Nat /\ Window >= 1 /\ Slack \in Nat
    /\ Delay \in Nat /\ Delay < Window /\ MaxTime \in Nat
BY BoundsAssumption, TimingAssumption

\* A request that runs has a bucket, and read its instant at most Delay ago.
RequestInv ==
    /\ clock \in Time
    /\ window \in [Keys -> SUBSET Time]
    /\ dump.window \in [Keys -> SUBSET Time]
    /\ pc \in [Procs -> {"idle", "check", "undo", "oldest", "memory"}]
    /\ key \in [Procs -> Keys \cup {NoKey}]
    /\ now \in [Procs -> Time]
    /\ \A p \in Procs : pc[p] # "idle" =>
          key[p] \in Keys /\ now[p] <= clock /\ clock - now[p] <= Delay

LEMMA RequestInit == Init => RequestInv
BY Bounds DEF Init, RequestInv, Time

LEMMA RecentTyped ==
    ASSUME RequestInv, NEW p \in Procs, key[p] \in Keys
    PROVE  /\ Recent(p) \in SUBSET Time /\ Recent(p) \subseteq window[key[p]]
           /\ Counted(p) \in [Keys -> SUBSET Time]
           /\ Counted(p)[key[p]] = Recent(p) \cup {now[p]}
           /\ \A k \in Keys \ {key[p]} : Counted(p)[k] = window[k]
BY DEF RequestInv, Recent, Counted

LEMMA RequestNext == RequestInv /\ [Next]_vars => RequestInv'
<1> SUFFICES ASSUME RequestInv, [Next]_vars PROVE RequestInv'
  OBVIOUS
<1> USE Bounds DEF RequestInv, Goto, Time
<1>1. ASSUME NEW p \in Procs, NEW k \in Keys,
             \/ BeginCached(p, k) \/ BeginConnects(p, k)
             \/ BeginFails(p, k) \/ BeginTooSoon(p, k)
      PROVE  RequestInv'
  BY <1>1 DEF BeginCached, BeginConnects, BeginFails, BeginTooSoon, Begin, limiter
<1>2. ASSUME NEW p \in Procs, Check(p) \/ CheckFails(p) PROVE RequestInv'
  <2>1. Counted(p) \in [Keys -> SUBSET Time]
    BY <1>2, RecentTyped DEF Check, CheckFails
  <2> QED
    BY <1>2, <2>1 DEF Check, CheckFails, GiveUp
<1>3. ASSUME NEW p \in Procs, Undo(p) \/ UndoFails(p) PROVE RequestInv'
  BY <1>3 DEF Undo, UndoFails, GiveUp, Answer
<1>4. ASSUME NEW p \in Procs, Oldest(p) \/ OldestFails(p) PROVE RequestInv'
  BY <1>4 DEF Oldest, OldestFails, GiveUp, Answer, limiter
<1>5. ASSUME NEW p \in Procs, MemoryAdmits(p) \/ MemoryRefuses(p) PROVE RequestInv'
  <2>1. Answer(p) /\ UNCHANGED <<clock, window>>
    BY <1>5 DEF MemoryAdmits, MemoryRefuses
  <2>2. dump' = dump
    BY <1>5 DEF MemoryAdmits, MemoryRefuses
  <2> QED
    BY <2>1, <2>2 DEF Answer
<1>6. ASSUME NEW p \in Procs, Cleanup(p) PROVE RequestInv'
  BY <1>6 DEF Cleanup, request
<1>7. ASSUME NEW k \in Keys, RedisExpires(k) PROVE RequestInv'
  BY <1>7 DEF RedisExpires, request
<1>8. CASE RedisDumps \/ RedisRestarts
  BY <1>8 DEF RedisDumps, RedisRestarts, request
<1>9. CASE Tick
  BY <1>9 DEF Tick, limiter, request
<1>10. CASE UNCHANGED vars
  BY <1>10 DEF vars, limiter, request
<1> QED
  BY <1>1, <1>2, <1>3, <1>4, <1>5, <1>6, <1>7, <1>8, <1>9, <1>10 DEF Next

-----------------------------------------------------------------------------
(* What the log of admissions says of the sorted sets. *)

\* An admission by Redis counts the instant of its request, which is still a member
\* while it is recent; two admissions never share a member; an errored call is as
\* old as its request.
LogInv ==
    /\ \A e \in log : e.by = "redis" =>
          /\ e.key \in Keys /\ e.stamp \in Time /\ e.at \in Time
          /\ e.stamp <= e.at /\ e.at - e.stamp <= Delay /\ e.at <= clock
          /\ e.stamp > clock - Window => e.stamp \in window[e.key]
    /\ \A e, f \in log :
          e.by = "redis" /\ f.by = "redis" /\ e.key = f.key /\ e.stamp = f.stamp => e = f

LEMMA LogInit == Init => LogInv
BY DEF Init, LogInv

\* The same of what the last dump remembers of both.
DumpInv ==
    /\ \A e \in dump.log :
          /\ e.by = "redis" /\ e.key \in Keys /\ e.stamp \in Time /\ e.at \in Time
          /\ e.stamp <= e.at /\ e.at - e.stamp <= Delay /\ e.at <= clock
          /\ e.stamp > clock - Window => e.stamp \in dump.window[e.key]
    /\ \A e, f \in dump.log : e.key = f.key /\ e.stamp = f.stamp => e = f

LEMMA DumpInit == Init => DumpInv
BY DEF Init, DumpInv

LEMMA DumpFrame ==
    ASSUME [Next]_vars
    PROVE  RedisDumps \/ (dump' = dump /\ (clock' = clock \/ Tick))
BY DEF Next, vars, BeginCached, BeginConnects, BeginFails, BeginTooSoon, Check, CheckFails,
       Undo, UndoFails, Oldest, OldestFails, GiveUp, MemoryAdmits, MemoryRefuses, Cleanup,
       RedisExpires, RedisRestarts, Tick, limiter

LEMMA DumpNext == RequestInv /\ LogInv /\ DumpInv /\ [Next]_vars => DumpInv'
<1> SUFFICES ASSUME RequestInv, LogInv, DumpInv, [Next]_vars PROVE DumpInv'
  OBVIOUS
<1> USE Bounds DEF RequestInv, Time
<1>1. CASE RedisDumps
  <2>1. /\ clock' = clock /\ dump'.window = window
        /\ dump'.log = {e \in log : e.by = "redis"}
    BY <1>1 DEF RedisDumps
  <2> QED
    BY <2>1 DEF LogInv, DumpInv
<1>2. CASE dump' = dump /\ (clock' = clock \/ Tick)
  <2>1. clock' \in {clock, clock + 1} /\ clock' \in Int /\ clock \in Int
    BY <1>2 DEF Tick
  <2> QED
    BY <1>2, <2>1 DEF DumpInv
<1> QED
  BY <1>1, <1>2, DumpFrame

\* Only these steps concern the log and the windows in Redis.
LEMMA LogFrame ==
    ASSUME RequestInv, [Next]_vars
    PROVE  \/ \E p \in Procs : \/ Check(p) \/ CheckFails(p) \/ Undo(p) \/ UndoFails(p)
                               \/ OldestFails(p) \/ MemoryAdmits(p) \/ Cleanup(p)
           \/ \E k \in Keys : RedisExpires(k)
           \/ RedisRestarts \/ Tick
           \/ UNCHANGED <<log, window, clock, errored>>
BY DEF Next, vars, BeginCached, BeginConnects, BeginFails, BeginTooSoon, Oldest,
       MemoryRefuses, RedisDumps, limiter, observers

LEMMA LogNext == RequestInv /\ LogInv /\ DumpInv /\ [Next]_vars => LogInv'
<1> SUFFICES ASSUME RequestInv, LogInv, DumpInv, [Next]_vars PROVE LogInv'
  OBVIOUS
<1> USE Bounds DEF LogInv, RequestInv, Time
<1>1. ASSUME NEW p \in Procs, Check(p) PROVE LogInv'
  <2> DEFINE new == Admit(p, "redis", now[p])
  <2>0. key[p] \in Keys /\ pc[p] # "idle"
    BY <1>1 DEF Check
  <2>1. /\ new.by = "redis" /\ new.key = key[p] /\ new.stamp = now[p] /\ new.at = clock
    BY DEF Admit
  <2>2. /\ clock' = clock
        /\ log' \subseteq (log \ Owners(key[p], now[p])) \cup {new}
        /\ window' = Counted(p)
    BY <1>1 DEF Check
  <2>3. \A e \in log \ Owners(key[p], now[p]) :
           e.by = "redis" => ~(e.key = new.key /\ e.stamp = new.stamp)
    BY <2>1 DEF Owners
  <2>4. \A e \in log : e.by = "redis" /\ e.stamp > clock - Window => e.stamp \in window'[e.key]
    <3> SUFFICES ASSUME NEW e \in log, e.by = "redis", e.stamp > clock - Window
                 PROVE  e.stamp \in window'[e.key]
      OBVIOUS
    <3>1. CASE e.key = key[p]
      BY <2>0, <2>2, <3>1, RecentTyped DEF Recent
    <3>2. CASE e.key # key[p]
      BY <2>0, <2>2, <3>2, RecentTyped
    <3> QED
      BY <3>1, <3>2
  <2>5. new.stamp \in window'[new.key]
    BY <2>0, <2>1, <2>2, RecentTyped
  <2>6. \A e \in log' : e.by = "redis" =>
          /\ e.key \in Keys /\ e.stamp \in Time /\ e.at \in Time
          /\ e.stamp <= e.at /\ e.at - e.stamp <= Delay /\ e.at <= clock'
    BY <2>0, <2>1, <2>2
  <2>7. \A e, f \in log' :
          e.by = "redis" /\ f.by = "redis" /\ e.key = f.key /\ e.stamp = f.stamp => e = f
    BY <2>2, <2>3
  <2>8. \A e \in log' : e.by = "redis" /\ e.stamp > clock' - Window => e.stamp \in window'[e.key]
    BY <2>2, <2>4, <2>5
  <2> HIDE DEF new
  <2> QED
    BY <2>6, <2>7, <2>8
<1>2. ASSUME NEW p \in Procs, CheckFails(p), window' = Counted(p) PROVE LogInv'
  <2>0. key[p] \in Keys /\ pc[p] # "idle"
    BY <1>2 DEF CheckFails
  <2>1. clock' = clock /\ log' \subseteq log
    BY <1>2 DEF CheckFails, GiveUp
  <2>2. \A e \in log : e.by = "redis" /\ e.stamp > clock - Window => e.stamp \in window'[e.key]
    <3> SUFFICES ASSUME NEW e \in log, e.by = "redis", e.stamp > clock - Window
                 PROVE  e.stamp \in window'[e.key]
      OBVIOUS
    <3>1. CASE e.key = key[p]
      BY <1>2, <2>0, <3>1, RecentTyped DEF Recent
    <3>2. CASE e.key # key[p]
      BY <1>2, <2>0, <3>2, RecentTyped
    <3> QED
      BY <3>1, <3>2
  <2> QED
    BY <2>1, <2>2
<1>3. ASSUME log' \subseteq log, UNCHANGED window, clock' \in {clock, clock + 1}, clock' \in Time
      PROVE  LogInv'
  BY <1>3
<1>4. ASSUME NEW p \in Procs, key[p] \in Keys, clock' = clock,
             window' = [window EXCEPT ![key[p]] = @ \ {now[p]}],
             log' = log \ Owners(key[p], now[p])
      PROVE  LogInv'
  <2>1. \A e \in log' : e.by = "redis" /\ e.key = key[p] => e.stamp # now[p]
    BY <1>4 DEF Owners
  <2> QED
    BY <1>4, <2>1
<1>5. ASSUME NEW p \in Procs, MemoryAdmits(p) PROVE LogInv'
  <2>1. Admit(p, p, clock).by # "redis"
    BY NamesAssumption DEF Admit
  <2>2. log' = log \cup {Admit(p, p, clock)} /\ UNCHANGED <<window, clock>>
    BY <1>5 DEF MemoryAdmits
  <2> QED
    BY <2>1, <2>2
<1>6. ASSUME NEW k \in Keys, RedisExpires(k) PROVE LogInv'
  <2>1. /\ window' = [window EXCEPT ![k] = {}] /\ UNCHANGED <<log, clock>>
        /\ \A t \in window[k] : clock > t + Window + Slack
    BY <1>6 DEF RedisExpires, observers
  <2> QED
    BY <2>1
<1>7. CASE RedisRestarts
  <2>1. /\ window' = dump.window /\ clock' = clock
        /\ \A e \in log' : e \in dump.log \/ e.by # "redis"
    BY <1>7 DEF RedisRestarts
  <2> QED
    BY <2>1 DEF DumpInv
<1>8. CASE Tick
  BY <1>3, <1>8 DEF Tick, limiter
<1>9. ASSUME NEW p \in Procs,
             CheckFails(p) \/ Undo(p) \/ UndoFails(p) \/ OldestFails(p) \/ Cleanup(p)
      PROVE  LogInv'
  BY <1>2, <1>3, <1>4, <1>9 DEF CheckFails, Undo, UndoFails, OldestFails, Cleanup, GiveUp
<1> QED
  BY <1>1, <1>3, <1>5, <1>6, <1>7, <1>8, <1>9, LogFrame

-----------------------------------------------------------------------------
(* A refused request leaves nothing behind. *)

\* Why a member may be counted.
Covered(k, t) ==
    \/ t <= clock - Window
    \/ Owners(k, t) # {}
    \/ \E p \in Procs : pc[p] = "undo" /\ key[p] = k /\ now[p] = t
    \/ [key |-> k, stamp |-> t] \in errored

\* Why a member of the last dump may be counted after a restart.
DumpCovered ==
    \A k \in Keys : \A t \in dump.window[k] :
        \/ t <= clock - Window
        \/ \E e \in dump.log : e.key = k /\ e.stamp = t
        \/ [key |-> k, stamp |-> t] \in dump.undone \cup errored

\* What the observer has of failed calls stays for as long as it matters.
LEMMA ErroredStays ==
    ASSUME [Next]_vars, NEW u \in errored
    PROVE  u \in errored' \/ (Tick /\ ~(u.stamp > clock + 1 - Window))
BY DEF Next, vars, BeginCached, BeginConnects, BeginFails, BeginTooSoon, Check, CheckFails,
       Undo, UndoFails, Oldest, OldestFails, GiveUp, MemoryAdmits, MemoryRefuses, Cleanup,
       RedisExpires, RedisDumps, RedisRestarts, Tick, observers

LEMMA DumpCoveredNext ==
    ASSUME RequestInv, RefusedUncounted, DumpCovered, [Next]_vars
    PROVE  DumpCovered'
<1> SUFFICES ASSUME NEW k \in Keys, NEW t \in dump'.window[k]
             PROVE  \/ t <= clock' - Window
                    \/ \E e \in dump'.log : e.key = k /\ e.stamp = t
                    \/ [key |-> k, stamp |-> t] \in dump'.undone \cup errored'
  BY DEF DumpCovered
<1> USE Bounds DEF RequestInv, Time
<1>1. CASE RedisDumps
  <2>1. /\ UNCHANGED <<clock, errored>> /\ dump'.window = window
        /\ dump'.log = {e \in log : e.by = "redis"}
        /\ dump'.undone = {[key |-> key[p], stamp |-> now[p]] :
                               p \in {q \in Procs : pc[q] = "undo"}}
    BY <1>1 DEF RedisDumps, observers
  <2>2. Covered(k, t)
    BY <2>1 DEF RefusedUncounted, Covered
  <2> QED
    BY <2>1, <2>2 DEF Covered, Owners
<1>2. CASE dump' = dump /\ (clock' = clock \/ Tick)
  <2>1. t \in dump.window[k] /\ t \in Int /\ clock \in Int
    BY <1>2
  <2>2. clock' \in {clock, clock + 1} /\ (Tick => clock' = clock + 1)
    BY <1>2 DEF Tick
  <2>3. CASE [key |-> k, stamp |-> t] \in errored
    BY <2>1, <2>2, <2>3, ErroredStays
  <2>4. CASE [key |-> k, stamp |-> t] \notin errored
    BY <1>2, <2>1, <2>2, <2>4 DEF DumpCovered
  <2> QED
    BY <2>3, <2>4
<1> QED
  BY <1>1, <1>2, DumpFrame

LEMMA RefusedNext ==
    RequestInv /\ LogInv /\ DumpInv /\ DumpCovered /\ RefusedUncounted /\ [Next]_vars
       => RefusedUncounted'
<1> SUFFICES ASSUME RequestInv, LogInv, DumpInv, DumpCovered, RefusedUncounted, [Next]_vars,
                    NEW k \in Keys, NEW t \in window'[k]
             PROVE  Covered(k, t)'
  BY DEF RefusedUncounted, Covered
<1> USE Bounds
<1>0. \A l \in Keys : \A u \in window[l] : Covered(l, u) /\ u \in Time
  BY DEF RefusedUncounted, Covered, RequestInv
<1>1. ASSUME NEW p \in Procs, Check(p) PROVE Covered(k, t)'
  <2>0. key[p] \in Keys /\ now[p] \in Time /\ UNCHANGED <<clock, key, now, errored>>
    BY <1>1 DEF Check, RequestInv
  <2>1. CASE k = key[p] /\ t = now[p]
    <3>1. CASE log' = (log \ Owners(key[p], now[p])) \cup {Admit(p, "redis", now[p])}
      <4> DEFINE new == Admit(p, "redis", now[p])
      <4>1. new.by = "redis" /\ new.key = k /\ new.stamp = t
        BY <2>1 DEF Admit
      <4>2. new \in log'
        BY <3>1
      <4> HIDE DEF new
      <4>3. new \in Owners(k, t)'
        BY <4>1, <4>2 DEF Owners
      <4> QED
        BY <4>3 DEF Covered
    <3>2. CASE pc' = [pc EXCEPT ![p] = "undo"]
      BY <2>0, <2>1, <3>2 DEF Covered, RequestInv
    <3> QED
      BY <1>1, <3>1, <3>2 DEF Check, Goto
  <2>2. CASE ~(k = key[p] /\ t = now[p])
    <3>1. t \in window[k]
      BY <1>1, <2>0, <2>2, RecentTyped DEF Check
    <3>2. Covered(k, t)
      BY <1>0, <3>1
    <3>3. \A e \in Owners(k, t) : e \in log'
      BY <1>1, <2>2 DEF Check, Owners
    <3>4. \A q \in Procs : pc[q] = "undo" => pc'[q] = "undo"
      BY <1>1 DEF Check, Goto, RequestInv
    <3> QED
      BY <2>0, <3>2, <3>3, <3>4 DEF Covered, Owners
  <2> QED
    BY <2>1, <2>2
<1>2. ASSUME NEW p \in Procs, CheckFails(p) \/ UndoFails(p) \/ OldestFails(p) PROVE Covered(k, t)'
  <2>0. key[p] \in Keys /\ now[p] \in Time
    BY <1>2 DEF CheckFails, UndoFails, OldestFails, RequestInv
  <2>1. UNCHANGED <<clock, key, now>> /\ errored' = errored \cup {[key |-> key[p], stamp |-> now[p]]}
    BY <1>2 DEF CheckFails, UndoFails, OldestFails, GiveUp
  <2>2. CASE k = key[p] /\ t = now[p]
    BY <2>1, <2>2 DEF Covered
  <2>3. CASE ~(k = key[p] /\ t = now[p])
    <3>1. t \in window[k]
      BY <1>2, <2>0, <2>3, RecentTyped DEF CheckFails, UndoFails, OldestFails, RequestInv
    <3>2. Covered(k, t)
      BY <1>0, <3>1
    <3>3. \A e \in Owners(k, t) : e \in log'
      BY <1>2, <2>3 DEF CheckFails, UndoFails, OldestFails, Owners
    <3>4. \A q \in Procs \ {p} : pc[q] = "undo" => pc'[q] = "undo"
      BY <1>2 DEF CheckFails, UndoFails, OldestFails, GiveUp, Goto, RequestInv
    <3> QED
      BY <2>1, <2>3, <3>2, <3>3, <3>4 DEF Covered, Owners
  <2> QED
    BY <2>2, <2>3
<1>3. ASSUME NEW p \in Procs, Undo(p) PROVE Covered(k, t)'
  <2>0. /\ key[p] \in Keys /\ UNCHANGED <<clock, errored>> /\ Answer(p)
        /\ window' = [window EXCEPT ![key[p]] = @ \ {now[p]}]
        /\ log' = log \ Owners(key[p], now[p])
    BY <1>3 DEF Undo, RequestInv
  <2>1. t \in window[k] /\ ~(k = key[p] /\ t = now[p])
    BY <2>0 DEF RequestInv
  <2>2. Covered(k, t)
    BY <1>0, <2>1
  <2>3. \A e \in Owners(k, t) : e \in log'
    BY <2>0, <2>1 DEF Owners
  <2>4. \A q \in Procs \ {p} : pc'[q] = pc[q] /\ key'[q] = key[q] /\ now'[q] = now[q]
    BY <2>0 DEF Answer, Goto, RequestInv
  <2> QED
    BY <2>0, <2>1, <2>2, <2>3, <2>4 DEF Covered, Owners
<1>4. ASSUME log \subseteq log' \cup {e \in log : e.by # "redis"}, t \in window[k],
             errored' = errored, clock' = clock,
             \A q \in Procs : pc[q] = "undo" =>
                 pc'[q] = "undo" /\ key'[q] = key[q] /\ now'[q] = now[q]
      PROVE  Covered(k, t)'
  <2>1. Covered(k, t)
    BY <1>0, <1>4
  <2> QED
    BY <1>4, <2>1 DEF Covered, Owners
<1>5. ASSUME NEW p \in Procs, NEW l \in Keys,
             \/ BeginCached(p, l) \/ BeginConnects(p, l)
             \/ BeginFails(p, l) \/ BeginTooSoon(p, l)
      PROVE  Covered(k, t)'
  <2>1. /\ UNCHANGED <<log, errored, window, clock>> /\ pc[p] = "idle"
        /\ key' = [key EXCEPT ![p] = l] /\ now' = [now EXCEPT ![p] = clock]
        /\ \A q \in Procs \ {p} : pc'[q] = pc[q]
    BY <1>5 DEF BeginCached, BeginConnects, BeginFails, BeginTooSoon, Begin, Goto, limiter,
                observers, RequestInv
  <2> QED
    BY <1>4, <2>1 DEF RequestInv
<1>6. ASSUME NEW p \in Procs, Oldest(p) \/ MemoryAdmits(p) \/ MemoryRefuses(p)
      PROVE  Covered(k, t)'
  <2>1. /\ log \subseteq log' /\ UNCHANGED <<errored, window, clock>> /\ pc[p] # "undo"
        /\ Answer(p)
    BY <1>6 DEF Oldest, MemoryAdmits, MemoryRefuses, limiter, observers
  <2> QED
    BY <1>4, <2>1 DEF Answer, Goto, RequestInv
<1>7. ASSUME NEW p \in Procs, Cleanup(p) PROVE Covered(k, t)'
  <2>1. UNCHANGED <<errored, window, clock, pc, key, now>>
    BY <1>7 DEF Cleanup, request
  <2>2. \A e \in log : e.by = "redis" => e \in log'
    BY <1>7, NamesAssumption DEF Cleanup
  <2> QED
    BY <1>4, <2>1, <2>2
<1>8. ASSUME NEW l \in Keys, RedisExpires(l) PROVE Covered(k, t)'
  <2>1. t \in window[k]
    BY <1>8 DEF RedisExpires, RequestInv
  <2> QED
    BY <1>4, <1>8, <2>1 DEF RedisExpires, request, observers
<1>9. CASE RedisRestarts
  <2>1. /\ UNCHANGED <<clock, pc, key, now>> /\ window' = dump.window
        /\ {e \in dump.log : e.at > clock - Window} \subseteq log'
        /\ errored' = errored \cup {u \in dump.undone : u.stamp > clock - Window}
    BY <1>9 DEF RedisRestarts, request
  <2>2. t \in dump.window[k] /\ t \in Int /\ clock \in Int
    BY <2>1 DEF RequestInv, Time
  <2>3. \A e \in dump.log : e.by = "redis" /\ e.at \in Int /\ e.stamp \in Int /\ e.stamp <= e.at
    BY DEF DumpInv, Time
  <2>4. CASE t <= clock - Window
    BY <2>1, <2>4 DEF Covered
  <2>5. CASE t > clock - Window
    <3>1. CASE \E e \in dump.log : e.key = k /\ e.stamp = t
      <4>1. PICK e \in dump.log : e.key = k /\ e.stamp = t
        BY <3>1
      <4>2. e \in log' /\ e.by = "redis"
        BY <2>1, <2>2, <2>3, <2>5, <4>1
      <4>3. e \in Owners(k, t)'
        BY <4>1, <4>2 DEF Owners
      <4> QED
        BY <4>3 DEF Covered
    <3>2. CASE [key |-> k, stamp |-> t] \in dump.undone \cup errored
      BY <2>1, <2>5, <3>2 DEF Covered
    <3> QED
      BY <2>2, <2>5, <3>1, <3>2 DEF DumpCovered
  <2> QED
    BY <2>2, <2>4, <2>5
<1>10. CASE Tick
  <2>1. /\ clock' = clock + 1 /\ UNCHANGED <<window, pc, key, now>>
        /\ log' = {e \in log : e.at > clock + 1 - Window}
        /\ errored' = {e \in errored : e.stamp > clock + 1 - Window}
    BY <1>10 DEF Tick, limiter, request
  <2>2. Covered(k, t) /\ t \in Int /\ clock \in Int
    BY <1>0, <2>1 DEF RequestInv, Time
  <2>3. \A e \in Owners(k, t) : e.at \in Int /\ e.at >= t
    BY DEF Owners, LogInv, Time
  <2>4. CASE t <= clock + 1 - Window
    BY <2>1, <2>2, <2>4 DEF Covered
  <2>5. CASE t > clock + 1 - Window
    <3>1. \A e \in Owners(k, t) : e \in log'
      BY <2>1, <2>2, <2>3, <2>5 DEF Owners
    <3>2. [key |-> k, stamp |-> t] \in errored => [key |-> k, stamp |-> t] \in errored'
      BY <2>1, <2>5
    <3>3. ~(t <= clock - Window)
      BY <2>2, <2>5
    <3> QED
      BY <2>1, <2>2, <3>1, <3>2, <3>3 DEF Covered, Owners
  <2> QED
    BY <2>2, <2>4, <2>5
<1>11. CASE RedisDumps \/ UNCHANGED vars
  BY <1>4, <1>11 DEF RedisDumps, vars, limiter, request, observers
<1> QED
  BY <1>1, <1>2, <1>3, <1>5, <1>6, <1>7, <1>8, <1>9, <1>10, <1>11 DEF Next

\* For any number of processes, clients, failures and restarts of Redis what a refused
\* request added to the shared window is gone with the request, but for a failed call and
\* a dump between its two calls (rate_limit.py, _check_limit_redis).
THEOREM RefusalsAreUncounted == Spec => []RefusedUncounted
<1>1. Init => RefusedUncounted /\ DumpCovered
  BY DEF Init, RefusedUncounted, DumpCovered
<1> QED
  BY <1>1, RequestInit, RequestNext, LogInit, LogNext, DumpInit, DumpNext, RefusedNext,
     DumpCoveredNext, PTL DEF Spec

-----------------------------------------------------------------------------
(* The limit of the shared window. *)

LEMMA TimeFinite == IsFiniteSet(Time)
<1>1. 0 \in Int /\ MaxTime \in Int
  BY Bounds
<1> QED
  BY <1>1, FS_Interval DEF Time

\* Admissions that share no member are no more than the members.
LEMMA MembersBound ==
    ASSUME NEW S, NEW T, IsFiniteSet(T),
           \A e \in S : e.stamp \in T,
           \A e, f \in S : e.stamp = f.stamp => e = f
    PROVE  IsFiniteSet(S) /\ Cardinality(S) <= Cardinality(T)
<1> DEFINE stamp == [e \in S |-> e.stamp]
<1>1. stamp \in [S -> T]
  OBVIOUS
<1>2. \A a, b \in S : stamp[a] = stamp[b] => a = b
  OBVIOUS
<1>3. stamp \in Injection(S, T)
  BY <1>1, <1>2 DEF Injection, IsInjective
<1> HIDE DEF stamp
<1> QED
  BY <1>3, FS_Injection

RecentlyAdmitted(k) == AdmittedBy("redis", k, clock - (Window - Delay))

LEMMA RecentlyFinite ==
    ASSUME LogInv, NEW k \in Keys PROVE IsFiniteSet(RecentlyAdmitted(k))
<1>1. \A e \in RecentlyAdmitted(k) : e.stamp \in Time
  BY DEF LogInv, RecentlyAdmitted, AdmittedBy
<1>2. \A e, f \in RecentlyAdmitted(k) : e.stamp = f.stamp => e = f
  BY DEF LogInv, RecentlyAdmitted, AdmittedBy
<1> QED
  BY <1>1, <1>2, TimeFinite, MembersBound

\* Every recent admission is a member the last check counted, or added.
LEMMA CheckBound ==
    ASSUME RequestInv, LogInv, LogInv', NEW p \in Procs, Check(p),
           Cardinality(Recent(p)) < Limit
    PROVE  Cardinality(RecentlyAdmitted(key[p])') <= Limit
<1> USE Bounds DEF RequestInv
<1> DEFINE S == RecentlyAdmitted(key[p])'
           T == Recent(p) \cup {now[p]}
<1>0. key[p] \in Keys /\ clock' = clock /\ clock \in Int /\ window' = Counted(p)
      /\ key' = key /\ window'[key[p]] = T
  BY RecentTyped DEF Check, Time
<1>1. IsFiniteSet(Recent(p)) /\ Cardinality(Recent(p)) \in Nat
  BY <1>0, TimeFinite, RecentTyped, FS_Subset, FS_CardinalityType
<1>2. IsFiniteSet(T) /\ Cardinality(T) <= Cardinality(Recent(p)) + 1 /\ Cardinality(T) \in Nat
  <2> HIDE DEF RequestInv
  <2> DEFINE R == Recent(p)
             t == now[p]
  <2>1. IsFiniteSet(R) /\ Cardinality(R) \in Nat /\ T = R \cup {t}
    BY <1>1
  <2> HIDE DEF R, t, T
  <2>2. /\ IsFiniteSet(R \cup {t})
        /\ Cardinality(R \cup {t}) = Cardinality(R) \/ Cardinality(R \cup {t}) = Cardinality(R) + 1
    BY <2>1, FS_AddElement
  <2>3. IsFiniteSet(T) /\ Cardinality(T) <= Cardinality(R) + 1 /\ Cardinality(T) \in Nat
    BY <2>1, <2>2
  <2> QED
    BY <2>3 DEF R
<1>3. \A e \in S : e.stamp \in T
  <2> SUFFICES ASSUME NEW e \in S PROVE e.stamp \in T
    OBVIOUS
  <2>1. /\ e \in log' /\ e.by = "redis" /\ e.key = key[p] /\ e.at > clock - (Window - Delay)
    BY <1>0 DEF RecentlyAdmitted, AdmittedBy
  <2>2. e.stamp \in Int /\ e.at \in Int /\ e.at - e.stamp <= Delay
    BY <2>1 DEF LogInv, Time
  <2>3. e.stamp > clock' - Window
    BY <1>0, <2>1, <2>2
  <2> QED
    BY <1>0, <2>1, <2>3 DEF LogInv
<1>4. \A e, f \in S : e.stamp = f.stamp => e = f
  BY <1>0 DEF RecentlyAdmitted, AdmittedBy, LogInv
<1>5. Cardinality(S) <= Cardinality(T) /\ IsFiniteSet(S)
  BY <1>2, <1>3, <1>4, MembersBound
<1>6. Cardinality(S) \in Nat
  BY <1>5, FS_CardinalityType
<1> HIDE DEF S, T
<1>7. Cardinality(S) <= Limit
  BY <1>1, <1>2, <1>5, <1>6
<1> QED
  BY <1>7 DEF S

\* Fewer admissions remain recent in every other step.
LEMMA FewerRecent ==
    ASSUME LogInv, NEW k \in Keys, Cardinality(RecentlyAdmitted(k)) <= Limit,
           RecentlyAdmitted(k)' \subseteq RecentlyAdmitted(k)
    PROVE  Cardinality(RecentlyAdmitted(k)') <= Limit
<1>1. IsFiniteSet(RecentlyAdmitted(k))
  BY RecentlyFinite
<1>2. /\ IsFiniteSet(RecentlyAdmitted(k)')
      /\ Cardinality(RecentlyAdmitted(k)') <= Cardinality(RecentlyAdmitted(k))
  BY <1>1, FS_Subset
<1>3. Cardinality(RecentlyAdmitted(k)') \in Nat /\ Cardinality(RecentlyAdmitted(k)) \in Nat
  BY <1>1, <1>2, FS_CardinalityType
<1> QED
  BY <1>2, <1>3, Bounds

\* The recent admissions the last dump knows of.
DumpedRecently(k) == {e \in dump.log : e.key = k /\ e.at > clock - (Window - Delay)}

DumpLimit == \A k \in Keys : Cardinality(DumpedRecently(k)) <= Limit

LEMMA DumpedFinite ==
    ASSUME DumpInv, NEW k \in Keys PROVE IsFiniteSet(DumpedRecently(k))
<1>1. \A e \in DumpedRecently(k) : e.stamp \in Time
  BY DEF DumpInv, DumpedRecently
<1>2. \A e, f \in DumpedRecently(k) : e.stamp = f.stamp => e = f
  BY DEF DumpInv, DumpedRecently
<1> QED
  BY <1>1, <1>2, TimeFinite, MembersBound

LEMMA DumpLimitNext ==
    RequestInv /\ DumpInv /\ SharedLimit /\ DumpLimit /\ [Next]_vars => DumpLimit'
<1> SUFFICES ASSUME RequestInv, DumpInv, SharedLimit, DumpLimit, [Next]_vars, NEW k \in Keys
             PROVE  Cardinality(DumpedRecently(k)') <= Limit
  BY DEF DumpLimit
<1> USE Bounds
<1>1. CASE RedisDumps
  <2>1. DumpedRecently(k)' = RecentlyAdmitted(k)
    BY <1>1 DEF RedisDumps, DumpedRecently, RecentlyAdmitted, AdmittedBy
  <2> QED
    BY <2>1 DEF SharedLimit, RecentlyAdmitted
<1>2. CASE dump' = dump /\ (clock' = clock \/ Tick)
  <2>1. clock \in Int /\ clock' \in {clock, clock + 1} /\ \A e \in dump.log : e.at \in Int
    BY <1>2 DEF Tick, RequestInv, Time, DumpInv
  <2>2. DumpedRecently(k)' \subseteq DumpedRecently(k)
    BY <1>2, <2>1 DEF DumpedRecently
  <2>3. IsFiniteSet(DumpedRecently(k)) /\ Cardinality(DumpedRecently(k)) <= Limit
    BY DumpedFinite DEF DumpLimit
  <2>4. /\ IsFiniteSet(DumpedRecently(k)')
        /\ Cardinality(DumpedRecently(k)') <= Cardinality(DumpedRecently(k))
    BY <2>2, <2>3, FS_Subset
  <2>5. Cardinality(DumpedRecently(k)') \in Nat /\ Cardinality(DumpedRecently(k)) \in Nat
    BY <2>3, <2>4, FS_CardinalityType
  <2> QED
    BY <2>3, <2>4, <2>5
<1> QED
  BY <1>1, <1>2, DumpFrame

LEMMA LimitNext ==
    RequestInv /\ LogInv /\ DumpInv /\ DumpLimit /\ SharedLimit /\ [Next]_vars => SharedLimit'
<1> SUFFICES ASSUME RequestInv, LogInv, LogInv', DumpInv, DumpLimit, SharedLimit, [Next]_vars,
                    NEW k \in Keys
             PROVE  Cardinality(RecentlyAdmitted(k)') <= Limit
  BY LogNext DEF SharedLimit, RecentlyAdmitted, AdmittedBy
<1> USE Bounds
<1>0. Cardinality(RecentlyAdmitted(k)) <= Limit
  BY DEF SharedLimit, RecentlyAdmitted
<1>1. ASSUME \A e \in log' : e.by = "redis" /\ e.key = k => e \in log, clock' = clock
      PROVE  Cardinality(RecentlyAdmitted(k)') <= Limit
  <2>1. RecentlyAdmitted(k)' \subseteq RecentlyAdmitted(k)
    BY <1>1 DEF RecentlyAdmitted, AdmittedBy
  <2> QED
    BY <1>0, <2>1, FewerRecent
<1>2. ASSUME NEW p \in Procs, Check(p) PROVE Cardinality(RecentlyAdmitted(k)') <= Limit
  <2>1. CASE key[p] = k /\ Cardinality(Recent(p)) < Limit
    BY <1>2, <2>1, CheckBound DEF Check
  <2>2. CASE ~(key[p] = k /\ Cardinality(Recent(p)) < Limit)
    <3>1. \A e \in log' : e.by = "redis" /\ e.key = k => e \in log
      <4>1. Admit(p, "redis", now[p]).key = key[p]
        BY DEF Admit
      <4> QED
        BY <1>2, <2>2, <4>1 DEF Check
    <3> QED
      BY <1>1, <1>2, <3>1 DEF Check
  <2> QED
    BY <2>1, <2>2
<1>3. ASSUME NEW p \in Procs, MemoryAdmits(p) PROVE Cardinality(RecentlyAdmitted(k)') <= Limit
  <2>1. Admit(p, p, clock).by # "redis"
    BY NamesAssumption DEF Admit
  <2> QED
    BY <1>1, <1>3, <2>1 DEF MemoryAdmits
<1>4. CASE Tick
  <2>1. clock \in Int /\ clock' = clock + 1 /\ log' \subseteq log
    BY <1>4 DEF Tick, RequestInv, Time
  <2>2. \A e \in log : e.by = "redis" => e.at \in Int
    BY DEF LogInv, Time
  <2>3. RecentlyAdmitted(k)' \subseteq RecentlyAdmitted(k)
    BY <2>1, <2>2 DEF RecentlyAdmitted, AdmittedBy
  <2> QED
    BY <1>0, <2>3, FewerRecent
<1>5. ASSUME NEW p \in Procs,
             CheckFails(p) \/ Undo(p) \/ UndoFails(p) \/ OldestFails(p) \/ Cleanup(p)
      PROVE  Cardinality(RecentlyAdmitted(k)') <= Limit
  BY <1>1, <1>5 DEF CheckFails, Undo, UndoFails, OldestFails, Cleanup, GiveUp
<1>6. CASE \E l \in Keys : RedisExpires(l)
  BY <1>1, <1>6 DEF RedisExpires, observers
<1>7. CASE RedisRestarts
  <2>1. clock' = clock /\ \A e \in log' : e \in dump.log \/ e.by # "redis"
    BY <1>7 DEF RedisRestarts
  <2>2. RecentlyAdmitted(k)' \subseteq DumpedRecently(k)
    BY <2>1 DEF RecentlyAdmitted, AdmittedBy, DumpedRecently
  <2>3. IsFiniteSet(DumpedRecently(k)) /\ Cardinality(DumpedRecently(k)) <= Limit
    BY DumpedFinite DEF DumpLimit
  <2>4. /\ IsFiniteSet(RecentlyAdmitted(k)')
        /\ Cardinality(RecentlyAdmitted(k)') <= Cardinality(DumpedRecently(k))
    BY <2>2, <2>3, FS_Subset
  <2>5. Cardinality(RecentlyAdmitted(k)') \in Nat /\ Cardinality(DumpedRecently(k)) \in Nat
    BY <2>3, <2>4, FS_CardinalityType
  <2> QED
    BY <2>3, <2>4, <2>5
<1> QED
  BY <1>1, <1>2, <1>3, <1>4, <1>5, <1>6, <1>7, LogFrame

\* For any number of processes, clients, requests and failures, and any delay below the
\* window, Redis admits at most Limit requests of a client in Window - Delay
\* (rate_limit.py, _check_limit_redis).
THEOREM SharedWindowLimits == Spec => []SharedLimit
<1>0. Init => DumpLimit
  <2> SUFFICES ASSUME Init, NEW k \in Keys PROVE Cardinality(DumpedRecently(k)) <= Limit
    BY DEF DumpLimit
  <2>1. DumpedRecently(k) = {}
    BY DEF Init, DumpedRecently
  <2> QED
    BY <2>1, Bounds, FS_EmptySet
<1>1. Init => SharedLimit
  <2> SUFFICES ASSUME Init, NEW k \in Keys
               PROVE  Cardinality(AdmittedBy("redis", k, clock - (Window - Delay))) <= Limit
    BY DEF SharedLimit
  <2>1. AdmittedBy("redis", k, clock - (Window - Delay)) = {}
    BY DEF Init, AdmittedBy
  <2> QED
    BY <2>1, Bounds, FS_EmptySet
<1> QED
  BY <1>0, <1>1, RequestInit, RequestNext, LogInit, LogNext, DumpInit, DumpNext, LimitNext,
     DumpLimitNext, PTL DEF Spec

-----------------------------------------------------------------------------
(* The types. *)

\* A request that runs has been counted.
TypeInv == Types /\ \A p \in Procs : pc[p] # "idle" => served >= 1

LEMMA MoreBounds ==
    /\ MaxRequests \in Nat /\ MaxFaults \in Nat /\ Retry \in Nat /\ TTL \in Nat
    /\ Window <= TTL /\ MaxClients \in Nat
BY BoundsAssumption, TimingAssumption

LEMMA TypeInit == Init => TypeInv
BY Bounds, MoreBounds DEF Init, TypeInv, Types, Time

LEMMA FreshTyped ==
    ASSUME TypeInv, NEW p \in Procs, key[p] \in Keys, pc[p] # "idle"
    PROVE  /\ Fresh(p) \subseteq Stamp
           /\ [id |-> served, at |-> clock] \in Stamp
           /\ Admit(p, p, clock) \in Admission
           /\ Admit(p, "redis", now[p]) \in Admission
BY Bounds, MoreBounds DEF TypeInv, Types, Fresh, Stamp, Admit, Admission, Time

LEMMA MoveTyped ==
    ASSUME TypeInv, NEW p \in Procs, key[p] \in Keys, MoveToEnd(p)
    PROVE  /\ held' \in [Procs -> SUBSET Keys]
           /\ newer' \in [Procs -> [Keys -> SUBSET Keys]]
BY DEF TypeInv, Types, MoveToEnd

LEMMA TypeNext == RequestInv /\ TypeInv /\ [Next]_vars => TypeInv'
<1> SUFFICES ASSUME RequestInv, TypeInv, [Next]_vars PROVE TypeInv'
  OBVIOUS
<1>r. /\ window' \in [Keys -> SUBSET Time] /\ clock' \in Time
      /\ pc' \in [Procs -> {"idle", "check", "undo", "oldest", "memory"}]
      /\ key' \in [Procs -> Keys \cup {NoKey}] /\ now' \in [Procs -> Time]
  BY RequestNext DEF RequestInv
<1>k. \A p \in Procs : pc[p] # "idle" => key[p] \in Keys /\ served >= 1
  BY DEF RequestInv, TypeInv
<1> USE Bounds, MoreBounds, <1>r, <1>k DEF TypeInv, Types, Goto, Time
<1>1. ASSUME NEW p \in Procs, NEW k \in Keys,
             \/ BeginCached(p, k) \/ BeginConnects(p, k)
             \/ BeginFails(p, k) \/ BeginTooSoon(p, k)
      PROVE  TypeInv'
  <2>1. served' \in 0..MaxRequests /\ served' >= 1
    BY <1>1 DEF BeginCached, BeginConnects, BeginFails, BeginTooSoon, Begin
  <2>2. UNCHANGED <<held, newer, stamps, last, log, errored, dump>>
    BY <1>1 DEF BeginCached, BeginConnects, BeginFails, BeginTooSoon, limiter, memory, observers
  <2>3. /\ client' = client \/ client' = [client EXCEPT ![p] = TRUE]
        /\ lastCheck' = lastCheck \/ lastCheck' = [lastCheck EXCEPT ![p] = clock]
    BY <1>1 DEF BeginCached, BeginConnects, BeginFails, BeginTooSoon, limiter
  <2>4. faults' \in 0..MaxFaults
    BY <1>1 DEF BeginCached, BeginConnects, BeginFails, BeginTooSoon
  <2>5. client' \in [Procs -> BOOLEAN]
    BY <2>3, Zenon DEF TypeInv, Types
  <2>6. lastCheck' \in [Procs -> Time \cup {-1}]
    BY <2>3
  <2> QED
    BY <2>1, <2>2, <2>4, <2>5, <2>6
<1>2. ASSUME NEW p \in Procs, Check(p) PROVE TypeInv'
  <2>1. log' \subseteq Admission
    BY <1>2, FreshTyped DEF Check
  <2> QED
    BY <1>2, <2>1 DEF Check, memory
<1>3. ASSUME NEW p \in Procs, CheckFails(p) \/ UndoFails(p) \/ OldestFails(p) PROVE TypeInv'
  <2>1. /\ GiveUp(p) /\ pc[p] # "idle" /\ log' \subseteq log
    BY <1>3 DEF CheckFails, UndoFails, OldestFails
  <2>2. errored' \subseteq Request
    BY <2>1 DEF GiveUp, Request
  <2> QED
    BY <2>1, <2>2 DEF GiveUp, memory
<1>4. ASSUME NEW p \in Procs, Undo(p) \/ Oldest(p) PROVE TypeInv'
  BY <1>4 DEF Undo, Oldest, Answer, limiter, memory, observers
<1>5. ASSUME NEW p \in Procs, MemoryAdmits(p) \/ MemoryRefuses(p) PROVE TypeInv'
  <2>1. /\ pc[p] = "memory" /\ MoveToEnd(p) /\ Answer(p)
        /\ UNCHANGED <<clock, dump, client, lastCheck, served, faults, errored>>
    BY <1>5 DEF MemoryAdmits, MemoryRefuses, observers
  <2>2. stamps' \in [Procs -> [Keys -> SUBSET Stamp]] /\ last' \in [Procs -> [Keys -> Time]]
    <3>1. CASE MemoryAdmits(p)
      <4> DEFINE new == Fresh(p) \cup {[id |-> served, at |-> clock]}
      <4>1. stamps' = [stamps EXCEPT ![p][key[p]] = new] /\ last' = [last EXCEPT ![p][key[p]] = clock]
        BY <3>1 DEF MemoryAdmits
      <4>2. new \in SUBSET Stamp /\ key[p] \in Keys
        BY <2>1, FreshTyped
      <4> HIDE DEF new
      <4> QED
        BY <4>1, <4>2
    <3>2. CASE MemoryRefuses(p)
      <4>1. stamps' = [stamps EXCEPT ![p][key[p]] = Fresh(p)] /\ last' = last
        BY <3>2 DEF MemoryRefuses
      <4>2. Fresh(p) \in SUBSET Stamp /\ key[p] \in Keys
        BY <2>1, FreshTyped
      <4> QED
        BY <4>1, <4>2
    <3> QED
      BY <1>5, <3>1, <3>2
  <2>3. log' \subseteq Admission
    BY <1>5, <2>1, FreshTyped DEF MemoryAdmits, MemoryRefuses, observers
  <2>4. \A q \in Procs : pc'[q] # "idle" => pc[q] # "idle"
    BY <2>1 DEF Answer
  <2> QED
    BY <2>1, <2>2, <2>3, <2>4, MoveTyped
<1>6. ASSUME NEW p \in Procs, Cleanup(p) PROVE TypeInv'
  <2>1. Kept(p) \subseteq Keys
    BY DEF Kept, Live
  <2>2. held' \in [Procs -> SUBSET Keys] /\ newer' \in [Procs -> [Keys -> SUBSET Keys]]
    BY <1>6, <2>1 DEF Cleanup
  <2>3. stamps' \in [Procs -> [Keys -> SUBSET Stamp]] /\ last' \in [Procs -> [Keys -> Time]]
    BY <1>6 DEF Cleanup
  <2> QED
    BY <1>6, <2>2, <2>3 DEF Cleanup, request
<1>7. ASSUME NEW k \in Keys, RedisExpires(k) PROVE TypeInv'
  BY <1>7 DEF RedisExpires, request, memory, observers
<1>8. CASE RedisDumps \/ RedisRestarts
  <2>1. CASE RedisDumps
    <3>1. {[key |-> key[p], stamp |-> now[p]] : p \in {q \in Procs : pc[q] = "undo"}}
             \subseteq Request
      BY DEF RequestInv, Request
    <3>2. dump' \in [window : [Keys -> SUBSET Time], log : SUBSET Admission,
                     undone : SUBSET Request]
      BY <2>1, <3>1 DEF RedisDumps
    <3> QED
      BY <2>1, <3>2 DEF RedisDumps, request, memory, observers
  <2>2. CASE RedisRestarts
    BY <2>2 DEF RedisRestarts, request, memory
  <2> QED
    BY <1>8, <2>1, <2>2
<1>9. CASE Tick
  BY <1>9 DEF Tick, limiter, request, memory
<1>10. CASE UNCHANGED vars
  BY <1>10 DEF vars, limiter, request, memory, observers
<1> QED
  BY <1>1, <1>2, <1>3, <1>4, <1>5, <1>6, <1>7, <1>8, <1>9, <1>10 DEF Next

-----------------------------------------------------------------------------
(* The windows in memory. *)

\* What is in the log for a process is in its memory, unless it was evicted.
InMemory(e) ==
    /\ e.stamp = e.at
    /\ e.key \in held[e.by] /\ last[e.by][e.key] >= e.at
    /\ [id |-> e.id, at |-> e.at] \in stamps[e.by][e.key]

MemoryInv ==
    /\ \A p \in Procs, k \in Keys :
          IsFiniteSet(stamps[p][k]) /\ Cardinality(stamps[p][k]) <= Limit
    /\ \A e \in log : /\ e.at > clock - Window /\ e.at <= clock
                      /\ e.by # "redis" => InMemory(e)

LEMMA MemoryInit == Init => MemoryInv
<1> SUFFICES ASSUME Init PROVE MemoryInv
  OBVIOUS
<1>1. \A p \in Procs, k \in Keys : stamps[p][k] = {}
  BY DEF Init
<1>2. ASSUME NEW p \in Procs, NEW k \in Keys
      PROVE  IsFiniteSet(stamps[p][k]) /\ Cardinality(stamps[p][k]) <= Limit
  BY <1>1, FS_EmptySet, Bounds
<1> QED
  BY <1>2 DEF MemoryInv, Init

\* An admission by Redis that is recent.
AskedRecently(e) == e.by = "redis" /\ e.at > clock - Window /\ e.at <= clock

\* Only these steps concern the memory and its admissions.
LEMMA MemoryFrame ==
    ASSUME RequestInv, DumpInv, [Next]_vars
    PROVE  \/ \E p \in Procs : MemoryAdmits(p) \/ MemoryRefuses(p) \/ Cleanup(p)
           \/ Tick
           \/ /\ UNCHANGED <<held, newer, stamps, last, clock>>
              /\ \A e \in log' : e \in log \/ AskedRecently(e)
<1>1. ASSUME NEW p \in Procs, Check(p)
      PROVE  \A e \in log' : e \in log \/ AskedRecently(e)
  <2>1. AskedRecently(Admit(p, "redis", now[p]))
    BY Bounds DEF Admit, AskedRecently, RequestInv, Time
  <2> QED
    BY <1>1, <2>1 DEF Check
<1>2. ASSUME \/ \E p \in Procs : \/ CheckFails(p) \/ Undo(p) \/ UndoFails(p)
                                \/ Oldest(p) \/ OldestFails(p)
             \/ \E k \in Keys : RedisExpires(k)
             \/ RedisDumps
             \/ UNCHANGED vars
      PROVE  log' \subseteq log
  BY <1>2 DEF CheckFails, Undo, UndoFails, Oldest, OldestFails, RedisExpires, RedisDumps,
              vars, observers
<1>3. ASSUME NEW p \in Procs, NEW k \in Keys,
             \/ BeginCached(p, k) \/ BeginConnects(p, k)
             \/ BeginFails(p, k) \/ BeginTooSoon(p, k)
      PROVE  UNCHANGED <<held, newer, stamps, last, clock, log>>
  BY <1>3 DEF BeginCached, BeginConnects, BeginFails, BeginTooSoon, limiter, memory, observers
<1>4. ASSUME \/ \E p \in Procs : \/ Check(p) \/ CheckFails(p) \/ Undo(p) \/ UndoFails(p)
                                \/ Oldest(p) \/ OldestFails(p)
             \/ \E k \in Keys : RedisExpires(k)
             \/ RedisDumps \/ RedisRestarts
             \/ UNCHANGED vars
      PROVE  UNCHANGED <<held, newer, stamps, last, clock>>
  BY <1>4 DEF Check, CheckFails, Undo, UndoFails, Oldest, OldestFails, GiveUp, RedisExpires,
              RedisDumps, RedisRestarts, vars, limiter, memory
<1>5. ASSUME RedisRestarts
      PROVE  \A e \in log' : e \in log \/ AskedRecently(e)
  BY <1>5 DEF RedisRestarts, DumpInv, AskedRecently
<1> QED
  BY <1>1, <1>2, <1>3, <1>4, <1>5 DEF Next

\* A bucket with one more timestamp than were fresh, fewer than the limit, is full at most.
LEMMA OneMore ==
    ASSUME RequestInv, TypeInv, MemoryInv, NEW p \in Procs, key[p] \in Keys,
           Cardinality(Fresh(p)) < Limit, NEW s
    PROVE  /\ IsFiniteSet(Fresh(p) \cup {s})
           /\ Cardinality(Fresh(p) \cup {s}) <= Limit
<1>1. IsFiniteSet(Fresh(p))
  BY FS_Subset DEF MemoryInv, Fresh
<1>2. Cardinality(Fresh(p)) \in Nat
  BY <1>1, FS_CardinalityType
<1>3. /\ IsFiniteSet(Fresh(p) \cup {s})
      /\ Cardinality(Fresh(p) \cup {s}) \in {Cardinality(Fresh(p)), Cardinality(Fresh(p)) + 1}
  BY <1>1, FS_AddElement
<1> QED
  BY <1>2, <1>3, Bounds

LEMMA FewerStamps ==
    ASSUME MemoryInv, NEW p \in Procs, NEW k \in Keys, NEW S, S \subseteq stamps[p][k]
    PROVE  IsFiniteSet(S) /\ Cardinality(S) <= Limit
<1>1. IsFiniteSet(stamps[p][k]) /\ Cardinality(stamps[p][k]) <= Limit
  BY DEF MemoryInv
<1>2. IsFiniteSet(S) /\ Cardinality(S) <= Cardinality(stamps[p][k])
  BY <1>1, FS_Subset
<1>3. Cardinality(S) \in Nat /\ Cardinality(stamps[p][k]) \in Nat
  BY <1>1, <1>2, FS_CardinalityType
<1> QED
  BY <1>1, <1>2, <1>3, Bounds

LEMMA MemoryNext ==
    RequestInv /\ DumpInv /\ TypeInv /\ MemoryInv /\ [Next]_vars => MemoryInv'
<1> SUFFICES ASSUME RequestInv, DumpInv, TypeInv, MemoryInv, [Next]_vars PROVE MemoryInv'
  OBVIOUS
<1> USE Bounds, MoreBounds, NamesAssumption
<1>t. /\ clock \in Int /\ clock \in Time
      /\ \A e \in log : /\ e.at \in Int /\ e.key \in Keys
                        /\ e.by \in Procs \cup {"redis"}
      /\ \A p \in Procs, k \in Keys :
            last[p][k] \in Int /\ \A s \in stamps[p][k] : s.at \in Int
  BY DEF TypeInv, Types, Time, Admission, Stamp
<1>1. ASSUME NEW p \in Procs, MemoryAdmits(p) PROVE MemoryInv'
  <2> DEFINE new == Admit(p, p, clock)
             kept == Fresh(p) \cup {[id |-> served, at |-> clock]}
  <2>0. /\ clock' = clock /\ log' = log \cup {new} /\ key[p] \in Keys
        /\ held' = [held EXCEPT ![p] = @ \cup {key[p]}]
        /\ stamps' = [stamps EXCEPT ![p][key[p]] = kept]
        /\ last' = [last EXCEPT ![p][key[p]] = clock]
        /\ Cardinality(Fresh(p)) < Limit
    BY <1>1 DEF MemoryAdmits, MoveToEnd, RequestInv
  <2>1. /\ new.by = p /\ new.key = key[p] /\ new.stamp = clock /\ new.at = clock
        /\ new.id = served
    BY DEF Admit
  <2>2. IsFiniteSet(kept) /\ Cardinality(kept) <= Limit
    BY <2>0, OneMore
  <2>f. \A s \in stamps[p][key[p]] : s.at >= clock - Window => s \in kept
    BY DEF Fresh
  <2>n. [id |-> served, at |-> clock] \in kept
    OBVIOUS
  <2> HIDE DEF new, kept
  <2>u. /\ \A q \in Procs, k \in Keys : q # p \/ k # key[p] =>
              stamps'[q][k] = stamps[q][k] /\ last'[q][k] = last[q][k]
        /\ stamps'[p][key[p]] = kept /\ last'[p][key[p]] = clock
        /\ \A q \in Procs : held[q] \subseteq held'[q]
        /\ key[p] \in held'[p]
    BY <2>0 DEF TypeInv, Types
  <2>3. ASSUME NEW q \in Procs, NEW k \in Keys
        PROVE  IsFiniteSet(stamps'[q][k]) /\ Cardinality(stamps'[q][k]) <= Limit
    <3>1. CASE q = p /\ k = key[p]
      BY <2>2, <2>u, <3>1
    <3>2. CASE ~(q = p /\ k = key[p])
      BY <2>u, <3>2 DEF MemoryInv
    <3> QED
      BY <3>1, <3>2
  <2>4. ASSUME NEW e \in log, e.by # "redis" PROVE InMemory(e)'
    <3>1. InMemory(e) /\ e.at > clock - Window /\ e.at <= clock /\ e.by \in Procs
      BY <1>t, <2>4 DEF MemoryInv
    <3>2. CASE e.by = p /\ e.key = key[p]
      <4>1. [id |-> e.id, at |-> e.at] \in kept
        BY <1>t, <2>f, <3>1, <3>2 DEF InMemory
      <4> QED
        BY <1>t, <2>u, <3>1, <3>2, <4>1 DEF InMemory
    <3>3. CASE ~(e.by = p /\ e.key = key[p])
      BY <1>t, <2>u, <3>1, <3>3 DEF InMemory
    <3> QED
      BY <3>2, <3>3
  <2>5. ASSUME NEW e \in {new} PROVE InMemory(e)'
    BY <1>t, <2>1, <2>n, <2>u DEF InMemory
  <2>6. \A e \in log' : e.at > clock' - Window /\ e.at <= clock'
    BY <1>t, <2>0, <2>1 DEF MemoryInv
  <2> QED
    BY <2>0, <2>3, <2>4, <2>5, <2>6 DEF MemoryInv
<1>2. ASSUME NEW p \in Procs, MemoryRefuses(p) PROVE MemoryInv'
  <2>0. /\ clock' = clock /\ log' = log /\ key[p] \in Keys
        /\ held' = [held EXCEPT ![p] = @ \cup {key[p]}]
        /\ stamps' = [stamps EXCEPT ![p][key[p]] = Fresh(p)]
        /\ last' = last
    BY <1>2 DEF MemoryRefuses, MoveToEnd, RequestInv, observers
  <2>u. /\ \A q \in Procs, k \in Keys : q # p \/ k # key[p] => stamps'[q][k] = stamps[q][k]
        /\ stamps'[p][key[p]] = Fresh(p)
        /\ \A q \in Procs : held[q] \subseteq held'[q]
    BY <2>0 DEF TypeInv, Types
  <2>f. Fresh(p) \subseteq stamps[p][key[p]]
    BY DEF Fresh
  <2>3. ASSUME NEW q \in Procs, NEW k \in Keys
        PROVE  IsFiniteSet(stamps'[q][k]) /\ Cardinality(stamps'[q][k]) <= Limit
    <3>1. stamps'[q][k] \subseteq stamps[q][k]
      BY <2>u, <2>f
    <3> QED
      BY <3>1, FewerStamps
  <2>4. ASSUME NEW e \in log, e.by # "redis" PROVE InMemory(e)'
    <3>1. InMemory(e) /\ e.at > clock - Window /\ e.by \in Procs /\ e.key \in Keys
      BY <1>t, <2>4 DEF MemoryInv
    <3>2. [id |-> e.id, at |-> e.at] \in stamps'[e.by][e.key]
      BY <1>t, <2>u, <3>1 DEF InMemory, Fresh
    <3> QED
      BY <2>0, <2>u, <3>1, <3>2 DEF InMemory
  <2> QED
    BY <2>0, <2>3, <2>4 DEF MemoryInv
<1>3. ASSUME NEW p \in Procs, Cleanup(p) PROVE MemoryInv'
  <2>0. /\ clock' = clock
        /\ log' = {e \in log : ~(e.by = p /\ e.key \in Evicted(p))}
        /\ held' = [held EXCEPT ![p] = Kept(p)]
        /\ stamps' = [stamps EXCEPT ![p] = [k \in Keys |-> IF k \in Kept(p) THEN @[k] ELSE {}]]
        /\ last' = [last EXCEPT ![p] = [k \in Keys |-> IF k \in Kept(p) THEN @[k] ELSE 0]]
    BY <1>3 DEF Cleanup
  <2>u. /\ \A q \in Procs : q # p =>
              stamps'[q] = stamps[q] /\ last'[q] = last[q] /\ held'[q] = held[q]
        /\ \A k \in Keys :
              /\ stamps'[p][k] = IF k \in Kept(p) THEN stamps[p][k] ELSE {}
              /\ last'[p][k] = IF k \in Kept(p) THEN last[p][k] ELSE 0
        /\ held'[p] = Kept(p)
    BY <2>0 DEF TypeInv, Types
  <2>3. ASSUME NEW q \in Procs, NEW k \in Keys
        PROVE  IsFiniteSet(stamps'[q][k]) /\ Cardinality(stamps'[q][k]) <= Limit
    <3>1. CASE stamps'[q][k] = {}
      BY <3>1, FS_EmptySet
    <3>2. CASE stamps'[q][k] = stamps[q][k]
      BY <3>2 DEF MemoryInv
    <3> QED
      BY <2>u, <3>1, <3>2
  <2>4. ASSUME NEW e \in log', e.by # "redis" PROVE InMemory(e)'
    <3>1. /\ e \in log /\ InMemory(e) /\ e.at > clock - Window /\ e.by \in Procs
          /\ e.key \in Keys /\ e.at \in Int
      BY <1>t, <2>0, <2>4 DEF MemoryInv
    <3>2. CASE e.by = p
      <4>1. e.key \notin Evicted(p)
        BY <2>0, <3>2
      <4>2. last[p][e.key] >= clock - TTL
        BY <1>t, <3>1, <3>2 DEF InMemory
      <4>3. e.key \in Kept(p)
        BY <3>1, <3>2, <4>1, <4>2 DEF Kept, Live, InMemory
      <4> QED
        BY <2>u, <3>1, <3>2, <4>3 DEF InMemory
    <3>3. CASE e.by # p
      BY <2>u, <3>1, <3>3 DEF InMemory
    <3> QED
      BY <3>2, <3>3
  <2> QED
    BY <2>0, <2>3, <2>4 DEF MemoryInv
<1>4. CASE Tick
  <2>0. /\ clock' = clock + 1 /\ log' = {e \in log : e.at > clock + 1 - Window}
        /\ UNCHANGED <<held, stamps, last>>
    BY <1>4 DEF Tick, limiter, memory
  <2>3. ASSUME NEW q \in Procs, NEW k \in Keys
        PROVE  IsFiniteSet(stamps'[q][k]) /\ Cardinality(stamps'[q][k]) <= Limit
    BY <2>0 DEF MemoryInv
  <2>4. \A e \in log' : e.at > clock' - Window /\ e.at <= clock'
    BY <1>t, <2>0 DEF MemoryInv
  <2>5. ASSUME NEW e \in log', e.by # "redis" PROVE InMemory(e)'
    BY <2>0, <2>5 DEF MemoryInv, InMemory
  <2> QED
    BY <2>3, <2>4, <2>5 DEF MemoryInv
<1>5. ASSUME UNCHANGED <<held, newer, stamps, last, clock>>,
             \A e \in log' : e \in log \/ AskedRecently(e)
      PROVE  MemoryInv'
  <2>1. \A q \in Procs, k \in Keys :
           IsFiniteSet(stamps'[q][k]) /\ Cardinality(stamps'[q][k]) <= Limit
    BY <1>5 DEF MemoryInv
  <2>2. \A e \in log' : e.at > clock' - Window /\ e.at <= clock'
    BY <1>t, <1>5 DEF MemoryInv, AskedRecently
  <2>3. ASSUME NEW e \in log', e.by # "redis" PROVE InMemory(e)'
    BY <1>5, <2>3 DEF MemoryInv, InMemory, AskedRecently
  <2> QED
    BY <2>1, <2>2, <2>3 DEF MemoryInv
<1> QED
  BY <1>1, <1>2, <1>3, <1>4, <1>5, MemoryFrame

LEMMA MemoryBound == TypeInv /\ MemoryInv => MemoryLimit
<1> SUFFICES ASSUME TypeInv, MemoryInv, NEW p \in Procs, NEW k \in Keys
             PROVE  Cardinality(AdmittedBy(p, k, clock - Window)) <= Limit
  BY DEF MemoryLimit
<1> USE Bounds
<1> DEFINE S == AdmittedBy(p, k, clock - Window)
           T == stamps[p][k]
           entry == [e \in S |-> [id |-> e.id, at |-> e.at]]
<1>0. clock \in Int /\ IsFiniteSet(T) /\ Cardinality(T) <= Limit
  BY DEF MemoryInv, TypeInv, Types, Time
<1>1. ASSUME NEW e \in S
      PROVE  /\ e \in Admission /\ e.by = p /\ e.key = k /\ e.stamp = e.at
             /\ [id |-> e.id, at |-> e.at] \in T
  <2>1. e \in log /\ e.by = p /\ e.key = k /\ e.at > clock - Window
    BY DEF AdmittedBy
  <2>2. e \in Admission /\ e.at \in Int
    BY <2>1 DEF TypeInv, Types, Admission, Time
  <2>3. InMemory(e)
    BY <2>1, NamesAssumption DEF MemoryInv
  <2> QED
    BY <1>0, <2>1, <2>2, <2>3 DEF InMemory
<1>2. entry \in [S -> T]
  BY <1>1
<1>3. ASSUME NEW e \in S, NEW f \in S, entry[e] = entry[f] PROVE e = f
  <2>1. e.id = f.id /\ e.at = f.at
    BY <1>3
  <2>2. e \in Admission /\ f \in Admission /\ e.by = f.by /\ e.key = f.key /\ e.stamp = f.stamp
    BY <1>1, <2>1
  <2> QED
    BY <2>1, <2>2 DEF Admission
<1>4. entry \in Injection(S, T)
  BY <1>2, <1>3 DEF Injection, IsInjective
<1> HIDE DEF entry
<1>5. IsFiniteSet(S) /\ Cardinality(S) <= Cardinality(T)
  BY <1>0, <1>4, FS_Injection
<1>6. Cardinality(S) \in Nat /\ Cardinality(T) \in Nat
  BY <1>0, <1>5, FS_CardinalityType
<1> HIDE DEF S, T
<1>7. Cardinality(S) <= Limit
  BY <1>0, <1>5, <1>6
<1> QED
  BY <1>7 DEF S

\* For any number of processes, clients and failures, and although a cleanup thread
\* removes buckets for their age, a process without Redis admits at most Limit requests
\* of a client in a window (rate_limit.py, check_limit and _cleanup).
THEOREM MemoryLimits == Spec => []MemoryLimit
BY RequestInit, RequestNext, LogInit, LogNext, DumpInit, DumpNext, TypeInit, TypeNext,
   MemoryInit, MemoryNext, MemoryBound, PTL DEF Spec

\* For any number of processes, clients and failures the variables keep their types,
\* and a bucket never holds more timestamps than the requests it may admit
\* (rate_limit.py, check_limit).
THEOREM LimiterTypes == Spec => []TypeOK
<1>1. TypeInv /\ MemoryInv => TypeOK
  BY DEF TypeInv, MemoryInv, TypeOK
<1> QED
  BY <1>1, RequestInit, RequestNext, LogInit, LogNext, DumpInit, DumpNext, TypeInit, TypeNext,
     MemoryInit, MemoryNext, PTL DEF Spec

-----------------------------------------------------------------------------
(* The cleanup. *)

\* The buckets of a process are totally ordered by their last use.
OrderInv ==
    \A p \in Procs :
        /\ IsFiniteSet(held[p])
        /\ \A k \in held[p] : newer[p][k] \subseteq held[p] \ {k}
        /\ \A k, l \in held[p] : k # l => l \in newer[p][k] \/ k \in newer[p][l]
        /\ \A k, l \in held[p] : l \in newer[p][k] => newer[p][l] \subseteq newer[p][k]

LEMMA OrderInit == Init => OrderInv
BY FS_EmptySet DEF Init, OrderInv

LEMMA OrderNext == RequestInv /\ DumpInv /\ TypeInv /\ OrderInv /\ [Next]_vars => OrderInv'
<1> SUFFICES ASSUME RequestInv, DumpInv, TypeInv, OrderInv, [Next]_vars PROVE OrderInv'
  OBVIOUS
<1>1. ASSUME NEW p \in Procs, MemoryAdmits(p) \/ MemoryRefuses(p) PROVE OrderInv'
  <2>0. /\ key[p] \in Keys
        /\ held' = [held EXCEPT ![p] = @ \cup {key[p]}]
        /\ newer' = [newer EXCEPT ![p] =
                       [k \in Keys |-> IF k \in held[p] \ {key[p]}
                                       THEN newer[p][k] \cup {key[p]} ELSE {}]]
    BY <1>1 DEF MemoryAdmits, MemoryRefuses, MoveToEnd, RequestInv
  <2>1. /\ held'[p] = held[p] \cup {key[p]}
        /\ newer'[p][key[p]] = {}
        /\ \A k \in held[p] \ {key[p]} : newer'[p][k] = newer[p][k] \cup {key[p]}
        /\ \A q \in Procs \ {p} : held'[q] = held[q] /\ newer'[q] = newer[q]
    BY <2>0 DEF TypeInv, Types
  <2>2. IsFiniteSet(held[p] \cup {key[p]})
    BY FS_AddElement DEF OrderInv
  <2>3. /\ \A k \in held[p] : newer[p][k] \subseteq held[p] \ {k}
        /\ \A k, l \in held[p] : k # l => l \in newer[p][k] \/ k \in newer[p][l]
        /\ \A k, l \in held[p] : l \in newer[p][k] => newer[p][l] \subseteq newer[p][k]
    BY DEF OrderInv
  <2>4. \A k \in held'[p] : newer'[p][k] \subseteq held'[p] \ {k}
    BY <2>1, <2>3
  <2>5. \A k, l \in held'[p] : k # l => l \in newer'[p][k] \/ k \in newer'[p][l]
    BY <2>1, <2>3
  <2>6. \A k, l \in held'[p] : l \in newer'[p][k] => newer'[p][l] \subseteq newer'[p][k]
    BY <2>1, <2>3
  <2> QED
    BY <2>1, <2>2, <2>4, <2>5, <2>6 DEF OrderInv
<1>2. ASSUME NEW p \in Procs, Cleanup(p) PROVE OrderInv'
  <2>0. Kept(p) \subseteq held[p] /\ held[p] \subseteq Keys
    BY DEF Kept, Live, TypeInv, Types
  <2>1. /\ held'[p] = Kept(p)
        /\ \A k \in Kept(p) : newer'[p][k] = newer[p][k] \cap Kept(p)
        /\ \A q \in Procs \ {p} : held'[q] = held[q] /\ newer'[q] = newer[q]
    BY <1>2, <2>0 DEF Cleanup, TypeInv, Types
  <2>2. IsFiniteSet(Kept(p))
    BY <2>0, FS_Subset DEF OrderInv
  <2> HIDE DEF Kept
  <2> QED
    BY <2>0, <2>1, <2>2 DEF OrderInv
<1>3. ASSUME UNCHANGED <<held, newer>> PROVE OrderInv'
  BY <1>3 DEF OrderInv
<1> QED
  BY <1>1, <1>2, <1>3, MemoryFrame DEF Tick, limiter, memory

\* Of the buckets that stay, one was used before all the others.
LEMMA OldestKept ==
    ASSUME OrderInv, NEW p \in Procs, NEW S, S \subseteq held[p], S # {}
    PROVE  \E k \in S : S \subseteq newer[p][k] \cup {k}
<1> DEFINE H == held[p]
           T == {H \ newer[p][k] : k \in S}
<1>1. IsFiniteSet(H)
  BY DEF OrderInv
<1>2. IsWellFoundedOn(StrictSubsetOrdering(H), SUBSET H)
  BY <1>1, FS_StrictSubsetOrderingWellFounded, FS_FiniteSubsetsOfFinite
<1>3. PICK x \in T : \A y \in T : <<y, x>> \notin StrictSubsetOrdering(H)
  <2>1. T \subseteq SUBSET H /\ T # {}
    OBVIOUS
  <2> HIDE DEF T
  <2> QED
    BY <1>2, <2>1, WFMin
<1>4. PICK k \in S : x = H \ newer[p][k]
  BY <1>3
<1>5. ASSUME NEW l \in S, l # k, l \notin newer[p][k] PROVE FALSE
  <2>1. k \in newer[p][l] /\ newer[p][k] \subseteq newer[p][l] /\ k \notin newer[p][k]
    BY <1>5 DEF OrderInv
  <2>2. H \ newer[p][l] \subseteq x /\ H \ newer[p][l] # x
    BY <1>4, <2>1
  <2> QED
    BY <1>3, <1>4, <2>2 DEF StrictSubsetOrdering
<1> QED
  BY <1>5

LEMMA KeptFew ==
    ASSUME OrderInv, NEW p \in Procs PROVE Cardinality(Kept(p)) <= MaxClients
<1> USE MoreBounds
<1>1. CASE Kept(p) = {}
  BY <1>1, FS_EmptySet
<1>2. CASE Kept(p) # {}
  <2>1. Kept(p) \subseteq held[p] /\ Kept(p) \subseteq Live(p) /\ IsFiniteSet(held[p])
    BY DEF Kept, Live, OrderInv
  <2>2. PICK k \in Kept(p) : Kept(p) \subseteq newer[p][k] \cup {k}
    BY <1>2, <2>1, OldestKept
  <2> DEFINE N == newer[p][k] \cap Live(p)
  <2>3. IsFiniteSet(N)
    BY <2>1, FS_Subset DEF Live
  <2>4. Cardinality(N) \in Nat
    BY <2>3, FS_CardinalityType
  <2>5. Cardinality(N) < MaxClients
    BY <2>4 DEF Kept, Evicted
  <2>6. /\ IsFiniteSet(N \cup {k})
        /\ Cardinality(N \cup {k}) \in {Cardinality(N), Cardinality(N) + 1}
    BY <2>3, FS_AddElement
  <2>7. Kept(p) \subseteq N \cup {k}
    BY <2>1, <2>2
  <2> HIDE DEF N
  <2>8. /\ IsFiniteSet(Kept(p))
        /\ Cardinality(Kept(p)) <= Cardinality(N \cup {k})
    BY <2>6, <2>7, FS_Subset
  <2>9. Cardinality(Kept(p)) \in Nat /\ Cardinality(N \cup {k}) \in Nat
    BY <2>6, <2>8, FS_CardinalityType
  <2> QED
    BY <2>4, <2>5, <2>6, <2>8, <2>9
<1> QED
  BY <1>1, <1>2

LEMMA RoomStep ==
    ASSUME RequestInv, DumpInv, OrderInv, TypeInv, [Next]_vars, NEW p \in Procs,
           held[p] \ held'[p] # {}
    PROVE  Cardinality(held'[p]) <= MaxClients
<1>1. ASSUME NEW q \in Procs, MemoryAdmits(q) \/ MemoryRefuses(q) PROVE FALSE
  <2>1. held' = [held EXCEPT ![q] = @ \cup {key[q]}]
    BY <1>1 DEF MemoryAdmits, MemoryRefuses, MoveToEnd
  <2> QED
    BY <2>1 DEF TypeInv, Types
<1>2. ASSUME NEW q \in Procs, Cleanup(q) PROVE Cardinality(held'[p]) <= MaxClients
  <2>1. held' = [held EXCEPT ![q] = Kept(q)]
    BY <1>2 DEF Cleanup
  <2>2. p = q /\ held'[p] = Kept(p)
    BY <2>1 DEF TypeInv, Types
  <2> QED
    BY <2>2, KeptFew
<1> QED
  BY <1>1, <1>2, MemoryFrame DEF Tick, limiter, memory

\* For any history of a process's buckets, a cleanup that removes one leaves at most
\* MaxClients: the oldest that stays has fewer than MaxClients newer than itself
\* (rate_limit.py, _cleanup).
THEOREM CleanupBounds == Spec => CleanupMakesRoom
<1>1. RequestInv /\ DumpInv /\ OrderInv /\ TypeInv /\ [Next]_vars
         => [\A p \in Procs : held[p] \ held'[p] # {}
                                => Cardinality(held'[p]) <= MaxClients]_vars
  BY RoomStep
<1> QED
  BY <1>1, RequestInit, RequestNext, LogInit, LogNext, DumpInit, DumpNext, TypeInit, TypeNext,
     OrderInit, OrderNext, PTL DEF Spec, CleanupMakesRoom

=============================================================================
