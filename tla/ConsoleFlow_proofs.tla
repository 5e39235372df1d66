------------------------- MODULE ConsoleFlow_proofs -------------------------
(* The console for any number of applies, reviews, passphrases, restarts and  *)
(* retries of the task.                                                       *)
EXTENDS ConsoleFlow, TLAPS

-----------------------------------------------------------------------------
(* Every reachable state is well typed.  The inductive invariant adds that *)
(* whoever works on an object holds one.                                   *)

HeldInv ==
    /\ \A h \in Holders : holds[h] = Shared => cached # NoBatch
    /\ scan.thread = "read" => holds[Scan] # NoBatch
    /\ \A a \in Applies : apply[a].thread = "read" => holds[a] # NoBatch
    /\ worker.pc \notin {"idle", "failed"} => worker.batch # NoBatch
    /\ worker.again => task.tries < MaxRetries

Inv == TypeOK /\ HeldInv

LEMMA Bounds == MaxKeys \in Nat /\ MaxKeys >= 1 /\ MaxRestarts \in Nat /\ MaxRetries \in Nat
BY BoundsAssumption

LEMMA InvInit == Init => Inv
<1> SUFFICES ASSUME Init PROVE Inv
  OBVIOUS
<1>1. Idle \in Call /\ NoReview \in Marks
  BY DEF Idle, Call, Thread, Marks
<1>2. apply \in [Applies -> Call] /\ \A a \in Applies : apply[a] = Idle
  BY <1>1 DEF Init
<1>3. scan \in [waits : BOOLEAN, thread : Thread] /\ scan.thread # "read"
  BY DEF Init, Thread
<1>4. passphrase \in 0..MaxKeys /\ keys \in 0..MaxKeys /\ restarts \in 0..MaxRestarts
  BY Bounds DEF Init
<1>5. holds \in [Holders -> Batch \cup {NoBatch, Shared}]
      /\ \A h \in Holders : holds[h] # Shared
  BY DEF Init, NoBatch, Shared
<1>6. task \in [state : {"none", "queued", "taken", "over"}, tries : 0..MaxRetries]
  BY Bounds DEF Init
<1>7. worker \in [pc : Steps, batch : Batch \cup {NoBatch}, key : 0..MaxKeys,
                  stale : BOOLEAN, again : BOOLEAN]
      /\ worker.pc = "idle" /\ ~worker.again
  BY Bounds DEF Init, NoWorker, Steps
<1>8. \A a \in Applies : apply[a].thread # "read"
  BY <1>2 DEF Idle
<1> QED
  BY <1>1, <1>2, <1>3, <1>4, <1>5, <1>6, <1>7, <1>8 DEF Init, Inv, TypeOK, HeldInv

\* What get_batch returns, and what is held before and after it.
LEMMA SeenTyped ==
    ASSUME TypeOK
    PROVE  Seen \in Batch \cup {NoBatch} /\ (Seen = NoBatch => cached = NoBatch)
BY DEF TypeOK, Seen, Believed

LEMMA ObjectsDiffer == NoBatch \notin Batch /\ Shared \notin Batch /\ NoBatch # Shared
BY DEF NoBatch, Shared, Batch, Stable

LEMMA DetachedTyped ==
    ASSUME Inv
    PROVE  /\ Detached \in [Holders -> Batch \cup {NoBatch}]
           /\ \A h \in Holders : Held(h) = Detached[h]
           /\ \A h \in Holders : holds[h] # NoBatch => Detached[h] \in Batch
BY ObjectsDiffer DEF Inv, TypeOK, HeldInv, Detached, Held

LEMMA HoldingTyped ==
    ASSUME Inv
    PROVE  /\ Holding \in [Holders -> Batch \cup {NoBatch, Shared}]
           /\ \A h \in Holders : holds[h] # NoBatch => Holding[h] # NoBatch
           /\ \A h \in Holders : Holding[h] = Shared => Seen # NoBatch
<1>1. CASE Believed
  BY <1>1 DEF Inv, TypeOK, HeldInv, Holding, Believed, Seen
<1>2. CASE ~Believed
  BY <1>2, DetachedTyped, ObjectsDiffer DEF Holding
<1> QED
  BY <1>1, <1>2

LEMMA ReturnedTyped ==
    ASSUME Inv, NEW h \in Holders
    PROVE  /\ Returned(h) \in [Holders -> Batch \cup {NoBatch, Shared}]
           /\ \A k \in Holders \ {h} : holds[k] # NoBatch => Returned(h)[k] # NoBatch
BY DetachedTyped, ObjectsDiffer DEF Returned

\* The race of a stored batch changes the history of the applies alone.
LEMMA RaceTyped ==
    ASSUME TypeOK, NEW b
    PROVE  /\ Race(b) \in [Applies -> Call]
           /\ \A a \in Applies : /\ Race(b)[a].thread = apply[a].thread
                                 /\ Race(b)[a].thread = "none" => Race(b)[a] = Idle
<1>1. \A a \in Applies : apply[a] \in Call
  BY DEF TypeOK
<1>2. \A a \in Applies : [apply[a] EXCEPT !.raced = TRUE] \in Call
                         /\ [apply[a] EXCEPT !.raced = TRUE].thread = apply[a].thread
  BY <1>1 DEF Call
<1> QED
  BY <1>1, <1>2 DEF Race, TypeOK

LEMMA MarkedTyped ==
    ASSUME NEW b \in Batch, NEW decided \in Reviews \cup {NoReview}
    PROVE  Marked(b, decided) \in Batch
BY DEF Marked, Batch, Marks

\* What changes with a stored batch, with a cleanup, and with the mapping.
LEMMA StoreTyped ==
    ASSUME TypeOK, NEW b \in Batch, Store(b)
    PROVE  /\ store' = b /\ cached' = b /\ b # NoBatch
           /\ dir' \in BOOLEAN /\ timer' \in {"none", "running", "lost"}
           /\ reviewed' \in BOOLEAN
BY ObjectsDiffer DEF Store, Write, TypeOK

LEMMA WorkerStoresTyped ==
    ASSUME TypeOK, NEW b \in Batch, WorkerStores(b)
    PROVE  /\ store' = b /\ dir' \in BOOLEAN /\ timer' \in {"none", "running", "lost"}
           /\ reviewed' \in BOOLEAN /\ apply' = Race(b)
           /\ UNCHANGED <<cached, holds, decisions, passphrase, scan, textFile, mappingFile,
                          disturbed, rekeyed, late, bounds>>
BY DEF WorkerStores, Write, TypeOK

LEMMA CleanupTyped ==
    ASSUME Inv, Cleanup
    PROVE  /\ store' = NoBatch /\ cached' = NoBatch
           /\ holds' \in [Holders -> Batch \cup {NoBatch}]
           /\ \A h \in Holders : holds[h] # NoBatch => holds'[h] # NoBatch
           /\ decisions' \in Reviews \cup {NoReview} /\ passphrase' \in 0..MaxKeys
           /\ dir' \in BOOLEAN /\ timer' \in {"none", "running", "lost"}
           /\ textFile' \in Marks \cup {Nothing}
           /\ mappingFile' \in Mapping \cup {Nothing, Torn}
           /\ reviewed' \in BOOLEAN /\ disturbed' \in BOOLEAN /\ rekeyed' \in BOOLEAN
           /\ late' \in BOOLEAN
<1>1. passphrase' \in 0..MaxKeys
  BY Bounds DEF Cleanup
<1>2. mappingFile' \in Mapping \cup {Nothing, Torn}
  BY DEF Cleanup
<1>3. holds' = Detached
  BY DEF Cleanup
<1> QED
  BY <1>1, <1>2, <1>3, DetachedTyped, ObjectsDiffer DEF Cleanup

LEMMA SaveTyped ==
    ASSUME TypeOK, SaveMapping \/ SaveMappingFails
    PROVE  mappingFile' \in Mapping \cup {Nothing, Torn} /\ rekeyed' \in BOOLEAN
<1>1. CASE SaveMapping
  <2>1. passphrase \in 1..MaxKeys
    BY <1>1, Bounds DEF SaveMapping, TypeOK
  <2>2. Seen.marks \in Marks
    BY <1>1, SeenTyped DEF SaveMapping, Batch
  <2> QED
    BY <1>1, <2>1, <2>2 DEF SaveMapping, Sealed, Mapping
<1>2. CASE SaveMappingFails
  BY <1>2 DEF SaveMappingFails, TypeOK
<1> QED
  BY <1>1, <1>2

\* The parts of the state most actions leave alone.
Passive ==
    /\ decisions \in Reviews \cup {NoReview} /\ passphrase \in 0..MaxKeys
    /\ textFile \in Marks \cup {Nothing}
    /\ mappingFile \in Mapping \cup {Nothing, Torn}
    /\ disturbed \in BOOLEAN /\ rekeyed \in BOOLEAN /\ late \in BOOLEAN
    /\ keys \in 0..MaxKeys /\ restarts \in 0..MaxRestarts /\ quiet \in BOOLEAN

WorkerOK ==
    /\ task \in [state : {"none", "queued", "taken", "over"}, tries : 0..MaxRetries]
    /\ worker \in [pc : Steps, batch : Batch \cup {NoBatch}, key : 0..MaxKeys,
                   stale : BOOLEAN, again : BOOLEAN]
    /\ worker.pc \notin {"idle", "failed"} => worker.batch # NoBatch
    /\ worker.again => task.tries < MaxRetries

ApplyOK ==
    /\ apply \in [Applies -> Call]
    /\ \A a \in Applies : apply[a].thread = "none" => apply[a] = Idle
    /\ \A a \in Applies : apply[a].thread = "read" => holds[a] # NoBatch

ScanOK ==
    /\ scan \in [waits : BOOLEAN, thread : Thread]
    /\ scan.thread = "read" => holds[Scan] # NoBatch

RecordOK ==
    /\ store \in Batch \cup {NoBatch} /\ cached \in Batch \cup {NoBatch}
    /\ holds \in [Holders -> Batch \cup {NoBatch, Shared}]
    /\ \A h \in Holders : holds[h] = Shared => cached # NoBatch
    /\ dir \in BOOLEAN /\ timer \in {"none", "running", "lost"} /\ reviewed \in BOOLEAN

LEMMA InvParts == Inv <=> RecordOK /\ ScanOK /\ ApplyOK /\ WorkerOK /\ Passive
BY DEF Inv, TypeOK, HeldInv, RecordOK, ScanOK, ApplyOK, WorkerOK, Passive

LEMMA InvAgain == RecordOK' /\ ScanOK' /\ ApplyOK' /\ WorkerOK' /\ Passive' => Inv'
BY DEF Inv, TypeOK, HeldInv, RecordOK, ScanOK, ApplyOK, WorkerOK, Passive

LEMMA Members == Scan \in Holders /\ Route \in Holders /\ Applies \subseteq Holders
                 /\ Scan \notin Applies /\ Route \notin Applies /\ Scan # Route
BY HoldersAssumption DEF Holders

\* A thread that ends, fails or gives up leaves a call that is well typed.
LEMMA CallTyped ==
    ASSUME NEW call \in Call
    PROVE  /\ Failed(call) \in Call /\ Failed(call).thread # "read"
           /\ Failed(call).thread = "none" => Failed(call) = Idle
           /\ Finished(call) \in Call /\ Finished(call).thread # "read"
           /\ Finished(call).thread = "none" => Finished(call) = Idle
           /\ Idle \in Call /\ Idle.thread = "none"
BY DEF Failed, Finished, Idle, Call, Thread, Marks

\* Whatever one of the applies becomes.
LEMMA ApplyTyped ==
    ASSUME Inv, NEW f \in [Applies -> Call],
           \A b \in Applies : /\ f[b].thread = apply[b].thread
                              /\ f[b].thread = "none" => f[b] = Idle,
           NEW a \in Applies, NEW v \in Call, v.thread = "none" => v = Idle,
           v.thread = "read" => holds'[a] # NoBatch,
           apply' = [f EXCEPT ![a] = v],
           \A b \in Applies \ {a} : holds[b] # NoBatch => holds'[b] # NoBatch
    PROVE  ApplyOK'
BY DEF Inv, TypeOK, HeldInv, ApplyOK

LEMMA ApplyRaced ==
    ASSUME Inv, NEW b, apply' = Race(b),
           \A a \in Applies : holds[a] # NoBatch => holds'[a] # NoBatch
    PROVE  ApplyOK'
BY RaceTyped DEF Inv, HeldInv, ApplyOK

LEMMA ApplySame ==
    ASSUME Inv, UNCHANGED apply,
           \A a \in Applies : holds[a] # NoBatch => holds'[a] # NoBatch
    PROVE  ApplyOK'
BY DEF Inv, TypeOK, HeldInv, ApplyOK

LEMMA ScanNext ==
    ASSUME Inv, \/ ScanStart \/ ScanStartFails \/ ScanReads \/ ScanStores
                \/ ScanRaises \/ ScanAnswers \/ ScanGivesUp
    PROVE  Inv'
<1> USE InvParts, InvAgain, Members
<1>0. RecordOK /\ ScanOK /\ ApplyOK /\ WorkerOK /\ Passive /\ TypeOK
  BY DEF Inv
<1>1. ASSUME Create, passphrase' \in 0..MaxKeys PROVE RecordOK' /\ ApplyOK' /\ WorkerOK' /\ Passive'
  <2>1. NewBatch \in Batch
    BY DEF NewBatch, Batch, Marks
  <2>2. Store(NewBatch)
    BY <1>1 DEF Create
  <2>3. RecordOK'
    BY <1>0, <1>1, <2>1, <2>2, StoreTyped DEF RecordOK, Create
  <2>4. ApplyOK'
    BY <1>1, ApplyRaced DEF Create
  <2>5. WorkerOK' /\ Passive'
    BY <1>0, <1>1, Bounds DEF Create, WorkerOK, Passive, celery
  <2> QED
    BY <2>3, <2>4, <2>5
<1>2. CASE ScanStart
  <2>1. scan'.thread # "read" /\ scan' \in [waits : BOOLEAN, thread : Thread]
    BY <1>2 DEF ScanStart, Thread
  <2>2. Create /\ passphrase' \in 0..MaxKeys
    BY <1>2, Bounds DEF ScanStart
  <2> QED
    BY <1>1, <2>1, <2>2 DEF ScanOK
<1>3. CASE ScanStartFails
  <2>1. UNCHANGED <<scan, holds>>
    BY <1>3 DEF ScanStartFails, Create
  <2>2. Create /\ passphrase' \in 0..MaxKeys
    BY <1>3, Bounds DEF ScanStartFails
  <2> QED
    BY <1>0, <1>1, <2>1, <2>2 DEF ScanOK
<1>4. CASE ScanReads
  <2>1. RecordOK' /\ ScanOK' /\ \A a \in Applies : holds[a] # NoBatch => holds'[a] # NoBatch
    <3>1. CASE /\ GetBatch /\ holds' = [Holding EXCEPT ![Scan] = Shared]
               /\ scan' = [scan EXCEPT !.thread = "read"]
      BY <1>0, <1>4, <3>1, HoldingTyped, SeenTyped, ObjectsDiffer
      DEF ScanReads, GetBatch, RecordOK, ScanOK, Thread, files
    <3>2. CASE scan' = Ends(scan, "failed") /\ UNCHANGED <<holds, cached, timer>>
      BY <1>0, <1>4, <3>2 DEF ScanReads, Ends, RecordOK, ScanOK, Thread, files
    <3> QED
      BY <1>4, <3>1, <3>2 DEF ScanReads
  <2>2. ApplyOK'
    BY <1>4, <2>1, ApplySame DEF ScanReads
  <2>3. WorkerOK' /\ Passive'
    BY <1>0, <1>4 DEF ScanReads, WorkerOK, Passive, celery, files, bounds
  <2> QED
    BY <2>1, <2>2, <2>3
<1>5. CASE ScanStores
  <2> DEFINE b == Scanned(Held(Scan))
  <2>1. Held(Scan) \in Batch
    BY <1>0, <1>5, DetachedTyped DEF ScanStores, ScanOK
  <2>2. b \in Batch
    BY <2>1 DEF Scanned, Batch, Stable, Marks
  <2>3. Store(b) /\ holds' = Returned(Scan) /\ apply' = Race(b) /\ scan' = Ends(scan, "done")
    BY <1>5 DEF ScanStores
  <2> HIDE DEF b
  <2>4. RecordOK'
    BY <2>2, <2>3, <1>0, StoreTyped, ReturnedTyped DEF RecordOK
  <2>5. ApplyOK'
    BY <2>3, ReturnedTyped, ApplyRaced
  <2>6. ScanOK'
    BY <1>0, <1>5, <2>3 DEF ScanStores, ScanOK, Ends, Thread
  <2>7. WorkerOK' /\ Passive'
    BY <1>0, <1>5 DEF ScanStores, WorkerOK, Passive, celery, bounds
  <2> QED
    BY <2>4, <2>5, <2>6, <2>7
<1>6. CASE ScanRaises
  <2>1. RecordOK' /\ ScanOK' /\ \A a \in Applies : holds[a] # NoBatch => holds'[a] # NoBatch
    BY <1>0, <1>6, ObjectsDiffer DEF ScanRaises, RecordOK, ScanOK, Ends, Thread, files
  <2>2. ApplyOK'
    BY <1>6, <2>1, ApplySame DEF ScanRaises
  <2>3. WorkerOK' /\ Passive'
    BY <1>0, <1>6 DEF ScanRaises, WorkerOK, Passive, celery, files, bounds
  <2> QED
    BY <2>1, <2>2, <2>3
<1>7. CASE ScanAnswers
  BY <1>0, <1>7 DEF ScanAnswers, RecordOK, ScanOK, ApplyOK, WorkerOK, Passive, Thread,
     batch, celery, files, bounds
<1>8. CASE ScanGivesUp
  <2>1. Cleanup /\ UNCHANGED <<apply, task, worker, keys, restarts, quiet>>
    BY <1>8 DEF ScanGivesUp, celery, bounds
  <2>2. RecordOK'
    BY <2>1, CleanupTyped, ObjectsDiffer DEF RecordOK
  <2>3. scan' \in [waits : BOOLEAN, thread : Thread] /\ (scan'.thread = "read" => scan.thread = "read")
    BY <1>0, <1>8 DEF ScanGivesUp, ScanOK, Thread
  <2>4. ScanOK' /\ ApplyOK'
    BY <1>0, <2>1, <2>3, CleanupTyped, ApplySame DEF ScanOK
  <2>5. WorkerOK' /\ Passive'
    BY <1>0, <2>1, CleanupTyped DEF WorkerOK, Passive
  <2> QED
    BY <2>2, <2>4, <2>5
<1> QED
  BY <1>2, <1>3, <1>4, <1>5, <1>6, <1>7, <1>8

LEMMA ApplyNext ==
    ASSUME Inv, NEW a \in Applies,
           \/ ApplyBegins(a) \/ ApplyReads(a) \/ ApplyStores(a) \/ ApplyRaises(a)
           \/ ApplyGivesUp(a) \/ ApplySaves(a)
    PROVE  Inv'
<1> USE InvParts, InvAgain, Members
<1>0. RecordOK /\ ScanOK /\ ApplyOK /\ WorkerOK /\ Passive /\ TypeOK
  BY DEF Inv
<1>a. apply[a] \in Call
  BY <1>0 DEF TypeOK
<1>b. apply \in [Applies -> Call] /\ \A b \in Applies : apply[b].thread = "none" => apply[b] = Idle
  BY <1>0 DEF ApplyOK
<1>1. CASE ApplyBegins(a)
  <2> DEFINE b == Marked(Seen, decisions)
             v == [Idle EXCEPT !.waits = TRUE, !.thread = "start"]
  <2>1. Seen \in Batch /\ holds' = Holding /\ apply' = [Race(b) EXCEPT ![a] = v]
    BY <1>0, <1>1, SeenTyped DEF ApplyBegins
  <2>2. b \in Batch
    BY <1>0, <2>1, MarkedTyped DEF Passive
  <2>3. v \in Call /\ v.thread = "start"
    BY DEF Idle, Call, Thread, Marks
  <2>4. (GetBatch /\ UNCHANGED <<store, dir, reviewed>>) \/ Store(b)
    BY <1>1 DEF ApplyBegins
  <2>5. ScanOK' /\ WorkerOK' /\ Passive'
    BY <1>0, <1>1, <2>1, HoldingTyped DEF ApplyBegins, ScanOK, WorkerOK, Passive, celery, bounds
  <2> HIDE DEF b, v
  <2>6. RecordOK'
    BY <1>0, <2>1, <2>2, <2>4, StoreTyped, HoldingTyped, SeenTyped, ObjectsDiffer
    DEF RecordOK, GetBatch
  <2>7. ApplyOK'
    BY <1>0, <2>1, <2>3, RaceTyped, HoldingTyped, ApplyTyped
  <2> QED
    BY <2>5, <2>6, <2>7
<1>2. CASE ApplyReads(a)
  <2>1. ScanOK' /\ WorkerOK' /\ Passive'
    BY <1>0, <1>2, HoldingTyped DEF ApplyReads, ScanOK, WorkerOK, Passive, celery, files, bounds
  <2>2. CASE GetBatch /\ holds' = [Holding EXCEPT ![a] = Shared]
    <3> DEFINE v == [apply[a] EXCEPT !.thread = "read", !.marks = Seen.marks,
                          !.raced = \/ store # NoBatch /\ store.marks # Seen.marks
                                    \/ /\ worker.pc \in {"unlock", "seal"}
                                       /\ worker.batch.marks # Seen.marks]
    <3>1. Seen \in Batch /\ Seen.marks \in Marks
      BY <1>0, <2>2, SeenTyped DEF GetBatch, Batch
    <3>2. v \in Call /\ v.thread = "read"
      BY <1>a, <3>1 DEF Call, Thread
    <3>3. apply' = [apply EXCEPT ![a] = v] \/ Seen = NoBatch
      BY <1>2 DEF ApplyReads
    <3> HIDE DEF v
    <3>4. RecordOK'
      BY <1>0, <1>2, <2>2, <3>1, HoldingTyped, ObjectsDiffer
      DEF ApplyReads, RecordOK, GetBatch, files
    <3>5. holds'[a] # NoBatch /\ \A b \in Applies \ {a} : holds[b] # NoBatch => holds'[b] # NoBatch
      BY <2>2, HoldingTyped, ObjectsDiffer
    <3>6. ApplyOK'
      BY <1>b, <2>2, <3>2, <3>3, <3>5, ApplyTyped DEF GetBatch
    <3> QED
      BY <2>1, <3>4, <3>6
  <2>3. CASE apply' = [apply EXCEPT ![a] = Failed(@)] /\ UNCHANGED <<holds, cached, timer>>
    <3>1. apply' = [apply EXCEPT ![a] = Failed(apply[a])]
      BY <2>3
    <3>2. ApplyOK'
      BY <1>a, <1>b, <2>3, <3>1, CallTyped, ApplyTyped
    <3>3. RecordOK'
      BY <1>0, <1>2, <2>3 DEF ApplyReads, RecordOK, files
    <3> QED
      BY <2>1, <3>2, <3>3
  <2> QED
    BY <1>2, <2>2, <2>3 DEF ApplyReads
<1>3. CASE ApplyStores(a)
  <2> DEFINE b == Held(a)
  <2>1. b \in Batch
    BY <1>0, <1>3, DetachedTyped DEF ApplyStores, ApplyOK
  <2>2. Store(b) /\ holds' = Returned(a) /\ apply' = [Race(b) EXCEPT ![a] = Finished(@)]
    BY <1>3 DEF ApplyStores
  <2>3. ScanOK' /\ WorkerOK' /\ Passive'
    BY <1>0, <1>3, ReturnedTyped DEF ApplyStores, ScanOK, WorkerOK, Passive, celery, bounds
  <2> HIDE DEF b
  <2>4. RecordOK'
    BY <1>0, <2>1, <2>2, StoreTyped, ReturnedTyped DEF RecordOK
  <2>5. apply' = [Race(b) EXCEPT ![a] = Finished(Race(b)[a])] /\ Race(b)[a] \in Call
    BY <1>0, <2>2, RaceTyped
  <2>6. ApplyOK'
    <3>1. Finished(Race(b)[a]) \in Call /\ Finished(Race(b)[a]).thread # "read"
          /\ (Finished(Race(b)[a]).thread = "none" => Finished(Race(b)[a]) = Idle)
      BY <2>5, CallTyped
    <3>2. \A k \in Applies \ {a} : holds[k] # NoBatch => holds'[k] # NoBatch
      BY <2>2, ReturnedTyped
    <3> QED
      BY <1>0, <2>5, <3>1, <3>2, RaceTyped, ApplyTyped
  <2> QED
    BY <2>3, <2>4, <2>6
<1>4. CASE ApplyRaises(a)
  <2>1. ScanOK' /\ WorkerOK' /\ Passive' /\ RecordOK'
    BY <1>0, <1>4, ObjectsDiffer
    DEF ApplyRaises, ScanOK, WorkerOK, Passive, RecordOK, celery, files, bounds
  <2>2. apply' = [apply EXCEPT ![a] = Failed(apply[a])]
    BY <1>4 DEF ApplyRaises
  <2>3. \A b \in Applies \ {a} : holds'[b] = holds[b]
    BY <1>0, <1>4 DEF ApplyRaises, RecordOK
  <2>4. ApplyOK'
    BY <1>a, <1>b, <2>2, <2>3, CallTyped, ApplyTyped
  <2> QED
    BY <2>1, <2>4
<1>5. CASE ApplyGivesUp(a)
  <2> DEFINE v == IF apply[a].thread \in {"start", "read"}
                  THEN [apply[a] EXCEPT !.waits = FALSE] ELSE Idle
  <2>1. ScanOK' /\ WorkerOK' /\ Passive' /\ RecordOK'
    BY <1>0, <1>5
    DEF ApplyGivesUp, ScanOK, WorkerOK, Passive, RecordOK, batch, celery, files, bounds
  <2>2. apply' = [apply EXCEPT ![a] = v]
    BY <1>5 DEF ApplyGivesUp
  <2>3. v \in Call /\ (v.thread = "none" => v = Idle) /\ (v.thread = "read" => apply[a].thread = "read")
    BY <1>a, CallTyped DEF Call
  <2>4. UNCHANGED holds
    BY <1>5 DEF ApplyGivesUp, batch
  <2> HIDE DEF v
  <2>5. v.thread = "read" => holds'[a] # NoBatch
    BY <1>0, <2>3, <2>4 DEF ApplyOK
  <2>6. ApplyOK'
    BY <1>b, <2>2, <2>3, <2>4, <2>5, ApplyTyped
  <2> QED
    BY <2>1, <2>6
<1>6. CASE ApplySaves(a)
  <2>1. holds' = Holding /\ UNCHANGED <<store, decisions, passphrase, scan, task, worker,
                                        keys, restarts, quiet>>
    BY <1>6 DEF ApplySaves, celery, bounds
  <2>2. SaveMapping \/ SaveMappingFails
    BY <1>6 DEF ApplySaves
  <2>3. SaveText(a) \/ SaveTextFails
    BY <1>6 DEF ApplySaves
  <2>4. dir' \in BOOLEAN /\ reviewed' \in BOOLEAN /\ textFile' \in Marks \cup {Nothing}
    BY <1>0, <1>a, <2>3 DEF SaveText, SaveTextFails, TypeOK, Call
  <2>5. disturbed' \in BOOLEAN /\ late' \in BOOLEAN
    BY <1>0, <1>a, <1>6, <2>4 DEF ApplySaves, TypeOK, Call
  <2>6. cached' \in Batch \cup {NoBatch} /\ timer' \in {"none", "running", "lost"}
        /\ (Seen # NoBatch => cached' # NoBatch)
    BY <1>0, <1>6, SeenTyped DEF ApplySaves, GetBatch, TypeOK
  <2>7. RecordOK'
    BY <1>0, <2>1, <2>4, <2>6, HoldingTyped DEF RecordOK
  <2>8. Passive'
    BY <1>0, <2>1, <2>2, <2>4, <2>5, SaveTyped DEF Passive
  <2>9. ScanOK' /\ WorkerOK'
    BY <1>0, <2>1, HoldingTyped DEF ScanOK, WorkerOK
  <2>10. apply' = [apply EXCEPT ![a] = Idle]
    BY <1>6 DEF ApplySaves
  <2>11. ApplyOK'
    BY <1>a, <1>b, <2>1, <2>10, HoldingTyped, CallTyped, ApplyTyped
  <2> QED
    BY <2>7, <2>8, <2>9, <2>11
<1> QED
  BY <1>1, <1>2, <1>3, <1>4, <1>5, <1>6

\* The routes that store a batch: the review, and the batch apply.
LEMMA RouteStores ==
    ASSUME Inv, NEW b \in Batch, Store(b), apply' = Race(b),
           UNCHANGED <<passphrase, scan, worker, textFile, mappingFile, disturbed, rekeyed,
                       late, bounds>>,
           decisions' \in Reviews \cup {NoReview},
           task' \in [state : {"none", "queued", "taken", "over"}, tries : {task.tries}],
           \/ holds' = Holding
           \/ Seen # NoBatch /\ holds' = [Holding EXCEPT ![Route] = Shared]
           \/ holds' = Returned(Route)
    PROVE  Inv'
<1> USE InvParts, InvAgain, Members
<1>0. RecordOK /\ ScanOK /\ ApplyOK /\ WorkerOK /\ Passive /\ TypeOK
  BY DEF Inv
<1>1. /\ holds' \in [Holders -> Batch \cup {NoBatch, Shared}]
      /\ \A k \in Holders \ {Route} : holds[k] # NoBatch => holds'[k] # NoBatch
  BY HoldingTyped, ReturnedTyped, ObjectsDiffer
<1>2. RecordOK'
  BY <1>0, <1>1, StoreTyped DEF RecordOK
<1>3. ScanOK' /\ ApplyOK'
  BY <1>0, <1>1, ApplyRaced DEF ScanOK
<1>4. WorkerOK' /\ Passive'
  BY <1>0 DEF WorkerOK, Passive, bounds
<1> QED
  BY <1>2, <1>3, <1>4

LEMMA BatchNext ==
    ASSUME Inv, BatchApply \/ BatchApplyEnds \/ BatchApplyFails
                \/ \E decided \in Reviews : PostReview(decided)
    PROVE  Inv'
<1> USE InvParts, Members
<1>0. RecordOK /\ ScanOK /\ ApplyOK /\ WorkerOK /\ Passive /\ TypeOK
  BY DEF Inv
<1>1. task \in [state : {"none", "queued", "taken", "over"}, tries : {task.tries}]
  BY <1>0 DEF WorkerOK
<1>2. ASSUME Seen.status \in {"review", "done"} PROVE Seen \in Batch
  BY <1>0, <1>2, SeenTyped DEF NoBatch
<1>3. CASE BatchApply
  <2> DEFINE b == [Marked(Seen, decisions) EXCEPT !.status = "applying"]
  <2>1. Marked(Seen, decisions) \in Batch /\ Seen # NoBatch
    BY <1>0, <1>2, <1>3, MarkedTyped, ObjectsDiffer DEF BatchApply, Passive
  <2>2. b \in Batch
    BY <2>1 DEF Batch
  <2>3. Store(b) /\ apply' = Race(b) /\ holds' = [Holding EXCEPT ![Route] = Shared]
        /\ task' = [task EXCEPT !.state = "queued"]
        /\ UNCHANGED <<decisions, passphrase, scan, worker, textFile, mappingFile,
                       disturbed, rekeyed, late, bounds>>
    BY <1>3 DEF BatchApply
  <2> HIDE DEF b
  <2> QED
    BY <1>0, <1>1, <2>1, <2>2, <2>3, RouteStores DEF Passive
<1>4. CASE BatchApplyEnds
  <2> DEFINE b == Held(Route)
  <2>1. b \in Batch
    BY <1>0, <1>4, DetachedTyped DEF BatchApplyEnds, LoopFree
  <2>2. Store(b) /\ apply' = Race(b) /\ holds' = Returned(Route)
        /\ UNCHANGED <<decisions, passphrase, scan, task, worker, textFile, mappingFile,
                       disturbed, rekeyed, late, bounds>>
    BY <1>4 DEF BatchApplyEnds, celery
  <2> HIDE DEF b
  <2> QED
    BY <1>0, <1>1, <2>1, <2>2, RouteStores DEF Passive
<1>5. CASE BatchApplyFails
  <2> DEFINE b == Marked(Seen, decisions)
  <2>1. b \in Batch
    BY <1>0, <1>2, <1>5, MarkedTyped DEF BatchApplyFails, Passive
  <2>2. Store(b) /\ apply' = Race(b) /\ holds' = Holding
        /\ UNCHANGED <<decisions, passphrase, scan, task, worker, textFile, mappingFile,
                       disturbed, rekeyed, late, bounds>>
    BY <1>5 DEF BatchApplyFails, celery
  <2> HIDE DEF b
  <2> QED
    BY <1>0, <1>1, <2>1, <2>2, RouteStores DEF Passive
<1>6. ASSUME NEW decided \in Reviews, PostReview(decided) PROVE Inv'
  <2> DEFINE b == Marked(Seen, decided)
  <2>1. b \in Batch
    BY <1>2, <1>6, MarkedTyped DEF PostReview, Reviewable
  <2>2. Store(b) /\ apply' = Race(b) /\ holds' = Holding /\ decisions' = decided
        /\ UNCHANGED <<passphrase, scan, task, worker, textFile, mappingFile,
                       disturbed, rekeyed, late, bounds>>
    BY <1>6 DEF PostReview, celery
  <2> HIDE DEF b
  <2> QED
    BY <1>1, <2>1, <2>2, RouteStores
<1> QED
  BY <1>3, <1>4, <1>5, <1>6

\* The worker's copy is there whenever it works on it.
LEMMA WorkerSeesTyped ==
    ASSUME TypeOK
    PROVE  /\ WorkerSees \in Batch \cup {NoBatch}
           /\ WorkerSees = NoBatch => worker.batch = NoBatch
BY DEF TypeOK, WorkerSees

LEMMA TaskEndsTyped ==
    ASSUME Inv, NEW b \in Batch \cup {NoBatch}, NEW again \in BOOLEAN,
           again => task.tries < MaxRetries, TaskEnds(b, again)
    PROVE  WorkerOK'
<1> USE Bounds
<1>1. task.tries \in 0..MaxRetries
  BY DEF Inv, TypeOK
<1>2. CASE again
  <2>1. task.tries + 1 \in 0..MaxRetries
    BY <1>1, <1>2
  <2>2. worker' = [worker EXCEPT !.batch = b, !.pc = "idle", !.again = FALSE]
    BY <1>2 DEF TaskEnds
  <2>3. task' = [state |-> "queued", tries |-> task.tries + 1]
    BY <1>2 DEF TaskEnds
  <2> QED
    BY <2>1, <2>2, <2>3 DEF WorkerOK, Inv, TypeOK, Steps
<1>3. CASE ~again
  <2>1. worker' = NoWorker /\ task' = [task EXCEPT !.state = "over"]
    BY <1>3 DEF TaskEnds
  <2>2. task' \in [state : {"none", "queued", "taken", "over"}, tries : 0..MaxRetries]
    BY <1>1, <2>1 DEF Inv, TypeOK
  <2>3. /\ NoWorker \in [pc : Steps, batch : Batch \cup {NoBatch}, key : 0..MaxKeys,
                         stale : BOOLEAN, again : BOOLEAN]
        /\ NoWorker.pc = "idle" /\ ~NoWorker.again
    BY DEF NoWorker, Steps
  <2> QED
    BY <2>1, <2>2, <2>3 DEF WorkerOK
<1> QED
  BY <1>2, <1>3

LEMMA WorkerWrites ==
    ASSUME Inv, NEW b \in Batch, WorkerStores(b)
    PROVE  RecordOK' /\ ScanOK' /\ ApplyOK' /\ Passive'
<1> USE InvParts
<1>1. RecordOK /\ ScanOK /\ ApplyOK /\ Passive /\ TypeOK
  BY DEF Inv
<1>2. RecordOK' /\ ScanOK' /\ Passive'
  BY <1>1, WorkerStoresTyped DEF RecordOK, ScanOK, Passive, bounds
<1>3. ApplyOK'
  BY <1>1, WorkerStoresTyped, ApplyRaced
<1> QED
  BY <1>2, <1>3

LEMMA WorkerNext == Inv /\ WorkerStep => Inv'
<1> SUFFICES ASSUME Inv, WorkerStep PROVE Inv'
  OBVIOUS
<1> USE InvParts, InvAgain
<1>0. RecordOK /\ ScanOK /\ ApplyOK /\ WorkerOK /\ Passive /\ TypeOK
  BY DEF Inv
<1>1. ASSUME WorkerOK', UNCHANGED <<batch, scan, apply, files, bounds>> PROVE Inv'
  BY <1>0, <1>1 DEF RecordOK, ScanOK, ApplyOK, Passive, batch, files, bounds
<1>2. worker.batch \in Batch => Applying \in Batch /\ Done \in Batch
  BY DEF Applying, Done, Batch, Stable
<1>3. CASE WorkerTakes
  <2>1. WorkerOK'
    BY <1>0, <1>3, WorkerSeesTyped DEF WorkerTakes, WorkerOK, Steps
  <2> QED
    BY <1>1, <1>3, <2>1 DEF WorkerTakes
<1>4. CASE WorkerReloads
  <2>1. WorkerSees # NoBatch
    BY <1>0, <1>4, WorkerSeesTyped DEF WorkerReloads, WorkerOK
  <2>2. WorkerOK'
    BY <1>0, <1>4, <2>1, WorkerSeesTyped DEF WorkerReloads, WorkerOK, Steps
  <2> QED
    BY <1>1, <1>4, <2>2 DEF WorkerReloads
<1>5. CASE WorkerMarks
  <2>1. Applying \in Batch /\ Applying # NoBatch
    BY <1>0, <1>2, <1>5, ObjectsDiffer DEF WorkerMarks, WorkerOK
  <2>2. RecordOK' /\ ScanOK' /\ ApplyOK' /\ Passive'
    BY <1>5, <2>1, WorkerWrites DEF WorkerMarks
  <2>3. WorkerOK'
    BY <1>0, <1>5, <2>1 DEF WorkerMarks, WorkerOK, Steps
  <2> QED
    BY <2>2, <2>3
<1>6. CASE WorkerUnlocks
  <2>1. passphrase \in 0..MaxKeys
    BY <1>0 DEF TypeOK
  <2>2. WorkerOK'
    BY <1>0, <1>6, <2>1 DEF WorkerUnlocks, WorkerOK, Steps
  <2> QED
    BY <1>1, <1>6, <2>2 DEF WorkerUnlocks
<1>7. CASE WorkerSeals
  <2>1. worker.batch \in Batch
    BY <1>0, <1>7 DEF WorkerSeals, WorkerOK
  <2>2. mappingFile' \in Mapping \cup {Nothing, Torn}
        /\ rekeyed' \in BOOLEAN /\ disturbed' \in BOOLEAN
    <3>1. ASSUME worker.key # 0 PROVE [marks |-> worker.batch.marks, key |-> worker.key] \in Mapping
      <4>1. worker.key \in 1..MaxKeys
        BY <1>0, <3>1, Bounds DEF WorkerOK
      <4>2. worker.batch.marks \in Marks
        BY <2>1 DEF Batch
      <4> QED
        BY <4>1, <4>2 DEF Mapping
    <3>2. worker.stale \in BOOLEAN /\ reviewed \in BOOLEAN
      BY <1>0 DEF WorkerOK, RecordOK
    <3> QED
      BY <1>0, <1>7, <3>1, <3>2 DEF WorkerSeals, Passive
  <2>3. WorkerOK'
    BY <1>0, <1>7, <2>1 DEF WorkerSeals, Goto, WorkerOK, Steps
  <2>4. UNCHANGED <<batch, scan, apply, task, textFile, reviewed, late, bounds>>
    BY <1>7 DEF WorkerSeals
  <2>5. RecordOK' /\ ScanOK' /\ ApplyOK'
    BY <1>0, <2>4 DEF RecordOK, ScanOK, ApplyOK, batch
  <2>6. Passive'
    BY <1>0, <2>2, <2>4 DEF Passive, batch, bounds
  <2> QED
    BY <2>3, <2>5, <2>6
<1>8. CASE WorkerFinishes
  <2>1. Done \in Batch
    BY <1>0, <1>2, <1>8 DEF WorkerFinishes, WorkerOK
  <2>2. WorkerOK'
    BY <1>8, <2>1, TaskEndsTyped DEF WorkerFinishes
  <2> QED
    BY <1>8, <2>1, <2>2, WorkerWrites DEF WorkerFinishes
<1>9. ASSUME NEW again \in BOOLEAN, WorkerFails(again) PROVE Inv'
  <2>1. Applying \in Batch /\ Done \in Batch
    BY <1>0, <1>2, <1>9 DEF WorkerFails, WorkerOK
  <2>2. WorkerOK'
    BY <1>0, <1>9, <2>1 DEF WorkerFails, WorkerOK, Steps
  <2> QED
    BY <1>1, <1>9, <2>2 DEF WorkerFails
<1>10. CASE WorkerRecovers
  <2>1. worker.again \in BOOLEAN /\ (worker.again => task.tries < MaxRetries)
    BY <1>0 DEF WorkerOK
  <2>2. CASE TaskEnds(NoBatch, worker.again)
    <3>1. WorkerOK'
      BY <2>1, <2>2, TaskEndsTyped
    <3> QED
      BY <1>1, <1>10, <3>1 DEF WorkerRecovers
  <2>3. CASE /\ WorkerSees # NoBatch /\ UNCHANGED task
             /\ worker' = [worker EXCEPT !.batch = WorkerSees, !.pc = "record"]
    <3>1. WorkerOK'
      BY <1>0, <2>3, WorkerSeesTyped DEF WorkerOK, Steps
    <3> QED
      BY <1>1, <1>10, <3>1 DEF WorkerRecovers
  <2> QED
    BY <1>10, <2>2, <2>3 DEF WorkerRecovers
<1>11. CASE WorkerRecords
  <2> DEFINE b == [worker.batch EXCEPT !.status = "error"]
  <2>1. worker.again \in BOOLEAN /\ (worker.again => task.tries < MaxRetries)
    BY <1>0 DEF WorkerOK
  <2>2. b \in Batch
    BY <1>0, <1>11 DEF WorkerRecords, WorkerOK, Batch, Stable
  <2>3. WorkerStores(b) /\ TaskEnds(b, worker.again)
    BY <1>11 DEF WorkerRecords
  <2> HIDE DEF b
  <2> QED
    BY <2>1, <2>2, <2>3, TaskEndsTyped, WorkerWrites
<1>12. CASE WorkerRestarts
  <2>1. task' \in [state : {"none", "queued", "taken", "over"}, tries : 0..MaxRetries]
    BY <1>0, <1>12 DEF WorkerRestarts, WorkerOK
  <2>2. WorkerOK'
    BY <1>12, <2>1, Bounds DEF WorkerRestarts, WorkerOK, NoWorker, Steps
  <2> QED
    BY <1>1, <1>12, <2>2 DEF WorkerRestarts
<1> QED
  BY <1>3, <1>4, <1>5, <1>6, <1>7, <1>8, <1>9, <1>10, <1>11, <1>12 DEF WorkerStep

LEMMA SharedNext ==
    ASSUME Inv,
           \/ Look \/ Regenerate \/ Delete \/ InactivityCleanup \/ Restart \/ ClientsLeave
           \/ \E decided \in Reviews : StopInReview(decided)
           \/ \E a \in Applies : StopInApply(a)
    PROVE  Inv'
<1> USE InvParts, InvAgain, Members
<1>0. RecordOK /\ ScanOK /\ ApplyOK /\ WorkerOK /\ Passive /\ TypeOK
  BY DEF Inv
<1>1. ASSUME GetBatch, holds' = Holding, UNCHANGED <<store, dir, reviewed, scan, apply>>
      PROVE  RecordOK' /\ ScanOK' /\ ApplyOK'
  <2>1. RecordOK'
    BY <1>0, <1>1, HoldingTyped, SeenTyped DEF RecordOK, GetBatch
  <2>2. ScanOK' /\ ApplyOK'
    BY <1>0, <1>1, HoldingTyped, ApplySame DEF ScanOK
  <2> QED
    BY <2>1, <2>2
<1>2. CASE Look
  <2>1. WorkerOK' /\ Passive'
    BY <1>0, <1>2 DEF Look, WorkerOK, Passive, celery, files, bounds
  <2> QED
    BY <1>1, <1>2, <2>1 DEF Look, files
<1>3. CASE Regenerate
  <2>1. keys' = keys + 1 /\ keys' \in 0..MaxKeys /\ passphrase' = keys'
    BY <1>0, <1>3, Bounds DEF Regenerate, Passive
  <2>2. rekeyed' \in BOOLEAN /\ WorkerOK'
    BY <1>0, <1>3 DEF Regenerate, WorkerOK
  <2>3. Passive'
    BY <1>0, <1>3, <2>1, <2>2 DEF Regenerate, Passive
  <2> QED
    BY <1>1, <1>3, <2>2, <2>3 DEF Regenerate
<1>4. CASE Delete \/ InactivityCleanup
  <2>1. Cleanup /\ UNCHANGED <<scan, apply, task, worker, keys, restarts, quiet>>
    BY <1>4 DEF Delete, InactivityCleanup, celery, bounds
  <2>2. RecordOK'
    BY <2>1, CleanupTyped, ObjectsDiffer DEF RecordOK
  <2>3. ScanOK' /\ ApplyOK'
    BY <1>0, <2>1, CleanupTyped, ApplySame DEF ScanOK
  <2>4. WorkerOK' /\ Passive'
    BY <1>0, <2>1, CleanupTyped DEF WorkerOK, Passive
  <2> QED
    BY <2>2, <2>3, <2>4
<1>5. ASSUME Forget PROVE /\ ScanOK' /\ ApplyOK' /\ WorkerOK' /\ restarts' \in 0..MaxRestarts
                          /\ dir' \in BOOLEAN /\ reviewed' \in BOOLEAN => RecordOK'
  <2>1. restarts' \in 0..MaxRestarts
    BY <1>0, <1>5, Bounds DEF Forget, Passive
  <2>2. ScanOK'
    BY <1>5 DEF Forget, ScanOK, Thread
  <2>3. Idle \in Call /\ Idle.thread = "none"
    BY DEF Idle, Call, Thread, Marks
  <2>4. ApplyOK'
    BY <1>5, <2>3 DEF Forget, ApplyOK
  <2>5. WorkerOK'
    BY <1>0, <1>5 DEF Forget, WorkerOK, celery
  <2>6. holds' \in [Holders -> Batch \cup {NoBatch, Shared}]
        /\ (\A h \in Holders : holds'[h] # Shared) /\ cached' = NoBatch
        /\ timer' \in {"none", "running", "lost"} /\ UNCHANGED store
    BY <1>5, ObjectsDiffer DEF Forget
  <2>7. dir' \in BOOLEAN /\ reviewed' \in BOOLEAN => RecordOK'
    BY <1>0, <2>6 DEF RecordOK
  <2> QED
    BY <2>1, <2>2, <2>4, <2>5, <2>7
<1>6. CASE Restart
  <2>1. Forget /\ UNCHANGED <<decisions, dir, files, passphrase, keys, quiet>>
    BY <1>6 DEF Restart, Forget
  <2>2. RecordOK'
    BY <1>0, <1>5, <2>1 DEF files, RecordOK
  <2>3. Passive'
    BY <1>0, <1>5, <2>1 DEF files, Passive
  <2> QED
    BY <1>5, <2>1, <2>2, <2>3
<1>7. ASSUME NEW decided \in Reviews, StopInReview(decided) PROVE Inv'
  <2>1. Forget /\ decisions' = decided /\ UNCHANGED <<dir, files, passphrase, keys, quiet>>
    BY <1>7 DEF StopInReview, Forget
  <2>2. RecordOK'
    BY <1>0, <1>5, <2>1 DEF files, RecordOK
  <2>3. Passive'
    BY <1>0, <1>5, <2>1 DEF files, Passive
  <2> QED
    BY <1>5, <2>1, <2>2, <2>3
<1>8. ASSUME NEW a \in Applies, StopInApply(a) PROVE Inv'
  <2>1. Forget /\ UNCHANGED <<decisions, dir, textFile, reviewed, late, passphrase, keys, quiet>>
    BY <1>8 DEF StopInApply, Forget
  <2>2. mappingFile' \in Mapping \cup {Nothing, Torn} /\ rekeyed' \in BOOLEAN
    BY <1>0, <1>8, SaveTyped DEF StopInApply
  <2>3. disturbed' \in BOOLEAN
    BY <1>0, <1>8 DEF StopInApply, TypeOK
  <2>4. RecordOK'
    BY <1>0, <1>5, <2>1 DEF RecordOK
  <2>5. Passive'
    BY <1>0, <1>5, <2>1, <2>2, <2>3 DEF Passive
  <2> QED
    BY <1>5, <2>1, <2>4, <2>5
<1>9. CASE ClientsLeave
  BY <1>0, <1>9 DEF ClientsLeave, RecordOK, ScanOK, ApplyOK, WorkerOK, Passive, batch,
     celery, files
<1> QED
  BY <1>2, <1>3, <1>4, <1>6, <1>7, <1>8, <1>9

LEMMA InvNext == Inv /\ [Next]_vars => Inv'
<1> SUFFICES ASSUME Inv, [Next]_vars PROVE Inv'
  OBVIOUS
<1>1. CASE UNCHANGED vars
  BY <1>1, InvParts, InvAgain
  DEF vars, RecordOK, ScanOK, ApplyOK, WorkerOK, Passive, batch, celery, files, bounds
<1> QED
  BY <1>1, ScanNext, ApplyNext, BatchNext, WorkerNext, SharedNext DEF Next

\* For any applies, reviews and bounds the console's batch, its threads, the worker
\* and the files are well typed, and a place whose thread has ended is free again
\* (api/console_routes.py, api/batches_routes.py, tasks.py).
THEOREM ConsoleTypeCorrect == Spec => []TypeOK
<1>1. Inv => TypeOK
  BY DEF Inv
<1> QED
  BY <1>1, InvInit, InvNext, PTL DEF Spec

-----------------------------------------------------------------------------
(* The batch is known to the scheduler.                                    *)

LEMMA TrackedNext == ConsoleTracked /\ [Next]_vars => ConsoleTracked'
<1> SUFFICES ASSUME ConsoleTracked, [Next]_vars PROVE ConsoleTracked'
  OBVIOUS
<1>1. ASSUME NEW b, Store(b) PROVE ConsoleTracked'
  BY <1>1 DEF ConsoleTracked, Store
<1>2. ASSUME GetBatch, UNCHANGED store PROVE ConsoleTracked'
  BY <1>2 DEF ConsoleTracked, GetBatch
<1>3. CASE Cleanup
  BY <1>3 DEF ConsoleTracked, Cleanup
<1>4. ASSUME NEW b, WorkerStores(b) PROVE ConsoleTracked'
  BY <1>4 DEF ConsoleTracked, WorkerStores
<1>5. CASE Forget
  BY <1>5 DEF ConsoleTracked, Forget
<1>6. CASE UNCHANGED <<store, cached, timer>>
  BY <1>6 DEF ConsoleTracked
<1>7. CASE ScanStart \/ ScanStartFails \/ ScanReads \/ ScanStores \/ ScanRaises
           \/ ScanAnswers \/ ScanGivesUp
  BY <1>1, <1>2, <1>3, <1>6, <1>7 DEF ScanStart, ScanStartFails, Create, ScanReads,
     ScanStores, ScanRaises, ScanAnswers, ScanGivesUp, batch
<1>8. ASSUME NEW decided \in Reviews, PostReview(decided) \/ StopInReview(decided)
      PROVE  ConsoleTracked'
  BY <1>1, <1>5, <1>8 DEF PostReview, StopInReview
<1>9. ASSUME NEW a \in Applies,
             \/ ApplyBegins(a) \/ ApplyReads(a) \/ ApplyStores(a) \/ ApplyRaises(a)
             \/ ApplyGivesUp(a) \/ ApplySaves(a) \/ StopInApply(a)
      PROVE  ConsoleTracked'
  BY <1>1, <1>2, <1>5, <1>6, <1>9 DEF ApplyBegins, ApplyReads, ApplyStores, ApplyRaises,
     ApplyGivesUp, ApplySaves, StopInApply, batch
<1>10. CASE BatchApply \/ BatchApplyEnds \/ BatchApplyFails
  BY <1>1, <1>10 DEF BatchApply, BatchApplyEnds, BatchApplyFails
<1>11. CASE WorkerStep
  BY <1>4, <1>6, <1>11 DEF WorkerStep, WorkerTakes, WorkerReloads, WorkerMarks,
     WorkerUnlocks, WorkerSeals, WorkerFinishes, WorkerRecovers, WorkerRecords, WorkerFails,
     WorkerRestarts, batch
<1>12. CASE Look \/ Regenerate \/ Delete \/ InactivityCleanup \/ Restart \/ ClientsLeave
  BY <1>2, <1>3, <1>5, <1>6, <1>12 DEF Look, Regenerate, Delete, InactivityCleanup,
     Restart, ClientsLeave, batch
<1>13. CASE UNCHANGED vars
  BY <1>6, <1>13 DEF vars, batch
<1> QED
  BY <1>7, <1>8, <1>9, <1>10, <1>11, <1>12, <1>13 DEF Next

\* Whoever stores the batch after it was given up, deleted or expired: what the API has
\* in memory is on the scheduler's list, and what is only in the store is so too, but
\* for a restart or a worker that stored it (batch_manager.py, _last_activity).
THEOREM ConsoleIsTracked == Spec => []ConsoleTracked
<1>1. Init => ConsoleTracked
  BY DEF Init, ConsoleTracked
<1> QED
  BY <1>1, TrackedNext, PTL DEF Spec

-----------------------------------------------------------------------------
(* The key of a mapping that was not overtaken is the last one there is.   *)

KeyInv ==
    /\ passphrase \in {0, keys}
    /\ mappingFile \in Mapping => keys # 0
    /\ worker.key # 0 => keys # 0 /\ (worker.stale \/ worker.key = keys)

OpensInv == KeyInv /\ ZipOpens

LEMMA NothingIsNoMapping == Nothing \notin Mapping /\ Torn \notin Mapping
BY MarksAssumption DEF Mapping

LEMMA OpensInit == Init => OpensInv
BY NothingIsNoMapping DEF Init, OpensInv, KeyInv, ZipOpens, NoWorker

\* The mapping as the console writes it, or does not.
LEMMA SaveOpens ==
    ASSUME OpensInv, SaveMapping \/ SaveMappingFails, UNCHANGED <<passphrase, keys, worker>>
    PROVE  OpensInv'
<1>1. CASE SaveMapping
  BY <1>1 DEF OpensInv, KeyInv, ZipOpens, SaveMapping, Sealed
<1>2. CASE SaveMappingFails
  BY <1>2, NothingIsNoMapping DEF OpensInv, KeyInv, ZipOpens, SaveMappingFails
<1> QED
  BY <1>1, <1>2

LEMMA CreateOpens ==
    ASSUME Inv, OpensInv, ScanStart \/ ScanStartFails
    PROVE  OpensInv'
<1>1. keys = 0 /\ keys' = 1 /\ passphrase' \in {0, 1}
      /\ UNCHANGED <<mappingFile, rekeyed, worker>>
  BY DEF ScanStart, ScanStartFails, Create, celery
<1> QED
  BY <1>1 DEF OpensInv, KeyInv, ZipOpens

\* What a step of the worker keeps of its key.
SameKey == worker'.key = 0 \/ (worker'.key = worker.key /\ worker'.stale = worker.stale)

LEMMA TaskKeepsKey ==
    ASSUME Inv, NEW b, NEW again, TaskEnds(b, again)
    PROVE  SameKey
<1>1. worker \in [pc : Steps, batch : Batch \cup {NoBatch}, key : 0..MaxKeys,
                  stale : BOOLEAN, again : BOOLEAN]
  BY DEF Inv, TypeOK
<1>2. CASE again
  BY <1>1, <1>2 DEF TaskEnds, SameKey
<1>3. CASE ~again
  BY <1>3 DEF TaskEnds, SameKey, NoWorker
<1> QED
  BY <1>2, <1>3

LEMMA WorkerOpens ==
    ASSUME Inv, OpensInv, WorkerStep
    PROVE  OpensInv'
<1>0. worker \in [pc : Steps, batch : Batch \cup {NoBatch}, key : 0..MaxKeys,
                  stale : BOOLEAN, again : BOOLEAN]
  BY DEF Inv, TypeOK
<1>1. ASSUME UNCHANGED <<passphrase, keys, mappingFile, rekeyed>>, SameKey
      PROVE  OpensInv'
  BY <1>1 DEF OpensInv, KeyInv, ZipOpens, SameKey
<1>2. ASSUME NEW b, WorkerStores(b) PROVE UNCHANGED <<passphrase, keys, mappingFile, rekeyed>>
  BY <1>2 DEF WorkerStores, bounds
<1>3. CASE WorkerTakes \/ WorkerReloads \/ WorkerRestarts \/ \E again \in BOOLEAN : WorkerFails(again)
  <2>1. SameKey
    <3>1. CASE WorkerTakes \/ WorkerReloads
      BY <1>0, <3>1 DEF WorkerTakes, WorkerReloads, SameKey
    <3>2. CASE WorkerRestarts
      BY <3>2 DEF WorkerRestarts, SameKey, NoWorker
    <3>3. ASSUME NEW again \in BOOLEAN, WorkerFails(again) PROVE SameKey
      BY <1>0, <3>3 DEF WorkerFails, SameKey
    <3> QED
      BY <1>3, <3>1, <3>2, <3>3
  <2>2. UNCHANGED <<passphrase, keys, mappingFile, rekeyed>>
    BY <1>3 DEF WorkerTakes, WorkerReloads, WorkerRestarts, WorkerFails, batch, files, bounds
  <2> QED
    BY <1>1, <2>1, <2>2
<1>4. CASE WorkerMarks
  <2>1. SameKey
    BY <1>0, <1>4 DEF WorkerMarks, SameKey
  <2> QED
    BY <1>1, <1>2, <1>4, <2>1 DEF WorkerMarks
<1>5. CASE WorkerUnlocks
  <2>1. UNCHANGED <<passphrase, keys, mappingFile, rekeyed>>
    BY <1>5 DEF WorkerUnlocks, batch, files, bounds
  <2>2. CASE worker.key # 0
    BY <1>0, <1>1, <1>5, <2>1, <2>2 DEF WorkerUnlocks, SameKey
  <2>3. CASE worker.key = 0
    <3>1. worker'.key = passphrase
      BY <1>0, <1>5, <2>3 DEF WorkerUnlocks
    <3> QED
      BY <2>1, <3>1 DEF OpensInv, KeyInv, ZipOpens
  <2> QED
    BY <2>2, <2>3
<1>6. CASE WorkerSeals
  <2>1. SameKey /\ UNCHANGED <<passphrase, keys>>
    BY <1>0, <1>6 DEF WorkerSeals, Goto, SameKey, batch, bounds
  <2>2. worker'.key = worker.key /\ worker'.stale = worker.stale
    BY <1>0, <1>6 DEF WorkerSeals, Goto
  <2>3. CASE mappingFile' = [marks |-> worker.batch.marks, key |-> worker.key]
             /\ rekeyed' = worker.stale /\ worker.key # 0
    BY <2>1, <2>2, <2>3 DEF OpensInv, KeyInv, ZipOpens
  <2>4. CASE mappingFile' \in {mappingFile, Torn} /\ UNCHANGED rekeyed
    BY <2>1, <2>4, NothingIsNoMapping DEF OpensInv, KeyInv, ZipOpens, SameKey
  <2> QED
    BY <1>6, <2>3, <2>4 DEF WorkerSeals
<1>7. CASE WorkerFinishes
  BY <1>1, <1>2, <1>7, TaskKeepsKey DEF WorkerFinishes
<1>8. CASE WorkerRecovers
  <2>1. UNCHANGED <<passphrase, keys, mappingFile, rekeyed>>
    BY <1>8 DEF WorkerRecovers, batch, files, bounds
  <2>2. CASE TaskEnds(NoBatch, worker.again)
    BY <1>1, <2>1, <2>2, TaskKeepsKey
  <2>3. CASE worker' = [worker EXCEPT !.batch = WorkerSees, !.pc = "record"]
    BY <1>0, <1>1, <2>1, <2>3 DEF SameKey
  <2> QED
    BY <1>8, <2>2, <2>3 DEF WorkerRecovers
<1>9. CASE WorkerRecords
  BY <1>1, <1>2, <1>9, TaskKeepsKey DEF WorkerRecords
<1> QED
  BY <1>3, <1>4, <1>5, <1>6, <1>7, <1>8, <1>9 DEF WorkerStep

LEMMA OpensNext == Inv /\ OpensInv /\ [Next]_vars => OpensInv'
<1> SUFFICES ASSUME Inv, OpensInv, [Next]_vars PROVE OpensInv'
  OBVIOUS
<1>1. ASSUME UNCHANGED <<passphrase, keys, mappingFile, rekeyed, worker>> PROVE OpensInv'
  BY <1>1 DEF OpensInv, KeyInv, ZipOpens
<1>2. ASSUME Cleanup, UNCHANGED <<keys, worker>> PROVE OpensInv'
  BY <1>2, NothingIsNoMapping DEF OpensInv, KeyInv, ZipOpens, Cleanup
<1>3. CASE ScanReads \/ ScanStores \/ ScanRaises \/ ScanAnswers \/ ScanGivesUp
  BY <1>1, <1>2, <1>3 DEF ScanReads, ScanStores, ScanRaises, ScanAnswers, ScanGivesUp,
     batch, celery, files, bounds
<1>4. ASSUME NEW decided \in Reviews, PostReview(decided) \/ StopInReview(decided)
      PROVE  OpensInv'
  BY <1>1, <1>4 DEF PostReview, StopInReview, Forget, celery, files, bounds
<1>5. ASSUME NEW a \in Applies,
             \/ ApplyBegins(a) \/ ApplyReads(a) \/ ApplyStores(a) \/ ApplyRaises(a)
             \/ ApplyGivesUp(a)
      PROVE  OpensInv'
  BY <1>1, <1>5 DEF ApplyBegins, ApplyReads, ApplyStores, ApplyRaises, ApplyGivesUp,
     batch, celery, files, bounds
<1>6. ASSUME NEW a \in Applies, ApplySaves(a) PROVE OpensInv'
  <2>1. SaveMapping \/ SaveMappingFails
    BY <1>6 DEF ApplySaves
  <2>2. UNCHANGED <<passphrase, keys, worker>>
    BY <1>6 DEF ApplySaves, celery, bounds
  <2> QED
    BY <2>1, <2>2, SaveOpens
<1>7. ASSUME NEW a \in Applies, StopInApply(a) PROVE OpensInv'
  <2>1. SaveMapping \/ SaveMappingFails
    BY <1>7 DEF StopInApply
  <2>2. UNCHANGED <<passphrase, keys, worker>>
    BY <1>7 DEF StopInApply, Forget, celery
  <2> QED
    BY <2>1, <2>2, SaveOpens
<1>8. CASE BatchApply \/ BatchApplyEnds \/ BatchApplyFails
  BY <1>1, <1>8 DEF BatchApply, BatchApplyEnds, BatchApplyFails, celery, bounds
<1>9. CASE Look \/ Restart \/ ClientsLeave
  BY <1>1, <1>9 DEF Look, Restart, Forget, ClientsLeave, batch, celery, files, bounds
<1>10. CASE Delete \/ InactivityCleanup
  BY <1>2, <1>10 DEF Delete, InactivityCleanup, celery, bounds
<1>11. CASE Regenerate
  <2>1. keys \in Nat
    BY Bounds DEF Inv, TypeOK
  <2>2. /\ keys' # 0 /\ passphrase' = keys' /\ UNCHANGED mappingFile
        /\ rekeyed' = (mappingFile # Nothing)
    BY <1>11, <2>1 DEF Regenerate
  <2>3. worker'.key # 0 => worker'.stale
    BY <1>11 DEF Inv, TypeOK, Regenerate
  <2> QED
    BY <2>2, <2>3, NothingIsNoMapping DEF OpensInv, KeyInv, ZipOpens
<1>12. CASE UNCHANGED vars
  BY <1>1, <1>12 DEF vars, batch, celery, files, bounds
<1> QED
  BY <1>3, <1>4, <1>5, <1>6, <1>7, <1>8, <1>9, <1>10, <1>11, <1>12, CreateOpens, WorkerOpens
  DEF Next

\* For any number of applies, reviews, passphrases, restarts and retries mapping.enc
\* opens with the last passphrase, unless that was regenerated after the key of the
\* file had been read, which a worker does before it and once for all its tries
\* (console_routes.py, _generate_and_save_mapping; pipeline.py, run_apply_pipeline).
THEOREM ZipIsOpened == Spec => []ZipOpens
<1>1. OpensInv => ZipOpens
  BY DEF OpensInv
<1> QED
  BY <1>1, InvInit, InvNext, OpensInit, OpensNext, PTL DEF Spec

-----------------------------------------------------------------------------
(* Text and mapping come from the same decisions: every copy of the batch  *)
(* agrees with a text, or with what an apply has read for one, unless the  *)
(* history says that another was stored since.                             *)

Agree(m) ==
    /\ store # NoBatch => store.marks = m
    /\ cached # NoBatch => cached.marks = m
    /\ worker.pc \in {"unlock", "seal"} => worker.batch.marks = m

FlowInv ==
    /\ \A a \in Applies : apply[a].thread \in {"read", "done"} /\ ~apply[a].raced
                             => Agree(apply[a].marks)
    /\ textFile # Nothing /\ ~reviewed => Agree(textFile)
    /\ ZipReverts

LEMMA FlowInit == Init => FlowInv
<1> SUFFICES ASSUME Init PROVE FlowInv
  OBVIOUS
<1>1. \A a \in Applies : apply[a] = Idle
  BY DEF Init
<1>2. \A a \in Applies : apply[a].thread \notin {"read", "done"}
  BY <1>1 DEF Idle
<1> QED
  BY <1>2 DEF Init, FlowInv, ZipReverts

LEMMA SeenAgrees ==
    ASSUME NEW m, Agree(m)
    PROVE  /\ Seen # NoBatch => Seen.marks = m
           /\ WorkerSees # NoBatch /\ worker.pc \in {"unlock", "seal"} => WorkerSees.marks = m
BY DEF Agree, Seen, WorkerSees, Believed

\* What is left of the invariant when the copies still agree.
LEMMA FlowKept ==
    ASSUME FlowInv, \A m \in Marks : Agree(m) => Agree(m)',
           \A a \in Applies : apply'[a].thread \in {"read", "done"} /\ ~apply'[a].raced
               => /\ apply[a].thread \in {"read", "done"} /\ ~apply[a].raced
                  /\ apply'[a].marks = apply[a].marks,
           Inv, UNCHANGED textFile, reviewed => reviewed', ZipReverts'
    PROVE  FlowInv'
<1>1. ASSUME NEW a \in Applies, apply'[a].thread \in {"read", "done"}, ~apply'[a].raced
      PROVE  (Agree(apply[a].marks))'
  <2>1. Agree(apply[a].marks) /\ apply'[a].marks = apply[a].marks /\ apply[a].marks \in Marks
    BY <1>1 DEF FlowInv, Inv, TypeOK, Call
  <2>2. PICK m \in Marks : m = apply[a].marks
    BY <2>1
  <2>3. Agree(m)'
    BY <2>1, <2>2
  <2> QED
    BY <2>1, <2>2, <2>3 DEF Agree
<1>2. ASSUME textFile' # Nothing, ~reviewed' PROVE Agree(textFile)'
  <2>1. Agree(textFile) /\ textFile' = textFile /\ textFile \in Marks
    BY <1>2 DEF FlowInv, Inv, TypeOK
  <2>2. PICK m \in Marks : m = textFile
    BY <2>1
  <2>3. Agree(m)'
    BY <2>1, <2>2
  <2> QED
    BY <2>1, <2>2, <2>3 DEF Agree
<1> QED
  BY <1>1, <1>2 DEF FlowInv

\* A stored batch races every apply and text of other marks.
LEMMA RaceAgrees ==
    ASSUME Inv, NEW b
    PROVE  \A a \in Applies : /\ Race(b)[a].thread = apply[a].thread
                              /\ Race(b)[a].marks = apply[a].marks
                              /\ ~Race(b)[a].raced => ~apply[a].raced
                              /\ /\ Race(b)[a].thread \in {"read", "done"}
                                 /\ ~Race(b)[a].raced
                                 => apply[a].marks = b.marks
<1>1. \A a \in Applies : apply[a] \in Call
  BY DEF Inv, TypeOK
<1>2. \A a \in Applies : /\ [apply[a] EXCEPT !.raced = TRUE].thread = apply[a].thread
                         /\ [apply[a] EXCEPT !.raced = TRUE].marks = apply[a].marks
                         /\ [apply[a] EXCEPT !.raced = TRUE].raced
  BY <1>1 DEF Call
<1> QED
  BY <1>2 DEF Race

LEMMA FlowStored ==
    ASSUME Inv, FlowInv, NEW b \in Batch, Write(b), UNCHANGED textFile, ZipReverts',
           \/ cached' = b \/ UNCHANGED cached,
           UNCHANGED worker \/ worker'.pc \notin {"unlock", "seal"} \/ worker'.batch.marks = b.marks,
           \A a \in Applies : apply'[a].thread \in {"read", "done"} /\ ~apply'[a].raced
               => /\ Race(b)[a].thread \in {"read", "done"} /\ ~Race(b)[a].raced
                  /\ apply'[a].marks = Race(b)[a].marks
    PROVE  FlowInv'
<1>1. \A m : Agree(m) /\ m = b.marks => /\ store' # NoBatch => store'.marks = m
                                        /\ cached' # NoBatch => cached'.marks = m
                                        /\ worker'.pc \in {"unlock", "seal"} => worker'.batch.marks = m
  BY DEF Agree, Write
<1>2. ASSUME NEW a \in Applies, apply'[a].thread \in {"read", "done"}, ~apply'[a].raced
      PROVE  (Agree(apply[a].marks))'
  <2>1. Agree(apply[a].marks) /\ apply'[a].marks = apply[a].marks /\ apply[a].marks = b.marks
    BY <1>2, RaceAgrees DEF FlowInv
  <2> QED
    BY <1>1, <2>1 DEF Agree
<1>3. ASSUME textFile' # Nothing, ~reviewed' PROVE Agree(textFile)'
  <2>1. Agree(textFile) /\ textFile' = textFile /\ textFile = b.marks
    BY <1>3 DEF FlowInv, Write, Inv, TypeOK
  <2> QED
    BY <1>1, <2>1 DEF Agree
<1> QED
  BY <1>2, <1>3 DEF FlowInv

\* Nothing new is stored: copies are lost, loaded or put down.
Subdued ==
    /\ store' \in {store, NoBatch} /\ cached' \in {cached, store, NoBatch}
    /\ worker'.pc \in {"unlock", "seal"}
           => worker.pc \in {"unlock", "seal"} /\ worker'.batch.marks = worker.batch.marks

\* What an apply without a race has read, it had read before the step.
ReadBefore ==
    \A a \in Applies : apply'[a].thread \in {"read", "done"} /\ ~apply'[a].raced
        => /\ apply[a].thread \in {"read", "done"} /\ ~apply[a].raced
           /\ apply'[a].marks = apply[a].marks

LEMMA SubduedAgrees == \A m \in Marks : Subdued /\ Agree(m) => Agree(m)'
BY DEF Subdued, Agree

LEMMA FlowSubdued ==
    ASSUME Inv, FlowInv, Subdued, ReadBefore, UNCHANGED <<textFile, reviewed>>, ZipReverts'
    PROVE  FlowInv'
<1>1. \A m \in Marks : Agree(m) => Agree(m)'
  BY SubduedAgrees
<1> HIDE DEF Agree
<1> QED
  BY <1>1, FlowKept DEF ReadBefore

LEMMA FlowCleaned ==
    ASSUME Inv, FlowInv, Cleanup, UNCHANGED worker, ReadBefore
    PROVE  FlowInv'
<1>1. ASSUME NEW a \in Applies, apply'[a].thread \in {"read", "done"}, ~apply'[a].raced
      PROVE  (Agree(apply[a].marks))'
  BY <1>1 DEF FlowInv, ReadBefore, Agree, Cleanup
<1> QED
  BY <1>1 DEF FlowInv, ZipReverts, Cleanup

\* What a call that ends leaves of what it had read.
LEMMA EndsRead ==
    ASSUME NEW call \in Call
    PROVE  /\ Failed(call).thread \notin {"read", "done"} /\ Idle.thread = "none"
           /\ Finished(call).thread \in {"read", "done"}
                  => Finished(call).marks = call.marks /\ Finished(call).raced = call.raced
BY DEF Failed, Finished, Idle, Call

LEMMA FlowSame ==
    ASSUME Inv, UNCHANGED <<textFile, mappingFile, disturbed>>, ZipReverts
    PROVE  ZipReverts'
BY DEF ZipReverts, Mapping

LEMMA FlowScan ==
    ASSUME Inv, FlowInv,
           \/ ScanStart \/ ScanStartFails \/ ScanReads \/ ScanStores \/ ScanRaises
           \/ ScanAnswers \/ ScanGivesUp
    PROVE  FlowInv'
<1>0. ZipReverts
  BY DEF FlowInv
<1>1. ASSUME NEW b \in Batch, Store(b), apply' = Race(b),
             UNCHANGED <<worker, textFile, mappingFile, disturbed>>
      PROVE  FlowInv'
  BY <1>0, <1>1, FlowStored, FlowSame DEF Store
<1>2. CASE ScanStart \/ ScanStartFails
  <2>1. NewBatch \in Batch
    BY DEF NewBatch, Batch, Marks
  <2>2. Create
    BY <1>2 DEF ScanStart, ScanStartFails
  <2> QED
    BY <1>1, <2>1, <2>2 DEF Create, celery
<1>3. CASE ScanStores
  <2> DEFINE b == Scanned(Held(Scan))
  <2>1. Held(Scan) \in Batch
    BY <1>3, Members, DetachedTyped DEF ScanStores, Inv, HeldInv
  <2>2. b \in Batch
    BY <2>1 DEF Scanned, Batch, Stable, Marks
  <2>3. Store(b) /\ apply' = Race(b) /\ UNCHANGED <<worker, textFile, mappingFile, disturbed>>
    BY <1>3 DEF ScanStores, celery
  <2> HIDE DEF b
  <2> QED
    BY <1>1, <2>2, <2>3
<1>4. CASE ScanReads \/ ScanRaises \/ ScanAnswers
  <2>1. /\ Subdued /\ ReadBefore
        /\ UNCHANGED <<textFile, reviewed, mappingFile, disturbed>>
    BY <1>4 DEF ScanReads, ScanRaises, ScanAnswers, Subdued, ReadBefore, GetBatch, Seen,
       batch, celery, files
  <2> QED
    BY <1>0, <2>1, FlowSubdued, FlowSame
<1>5. CASE ScanGivesUp
  BY <1>5, FlowCleaned DEF ScanGivesUp, ReadBefore, celery
<1> QED
  BY <1>2, <1>3, <1>4, <1>5

LEMMA FlowApply ==
    ASSUME Inv, FlowInv, NEW a \in Applies,
           \/ ApplyBegins(a) \/ ApplyReads(a) \/ ApplyStores(a) \/ ApplyRaises(a)
           \/ ApplyGivesUp(a) \/ ApplySaves(a)
    PROVE  FlowInv'
<1>0. ZipReverts /\ apply \in [Applies -> Call] /\ apply[a] \in Call
  BY DEF FlowInv, Inv, TypeOK
<1>1. ASSUME NEW v, v.thread \notin {"read", "done"}, apply' = [apply EXCEPT ![a] = v]
      PROVE  ReadBefore
  BY <1>0, <1>1 DEF ReadBefore
<1>2. CASE ApplyBegins(a)
  <2> DEFINE b == Marked(Seen, decisions)
             v == [Idle EXCEPT !.waits = TRUE, !.thread = "start"]
  <2>1. Seen \in Batch
    BY <1>2, SeenTyped DEF ApplyBegins, Inv
  <2>2. b \in Batch
    BY <2>1, MarkedTyped DEF Inv, TypeOK
  <2>3. v.thread = "start"
    BY DEF Idle
  <2>4. /\ apply' = [Race(b) EXCEPT ![a] = v]
        /\ (GetBatch /\ UNCHANGED <<store, dir, reviewed>>) \/ Store(b)
        /\ UNCHANGED <<worker, textFile, mappingFile, disturbed>>
    BY <1>2 DEF ApplyBegins, celery
  <2> HIDE DEF b, v
  <2>5. \A k \in Applies : apply'[k] = IF k = a THEN v ELSE Race(b)[k]
    BY <2>2, <2>4, RaceTyped DEF Inv
  <2>6. CASE Store(b)
    BY <1>0, <2>2, <2>3, <2>4, <2>5, <2>6, FlowStored, FlowSame DEF Store
  <2>7. CASE GetBatch /\ UNCHANGED <<store, dir, reviewed>>
    <3>1. Subdued
      BY <2>4, <2>7 DEF Subdued, GetBatch, Seen
    <3>2. ReadBefore
      BY <2>3, <2>5, RaceAgrees DEF ReadBefore
    <3> QED
      BY <1>0, <2>4, <2>7, <3>1, <3>2, FlowSubdued, FlowSame
  <2> QED
    BY <2>4, <2>6, <2>7
<1>3. CASE ApplyReads(a)
  <2>1. UNCHANGED <<store, worker, textFile, reviewed, mappingFile, disturbed>>
    BY <1>3 DEF ApplyReads, celery, files
  <2>2. CASE apply' = [apply EXCEPT ![a] = Failed(@)] /\ UNCHANGED <<holds, cached, timer>>
    <3>1. ReadBefore
      BY <1>0, <1>1, <2>2, EndsRead
    <3>2. Subdued
      BY <2>1, <2>2 DEF Subdued
    <3> QED
      BY <1>0, <2>1, <3>1, <3>2, FlowSubdued, FlowSame
  <2>3. CASE GetBatch
    <3>1. cached' = Seen /\ Seen \in Batch /\ Subdued
      BY <2>1, <2>3, SeenTyped DEF GetBatch, Subdued, Seen, Inv
    <3>2. /\ apply'[a].thread = "read" /\ apply'[a].marks = Seen.marks
          /\ ~apply'[a].raced => /\ store # NoBatch => store.marks = Seen.marks
                                 /\ worker.pc \in {"unlock", "seal"}
                                        => worker.batch.marks = Seen.marks
          /\ \A k \in Applies \ {a} : apply'[k] = apply[k]
      <4> DEFINE race == \/ store # NoBatch /\ store.marks # Seen.marks
                         \/ /\ worker.pc \in {"unlock", "seal"}
                            /\ worker.batch.marks # Seen.marks
                 v == [apply[a] EXCEPT !.thread = "read", !.marks = Seen.marks, !.raced = race]
      <4>1. apply' = [apply EXCEPT ![a] = v]
        BY <1>3, <2>3 DEF ApplyReads, GetBatch
      <4>2. v.thread = "read" /\ v.marks = Seen.marks /\ v.raced = race
        BY <1>0 DEF Call
      <4> HIDE DEF v
      <4> QED
        BY <1>0, <4>1, <4>2
    <3>3. ASSUME NEW k \in Applies, apply'[k].thread \in {"read", "done"}, ~apply'[k].raced
          PROVE  (Agree(apply[k].marks))'
      <4>1. CASE k = a
        BY <2>1, <3>1, <3>2, <3>3, <4>1 DEF Agree
      <4>2. CASE k # a
        <5>1. Agree(apply[k].marks) /\ apply'[k] = apply[k]
          BY <3>2, <3>3, <4>2 DEF FlowInv
        <5> QED
          BY <3>1, <5>1 DEF Agree, Subdued
      <4> QED
        BY <4>1, <4>2
    <3>4. textFile' # Nothing /\ ~reviewed' => Agree(textFile)'
      BY <2>1, <3>1 DEF FlowInv, Agree, Subdued
    <3> QED
      BY <1>0, <2>1, <3>3, <3>4, FlowSame DEF FlowInv
  <2> QED
    BY <1>3, <2>2, <2>3 DEF ApplyReads
<1>4. CASE ApplyStores(a)
  <2> DEFINE b == Held(a)
  <2>1. b \in Batch
    BY <1>4, Members, DetachedTyped DEF ApplyStores, Inv, HeldInv
  <2>2. /\ Store(b) /\ apply' = [Race(b) EXCEPT ![a] = Finished(@)]
        /\ UNCHANGED <<worker, textFile, mappingFile, disturbed>>
    BY <1>4 DEF ApplyStores, celery
  <2> HIDE DEF b
  <2>3. Race(b) \in [Applies -> Call]
    BY RaceTyped DEF Inv
  <2>4. \A k \in Applies : apply'[k] = IF k = a THEN Finished(Race(b)[a]) ELSE Race(b)[k]
    BY <2>2, <2>3
  <2>5. Race(b)[a].thread = "read" /\ Race(b)[a] \in Call
    BY <1>4, <2>3, RaceAgrees DEF ApplyStores
  <2>6. \A k \in Applies : apply'[k].thread \in {"read", "done"} /\ ~apply'[k].raced
            => /\ Race(b)[k].thread \in {"read", "done"} /\ ~Race(b)[k].raced
               /\ apply'[k].marks = Race(b)[k].marks
    BY <2>4, <2>5, EndsRead
  <2> QED
    BY <1>0, <2>1, <2>2, <2>6, FlowStored, FlowSame DEF Store
<1>5. CASE ApplyRaises(a) \/ ApplyGivesUp(a)
  <2>1. Subdued /\ UNCHANGED <<textFile, reviewed, mappingFile, disturbed>>
    BY <1>5 DEF ApplyRaises, ApplyGivesUp, Subdued, batch, celery, files
  <2>2. ReadBefore
    <3>1. CASE ApplyRaises(a)
      BY <1>0, <1>1, <3>1, EndsRead DEF ApplyRaises
    <3>2. CASE ApplyGivesUp(a)
      BY <1>0, <3>2, EndsRead DEF ApplyGivesUp, ReadBefore, Call
    <3> QED
      BY <1>5, <3>1, <3>2
  <2> QED
    BY <1>0, <2>1, <2>2, FlowSubdued, FlowSame
<1>6. CASE ApplySaves(a)
  <2>1. Subdued /\ UNCHANGED store
    BY <1>6 DEF ApplySaves, Subdued, GetBatch, Seen, celery
  <2>2. ReadBefore
    BY <1>1, <1>6, EndsRead, <1>0 DEF ApplySaves
  <2>3. ~apply[a].raced => Agree(apply[a].marks)
    BY <1>6 DEF ApplySaves, FlowInv
  <2>4. textFile # Nothing /\ ~reviewed => Agree(textFile)
    BY DEF FlowInv
  <2>5. ASSUME NEW k \in Applies, apply'[k].thread \in {"read", "done"}, ~apply'[k].raced
        PROVE  (Agree(apply[k].marks))'
    <3>1. Agree(apply[k].marks) /\ apply'[k].marks = apply[k].marks
      BY <2>2, <2>5 DEF FlowInv, ReadBefore
    <3> QED
      BY <2>1, <3>1 DEF Agree, Subdued
  <2>6. textFile' # Nothing /\ ~reviewed' => Agree(textFile)'
    <3>1. CASE SaveText(a)
      <4>1. textFile' = apply[a].marks /\ reviewed' = apply[a].raced
        BY <3>1 DEF SaveText
      <4> QED
        BY <2>1, <2>3, <4>1 DEF Agree, Subdued
    <3>2. CASE SaveTextFails
      BY <2>1, <2>4, <3>2 DEF SaveTextFails, Agree, Subdued
    <3> QED
      BY <1>6, <3>1, <3>2 DEF ApplySaves
  <2>7. SaveMapping => \A m : Agree(m) => mappingFile'.marks = m
    BY SeenAgrees DEF SaveMapping, Sealed
  <2>8. ZipReverts'
    <3>1. CASE SaveMapping /\ SaveText(a) /\ disturbed' = apply[a].raced
      BY <2>3, <2>7, <3>1 DEF ZipReverts, SaveText
    <3>2. CASE SaveMapping /\ SaveTextFails /\ disturbed' = reviewed
      BY <2>4, <2>7, <3>2 DEF ZipReverts, SaveTextFails
    <3>3. CASE SaveMappingFails /\ SaveText(a) /\ disturbed' = TRUE
      BY <3>3 DEF ZipReverts
    <3>4. CASE SaveMappingFails /\ SaveTextFails /\ UNCHANGED disturbed
      BY <1>0, <3>4, NothingIsNoMapping DEF ZipReverts, SaveMappingFails, SaveTextFails
    <3> QED
      BY <1>6, <3>1, <3>2, <3>3, <3>4 DEF ApplySaves
  <2> QED
    BY <2>5, <2>6, <2>8 DEF FlowInv
<1> QED
  BY <1>2, <1>3, <1>4, <1>5, <1>6

LEMMA FlowRoutes ==
    ASSUME Inv, FlowInv,
           \/ BatchApply \/ BatchApplyEnds \/ BatchApplyFails
           \/ \E decided \in Reviews : PostReview(decided)
    PROVE  FlowInv'
<1>0. ZipReverts
  BY DEF FlowInv
<1>1. ASSUME NEW b \in Batch, Store(b), apply' = Race(b),
             UNCHANGED <<worker, textFile, mappingFile, disturbed>>
      PROVE  FlowInv'
  BY <1>0, <1>1, FlowStored, FlowSame DEF Store
<1>2. ASSUME Seen.status \in {"review", "done"} PROVE Seen \in Batch
  BY <1>2, SeenTyped DEF NoBatch, Inv
<1>3. CASE BatchApply
  <2> DEFINE b == [Marked(Seen, decisions) EXCEPT !.status = "applying"]
  <2>1. Marked(Seen, decisions) \in Batch
    BY <1>2, <1>3, MarkedTyped DEF BatchApply, Inv, TypeOK
  <2>2. b \in Batch
    BY <2>1 DEF Batch
  <2>3. Store(b) /\ apply' = Race(b) /\ UNCHANGED <<worker, textFile, mappingFile, disturbed>>
    BY <1>3 DEF BatchApply
  <2> HIDE DEF b
  <2> QED
    BY <1>1, <2>2, <2>3
<1>4. CASE BatchApplyEnds
  <2>1. Held(Route) \in Batch
    BY <1>4, Members, DetachedTyped DEF BatchApplyEnds, LoopFree
  <2> QED
    BY <1>1, <1>4, <2>1 DEF BatchApplyEnds, celery
<1>5. CASE BatchApplyFails
  <2>1. Marked(Seen, decisions) \in Batch
    BY <1>2, <1>5, MarkedTyped DEF BatchApplyFails, Inv, TypeOK
  <2> QED
    BY <1>1, <1>5, <2>1 DEF BatchApplyFails, celery
<1>6. ASSUME NEW decided \in Reviews, PostReview(decided) PROVE FlowInv'
  <2>1. Marked(Seen, decided) \in Batch
    BY <1>2, <1>6, MarkedTyped DEF PostReview, Reviewable
  <2> QED
    BY <1>1, <1>6, <2>1 DEF PostReview, celery
<1> QED
  BY <1>3, <1>4, <1>5, <1>6

LEMMA FlowWorker ==
    ASSUME Inv, FlowInv, WorkerStep
    PROVE  FlowInv'
<1>0. /\ ZipReverts /\ WorkerOK
      /\ worker \in [pc : Steps, batch : Batch \cup {NoBatch}, key : 0..MaxKeys,
                     stale : BOOLEAN, again : BOOLEAN]
  BY InvParts DEF FlowInv, WorkerOK
<1>1. ASSUME UNCHANGED <<batch, apply, files>>, Subdued PROVE FlowInv'
  BY <1>0, <1>1, FlowSubdued, FlowSame DEF ReadBefore, files
<1>2. ASSUME NEW b \in Batch, WorkerStores(b),
             worker'.pc \notin {"unlock", "seal"} \/ worker'.batch.marks = b.marks
      PROVE  FlowInv'
  BY <1>0, <1>2, FlowStored, FlowSame DEF WorkerStores
<1>3. ASSUME NEW b, NEW again, TaskEnds(b, again) PROVE worker'.pc = "idle"
  <2>1. CASE again
    BY <1>0, <1>3, <2>1 DEF TaskEnds
  <2>2. CASE ~again
    BY <1>3, <2>2 DEF TaskEnds, NoWorker
  <2> QED
    BY <2>1, <2>2
<1>4. CASE WorkerTakes \/ WorkerReloads \/ WorkerUnlocks \/ WorkerRecovers \/ WorkerRestarts
           \/ \E again \in BOOLEAN : WorkerFails(again)
  <2>1. worker'.pc \in {"unlock", "seal"}
            => worker.pc \in {"unlock", "seal"} /\ worker'.batch.marks = worker.batch.marks
    <3>1. CASE WorkerTakes \/ WorkerReloads \/ WorkerUnlocks
      BY <1>0, <3>1 DEF WorkerTakes, WorkerReloads, WorkerUnlocks
    <3>2. CASE WorkerRecovers
      <4>1. CASE TaskEnds(NoBatch, worker.again)
        BY <1>3, <4>1
      <4>2. CASE worker' = [worker EXCEPT !.batch = WorkerSees, !.pc = "record"]
        BY <1>0, <4>2
      <4> QED
        BY <3>2, <4>1, <4>2 DEF WorkerRecovers
    <3>4. CASE WorkerRestarts
      BY <3>4 DEF WorkerRestarts, NoWorker
    <3>3. ASSUME NEW again \in BOOLEAN, WorkerFails(again) PROVE worker'.pc = "failed"
      BY <1>0, <3>3 DEF WorkerFails
    <3> QED
      BY <1>4, <3>1, <3>2, <3>3, <3>4
  <2>2. UNCHANGED <<batch, apply, files>>
    BY <1>4 DEF WorkerTakes, WorkerReloads, WorkerUnlocks, WorkerRecovers, WorkerRestarts,
       WorkerFails
  <2> QED
    BY <1>1, <2>1, <2>2 DEF Subdued, batch
<1>5. CASE WorkerMarks
  <2>1. Applying \in Batch
    BY <1>0, <1>5 DEF WorkerMarks, WorkerOK, Applying, Batch
  <2>2. worker'.batch = Applying
    BY <1>0, <1>5 DEF WorkerMarks
  <2> QED
    BY <1>2, <1>5, <2>1, <2>2 DEF WorkerMarks
<1>6. CASE WorkerFinishes
  <2>1. Done \in Batch
    BY <1>0, <1>6 DEF WorkerFinishes, WorkerOK, Done, Batch, Stable
  <2> QED
    BY <1>2, <1>3, <1>6, <2>1 DEF WorkerFinishes
<1>7. CASE WorkerRecords
  <2> DEFINE b == [worker.batch EXCEPT !.status = "error"]
  <2>1. b \in Batch
    BY <1>0, <1>7 DEF WorkerRecords, WorkerOK, Batch, Stable
  <2>2. WorkerStores(b) /\ TaskEnds(b, worker.again)
    BY <1>7 DEF WorkerRecords
  <2> HIDE DEF b
  <2> QED
    BY <1>2, <1>3, <2>1, <2>2
<1>8. CASE WorkerSeals
  <2>1. Subdued /\ ReadBefore /\ UNCHANGED <<textFile, reviewed>>
    BY <1>0, <1>8 DEF WorkerSeals, Goto, Subdued, ReadBefore, batch
  <2>2. textFile # Nothing /\ ~reviewed => worker.batch.marks = textFile
    BY <1>8 DEF WorkerSeals, FlowInv, Agree
  <2>3. ZipReverts'
    <3>1. CASE /\ mappingFile' = [marks |-> worker.batch.marks, key |-> worker.key]
               /\ disturbed' = reviewed
      BY <2>1, <2>2, <3>1 DEF ZipReverts
    <3>2. CASE mappingFile' \in {mappingFile, Torn} /\ UNCHANGED disturbed
      BY <1>0, <2>1, <3>2, NothingIsNoMapping DEF ZipReverts
    <3> QED
      BY <1>8, <3>1, <3>2 DEF WorkerSeals
  <2> QED
    BY <2>1, <2>3, FlowSubdued
<1> QED
  BY <1>4, <1>5, <1>6, <1>7, <1>8 DEF WorkerStep

LEMMA FlowShared ==
    ASSUME Inv, FlowInv,
           \/ Look \/ Regenerate \/ Delete \/ InactivityCleanup \/ Restart \/ ClientsLeave
           \/ \E decided \in Reviews : StopInReview(decided)
           \/ \E a \in Applies : StopInApply(a)
    PROVE  FlowInv'
<1>0. ZipReverts
  BY DEF FlowInv
<1>1. CASE Look \/ ClientsLeave
  <2>1. Subdued /\ ReadBefore /\ UNCHANGED <<textFile, reviewed, mappingFile, disturbed>>
    BY <1>1 DEF Look, ClientsLeave, Subdued, ReadBefore, GetBatch, Seen, batch, celery, files
  <2> QED
    BY <1>0, <2>1, FlowSubdued, FlowSame
<1>2. CASE Regenerate
  <2>1. worker' = [worker EXCEPT !.stale = worker.key # 0]
    BY <1>2 DEF Regenerate
  <2>2. worker'.pc = worker.pc /\ worker'.batch = worker.batch
    BY <2>1 DEF Inv, TypeOK
  <2>3. Subdued /\ ReadBefore /\ UNCHANGED <<textFile, reviewed, mappingFile, disturbed>>
    BY <1>2, <2>2 DEF Regenerate, Subdued, ReadBefore, GetBatch, Seen
  <2> QED
    BY <1>0, <2>3, FlowSubdued, FlowSame
<1>3. CASE Delete \/ InactivityCleanup
  BY <1>3, FlowCleaned DEF Delete, InactivityCleanup, ReadBefore, celery
<1>4. ASSUME Forget PROVE Subdued /\ ReadBefore
  <2>1. \A a \in Applies : apply'[a].thread = "none"
    BY <1>4, EndsRead DEF Forget, Idle
  <2> QED
    BY <1>4, <2>1 DEF Forget, Subdued, ReadBefore, celery
<1>5. CASE Restart \/ \E decided \in Reviews : StopInReview(decided)
  BY <1>0, <1>4, <1>5, FlowSubdued, FlowSame DEF Restart, StopInReview, files
<1>6. ASSUME NEW a \in Applies, StopInApply(a) PROVE FlowInv'
  <2>1. Subdued /\ ReadBefore /\ UNCHANGED <<textFile, reviewed>>
    BY <1>4, <1>6 DEF StopInApply
  <2>2. SaveMapping => \A m : Agree(m) => mappingFile'.marks = m
    BY SeenAgrees DEF SaveMapping, Sealed
  <2>3. CASE SaveMapping /\ disturbed' = reviewed
    <3>1. ZipReverts'
      BY <2>1, <2>2, <2>3 DEF ZipReverts, FlowInv
    <3> QED
      BY <2>1, <3>1, FlowSubdued
  <2>4. CASE SaveMappingFails /\ UNCHANGED disturbed
    <3>1. ZipReverts'
      BY <1>0, <2>1, <2>4, NothingIsNoMapping DEF ZipReverts, SaveMappingFails
    <3> QED
      BY <2>1, <3>1, FlowSubdued
  <2> QED
    BY <1>6, <2>3, <2>4 DEF StopInApply
<1> QED
  BY <1>1, <1>2, <1>3, <1>5, <1>6

LEMMA FlowNext == Inv /\ FlowInv /\ [Next]_vars => FlowInv'
<1> SUFFICES ASSUME Inv, FlowInv, [Next]_vars PROVE FlowInv'
  OBVIOUS
<1>1. CASE UNCHANGED vars
  <2>1. Subdued /\ ReadBefore /\ UNCHANGED <<textFile, reviewed, mappingFile, disturbed>>
    BY <1>1 DEF vars, Subdued, ReadBefore, batch, celery, files
  <2> QED
    BY <2>1, FlowSubdued, FlowSame DEF FlowInv
<1> QED
  BY <1>1, FlowScan, FlowApply, FlowRoutes, FlowWorker, FlowShared DEF Next

\* For any number of applies, reviews, passphrases, restarts and retries the text and
\* the mapping of an archive come from the same decisions, unless another copy of the
\* batch came between, in the store or in the hands of a worker that writes the mapping
\* (console_routes.py, console_apply; pipeline.py, run_apply_pipeline).
THEOREM ZipIsReverted == Spec => []ZipReverts
<1>1. FlowInv => ZipReverts
  BY DEF FlowInv
<1> QED
  BY <1>1, InvInit, InvNext, FlowInit, FlowNext, PTL DEF Spec

=============================================================================
