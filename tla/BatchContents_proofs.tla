------------------------ MODULE BatchContents_proofs -----------------------
(* What a batch has agrees with what the store says of it, for any number of *)
(* workers, keys, reviews, tasks and retries: a finished batch has its        *)
(* archive, and uploaded originals have an owner; with one worker, as         *)
(* deployed, nobody holds a batch past its scan without findings.             *)
EXTENDS BatchLifecycle_proofs

-----------------------------------------------------------------------------
(* A finished batch keeps its archive: the inductive invariant *)

FinalRecord(b) == b.status \in {"done", "done_with_errors"}

\* The uploads are there and no archive was made of them.
Bare == dir.uploads /\ dir.zip = NoArchive

\* Nobody holds a final record or is about to write one.
Unfinished ==
    /\ ~FinalRecord(store)
    /\ \A p \in Process : ~FinalRecord(cache[p])
    /\ \A w \in Workers : pc[w] # "finish"

\* A stale final record in any cache could be written back at any time, and a
\* worker past the archive writes one: as long as there is no archive there
\* must be neither.  Uploads arrive once, before any process knows the batch.
ArchiveInv ==
    /\ Bare => Unfinished
    /\ usedKeys = {} => \A p \in Process : cache[p] = NoBatch

Inv == ViewInv /\ ArchiveInv

LEMMA ArchiveInit == Init => ArchiveInv
BY DEF Init, ArchiveInv, Bare, NoDirectory

LEMMA InvCarries == Inv => DoneKeepsArchive
BY DEF Inv, ArchiveInv, Bare, Unfinished, FinalRecord, DoneKeepsArchive

LEMMA NoBatchUnfinished == ~FinalRecord(NoBatch)
BY DEF FinalRecord, NoBatch

LEMMA LookupUnfinished ==
    ASSUME Unfinished, NEW p \in Process PROVE ~FinalRecord(Lookup(p))
BY DEF Unfinished, Lookup

\* An archive is never taken for the missing one.
LEMMA ArchiveIsThere ==
    ASSUME NEW o, NEW m, NEW c
    PROVE  [output |-> o, mapping |-> m, clean |-> c] # NoArchive
<1>1. "mapping" \in DOMAIN [output |-> o, mapping |-> m, clean |-> c]
  OBVIOUS
<1>2. "mapping" \notin DOMAIN [output |-> NoOutput]
  OBVIOUS
<1> QED
  BY <1>1, <1>2 DEF NoArchive

\* One record goes into one cache, and perhaps into the store.
LEMMA RecordWritten ==
    ASSUME TypeOK, Unfinished, NEW p \in Process, NEW b, ~FinalRecord(b),
           cache' = [cache EXCEPT ![p] = b],
           store' \in {store, b, NoBatch},
           \A w \in Workers : pc'[w] # "finish"
    PROVE  Unfinished'
<1>1. \A q \in Process : cache'[q] = IF q = p THEN b ELSE cache[q]
  BY DEF TypeOK
<1>2. ~FinalRecord(store')
  BY NoBatchUnfinished DEF Unfinished
<1> QED
  BY <1>1, <1>2 DEF Unfinished, FinalRecord

-----------------------------------------------------------------------------
(* The API *)

\* Cleanup removes uploads and archive together, where removing works.
LEMMA CleanupArchive ==
    ASSUME TypeOK, ~RemovalFails, Cleanup, UNCHANGED pc
    PROVE  (Bare' => Bare) /\ (Unfinished => Unfinished')
<1>1. Bare' => Bare
  BY DEF Cleanup, Removed, Bare, NoDirectory
<1>2. cache' = [cache EXCEPT ![Api] = NoBatch] /\ store' \in {store, NoBatch}
  BY DEF Cleanup, Removed
<1>3. ASSUME Unfinished PROVE Unfinished'
  BY <1>2, <1>3, RecordWritten, NoBatchUnfinished, ApiIsProcess DEF Unfinished
<1> QED
  BY <1>1, <1>3

LEMMA PersistArchive ==
    ASSUME TypeOK, NEW b, Persist(b) PROVE store' = b /\ (Bare' => Bare)
BY DEF Persist, Bare, TypeOK, Directory

LEMMA ApiUpdateArchive ==
    ASSUME TypeOK, NEW b, ApiUpdate(b), UNCHANGED pc, Unfinished => ~FinalRecord(b)
    PROVE  (Bare' => Bare) /\ (Unfinished => Unfinished')
<1>1. Bare' => Bare
  BY PersistArchive DEF ApiUpdate
<1>2. ASSUME Unfinished PROVE Unfinished'
  <2>1. cache' = [cache EXCEPT ![Api] = b] /\ store' = b
    BY PersistArchive DEF ApiUpdate
  <2> QED
    BY <1>2, <2>1, RecordWritten, ApiIsProcess DEF Unfinished
<1> QED
  BY <1>1, <1>2

LEMMA ApiArchiveStep ==
    ASSUME Inv, ~RemovalFails, ApiStep, ~\E k \in Keys : Create(k)
    PROVE  (Bare' => Bare) /\ (Unfinished => Unfinished')
<1> USE DEF Inv, ViewInv, TypeInv
<1>l. ASSUME Unfinished PROVE ~FinalRecord(Lookup(Api))
  BY <1>l, LookupUnfinished, ApiIsProcess
<1>1. CASE RejectUpload \/ DeferredCleanup \/ Delete \/ InactivityCleanup
  BY <1>1, CleanupArchive DEF RejectUpload, DeferredCleanup, Delete, InactivityCleanup, workerVars
<1>2. CASE LoseUpload
  BY <1>2 DEF LoseUpload, storeVars, workerVars, Bare, Unfinished, FinalRecord
<1>3. CASE EnqueueScan
  <2> DEFINE b == [NewBatch EXCEPT !.status = "scanning"]
  <2>1. b.status = "scanning"
    BY NewBatchType, StatusUpdate DEF Status, Transient
  <2>2. ApiUpdate(b) /\ UNCHANGED pc
    BY <1>3 DEF EnqueueScan, workerVars
  <2> HIDE DEF b
  <2> QED
    BY <2>1, <2>2, ApiUpdateArchive DEF FinalRecord
<1>4. CASE EnqueueScanFails
  BY <1>4, NewBatchType, ApiUpdateArchive DEF EnqueueScanFails, workerVars, FinalRecord
<1>5. CASE FinishEnqueue
  <2>1. handler.batch.status \in {"scanning", "applying"}
    BY <1>5 DEF FinishEnqueue, HandlerInv
  <2> QED
    BY <1>5, <2>1, ApiUpdateArchive DEF FinishEnqueue, workerVars, FinalRecord
<1>6. CASE Poll \/ Download \/ \E k \in Keys : Regenerate(k)
  <2>1. cache' = [cache EXCEPT ![Api] = Lookup(Api)] /\ UNCHANGED <<store, pc>>
    BY <1>6 DEF Poll, Download, Regenerate, storeVars, workerVars
  <2>2. Bare' => Bare
    BY <1>6 DEF Poll, Download, Regenerate, storeVars, Bare, TypeOK, Directory
  <2>3. ASSUME Unfinished PROVE Unfinished'
    BY <1>l, <2>1, <2>3, RecordWritten, ApiIsProcess DEF Unfinished
  <2> QED
    BY <2>2, <2>3
<1>7. CASE \E r \in AnyReview : SubmitReview(r)
  <2>1. PICK r \in AnyReview : SubmitReview(r)
    BY <1>7
  <2> DEFINE b == Lookup(Api)
             u == [b EXCEPT !.review = r]
  <2>2. b \in Batch
    BY <2>1, LookupHasStatus, ApiIsProcess DEF SubmitReview, Status, Stable
  <2>3. u.status = b.status /\ ApiUpdate(u) /\ UNCHANGED pc
    BY <2>1, <2>2, ReviewUpdate DEF SubmitReview, workerVars
  <2> HIDE DEF u
  <2> QED
    BY <1>l, <2>3, ApiUpdateArchive DEF FinalRecord
<1>8. CASE Apply
  <2> DEFINE b == [Decided(Lookup(Api)) EXCEPT !.status = "applying"]
  <2>1. Lookup(Api).status = "review" /\ Decided(Lookup(Api)) \in Batch
    BY <1>8, LookupHasStatus, ApiIsProcess, DecidedType DEF Apply, Status, Stable
  <2>2. b.status = "applying" /\ ApiUpdate(b) /\ UNCHANGED pc
    BY <1>8, <2>1, StatusUpdate DEF Apply, Status, Transient, workerVars
  <2> HIDE DEF b
  <2> QED
    BY <2>2, ApiUpdateArchive DEF FinalRecord
<1>9. CASE ApplyFails
  <2> DEFINE u == Decided(Lookup(Api))
  <2>1. u.status = Lookup(Api).status /\ ApiUpdate(u) /\ UNCHANGED pc
    BY <1>9, LookupHasStatus, ApiIsProcess, DecidedType
       DEF ApplyFails, Status, Stable, workerVars
  <2> HIDE DEF u
  <2> QED
    BY <1>l, <2>1, ApiUpdateArchive DEF FinalRecord
<1>10. CASE ApiRestart
  <2>1. cache' = [cache EXCEPT ![Api] = NoBatch] /\ UNCHANGED <<store, dir, pc>>
    BY <1>10 DEF ApiRestart, storeVars, workerVars
  <2>2. ASSUME Unfinished PROVE Unfinished'
    BY <2>1, <2>2, RecordWritten, NoBatchUnfinished, ApiIsProcess DEF Unfinished
  <2> QED
    BY <2>1, <2>2 DEF Bare
<1> QED
  BY <1>1, <1>2, <1>3, <1>4, <1>5, <1>6, <1>7, <1>8, <1>9, <1>10 DEF ApiStep

\* The uploads arrive when no process has a record of the batch.
LEMMA CreateArchive ==
    ASSUME Inv, NEW k \in Keys, Create(k) PROVE Unfinished'
<1> USE DEF Inv, ViewInv, TypeInv
<1>1. Quiet /\ UNCHANGED pc /\ \A p \in Process : cache[p] = NoBatch
  BY DEF Create, HandlerInv, ArchiveInv, workerVars
<1>2. cache' = [cache EXCEPT ![Api] = NewBatch] /\ store' = NewBatch /\ store = NoBatch
  BY DEF Create, HandlerInv
<1>3. Unfinished
  BY <1>1, <1>2, NoBatchUnfinished DEF Unfinished, Quiet
<1> QED
  BY <1>1, <1>2, <1>3, NewBatchType, RecordWritten, ApiIsProcess DEF Unfinished, FinalRecord

-----------------------------------------------------------------------------
(* The workers *)

\* Of the records a task writes only the last one is final.
LEMMA TaskRecordsUnfinished ==
    ASSUME TypeInv, NEW w \in Workers, pc[w] \in Holding
    PROVE  /\ ~FinalRecord(Marked(w)) /\ ~FinalRecord(Reviewable(w))
           /\ ~FinalRecord([cache[w] EXCEPT !.status = "error"])
           /\ \A f \in BOOLEAN : ~FinalRecord(Scanned(w, f))
           /\ [cache[w] EXCEPT !.failed = TRUE].status = cache[w].status
           /\ \A s \in BOOLEAN : [cache[w] EXCEPT !.safe = s].status = cache[w].status
<1>1. cache[w] \in Batch
  BY AtWork DEF Holding
<1>2. Marked(w).status \in {"scanning", "applying"}
  BY <1>1, StatusUpdate DEF Marked, Working, Status, Transient
<1>3. Reviewable(w).status = "review" /\ [cache[w] EXCEPT !.status = "error"].status = "error"
  BY <1>1, StatusUpdate DEF Reviewable, Status, Stable
<1>4. \A f \in BOOLEAN : Scanned(w, f).status = "review"
  BY <1>1 DEF Scanned, Batch
<1>5. /\ [cache[w] EXCEPT !.failed = TRUE].status = cache[w].status
      /\ \A s \in BOOLEAN : [cache[w] EXCEPT !.safe = s].status = cache[w].status
  BY <1>1 DEF Batch
<1> QED
  BY <1>2, <1>3, <1>4, <1>5 DEF FinalRecord

LEMMA WorkerGoes ==
    ASSUME TypeOK, Unfinished, NEW w \in Workers, NEW step,
           step # "finish", Goto(w, step)
    PROVE  \A v \in Workers : pc'[v] # "finish"
BY DEF Goto, Unfinished, TypeOK

\* No step of a task removes an archive or brings uploads.
LEMMA TaskKeepsArchive ==
    ASSUME TypeOK, NEW w \in Workers, TaskStep(w) \/ WorkerRestart(w) PROVE Bare' => Bare
<1> SUFFICES ASSUME Bare' PROVE Bare
  OBVIOUS
<1>d. dir \in Directory
  BY DEF TypeOK
<1>1. ASSUME UNCHANGED dir \/ \E b : Persist(b) PROVE Bare
  BY <1>1, PersistArchive DEF Bare
<1>2. CASE \/ Take(w) \/ Fetch(w) \/ Missing(w) \/ Mark(w) \/ Detect(w) \/ Confirm(w)
           \/ Unlock(w) \/ Finish(w) \/ Recover(w) \/ RecordError(w)
  BY <1>1, <1>2 DEF Take, Fetch, Missing, Mark, Detect, Confirm, Unlock, Finish, Recover,
                    RecordError, Update, storeVars
<1>3. CASE Transform(w) \/ Seal(w)
  <2>1. dir'.uploads = dir.uploads /\ dir'.zip = dir.zip
    BY <1>d, <1>3 DEF Transform, Seal, Directory
  <2> QED
    BY <2>1 DEF Bare
<1>4. CASE Pack(w)
  <2>1. dir'.zip # NoArchive
    BY <1>d, <1>4, ArchiveIsThere DEF Pack, Directory
  <2> QED
    BY <2>1 DEF Bare
<1>5. CASE CutShort(w)
  <2>1. UNCHANGED dir \/ dir'.zip # NoArchive
    BY <1>d, <1>5, ArchiveIsThere DEF CutShort, Directory
  <2> QED
    BY <2>1 DEF Bare
<1> QED
  BY <1>2, <1>3, <1>4, <1>5 DEF TaskStep, Fail, WorkerRestart

\* A final record needs the step "finish", and only packing leads there.
LEMMA TaskUnfinished ==
    ASSUME TypeInv, Unfinished, NEW w \in Workers, TaskStep(w) \/ WorkerRestart(w), Bare'
    PROVE  Unfinished'
<1> USE DEF TypeInv
<1>p. w \in Process /\ ~FinalRecord(cache[w]) /\ ~FinalRecord(Lookup(w)) /\ pc[w] # "finish"
  BY WorkerIsNotApi, LookupUnfinished DEF Unfinished
\* It suffices that w keeps or takes over a record that is not final, and that
\* the store keeps its own or gets the same.
<1>r. ASSUME NEW b, ~FinalRecord(b), cache' = [cache EXCEPT ![w] = b],
             store' \in {store, b}, NEW step, step # "finish", Goto(w, step)
      PROVE  Unfinished'
  BY <1>p, <1>r, WorkerGoes, RecordWritten
<1>c. ASSUME UNCHANGED <<cache, store>>, NEW step, step # "finish", Goto(w, step)
      PROVE  Unfinished'
  BY <1>c, WorkerGoes DEF Unfinished, FinalRecord
<1>h. ASSUME pc[w] \in Holding
      PROVE  /\ ~FinalRecord(Marked(w)) /\ ~FinalRecord(Reviewable(w))
             /\ ~FinalRecord([cache[w] EXCEPT !.status = "error"])
             /\ \A f \in BOOLEAN : ~FinalRecord(Scanned(w, f))
             /\ ~FinalRecord([cache[w] EXCEPT !.failed = TRUE])
             /\ \A s \in BOOLEAN : ~FinalRecord([cache[w] EXCEPT !.safe = s])
  BY <1>h, <1>p, TaskRecordsUnfinished DEF FinalRecord
<1>u. ASSUME NEW b, Update(w, b) PROVE cache' = [cache EXCEPT ![w] = b] /\ store' = b
  BY <1>u DEF Update, Persist
<1>1. CASE Take(w) \/ Missing(w) \/ Unlock(w)
  BY <1>1, <1>c DEF Take, Missing, Unlock, storeVars
<1>2. CASE Fetch(w)
  BY <1>2, <1>p, <1>r DEF Fetch, storeVars
<1>3. CASE Mark(w)
  <2>1. pc[w] \in Holding /\ \E step : step # "finish" /\ Goto(w, step)
    BY <1>3 DEF Mark, At, Holding
  <2> QED
    BY <1>3, <1>r, <1>h, <1>u, <2>1 DEF Mark
<1>4. CASE Detect(w)
  <2>1. PICK f \in BOOLEAN : Update(w, Scanned(w, f))
    BY <1>4 DEF Detect
  <2> QED
    BY <1>4, <1>r, <1>h, <1>u, <2>1 DEF Detect, At, Holding
<1>5. CASE Confirm(w)
  BY <1>5, <1>r, <1>h, <1>u DEF Confirm, EndTask, At, Holding
<1>6. CASE Transform(w)
  BY <1>6, <1>r, <1>c, <1>h DEF Transform, At, Holding
<1>7. CASE Seal(w)
  <2>1. PICK s \in BOOLEAN : cache' = [cache EXCEPT ![w].safe = s]
    BY <1>7 DEF Seal
  <2> QED
    BY <1>7, <1>r, <1>h, <2>1 DEF Seal, At, Holding
<1>8. CASE Pack(w)
  <2>1. dir'.zip # NoArchive
    BY <1>8, ArchiveIsThere DEF Pack, TypeOK, Directory
  <2> QED
    BY <2>1 DEF Bare
<1>9. CASE Finish(w)
  BY <1>9, <1>p DEF Finish, At
<1>10. CASE \E kind \in {"retry", "fatal"} : Fail(w, kind)
  <2>1. PICK kind \in {"retry", "fatal"} : Fail(w, kind)
    BY <1>10
  <2>2. Goto(w, "failed") /\ UNCHANGED store /\ pc[w] \in Holding
    BY <2>1 DEF Fail, At, Holding
  <2>3. \/ UNCHANGED cache
        \/ cache' = [cache EXCEPT ![w] = Marked(w)]
        \/ \E f \in BOOLEAN : cache' = [cache EXCEPT ![w] = Scanned(w, f)]
        \/ cache' = [cache EXCEPT ![w] = Reviewable(w)]
    BY <1>p, <2>1 DEF Fail, At
  <2> QED
    BY <1>r, <1>c, <1>h, <2>2, <2>3
<1>11. CASE Recover(w)
  BY <1>11, <1>p, <1>r, <1>c DEF Recover, EndTask, storeVars
<1>12. CASE RecordError(w)
  BY <1>12, <1>r, <1>h, <1>u DEF RecordError, EndTask, At, Holding
<1>13. CASE WorkerRestart(w)
  BY <1>13, <1>r, NoBatchUnfinished DEF WorkerRestart
<1> QED
  BY <1>1, <1>2, <1>3, <1>4, <1>5, <1>6, <1>7, <1>8, <1>9, <1>10, <1>11, <1>12, <1>13
     DEF TaskStep

-----------------------------------------------------------------------------
(* The theorem *)

LEMMA KeysStayUsed == ASSUME [Next]_vars PROVE usedKeys \subseteq usedKeys'
<1>1. CASE \E k \in Keys : Create(k) \/ Regenerate(k)
  BY <1>1 DEF Create, Regenerate
<1>2. CASE ApiStep /\ ~\E k \in Keys : Create(k) \/ Regenerate(k)
  BY <1>2 DEF ApiStep, RejectUpload, LoseUpload, EnqueueScan, EnqueueScanFails, FinishEnqueue,
              Poll, SubmitReview, Apply, ApplyFails, Download, DeferredCleanup, Delete,
              InactivityCleanup, ApiRestart, history
<1>3. ASSUME NEW w \in Workers, TaskStep(w) \/ WorkerRestart(w) PROVE UNCHANGED usedKeys
  BY <1>3 DEF TaskStep, Take, Fetch, Missing, Mark, Detect, Confirm, Unlock, Transform, Seal,
              Pack, Finish, Fail, Recover, RecordError, WorkerRestart, history
<1>4. CASE UNCHANGED vars
  BY <1>4 DEF vars
<1> QED
  BY <1>1, <1>2, <1>3, <1>4 DEF Next

\* Before the batch is created nothing puts a record into a cache.
LEMMA CachesEmpty ==
    ASSUME Inv, [Next]_vars, usedKeys' = {} PROVE \A p \in Process : cache'[p] = NoBatch
<1> USE DEF Inv, ViewInv, TypeInv
<1>1. usedKeys = {}
  BY KeysStayUsed
<1>2. Quiet /\ store = NoBatch /\ handler = Idle /\ \A q \in Process : cache[q] = NoBatch
  BY <1>1 DEF HandlerInv, ArchiveInv
<1>3. Lookup(Api) = NoBatch /\ NoBatch.status = "none"
  BY <1>2, ApiIsProcess DEF Lookup, NoBatch
<1>4. CASE ApiStep
  <2>1. cache' = [cache EXCEPT ![Api] = NoBatch] \/ UNCHANGED cache
    BY <1>2, <1>3, <1>4
       DEF ApiStep, Create, Regenerate, RejectUpload, LoseUpload, EnqueueScan,
           EnqueueScanFails, FinishEnqueue, Poll, SubmitReview, Apply, ApplyFails, Download,
           DeferredCleanup, Delete, InactivityCleanup, ApiRestart, Cleanup, Idle
  <2> QED
    BY <1>2, <2>1 DEF TypeOK
<1>5. ASSUME NEW w \in Workers, TaskStep(w) PROVE FALSE
  BY <1>2, <1>5, TaskStepFrame
<1>6. ASSUME NEW w \in Workers, WorkerRestart(w) PROVE \A p \in Process : cache'[p] = NoBatch
  BY <1>2, <1>6 DEF WorkerRestart, TypeOK
<1>7. CASE UNCHANGED vars
  BY <1>2, <1>7 DEF vars
<1> QED
  BY <1>4, <1>5, <1>6, <1>7 DEF Next

LEMMA ArchiveStep == ASSUME ~RemovalFails, Inv, [Next]_vars PROVE ArchiveInv'
<1> USE DEF Inv, ViewInv, TypeInv
<1>1. Bare' => Unfinished'
  <2>1. CASE \E k \in Keys : Create(k)
    BY <2>1, CreateArchive
  <2>2. CASE ApiStep /\ ~\E k \in Keys : Create(k)
    BY <2>2, ApiArchiveStep DEF ArchiveInv
  <2>3. ASSUME NEW w \in Workers, TaskStep(w) \/ WorkerRestart(w) PROVE Bare' => Unfinished'
    BY <2>3, TaskKeepsArchive, TaskUnfinished DEF ArchiveInv
  <2>4. CASE UNCHANGED vars
    BY <2>4 DEF vars, ArchiveInv, Bare, Unfinished, FinalRecord
  <2> QED
    BY <2>1, <2>2, <2>3, <2>4 DEF Next
<1>2. usedKeys' = {} => \A p \in Process : cache'[p] = NoBatch
  BY CachesEmpty
<1> QED
  BY <1>1, <1>2 DEF ArchiveInv

\* A batch recorded as finished has its archive as long as it was not cleaned
\* up, whatever retries, second tasks and crashes happen - if the removal of a
\* directory does not fail, which may take any file (run_apply_pipeline,
\* cleanup_batch).
THEOREM ArchiveKept == ASSUME ~RemovalFails PROVE Spec => []DoneKeepsArchive
<1>1. Init => Inv
  BY TypeInit, HandlerInit, ArchiveInit DEF Inv, ViewInv
<1>2. Inv /\ [Next]_vars => Inv'
  BY TypeStep, HandlerStep, ArchiveStep DEF Inv, ViewInv
<1> QED
  BY <1>1, <1>2, InvCarries, PTL DEF Spec

-----------------------------------------------------------------------------
(* Uploaded originals have an owner *)

LEMMA OwnedApiStep ==
    ASSUME ViewInv, OriginalsAreOwned, ~RemovalFails, ApiStep PROVE OriginalsAreOwned'
<1> USE DEF ViewInv, TypeInv, OriginalsAreOwned
<1>n. NewBatch # NoBatch /\ NoBatch \notin Batch
  BY NewBatchType, NoBatchIsNone
<1>u. ASSUME NEW b, ApiUpdate(b), b # NoBatch, UNCHANGED pass PROVE OriginalsAreOwned'
  BY <1>u DEF ApiUpdate, Persist, TypeOK, Directory
<1>1. CASE RejectUpload \/ DeferredCleanup \/ Delete \/ InactivityCleanup
  BY <1>1 DEF RejectUpload, DeferredCleanup, Delete, InactivityCleanup, Cleanup, Removed,
              NoDirectory
<1>2. CASE LoseUpload \/ ApiRestart \/ Poll \/ Download
  BY <1>2 DEF LoseUpload, ApiRestart, Poll, Download, storeVars
<1>3. CASE \E k \in Keys : Create(k)
  BY <1>3, <1>n, KeyAssumption DEF Create
<1>4. CASE \E k \in Keys : Regenerate(k)
  BY <1>4, KeyAssumption DEF Regenerate, TypeOK, Directory
<1>5. CASE EnqueueScan
  <2> DEFINE b == [NewBatch EXCEPT !.status = "scanning"]
  <2>1. b \in Batch /\ ApiUpdate(b) /\ UNCHANGED pass
    BY <1>5, NewBatchType, StatusUpdate DEF EnqueueScan, Status, Transient
  <2> HIDE DEF b
  <2> QED
    BY <1>n, <1>u, <2>1
<1>6. CASE EnqueueScanFails
  BY <1>6, <1>n, <1>u DEF EnqueueScanFails
<1>7. CASE FinishEnqueue
  <2>1. handler.batch # NoBatch
    BY <1>7 DEF FinishEnqueue, HandlerInv, NoBatch
  <2> QED
    BY <1>7, <1>u, <2>1 DEF FinishEnqueue
<1>8. CASE \E r \in AnyReview : SubmitReview(r)
  <2>1. PICK r \in AnyReview : SubmitReview(r)
    BY <1>8
  <2> DEFINE u == [Lookup(Api) EXCEPT !.review = r]
  <2>2. Lookup(Api) \in Batch
    BY <2>1, LookupHasStatus, ApiIsProcess DEF SubmitReview, Status, Stable
  <2>3. u \in Batch /\ ApiUpdate(u) /\ UNCHANGED pass
    BY <2>1, <2>2, ReviewUpdate DEF SubmitReview
  <2> HIDE DEF u
  <2> QED
    BY <1>n, <1>u, <2>3
<1>9. CASE Apply
  <2> DEFINE b == [Decided(Lookup(Api)) EXCEPT !.status = "applying"]
  <2>1. Decided(Lookup(Api)) \in Batch
    BY <1>9, LookupHasStatus, ApiIsProcess, DecidedType DEF Apply, Status, Stable
  <2>2. b \in Batch /\ ApiUpdate(b) /\ UNCHANGED pass
    BY <1>9, <2>1, StatusUpdate DEF Apply, Status, Transient
  <2> HIDE DEF b
  <2> QED
    BY <1>n, <1>u, <2>2
<1>10. CASE ApplyFails
  <2> DEFINE u == Decided(Lookup(Api))
  <2>1. u \in Batch /\ ApiUpdate(u) /\ UNCHANGED pass
    BY <1>10, LookupHasStatus, ApiIsProcess, DecidedType DEF ApplyFails, Status, Stable
  <2> HIDE DEF u
  <2> QED
    BY <1>n, <1>u, <2>1
<1> QED
  BY <1>1, <1>2, <1>3, <1>4, <1>5, <1>6, <1>7, <1>8, <1>9, <1>10 DEF ApiStep

\* A task writes records only, and brings no uploads.
LEMMA OwnedTaskStep ==
    ASSUME TypeInv, OriginalsAreOwned, NEW w \in Workers, TaskStep(w) \/ WorkerRestart(w)
    PROVE  OriginalsAreOwned'
<1> USE DEF TypeInv, OriginalsAreOwned
<1>p. pass' = pass
  BY DEF TaskStep, Take, Fetch, Missing, Mark, Detect, Confirm, Unlock, Transform, Seal, Pack,
         Finish, Fail, Recover, RecordError, WorkerRestart, storeVars
<1>1. dir'.uploads = dir.uploads
  <2>1. dir \in Directory
    BY DEF TypeOK
  <2>2. ASSUME NEW b, Update(w, b) PROVE dir'.uploads = dir.uploads
    BY <2>1, <2>2 DEF Update, Persist, Directory
  <2>3. CASE Mark(w) \/ Detect(w) \/ Confirm(w) \/ Finish(w) \/ RecordError(w)
    BY <2>2, <2>3 DEF Mark, Detect, Confirm, Finish, RecordError
  <2>4. CASE Transform(w) \/ Seal(w) \/ Pack(w) \/ CutShort(w)
    BY <2>1, <2>4 DEF Transform, Seal, Pack, CutShort, Directory
  <2>5. CASE Take(w) \/ Fetch(w) \/ Missing(w) \/ Unlock(w) \/ Recover(w)
    BY <2>5 DEF Take, Fetch, Missing, Unlock, Recover, storeVars
  <2> QED
    BY <2>3, <2>4, <2>5 DEF TaskStep, Fail, WorkerRestart
<1>2. store' = store \/ store' \in Batch
  <2>1. ASSUME NEW b, Update(w, b) PROVE store' = b
    BY <2>1 DEF Update, Persist
  <2>2. pc[w] \in Holding => /\ Marked(w) \in Batch /\ Reviewable(w) \in Batch
                             /\ Finished(w) \in Batch
                             /\ \A f \in BOOLEAN : Scanned(w, f) \in Batch
                             /\ [cache[w] EXCEPT !.status = "error"] \in Batch
    BY AtWork, TaskRecords DEF Holding
  <2>3. CASE Mark(w) \/ Detect(w) \/ Confirm(w) \/ Finish(w) \/ RecordError(w)
    BY <2>1, <2>2, <2>3 DEF Mark, Detect, Confirm, Finish, RecordError, At, Holding
  <2> QED
    BY <2>3 DEF TaskStep, Take, Fetch, Missing, Unlock, Transform, Seal, Pack, Fail, Recover,
                WorkerRestart, storeVars
<1> QED
  BY <1>p, <1>1, <1>2, NoBatchIsNone

\* While uploaded originals are on disk, the batch and its passphrase are in
\* the store, whatever uploads, cleanups, retries and restarts interleave - if
\* the removal of a directory does not fail (cleanup_batch, update_batch).
THEOREM OriginalsOwned == ASSUME ~RemovalFails PROVE Spec => []OriginalsAreOwned
<1>1. Init => ViewInv /\ OriginalsAreOwned
  BY TypeInit, HandlerInit DEF ViewInv, Init, OriginalsAreOwned, NoDirectory
<1>2. ViewInv /\ OriginalsAreOwned /\ [Next]_vars => (ViewInv /\ OriginalsAreOwned)'
  <2> SUFFICES ASSUME ViewInv, OriginalsAreOwned, [Next]_vars
               PROVE  (ViewInv /\ OriginalsAreOwned)'
    OBVIOUS
  <2>1. ViewInv'
    BY TypeStep, HandlerStep DEF ViewInv
  <2>2. CASE ApiStep
    BY <2>1, <2>2, OwnedApiStep
  <2>3. ASSUME NEW w \in Workers, TaskStep(w) \/ WorkerRestart(w) PROVE OriginalsAreOwned'
    BY <2>3, OwnedTaskStep DEF ViewInv
  <2>4. CASE UNCHANGED vars
    BY <2>1, <2>4 DEF vars, OriginalsAreOwned
  <2> QED
    BY <2>1, <2>2, <2>3, <2>4 DEF Next
<1> QED
  BY <1>1, <1>2, PTL DEF Spec

-----------------------------------------------------------------------------
(* Findings before review: the inductive invariant.                        *)

\* A record with the findings of a scan; and one that is not without them
Ahead(b) == b \in Batch /\ b.scan > 0
NotBehind(b) == b \in Batch => b.scan > 0

Sound(b) == b.status \in PastScan => b.scan > 0

SoundInv ==
    /\ Sound(store)
    /\ \A p \in Process : Sound(cache[p])
    /\ handler.stage = "enqueued" => Sound(handler.batch)

\* An apply is queued or running.
ApplyPending ==
    \/ \E t \in queue : t.kind = "apply"
    \/ \E w \in Workers : job[w].kind = "apply"

WorkInv ==
    \A w \in Workers :
        /\ pc[w] = "confirm" => Ahead(cache[w])
        /\ pc[w] \in {"unlock", "transform", "seal", "pack", "finish"} => job[w].kind = "apply"

\* The API has seen the findings of a scan, or acts on them.
Seen ==
    \/ Ahead(cache[Api])
    \/ ApplyPending
    \/ handler.stage = "enqueued" /\ Ahead(handler.batch)

\* No record that can still be written lags behind one that was seen: one
\* without findings in the worker's cache would be marked APPLYING.
OrderInv ==
    /\ Seen => NotBehind(store)
    /\ Seen \/ Ahead(store) => \A w \in Workers : NotBehind(cache[w])
    /\ handler.stage = "enqueued" /\ ~Ahead(handler.batch) => ~ApplyPending

ScanInv == SoundInv /\ WorkInv /\ OrderInv

FInv == ViewInv /\ ScanInv

LEMMA FindingsInit == Init => ScanInv
<1> SUFFICES ASSUME Init PROVE ScanInv
  OBVIOUS
<1>1. ~Ahead(NoBatch) /\ NotBehind(NoBatch) /\ Sound(NoBatch)
  BY NoBatchIsNone DEF Ahead, NotBehind, Sound, NoBatch, PastScan
<1>2. ~ApplyPending
  BY DEF Init, ApplyPending, NoTask
<1> QED
  BY <1>1, <1>2, ApiIsProcess DEF Init, ScanInv, SoundInv, WorkInv, OrderInv, Seen, Idle

LEMMA RecordsSound == TypeOK /\ SoundInv => FindingsBeforeReview
<1> SUFFICES ASSUME TypeOK, SoundInv, NEW b \in Records, b.status \in PastScan
             PROVE  b.scan > 0
  BY DEF FindingsBeforeReview
<1>1. CASE b = store \/ \E p \in Process : b = cache[p]
  BY <1>1 DEF SoundInv, Sound
<1>2. CASE \E h \in {handler} \intersect [stage : {"enqueued"}, batch : Batch] : b = h.batch
  BY <1>2 DEF SoundInv, Sound
<1> QED
  BY <1>1, <1>2 DEF Records

-----------------------------------------------------------------------------
(* The API *)

LEMMA NoBatchSound == Sound(NoBatch) /\ NotBehind(NoBatch) /\ ~Ahead(NoBatch)
BY NoBatchIsNone DEF Ahead, NotBehind, Sound, NoBatch, PastScan

\* A batch the API can look up past its scan is not behind, nor is any other.
LEMMA LookupAhead ==
    ASSUME TypeOK, ScanInv
    PROVE  /\ Sound(Lookup(Api))
           /\ Ahead(Lookup(Api)) => /\ NotBehind(store)
                                    /\ \A w \in Workers : NotBehind(cache[w])
<1>1. Lookup(Api) = store \/ Lookup(Api) = cache[Api]
  BY DEF Lookup
<1>2. Sound(store) /\ Sound(cache[Api])
  BY ApiIsProcess DEF ScanInv, SoundInv
<1> QED
  BY <1>1, <1>2 DEF ScanInv, OrderInv, Seen, Ahead, NotBehind

\* What a step of the API leaves of the workers
LEMMA WorkersSame ==
    ASSUME TypeOK, ScanInv, NEW b, cache' = [cache EXCEPT ![Api] = b], Sound(b),
           UNCHANGED <<job, pc>>
    PROVE  /\ \A p \in Process : Sound(cache'[p])
           /\ \A w \in Workers : cache'[w] = cache[w]
           /\ WorkInv'
<1>1. \A p \in Process : cache'[p] = IF p = Api THEN b ELSE cache[p]
  BY DEF TypeOK
<1>2. \A w \in Workers : cache'[w] = cache[w]
  BY <1>1, WorkerIsNotApi
<1>3. \A p \in Process : Sound(cache'[p])
  BY <1>1 DEF ScanInv, SoundInv, Sound
<1> QED
  BY <1>2, <1>3 DEF ScanInv, WorkInv, Ahead

\* The API forgets the batch, and the store may.
LEMMA Forgetting ==
    ASSUME TypeOK, ScanInv, cache' = [cache EXCEPT ![Api] = NoBatch],
           store' \in {store, NoBatch}, handler' \in {handler, Idle},
           UNCHANGED <<job, pc, queue>>
    PROVE  ScanInv'
<1>1. /\ \A p \in Process : Sound(cache'[p])
      /\ \A w \in Workers : cache'[w] = cache[w]
      /\ WorkInv'
  BY WorkersSame, NoBatchSound
<1>2. cache'[Api] = NoBatch
  BY ApiHolds
<1>3. SoundInv'
  BY <1>1, NoBatchSound DEF ScanInv, SoundInv, Sound, Idle
<1>4. ApplyPending' = ApplyPending
  BY DEF ApplyPending
<1>5. Seen' => Seen
  BY <1>2, <1>4, NoBatchSound DEF Seen, Ahead, Idle
<1>6. OrderInv'
  BY <1>1, <1>4, <1>5, NoBatchSound DEF ScanInv, OrderInv, Ahead, NotBehind, Idle
<1> QED
  BY <1>1, <1>3, <1>6 DEF ScanInv

\* The API looks the batch up and keeps what it found.
LEMMA Looking ==
    ASSUME TypeOK, ScanInv, cache' = [cache EXCEPT ![Api] = Lookup(Api)],
           UNCHANGED <<store, handler, job, pc, queue>>
    PROVE  ScanInv'
<1>1. /\ \A p \in Process : Sound(cache'[p])
      /\ \A w \in Workers : cache'[w] = cache[w]
      /\ WorkInv'
  BY WorkersSame, LookupAhead
<1>2. cache'[Api] = Lookup(Api)
  BY ApiHolds
<1>3. SoundInv'
  BY <1>1 DEF ScanInv, SoundInv, Sound
<1>4. ApplyPending' = ApplyPending
  BY DEF ApplyPending
<1>5. Seen' => Seen \/ Ahead(Lookup(Api))
  BY <1>2, <1>4 DEF Seen, Ahead
<1>6. OrderInv'
  BY <1>1, <1>4, <1>5, LookupAhead DEF ScanInv, OrderInv, Ahead, NotBehind
<1> QED
  BY <1>1, <1>3, <1>6 DEF ScanInv

\* The API stores a batch with findings, when no worker is behind.
LEMMA SavingAhead ==
    ASSUME TypeOK, ScanInv, NEW b, Ahead(b), ApiUpdate(b), UNCHANGED <<job, pc>>,
           \A w \in Workers : NotBehind(cache[w]),
           handler'.stage = "enqueued" => handler'.batch = b
    PROVE  ScanInv'
<1>1. Sound(b) /\ cache' = [cache EXCEPT ![Api] = b] /\ store' = b
  BY DEF ApiUpdate, Persist, Sound, Ahead
<1>2. /\ \A p \in Process : Sound(cache'[p])
      /\ \A w \in Workers : cache'[w] = cache[w]
      /\ WorkInv'
  BY <1>1, WorkersSame
<1>3. SoundInv'
  BY <1>1, <1>2 DEF SoundInv, Sound
<1>4. OrderInv'
  BY <1>1, <1>2 DEF OrderInv, Ahead, NotBehind
<1> QED
  BY <1>2, <1>3, <1>4 DEF ScanInv

\* The API stores a batch without findings, when no apply is pending.
LEMMA SavingFresh ==
    ASSUME TypeOK, ScanInv, NEW b, b.scan = 0, Sound(b),
           store' = b, cache' = [cache EXCEPT ![Api] = b], UNCHANGED <<job, pc>>,
           ~ApplyPending',
           handler'.stage = "enqueued" => handler'.batch = b
    PROVE  ScanInv'
<1>1. /\ \A p \in Process : Sound(cache'[p])
      /\ \A w \in Workers : cache'[w] = cache[w]
      /\ WorkInv'
  BY WorkersSame
<1>2. cache'[Api] = b
  BY ApiHolds
<1>3. SoundInv'
  BY <1>1 DEF SoundInv, Sound
<1>4. ~Ahead(b) /\ ~Seen'
  BY <1>2 DEF Seen, Ahead
<1>5. OrderInv'
  BY <1>4 DEF OrderInv, Ahead
<1> QED
  BY <1>1, <1>3, <1>5 DEF ScanInv

LEMMA QuietNoApply ==
    ASSUME TypeInv, Quiet PROVE ~ApplyPending
BY DEF Quiet, ApplyPending, TypeInv, WorkersHold, NoTask

LEMMA FindingsApiStep == ASSUME FInv, ApiStep PROVE ScanInv'
<1> USE DEF FInv, ViewInv, TypeInv
<1>b. NewBatch.scan = 0 /\ NewBatch.status = "pending" /\ Sound(NewBatch)
  BY DEF NewBatch, Sound, PastScan
\* A batch in review or later, looked up by the API
<1>l. ASSUME Lookup(Api).status \in PastScan \ {"applying"}
      PROVE  /\ Lookup(Api) \in Batch /\ Lookup(Api).scan > 0
             /\ \A w \in Workers : NotBehind(cache[w])
  <2>1. Lookup(Api) \in Batch
    BY <1>l, LookupHasStatus, ApiIsProcess DEF PastScan, Status, Stable
  <2> QED
    BY <1>l, <2>1, LookupAhead DEF Sound, Ahead
<1>1. CASE RejectUpload \/ DeferredCleanup \/ Delete \/ InactivityCleanup
  <2>1. cache' = [cache EXCEPT ![Api] = NoBatch] /\ store' \in {store, NoBatch}
    BY <1>1 DEF RejectUpload, DeferredCleanup, Delete, InactivityCleanup, Cleanup, Removed,
                PartlyRemoved
  <2> QED
    BY <1>1, <2>1, Forgetting
       DEF RejectUpload, DeferredCleanup, Delete, InactivityCleanup, workerVars
<1>2. CASE LoseUpload
  <2>1. handler' = Idle /\ UNCHANGED <<store, cache, job, pc, queue>>
    BY <1>2 DEF LoseUpload, storeVars, workerVars
  <2> QED
    BY <2>1 DEF ScanInv, SoundInv, WorkInv, OrderInv, Seen, ApplyPending, Ahead, NotBehind,
                Sound, Idle
<1>3. CASE ApiRestart
  BY <1>3, Forgetting DEF ApiRestart, storeVars, workerVars
<1>4. CASE Poll \/ Download \/ \E k \in Keys : Regenerate(k)
  BY <1>4, Looking DEF Poll, Download, Regenerate, storeVars, workerVars
<1>5. CASE \E k \in Keys : Create(k)
  <2>1. PICK k \in Keys : Create(k)
    BY <1>5
  <2>2. Quiet /\ UNCHANGED <<queue, job, pc>>
    BY <2>1 DEF Create, HandlerInv, workerVars
  <2>3. ~ApplyPending'
    BY <2>2, QuietNoApply DEF ApplyPending
  <2> QED
    BY <1>b, <2>1, <2>2, <2>3, SavingFresh DEF Create
<1>6. CASE EnqueueScanFails
  <2>1. Quiet /\ UNCHANGED <<queue, job, pc>>
    BY <1>6 DEF EnqueueScanFails, HandlerInv, workerVars
  <2>2. ~ApplyPending'
    BY <2>1, QuietNoApply DEF ApplyPending
  <2> QED
    BY <1>b, <1>6, <2>1, <2>2, SavingFresh DEF EnqueueScanFails, ApiUpdate, Persist, Idle
<1>7. CASE EnqueueScan
  <2> DEFINE b == [NewBatch EXCEPT !.status = "scanning"]
  <2>1. Quiet /\ UNCHANGED <<job, pc>>
    BY <1>7 DEF EnqueueScan, HandlerInv, workerVars
  <2>2. b.scan = 0 /\ Sound(b)
    BY DEF NewBatch, Sound, PastScan
  <2>3. ~ApplyPending'
    BY <1>7, <2>1, QuietNoApply DEF EnqueueScan, Enqueue, ApplyPending
  <2>4. ApiUpdate(b) /\ handler' = [stage |-> "enqueued", batch |-> b]
    BY <1>7 DEF EnqueueScan
  <2> HIDE DEF b
  <2> QED
    BY <2>1, <2>2, <2>3, <2>4, SavingFresh DEF ApiUpdate, Persist
<1>8. CASE FinishEnqueue
  <2> DEFINE b == handler.batch
  <2>1. /\ handler.stage = "enqueued" /\ ApiUpdate(b) /\ handler' = Idle
        /\ UNCHANGED <<job, pc, queue>>
    BY <1>8 DEF FinishEnqueue, workerVars
  <2>2. b \in Batch /\ Sound(b)
    BY <2>1 DEF TypeOK, Handler, ScanInv, SoundInv
  <2>3. CASE Ahead(b)
    <3>1. \A w \in Workers : NotBehind(cache[w])
      BY <2>1, <2>3 DEF ScanInv, OrderInv, Seen
    <3> QED
      BY <2>1, <2>3, <3>1, SavingAhead DEF Idle
  <2>4. CASE ~Ahead(b)
    <3>1. ~ApplyPending' /\ b.scan = 0
      BY <2>1, <2>2, <2>4, BoundAssumption
         DEF ScanInv, OrderInv, ApplyPending, Ahead, Batch, Scans
    <3> QED
      BY <2>1, <2>2, <3>1, SavingFresh DEF ApiUpdate, Persist, Idle
  <2> QED
    BY <2>3, <2>4
<1>9. CASE \E r \in AnyReview : SubmitReview(r)
  <2>1. PICK r \in AnyReview : SubmitReview(r)
    BY <1>9
  <2> DEFINE u == [Lookup(Api) EXCEPT !.review = r]
  <2>2. Lookup(Api) \in Batch /\ Lookup(Api).scan > 0 /\ \A w \in Workers : NotBehind(cache[w])
    BY <1>l, <2>1 DEF SubmitReview, PastScan
  <2>3. u \in Batch /\ u.scan = Lookup(Api).scan
    BY <2>2, ReviewUpdate DEF Batch
  <2>4. ApiUpdate(u) /\ UNCHANGED <<job, pc>> /\ handler'.stage # "enqueued"
    BY <2>1 DEF SubmitReview, LoopFree, workerVars
  <2>5. Ahead(u)
    BY <2>2, <2>3 DEF Ahead
  <2> HIDE DEF u
  <2> QED
    BY <2>2, <2>4, <2>5, SavingAhead
<1>10. CASE Apply
  <2> DEFINE d == Decided(Lookup(Api))
             b == [d EXCEPT !.status = "applying"]
  <2>1. Lookup(Api) \in Batch /\ Lookup(Api).scan > 0 /\ \A w \in Workers : NotBehind(cache[w])
    BY <1>l, <1>10 DEF Apply, PastScan
  <2>2. d \in Batch /\ d.scan = Lookup(Api).scan
    BY <2>1, DecidedType DEF Decided, Batch
  <2>3. b \in Batch /\ b.scan = d.scan
    BY <2>2, StatusUpdate DEF Status, Transient
  <2>4. /\ ApiUpdate(b) /\ UNCHANGED <<job, pc>>
        /\ handler' = [stage |-> "enqueued", batch |-> b]
    BY <1>10 DEF Apply, workerVars
  <2>5. Ahead(b)
    BY <2>1, <2>2, <2>3 DEF Ahead
  <2> HIDE DEF b
  <2> QED
    BY <2>1, <2>4, <2>5, SavingAhead
<1>11. CASE ApplyFails
  <2> DEFINE d == Decided(Lookup(Api))
  <2>1. Lookup(Api) \in Batch /\ Lookup(Api).scan > 0 /\ \A w \in Workers : NotBehind(cache[w])
    BY <1>l, <1>11 DEF ApplyFails, PastScan
  <2>2. d \in Batch /\ d.scan = Lookup(Api).scan
    BY <2>1, DecidedType DEF Decided, Batch
  <2>3. ApiUpdate(d) /\ UNCHANGED <<job, pc>> /\ handler' = Idle
    BY <1>11 DEF ApplyFails, workerVars
  <2>4. Ahead(d)
    BY <2>1, <2>2 DEF Ahead
  <2> HIDE DEF d
  <2> QED
    BY <2>1, <2>3, <2>4, SavingAhead DEF Idle
<1> QED
  BY <1>1, <1>2, <1>3, <1>4, <1>5, <1>6, <1>7, <1>8, <1>9, <1>10, <1>11 DEF ApiStep

-----------------------------------------------------------------------------
(* The worker *)

ApplySteps == {"unlock", "transform", "seal", "pack", "finish"}

\* The only worker keeps, takes over or stores one record.
LEMMA WorkerRecord ==
    ASSUME FInv, NEW w, Workers = {w}, NEW b, Sound(b),
           cache' = [cache EXCEPT ![w] = b], store' \in {store, b},
           Seen \/ (store' = store /\ Ahead(store)) => NotBehind(b),
           UNCHANGED handler, ApplyPending' => ApplyPending,
           NEW step, Goto(w, step),
           step = "confirm" => Ahead(b),
           step \in ApplySteps => job'[w].kind = "apply"
    PROVE  ScanInv'
<1> USE DEF FInv, ViewInv, TypeInv
<1>1. \A p \in Process : cache'[p] = IF p = w THEN b ELSE cache[p]
  BY DEF TypeOK
<1>2. cache'[w] = b /\ cache'[Api] = cache[Api]
  BY <1>1, WorkerIsNotApi, ApiIsProcess
<1>3. SoundInv'
  BY <1>1 DEF ScanInv, SoundInv, Sound
<1>4. pc'[w] = step
  BY DEF Goto, TypeOK
<1>5. WorkInv'
  BY <1>2, <1>4 DEF WorkInv, Ahead, ApplySteps
<1>6. Seen' => Seen
  BY <1>2 DEF Seen, Ahead
<1>7. OrderInv'
  BY <1>2, <1>6 DEF ScanInv, OrderInv, Ahead, NotBehind
<1> QED
  BY <1>3, <1>5, <1>7 DEF ScanInv

\* The task changes neither what is queued to apply nor the API.
LEMMA PendingStays ==
    ASSUME TypeInv, NEW w \in Workers, TaskStep(w) \/ WorkerRestart(w)
    PROVE  (ApplyPending' => ApplyPending) /\ UNCHANGED handler
<1> USE DEF TypeInv
<1>1. UNCHANGED handler
  BY TaskStepFrame, WorkerRestartFrame
<1>2. ASSUME UNCHANGED <<queue, job>> PROVE ApplyPending' => ApplyPending
  BY <1>2 DEF ApplyPending
<1>3. ASSUME NEW how, EndTask(w, how), pc[w] # "idle" PROVE ApplyPending' => ApplyPending
  <2>1. job[w] \in Task
    BY <1>3, AtWork
  <2>2. \A v \in Workers : job'[v].kind = "apply" => job[v].kind = "apply"
    BY <1>3 DEF EndTask, TypeOK, NoTask
  <2>3. [job[w] EXCEPT !.tries = @ + 1].kind = job[w].kind
    BY <2>1 DEF Task
  <2>4. \A t \in queue' : t \in queue \/ t.kind = job[w].kind
    BY <1>3, <2>3 DEF EndTask
  <2> QED
    BY <2>2, <2>4 DEF ApplyPending
<1>4. CASE Take(w)
  <2>1. PICK t \in queue : queue' = queue \ {t} /\ job' = [job EXCEPT ![w] = t]
    BY <1>4 DEF Take
  <2>2. \A v \in Workers : job'[v] = job[v] \/ job'[v] = t
    BY <2>1 DEF TypeOK
  <2> QED
    BY <1>1, <2>1, <2>2 DEF ApplyPending
<1>5. CASE Confirm(w) \/ Finish(w)
  BY <1>1, <1>3, <1>5 DEF Confirm, Finish, At
<1>6. CASE Recover(w)
  BY <1>1, <1>2, <1>3, <1>6 DEF Recover, At
<1>7. CASE RecordError(w)
  BY <1>1, <1>3, <1>7 DEF RecordError, At
<1>8. CASE WorkerRestart(w)
  <2>1. \A v \in Workers : job'[v].kind = "apply" => job[v].kind = "apply"
    BY <1>8 DEF WorkerRestart, TypeOK, NoTask
  <2> QED
    BY <1>1, <1>8, <2>1 DEF WorkerRestart, ApplyPending
<1> QED
  BY <1>1, <1>2, <1>4, <1>5, <1>6, <1>7, <1>8
     DEF TaskStep, Fetch, Missing, Mark, Detect, Unlock, Transform, Seal, Pack, Fail

LEMMA FindingsTaskStep ==
    ASSUME FInv, NEW w, Workers = {w}, TaskStep(w) \/ WorkerRestart(w) PROVE ScanInv'
<1> USE DEF FInv, ViewInv, TypeInv
<1>p. w \in Workers /\ w \in Process /\ UNCHANGED handler /\ (ApplyPending' => ApplyPending)
  BY PendingStays, WorkerIsNotApi
<1>n. /\ Sound(cache[w]) /\ Sound(Lookup(w))
      /\ Seen \/ Ahead(store) => NotBehind(cache[w]) /\ NotBehind(Lookup(w))
  <2>1. Lookup(w) = cache[w] \/ Lookup(w) = store
    BY DEF Lookup
  <2>2. Sound(store) /\ Sound(cache[w])
    BY <1>p DEF ScanInv, SoundInv
  <2>3. /\ Seen => NotBehind(store)
        /\ Ahead(store) => NotBehind(store)
        /\ Seen \/ Ahead(store) => NotBehind(cache[w])
    BY <1>p DEF ScanInv, OrderInv, Ahead, NotBehind
  <2> QED
    BY <2>1, <2>2, <2>3
\* The record that w holds, with the same findings and another content
<1>r. ASSUME NEW b \in Batch, b.scan = cache[w].scan, Sound(b), cache[w] \in Batch,
             cache' = [cache EXCEPT ![w] = b], store' \in {store, b},
             NEW step, Goto(w, step),
             step = "confirm" => Ahead(b), step \in ApplySteps => job'[w].kind = "apply"
      PROVE  ScanInv'
  <2>1. Seen \/ Ahead(store) => NotBehind(b)
    BY <1>n, <1>r DEF NotBehind
  <2> QED
    BY <1>p, <1>r, <2>1, WorkerRecord
<1>k. ASSUME UNCHANGED <<cache, store>>, NEW step, Goto(w, step), step # "confirm",
             step \in ApplySteps => job'[w].kind = "apply"
      PROVE  ScanInv'
  <2>1. cache' = [cache EXCEPT ![w] = cache[w]]
    BY <1>k, <1>p DEF TypeOK
  <2> QED
    BY <1>p, <1>n, <1>k, <2>1, WorkerRecord
<1>l. ASSUME cache' = [cache EXCEPT ![w] = Lookup(w)], UNCHANGED store,
             NEW step, step \notin ApplySteps \union {"confirm"}, Goto(w, step)
      PROVE  ScanInv'
  BY <1>p, <1>n, <1>l, WorkerRecord
<1>h. ASSUME pc[w] \in Holding
      PROVE  /\ job[w] \in Task /\ cache[w] \in Batch
             /\ Marked(w) \in Batch /\ Marked(w).scan = cache[w].scan /\ Sound(Marked(w))
             /\ Reviewable(w) \in Batch /\ Reviewable(w).scan = cache[w].scan
             /\ Finished(w) \in Batch /\ Finished(w).scan = cache[w].scan
             /\ \A f \in BOOLEAN : Ahead(Scanned(w, f))
  <2>1. job[w] \in Task /\ cache[w] \in Batch /\ pc[w] # "idle"
    BY <1>h, <1>p, AtWork DEF Holding
  <2>2. /\ Marked(w) \in Batch /\ Reviewable(w) \in Batch /\ Finished(w) \in Batch
        /\ \A f \in BOOLEAN : Scanned(w, f) \in Batch
    BY <1>p, <2>1, TaskRecords
  <2>3. /\ Marked(w).scan = cache[w].scan /\ Marked(w).status = Working(job[w].kind)
        /\ Reviewable(w).scan = cache[w].scan
        /\ Finished(w).scan = cache[w].scan
    BY <2>1, StatusUpdate
       DEF Marked, Reviewable, Finished, Working, Status, Transient, Stable
  <2>4. \A f \in BOOLEAN : Scanned(w, f).scan = job[w].tries + 1
    BY <2>1 DEF Scanned, Batch
  <2>5. job[w].tries + 1 > 0
    BY <2>1, BoundAssumption DEF Task
  <2>6. Sound(Marked(w))
    <3>1. CASE job[w].kind = "apply"
      <4>1. NotBehind(cache[w])
        BY <1>p, <1>n, <3>1 DEF Seen, ApplyPending
      <4> QED
        BY <2>1, <2>3, <4>1 DEF NotBehind, Sound
    <3>2. CASE job[w].kind = "scan"
      BY <2>3, <3>2 DEF Working, Sound, PastScan
    <3> QED
      BY <2>1, <3>1, <3>2 DEF Task
  <2> QED
    BY <2>1, <2>2, <2>3, <2>4, <2>5, <2>6 DEF Ahead
<1>a. ASSUME pc[w] \in ApplySteps
      PROVE  job[w].kind = "apply" /\ cache[w] \in Batch /\ cache[w].scan > 0
  <2>1. job[w].kind = "apply"
    BY <1>a, <1>p DEF ScanInv, WorkInv, ApplySteps
  <2>2. NotBehind(cache[w])
    BY <1>p, <1>n, <2>1 DEF Seen, ApplyPending
  <2> QED
    BY <1>a, <1>h, <2>1, <2>2 DEF Holding, ApplySteps, NotBehind
<1>u. ASSUME NEW b, Update(w, b) PROVE cache' = [cache EXCEPT ![w] = b] /\ store' = b
  BY <1>u DEF Update, Persist
<1>s. \A b : Ahead(b) => Sound(b) /\ NotBehind(b) /\ b \in Batch
  BY DEF Ahead, Sound, NotBehind
<1>1. CASE Take(w) \/ Missing(w)
  BY <1>1, <1>k DEF Take, Missing, storeVars, ApplySteps
<1>2. CASE Fetch(w)
  <2>1. PICK step \in {"mark", "remark"} : Goto(w, step)
    BY <1>2 DEF Fetch
  <2>2. cache' = [cache EXCEPT ![w] = Lookup(w)] /\ UNCHANGED store
    BY <1>2 DEF Fetch, storeVars
  <2> QED
    BY <1>l, <2>1, <2>2 DEF ApplySteps
<1>3. CASE Mark(w)
  <2>1. pc[w] \in Holding /\ UNCHANGED job
    BY <1>3 DEF Mark, At, Holding
  <2>2. PICK step \in {"reload", "detect", "unlock"} :
           Goto(w, step) /\ (step = "unlock" => job[w].kind # "scan")
    BY <1>3 DEF Mark
  <2>3. step \in ApplySteps => job'[w].kind = "apply"
    BY <1>h, <2>1, <2>2 DEF Task, ApplySteps
  <2> QED
    BY <1>3, <1>h, <1>r, <1>u, <2>1, <2>2, <2>3 DEF Mark
<1>4. CASE Detect(w)
  <2>1. PICK f \in BOOLEAN : Update(w, Scanned(w, f))
    BY <1>4 DEF Detect
  <2>2. Ahead(Scanned(w, f))
    BY <1>4, <1>h DEF Detect, At, Holding
  <2> QED
    BY <1>4, <1>p, <1>s, <1>u, <2>1, <2>2, WorkerRecord DEF Detect, ApplySteps
<1>5. CASE Confirm(w)
  <2>1. cache[w].scan > 0 /\ pc[w] \in Holding
    BY <1>5, <1>p DEF Confirm, At, ScanInv, WorkInv, Ahead, Holding
  <2>2. Sound(Reviewable(w))
    BY <1>h, <2>1 DEF Sound
  <2> QED
    BY <1>5, <1>h, <1>r, <1>u, <2>1, <2>2 DEF Confirm, EndTask, ApplySteps
<1>6. CASE Unlock(w)
  BY <1>6, <1>a, <1>k DEF Unlock, storeVars, ApplySteps, At
<1>7. CASE Transform(w)
  <2>1. job[w].kind = "apply" /\ cache[w] \in Batch /\ UNCHANGED <<store, job>>
        /\ Goto(w, "seal")
    BY <1>7, <1>a DEF Transform, At, ApplySteps
  <2>2. UNCHANGED cache \/ cache' = [cache EXCEPT ![w].failed = TRUE]
    BY <1>7 DEF Transform
  <2> DEFINE b == [cache[w] EXCEPT !.failed = TRUE]
  <2>3. b \in Batch /\ b.scan = cache[w].scan /\ b.status = cache[w].status
    BY <2>1 DEF Batch
  <2>4. Sound(b)
    BY <1>n, <2>3 DEF Sound
  <2>5. UNCHANGED cache \/ cache' = [cache EXCEPT ![w] = b]
    BY <2>2
  <2> HIDE DEF b
  <2> QED
    BY <1>k, <1>r, <2>1, <2>3, <2>4, <2>5
<1>8. CASE Seal(w)
  <2>1. job[w].kind = "apply" /\ cache[w] \in Batch /\ UNCHANGED <<store, job>>
        /\ Goto(w, "pack")
    BY <1>8, <1>a DEF Seal, At, ApplySteps
  <2>2. PICK v \in BOOLEAN : cache' = [cache EXCEPT ![w].safe = v]
    BY <1>8 DEF Seal
  <2> DEFINE b == [cache[w] EXCEPT !.safe = v]
  <2>3. b \in Batch /\ b.scan = cache[w].scan /\ b.status = cache[w].status
    BY <2>1 DEF Batch
  <2>4. Sound(b)
    BY <1>n, <2>3 DEF Sound
  <2>5. cache' = [cache EXCEPT ![w] = b]
    BY <2>2
  <2> HIDE DEF b
  <2> QED
    BY <1>r, <2>1, <2>3, <2>4, <2>5
<1>9. CASE Pack(w)
  BY <1>9, <1>a, <1>k DEF Pack, ApplySteps, At
<1>10. CASE Finish(w)
  <2>1. cache[w].scan > 0 /\ pc[w] \in Holding
    BY <1>10, <1>a DEF Finish, At, ApplySteps, Holding
  <2>2. Sound(Finished(w))
    BY <1>h, <2>1 DEF Sound
  <2> QED
    BY <1>10, <1>h, <1>r, <1>u, <2>1, <2>2 DEF Finish, EndTask, ApplySteps
<1>11. CASE \E kind \in {"retry", "fatal"} : Fail(w, kind)
  <2>1. PICK kind \in {"retry", "fatal"} : Fail(w, kind)
    BY <1>11
  <2>2. Goto(w, "failed") /\ UNCHANGED <<store, job>> /\ pc[w] \in Holding
    BY <2>1 DEF Fail, At, Holding
  <2>3. CASE UNCHANGED cache \/ cache' = [cache EXCEPT ![w] = Marked(w)]
    BY <1>h, <1>k, <1>r, <2>2, <2>3 DEF ApplySteps
  <2>4. CASE \E f \in BOOLEAN : cache' = [cache EXCEPT ![w] = Scanned(w, f)]
    BY <1>h, <1>p, <1>s, <2>2, <2>4, WorkerRecord DEF ApplySteps
  <2>5. CASE pc[w] = "confirm" /\ cache' = [cache EXCEPT ![w] = Reviewable(w)]
    <3>1. Sound(Reviewable(w))
      BY <1>h, <1>p, <2>2, <2>5 DEF ScanInv, WorkInv, Ahead, Sound
    <3> QED
      BY <1>h, <1>r, <2>2, <2>5, <3>1 DEF ApplySteps
  <2>6. CASE pc[w] = "finish" /\ cache' = [cache EXCEPT ![w] = Finished(w)]
    <3>1. Sound(Finished(w))
      BY <1>a, <1>h, <2>2, <2>6 DEF ApplySteps, Sound
    <3> QED
      BY <1>h, <1>r, <2>2, <2>6, <3>1 DEF ApplySteps
  <2> QED
    BY <2>1, <2>3, <2>4, <2>5, <2>6 DEF Fail, At
<1>12. CASE Recover(w)
  <2>1. UNCHANGED store
    BY <1>12 DEF Recover, storeVars
  <2>2. CASE cache' = [cache EXCEPT ![w] = Lookup(w)] /\ Goto(w, "record")
    BY <1>l, <2>1, <2>2 DEF ApplySteps
  <2>3. CASE UNCHANGED cache /\ EndTask(w, fault[w])
    BY <1>k, <2>1, <2>3 DEF EndTask, ApplySteps
  <2> QED
    BY <1>12, <2>2, <2>3 DEF Recover
<1>13. CASE RecordError(w)
  <2> DEFINE b == [cache[w] EXCEPT !.status = "error"]
  <2>1. cache[w] \in Batch
    BY <1>13, <1>h DEF RecordError, At, Holding
  <2>2. b \in Batch /\ b.scan = cache[w].scan /\ b.status = "error"
    BY <2>1, StatusUpdate DEF Status, Stable
  <2>3. Sound(b)
    BY <2>2 DEF Sound, PastScan
  <2>4. cache' = [cache EXCEPT ![w] = b] /\ store' \in {store, b} /\ Goto(w, "idle")
    BY <1>13, <1>u DEF RecordError, EndTask
  <2> HIDE DEF b
  <2> QED
    BY <1>r, <2>1, <2>2, <2>3, <2>4 DEF ApplySteps
<1>f. ASSUME NEW b, Sound(b), NotBehind(b), cache' = [cache EXCEPT ![w] = b],
             UNCHANGED store,
             NEW step, step \notin ApplySteps \union {"confirm"}, Goto(w, step)
      PROVE  ScanInv'
  BY <1>p, <1>f, WorkerRecord
<1>14. CASE WorkerRestart(w)
  <2>1. cache' = [cache EXCEPT ![w] = NoBatch] /\ store' = store /\ Goto(w, "idle")
    BY <1>14 DEF WorkerRestart
  <2>2. "idle" \notin ApplySteps \union {"confirm"}
    BY DEF ApplySteps
  <2> QED
    BY <1>f, <2>1, <2>2, NoBatchSound
<1> QED
  BY <1>1, <1>2, <1>3, <1>4, <1>5, <1>6, <1>7, <1>8, <1>9, <1>10, <1>11, <1>12, <1>13, <1>14
     DEF TaskStep

-----------------------------------------------------------------------------
(* The theorem *)

LEMMA FindingsStep ==
    ASSUME NEW w, Workers = {w} PROVE FInv /\ [Next]_vars => FInv'
<1> SUFFICES ASSUME FInv, [Next]_vars PROVE ScanInv'
  BY TypeStep, HandlerStep DEF FInv, ViewInv
<1>1. CASE ApiStep
  BY <1>1, FindingsApiStep
<1>2. CASE TaskStep(w) \/ WorkerRestart(w)
  BY <1>2, FindingsTaskStep
<1>3. CASE UNCHANGED vars
  BY <1>3 DEF vars, FInv, ScanInv, SoundInv, WorkInv, OrderInv, Seen, ApplyPending, Ahead,
              NotBehind, Sound
<1> QED
  BY <1>1, <1>2, <1>3 DEF Next

\* With the one worker that is deployed nobody ever holds a batch in review, in
\* an apply or finished without the findings of a scan, whatever the API writes
\* beside it and however the tasks are retried (get_batch, apply_batch).
THEOREM FindingsFirst ==
    ASSUME NEW w, Workers = {w} PROVE Spec => []FindingsBeforeReview
<1>1. Init => FInv
  BY TypeInit, HandlerInit, FindingsInit DEF FInv, ViewInv
<1>2. FInv /\ [Next]_vars => FInv'
  BY FindingsStep
<1>3. FInv => FindingsBeforeReview
  BY RecordsSound DEF FInv, ViewInv, TypeInv, ScanInv
<1> QED
  BY <1>1, <1>2, <1>3, PTL DEF Spec

=============================================================================
