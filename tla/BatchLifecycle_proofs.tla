----------------------- MODULE BatchLifecycle_proofs -----------------------
(* Theorems about BatchLifecycle for any number of workers, keys, reviews,  *)
(* tasks and retries.                                                       *)
EXTENDS BatchLifecycle, TLAPS

-----------------------------------------------------------------------------
(* Records *)

LEMMA NoBatchIsNone == NoBatch \notin Batch
BY DEF NoBatch, Batch, Status, Transient, Stable

LEMMA StatusUpdate ==
    ASSUME NEW b \in Batch, NEW s \in Status
    PROVE  /\ [b EXCEPT !.status = s] \in Batch
           /\ [b EXCEPT !.status = s].status = s
           /\ [b EXCEPT !.status = s].scan = b.scan
BY DEF Batch

LEMMA ReviewUpdate ==
    ASSUME NEW b \in Batch, NEW r \in AnyReview
    PROVE  /\ [b EXCEPT !.review = r] \in Batch
           /\ [b EXCEPT !.review = r].status = b.status
BY DEF Batch

LEMMA NewBatchType == NewBatch \in Batch /\ NewBatch.status = "pending"
BY BoundAssumption DEF NewBatch, Batch, Status, Transient, Stable, Scans, AnyReview

LEMMA NoDirectoryType == NoDirectory \in Directory
BY DEF NoDirectory, Directory

LEMMA DirectoryExists ==
    ASSUME NEW d \in Directory
    PROVE  /\ [d EXCEPT !.exists = TRUE] \in Directory
           /\ [d EXCEPT !.exists = TRUE, !.uploads = TRUE] \in Directory
BY DEF Directory

-----------------------------------------------------------------------------
(* Type correctness *)

\* The steps at which a task holds a record
Holding == {"mark", "reload", "remark", "detect", "confirm", "unlock",
            "transform", "seal", "pack", "finish", "record"}

\* A worker has a task exactly while it is at a step of one, and a record at
\* the steps that change it.
WorkersHold ==
    \A w \in Workers :
        /\ job[w] = NoTask <=> pc[w] = "idle"
        /\ pc[w] \in Holding => cache[w] \in Batch

TypeInv == TypeOK /\ WorkersHold

LEMMA TypeInit == Init => TypeInv
<1> SUFFICES ASSUME Init PROVE TypeInv
  OBVIOUS
<1>1. dir \in Directory
  BY NoDirectoryType DEF Init
<1>2. store \in MaybeBatch /\ cache \in [Process -> MaybeBatch]
  BY DEF Init, MaybeBatch
<1>3. decisions \in Decisions
  BY BoundAssumption DEF Init, NoDecisions, Decisions, Scans, AnyReview
<1>4. handler \in Handler
  BY DEF Init, Handler, Idle
<1>5. queue \subseteq Task /\ job \in [Workers -> Task \union {NoTask}] /\ issued \in 0 .. MaxTasks
  BY BoundAssumption DEF Init
<1>6. pass \in AnyKey /\ keys \in [Workers -> AnyKey]
  BY DEF Init, AnyKey
<1>7. pc \in [Workers -> Steps] /\ fault \in [Workers -> {"none", "retry", "fatal"}]
  BY DEF Init, Steps
<1>8. TypeOK
  BY <1>1, <1>2, <1>3, <1>4, <1>5, <1>6, <1>7 DEF Init, TypeOK, AnyReview
<1>9. WorkersHold
  BY DEF Init, WorkersHold, Holding
<1> QED
  BY <1>8, <1>9 DEF TypeInv

LEMMA LookupType == ASSUME TypeOK, NEW p \in Process PROVE Lookup(p) \in MaybeBatch
BY DEF TypeOK, Lookup

LEMMA CreateType == ASSUME TypeInv, NEW k \in Keys, Create(k) PROVE TypeInv'
<1> USE DEF TypeInv, Create
<1>1. dir' \in Directory
  BY DirectoryExists DEF TypeOK
<1>2. store' \in MaybeBatch /\ cache' \in [Process -> MaybeBatch] /\ cache'[Api] = NewBatch
  BY NewBatchType DEF TypeOK, MaybeBatch, Process
<1>3. decisions' \in Decisions
  BY BoundAssumption DEF NoDecisions, Decisions, Scans, AnyReview
<1>4. handler' \in Handler
  BY DEF Handler
<1>5. pass' \in AnyKey /\ usedKeys' \subseteq Keys
  BY DEF AnyKey
<1>6. TypeOK'
  BY <1>1, <1>2, <1>3, <1>4, <1>5 DEF TypeOK, workerVars
<1>7. WorkersHold'
  BY ProcessAssumption DEF WorkersHold, TypeOK, Process, workerVars
<1> QED
  BY <1>6, <1>7

(* What the parts of the API's actions do to the types *)

LEMMA ApiUpdateType ==
    ASSUME TypeOK, NEW b \in Batch, ApiUpdate(b)
    PROVE  /\ store' \in MaybeBatch /\ dir' \in Directory /\ tracked' \in BOOLEAN
           /\ cache' \in [Process -> MaybeBatch]
           /\ \A w \in Workers : cache'[w] = cache[w]
BY DirectoryExists, ProcessAssumption
   DEF ApiUpdate, Persist, TypeOK, MaybeBatch, Process

LEMMA DirectoryShrinks ==
    ASSUME NEW d \in Directory, NEW u \in {d.uploads, FALSE}, NEW o \in {d.output, NoOutput},
           NEW m \in {d.mapping, NoMapping}, NEW z \in {d.zip, NoArchive}
    PROVE  [d EXCEPT !.uploads = u, !.output = o, !.mapping = m, !.zip = z] \in Directory
BY DEF Directory

LEMMA CleanupType ==
    ASSUME TypeOK, Cleanup
    PROVE  /\ store' \in MaybeBatch /\ dir' \in Directory /\ tracked' \in BOOLEAN
           /\ pass' \in AnyKey /\ decisions' \in Decisions
           /\ cache' \in [Process -> MaybeBatch]
           /\ \A w \in Workers : cache'[w] = cache[w]
<1>1. NoDecisions \in Decisions
  BY BoundAssumption DEF NoDecisions, Decisions, Scans, AnyReview
<1>2. store' \in MaybeBatch /\ dir' \in Directory /\ pass' \in AnyKey /\ decisions' \in Decisions
  <2>1. CASE Removed
    BY <1>1, <2>1, NoDirectoryType DEF Removed, MaybeBatch, AnyKey
  <2>2. CASE PartlyRemoved
    <3>1. NoKey \in AnyKey /\ NoBatch \in MaybeBatch
      BY DEF AnyKey, MaybeBatch
    <3>2. store' \in MaybeBatch /\ pass' \in AnyKey /\ decisions' \in Decisions
      BY <1>1, <2>2, <3>1 DEF PartlyRemoved, TypeOK
    <3>3. dir' \in Directory
      <4>1. dir \in Directory
        BY DEF TypeOK
      <4>2. PICK u \in {dir.uploads, FALSE}, o \in {dir.output, NoOutput},
                 m \in {dir.mapping, NoMapping}, z \in {dir.zip, NoArchive} :
              dir' = [dir EXCEPT !.uploads = u, !.output = o, !.mapping = m, !.zip = z]
        BY <2>2 DEF PartlyRemoved
      <4> QED
        BY <4>1, <4>2, DirectoryShrinks
    <3> QED
      BY <3>2, <3>3
  <2> QED
    BY <2>1, <2>2 DEF Cleanup
<1> QED
  BY <1>2, ProcessAssumption DEF Cleanup, TypeOK, MaybeBatch, Process

LEMMA ApiLookupType ==
    ASSUME TypeOK, cache' = [cache EXCEPT ![Api] = Lookup(Api)]
    PROVE  /\ cache' \in [Process -> MaybeBatch]
           /\ \A w \in Workers : cache'[w] = cache[w]
BY LookupType, ProcessAssumption DEF TypeOK, Process

LEMMA EnqueueType ==
    ASSUME TypeOK, NEW kind \in {"scan", "apply"}, Enqueue(kind)
    PROVE  queue' \subseteq Task /\ issued' \in 0 .. MaxTasks
BY BoundAssumption DEF Enqueue, TypeOK, Task

LEMMA DecidedType ==
    ASSUME TypeOK, NEW b \in Batch
    PROVE  Decided(b) \in Batch /\ Decided(b).status = b.status
BY ReviewUpdate DEF Decided, TypeOK, Decisions

LEMMA LookupHasStatus ==
    ASSUME TypeOK, NEW p \in Process, Lookup(p).status \in Status
    PROVE  Lookup(p) \in Batch
BY LookupType DEF MaybeBatch, NoBatch, Status, Transient, Stable

\* A step of the API that leaves the workers alone keeps what they hold.
LEMMA WorkersUndisturbed ==
    ASSUME TypeInv, UNCHANGED <<job, pc>>, \A w \in Workers : cache'[w] = cache[w]
    PROVE  WorkersHold'
BY DEF TypeInv, WorkersHold
(* The actions of the API *)

LEMMA RejectUploadType == ASSUME TypeInv, RejectUpload PROVE TypeInv'
<1> USE DEF TypeInv, RejectUpload
<1>1. TypeOK'
  BY CleanupType DEF TypeOK, workerVars, history, Handler, Idle
<1>2. WorkersHold'
  BY CleanupType, WorkersUndisturbed DEF workerVars
<1> QED
  BY <1>1, <1>2

LEMMA DeferredCleanupType == ASSUME TypeInv, DeferredCleanup PROVE TypeInv'
<1> USE DEF TypeInv, DeferredCleanup
<1>1. TypeOK'
  BY CleanupType DEF TypeOK, workerVars, history, Handler, Idle
<1>2. WorkersHold'
  BY CleanupType, WorkersUndisturbed DEF workerVars
<1> QED
  BY <1>1, <1>2

LEMMA DeleteType == ASSUME TypeInv, Delete PROVE TypeInv'
<1> USE DEF TypeInv, Delete
<1>1. TypeOK'
  BY CleanupType DEF TypeOK, workerVars, history, Handler, Idle
<1>2. WorkersHold'
  BY CleanupType, WorkersUndisturbed DEF workerVars
<1> QED
  BY <1>1, <1>2

LEMMA InactivityCleanupType == ASSUME TypeInv, InactivityCleanup PROVE TypeInv'
<1> USE DEF TypeInv, InactivityCleanup
<1>1. TypeOK'
  BY CleanupType DEF TypeOK, workerVars, history, Handler, Idle
<1>2. WorkersHold'
  BY CleanupType, WorkersUndisturbed DEF workerVars
<1> QED
  BY <1>1, <1>2

LEMMA LoseUploadType == ASSUME TypeInv, LoseUpload PROVE TypeInv'
BY DEF TypeInv, LoseUpload, TypeOK, WorkersHold, Handler, Idle, storeVars, workerVars, history

LEMMA EnqueueScanType == ASSUME TypeInv, EnqueueScan PROVE TypeInv'
<1> USE DEF TypeInv
<1> DEFINE b == [NewBatch EXCEPT !.status = "scanning"]
<1>1. b \in Batch
  BY NewBatchType, StatusUpdate DEF Status, Transient
<1>2. ApiUpdate(b) /\ Enqueue("scan") /\ handler' = [stage |-> "enqueued", batch |-> b]
  BY DEF EnqueueScan
<1>3. handler' \in Handler
  BY <1>1, <1>2 DEF Handler
<1> HIDE DEF b
<1>4. TypeOK'
  BY <1>1, <1>2, <1>3, ApiUpdateType, EnqueueType DEF EnqueueScan, TypeOK, workerVars, history
<1>5. WorkersHold'
  BY <1>1, <1>2, ApiUpdateType, WorkersUndisturbed DEF EnqueueScan, workerVars
<1> QED
  BY <1>4, <1>5

LEMMA EnqueueScanFailsType == ASSUME TypeInv, EnqueueScanFails PROVE TypeInv'
<1> USE DEF TypeInv, EnqueueScanFails
<1>1. TypeOK'
  BY NewBatchType, ApiUpdateType DEF TypeOK, workerVars, history, Handler, Idle
<1>2. WorkersHold'
  BY NewBatchType, ApiUpdateType, WorkersUndisturbed DEF workerVars
<1> QED
  BY <1>1, <1>2

LEMMA FinishEnqueueType == ASSUME TypeInv, FinishEnqueue PROVE TypeInv'
<1> USE DEF TypeInv, FinishEnqueue
<1>1. handler.batch \in Batch
  BY DEF TypeOK, Handler
<1>2. TypeOK'
  BY <1>1, ApiUpdateType DEF TypeOK, workerVars, history, Handler, Idle
<1>3. WorkersHold'
  BY <1>1, ApiUpdateType, WorkersUndisturbed DEF workerVars
<1> QED
  BY <1>2, <1>3

LEMMA PollType == ASSUME TypeInv, Poll PROVE TypeInv'
<1> USE DEF TypeInv, Poll
<1>1. TypeOK'
  BY ApiLookupType DEF TypeOK, storeVars, workerVars, history
<1>2. WorkersHold'
  BY ApiLookupType, WorkersUndisturbed DEF workerVars
<1> QED
  BY <1>1, <1>2

LEMMA SubmitReviewType ==
    ASSUME TypeInv, NEW r \in AnyReview, SubmitReview(r) PROVE TypeInv'
<1> USE DEF TypeInv
<1> DEFINE b == Lookup(Api)
           u == [b EXCEPT !.review = r]
<1>1. b \in Batch
  BY LookupHasStatus DEF SubmitReview, Process, Status, Stable
<1>2. ApiUpdate(u) /\ u \in Batch
  BY <1>1, ReviewUpdate DEF SubmitReview
<1>3. decisions' \in Decisions
  BY <1>1 DEF SubmitReview, Decisions, Batch
<1> HIDE DEF b, u
<1>4. TypeOK'
  BY <1>2, <1>3, ApiUpdateType DEF SubmitReview, TypeOK, workerVars, history
<1>5. WorkersHold'
  BY <1>2, ApiUpdateType, WorkersUndisturbed DEF SubmitReview, workerVars
<1> QED
  BY <1>4, <1>5

LEMMA ApplyType == ASSUME TypeInv, Apply PROVE TypeInv'
<1> USE DEF TypeInv
<1> DEFINE b == [Decided(Lookup(Api)) EXCEPT !.status = "applying"]
<1>1. Decided(Lookup(Api)) \in Batch
  BY LookupHasStatus, DecidedType DEF Apply, Process, Status, Stable
<1>2. b \in Batch
  BY <1>1, StatusUpdate DEF Status, Transient
<1>3. ApiUpdate(b) /\ Enqueue("apply") /\ handler' = [stage |-> "enqueued", batch |-> b]
      /\ asked' = b.review
  BY DEF Apply
<1> HIDE DEF b
<1>4. handler' \in Handler /\ asked' \in AnyReview
  BY <1>2, <1>3 DEF Handler, Batch
<1>5. TypeOK'
  BY <1>2, <1>3, <1>4, ApiUpdateType, EnqueueType DEF Apply, TypeOK, workerVars
<1>6. WorkersHold'
  BY <1>2, <1>3, ApiUpdateType, WorkersUndisturbed DEF Apply, workerVars
<1> QED
  BY <1>5, <1>6

LEMMA ApplyFailsType == ASSUME TypeInv, ApplyFails PROVE TypeInv'
<1> USE DEF TypeInv
<1>1. Decided(Lookup(Api)) \in Batch /\ ApiUpdate(Decided(Lookup(Api)))
  BY LookupHasStatus, DecidedType DEF ApplyFails, Process, Status, Stable
<1>2. TypeOK'
  BY <1>1, ApiUpdateType DEF ApplyFails, TypeOK, workerVars, history
<1>3. WorkersHold'
  BY <1>1, ApiUpdateType, WorkersUndisturbed DEF ApplyFails, workerVars
<1> QED
  BY <1>2, <1>3

LEMMA DownloadType == ASSUME TypeInv, Download PROVE TypeInv'
<1> USE DEF TypeInv, Download
<1>1. served' \in Served
  <2>1. dir.zip \in Archive
    BY DEF TypeOK, Directory
  <2> QED
    BY <2>1 DEF TypeOK, Served
<1>2. TypeOK'
  BY <1>1, ApiLookupType DEF TypeOK, storeVars, workerVars
<1>3. WorkersHold'
  BY ApiLookupType, WorkersUndisturbed DEF workerVars
<1> QED
  BY <1>2, <1>3

LEMMA RegenerateType == ASSUME TypeInv, NEW k \in Keys, Regenerate(k) PROVE TypeInv'
<1> USE DEF TypeInv, Regenerate
<1>1. TypeOK'
  BY ApiLookupType, DirectoryExists DEF TypeOK, AnyKey, workerVars
<1>2. WorkersHold'
  BY ApiLookupType, WorkersUndisturbed DEF workerVars
<1> QED
  BY <1>1, <1>2

LEMMA ApiRestartType == ASSUME TypeInv, ApiRestart PROVE TypeInv'
<1> USE DEF TypeInv, ApiRestart
<1>1. cache' \in [Process -> MaybeBatch] /\ \A w \in Workers : cache'[w] = cache[w]
  BY ProcessAssumption DEF TypeOK, MaybeBatch, Process
<1>2. TypeOK'
  BY <1>1 DEF TypeOK, storeVars, workerVars, history, Handler, Idle
<1>3. WorkersHold'
  BY <1>1, WorkersUndisturbed DEF workerVars
<1> QED
  BY <1>2, <1>3

LEMMA ApiStepType == ASSUME TypeInv, ApiStep PROVE TypeInv'
BY CreateType, RegenerateType, RejectUploadType, LoseUploadType, EnqueueScanType,
   EnqueueScanFailsType, FinishEnqueueType, PollType, SubmitReviewType, ApplyType,
   ApplyFailsType, DownloadType, DeferredCleanupType, DeleteType,
   InactivityCleanupType, ApiRestartType
   DEF ApiStep

(* What the parts of a worker's actions do to the types *)

LEMMA NoTaskIsNone == NoTask \notin Task
BY DEF NoTask, Task

LEMMA WorkerIsNotApi == ASSUME NEW w \in Workers PROVE w \in Process /\ w # Api
BY ProcessAssumption DEF Process

\* At a step of a task a worker has that task, and where it needs one, a record.
LEMMA AtWork ==
    ASSUME TypeInv, NEW w \in Workers, pc[w] # "idle"
    PROVE  job[w] \in Task /\ (pc[w] \in Holding => cache[w] \in Batch)
BY DEF TypeInv, WorkersHold, TypeOK

LEMMA UpdateType ==
    ASSUME TypeOK, NEW w \in Workers, NEW b \in Batch, Update(w, b)
    PROVE  /\ store' \in MaybeBatch /\ dir' \in Directory
           /\ cache' \in [Process -> MaybeBatch]
           /\ cache' = [cache EXCEPT ![w] = b]
BY DirectoryExists, WorkerIsNotApi DEF Update, Persist, TypeOK, MaybeBatch

LEMMA CacheType ==
    ASSUME TypeOK, NEW w \in Workers, NEW b \in MaybeBatch,
           cache' = [cache EXCEPT ![w] = b]
    PROVE  cache' \in [Process -> MaybeBatch]
BY WorkerIsNotApi DEF TypeOK

LEMMA EndTaskType ==
    ASSUME TypeOK, NEW w \in Workers, job[w] \in Task, NEW how, EndTask(w, how)
    PROVE  /\ queue' \subseteq Task
           /\ job' \in [Workers -> Task \union {NoTask}]
           /\ pc' \in [Workers -> Steps]
           /\ fault' \in [Workers -> {"none", "retry", "fatal"}]
           /\ job' = [job EXCEPT ![w] = NoTask] /\ pc' = [pc EXCEPT ![w] = "idle"]
<1>1. job[w].tries < MaxRetries => [job[w] EXCEPT !.tries = @ + 1] \in Task
  BY BoundAssumption DEF Task
<1> QED
  BY <1>1 DEF EndTask, Goto, TypeOK, Steps

\* Worker w moves to another step of its task, holding a record if it must.
LEMMA WorkerMoves ==
    ASSUME TypeInv, NEW w \in Workers, NEW step \in Steps \ {"idle"}, NEW b,
           pc[w] # "idle", job' = job, pc' = [pc EXCEPT ![w] = step],
           cache' = [cache EXCEPT ![w] = b],
           step \in Holding => b \in Batch
    PROVE  pc' \in [Workers -> Steps] /\ WorkersHold'
BY WorkerIsNotApi DEF TypeInv, WorkersHold, TypeOK

\* Worker w ends its task.
LEMMA WorkerStops ==
    ASSUME TypeInv, NEW w \in Workers, NEW b,
           job' = [job EXCEPT ![w] = NoTask], pc' = [pc EXCEPT ![w] = "idle"],
           cache' = [cache EXCEPT ![w] = b]
    PROVE  WorkersHold'
BY WorkerIsNotApi DEF TypeInv, WorkersHold, TypeOK, Holding

\* The records a task writes are records.
LEMMA TaskRecords ==
    ASSUME TypeInv, NEW w \in Workers, pc[w] # "idle", cache[w] \in Batch
    PROVE  /\ Marked(w) \in Batch /\ Reviewable(w) \in Batch /\ Finished(w) \in Batch
           /\ \A f \in BOOLEAN : Scanned(w, f) \in Batch
           /\ [cache[w] EXCEPT !.status = "error"] \in Batch
           /\ [cache[w] EXCEPT !.failed = TRUE] \in Batch
           /\ \A s \in BOOLEAN : [cache[w] EXCEPT !.safe = s] \in Batch
<1>1. Marked(w) \in Batch /\ Reviewable(w) \in Batch /\ Finished(w) \in Batch
  BY StatusUpdate DEF Marked, Working, Reviewable, Finished, Status, Transient, Stable
<1>2. [cache[w] EXCEPT !.status = "error"] \in Batch
  BY StatusUpdate DEF Status, Stable
<1>3. job[w].tries + 1 \in Scans
  BY AtWork, BoundAssumption DEF Task, Scans
<1>4. \A f \in BOOLEAN : Scanned(w, f) \in Batch
  BY <1>3 DEF Scanned, Batch, Status, Stable, AnyReview
<1>5. [cache[w] EXCEPT !.failed = TRUE] \in Batch
      /\ \A s \in BOOLEAN : [cache[w] EXCEPT !.safe = s] \in Batch
  BY DEF Batch
<1> QED
  BY <1>1, <1>2, <1>4, <1>5

(* The actions of a worker *)

LEMMA TakeType == ASSUME TypeInv, NEW w \in Workers, Take(w) PROVE TypeInv'
<1> USE DEF TypeInv
<1>1. PICK t \in queue : queue' = queue \ {t} /\ job' = [job EXCEPT ![w] = t]
  BY DEF Take
<1>2. TypeOK'
  BY <1>1 DEF Take, Goto, TypeOK, Steps, storeVars, apiVars, history
<1>3. WorkersHold'
  BY <1>1, NoTaskIsNone DEF Take, Goto, TypeOK, WorkersHold, Holding
<1> QED
  BY <1>2, <1>3

LEMMA FetchType == ASSUME TypeInv, NEW w \in Workers, Fetch(w) PROVE TypeInv'
<1> USE DEF TypeInv
<1>1. Lookup(w) \in Batch
  BY LookupType, WorkerIsNotApi DEF Fetch, MaybeBatch
<1>2. PICK step \in {"mark", "remark"} : pc' = [pc EXCEPT ![w] = step] /\ pc[w] # "idle"
  BY DEF Fetch, At, Goto
<1>3. step \in Steps \ {"idle"}
  BY DEF Steps
<1>4. cache' = [cache EXCEPT ![w] = Lookup(w)] /\ job' = job
  BY DEF Fetch
<1>5. pc' \in [Workers -> Steps] /\ WorkersHold'
  BY <1>1, <1>2, <1>3, <1>4, WorkerMoves
<1>6. TypeOK'
  BY <1>1, <1>4, <1>5, CacheType DEF Fetch, TypeOK, MaybeBatch, storeVars, apiVars, history
<1> QED
  BY <1>5, <1>6

LEMMA MissingType == ASSUME TypeInv, NEW w \in Workers, Missing(w) PROVE TypeInv'
<1> USE DEF TypeInv
<1>1. TypeOK'
  BY DEF Missing, Goto, TypeOK, Steps, storeVars, apiVars, history
<1>2. WorkersHold'
  BY DEF Missing, At, Goto, TypeOK, WorkersHold, Holding
<1> QED
  BY <1>1, <1>2

LEMMA MarkType == ASSUME TypeInv, NEW w \in Workers, Mark(w) PROVE TypeInv'
<1> USE DEF TypeInv
<1>1. PICK step \in {"reload", "detect", "unlock"} :
         pc' = [pc EXCEPT ![w] = step] /\ pc[w] \in {"mark", "remark"}
  BY DEF Mark, At, Goto
<1>2. step \in Steps \ {"idle"}
  BY DEF Steps
<1>3. Marked(w) \in Batch
  BY <1>1, AtWork, TaskRecords DEF Holding
<1>4. Update(w, Marked(w)) /\ job' = job
  BY DEF Mark
<1>5. pc' \in [Workers -> Steps] /\ WorkersHold'
  BY <1>1, <1>2, <1>3, <1>4, WorkerMoves, UpdateType
<1>6. TypeOK'
  BY <1>3, <1>4, <1>5, UpdateType DEF Mark, TypeOK, apiVars, history
<1> QED
  BY <1>5, <1>6

LEMMA DetectType == ASSUME TypeInv, NEW w \in Workers, Detect(w) PROVE TypeInv'
<1> USE DEF TypeInv
<1>1. PICK f \in BOOLEAN : Update(w, Scanned(w, f))
  BY DEF Detect
<1>2. Scanned(w, f) \in Batch
  BY AtWork, TaskRecords DEF Detect, At, Holding
<1>3. pc' \in [Workers -> Steps] /\ WorkersHold'
  BY <1>1, <1>2, WorkerMoves, UpdateType DEF Detect, At, Goto, Steps
<1>4. TypeOK'
  BY <1>1, <1>2, <1>3, UpdateType DEF Detect, TypeOK, apiVars, history
<1> QED
  BY <1>3, <1>4

\* A task that ends with an update of its record
LEMMA UpdateAndEndType ==
    ASSUME TypeInv, NEW w \in Workers, pc[w] # "idle", NEW b \in Batch, NEW how,
           Update(w, b), EndTask(w, how),
           UNCHANGED <<pass, decisions, apiVars, keys, history>>
    PROVE  TypeInv'
<1> USE DEF TypeInv
<1>1. TypeOK'
  BY AtWork, UpdateType, EndTaskType DEF TypeOK, apiVars, history
<1>2. WorkersHold'
  BY AtWork, UpdateType, EndTaskType, WorkerStops
<1> QED
  BY <1>1, <1>2

LEMMA ConfirmType == ASSUME TypeInv, NEW w \in Workers, Confirm(w) PROVE TypeInv'
BY AtWork, TaskRecords, UpdateAndEndType DEF Confirm, At, Holding

LEMMA FinishType == ASSUME TypeInv, NEW w \in Workers, Finish(w) PROVE TypeInv'
BY AtWork, TaskRecords, UpdateAndEndType DEF Finish, At, Holding

LEMMA UnlockType == ASSUME TypeInv, NEW w \in Workers, Unlock(w) PROVE TypeInv'
<1> USE DEF TypeInv
<1>1. TypeOK'
  BY DEF Unlock, Goto, TypeOK, Steps, storeVars, apiVars, history
<1>2. WorkersHold'
  BY DEF Unlock, At, Goto, TypeOK, WorkersHold, Holding
<1> QED
  BY <1>1, <1>2

LEMMA TransformType == ASSUME TypeInv, NEW w \in Workers, Transform(w) PROVE TypeInv'
<1> USE DEF TypeInv
<1>1. cache[w] \in Batch /\ pc[w] = "transform"
  BY AtWork DEF Transform, At, Holding
<1>2. PICK b \in Batch : cache' = [cache EXCEPT ![w] = b]
  <2>1. CASE UNCHANGED cache
    BY <1>1, <2>1, WorkerIsNotApi DEF TypeOK
  <2>2. CASE cache' = [cache EXCEPT ![w].failed = TRUE]
    BY <1>1, <2>2, TaskRecords
  <2> QED
    BY <2>1, <2>2 DEF Transform
<1>3. dir' \in Directory
  <2>1. [made |-> TRUE, review |-> cache[w].review] \in Output
    BY <1>1 DEF Output, Batch
  <2> QED
    BY <2>1 DEF Transform, TypeOK, Directory
<1>4. pc' \in [Workers -> Steps] /\ WorkersHold'
  BY <1>1, <1>2, WorkerMoves DEF Transform, Goto, Steps
<1>5. TypeOK'
  BY <1>2, <1>3, <1>4, CacheType DEF Transform, TypeOK, MaybeBatch, apiVars, history
<1> QED
  BY <1>4, <1>5

LEMMA SealType == ASSUME TypeInv, NEW w \in Workers, Seal(w) PROVE TypeInv'
<1> USE DEF TypeInv
<1>1. cache[w] \in Batch /\ pc[w] = "seal"
  BY AtWork DEF Seal, At, Holding
<1>2. PICK s \in BOOLEAN : cache' = [cache EXCEPT ![w].safe = s]
  BY DEF Seal
<1>3. PICK b \in Batch : cache' = [cache EXCEPT ![w] = b]
  BY <1>1, <1>2, TaskRecords
<1>4. dir' \in Directory
  <2>1. CASE UNCHANGED dir
    BY <2>1 DEF TypeOK
  <2>2. CASE /\ keys[w] # NoKey
             /\ dir' = [dir EXCEPT !.mapping = [key |-> keys[w], review |-> cache[w].review]]
    <3>1. [key |-> keys[w], review |-> cache[w].review] \in Mapping
      BY <1>1, <2>2 DEF TypeOK, AnyKey, Mapping, Batch
    <3> QED
      BY <2>2, <3>1 DEF TypeOK, Directory
  <2> QED
    BY <2>1, <2>2 DEF Seal
<1>5. pc' \in [Workers -> Steps] /\ WorkersHold'
  BY <1>1, <1>3, WorkerMoves DEF Seal, Goto, Steps
<1>6. TypeOK'
  BY <1>3, <1>4, <1>5, CacheType DEF Seal, TypeOK, MaybeBatch, apiVars, history
<1> QED
  BY <1>5, <1>6

LEMMA PackType == ASSUME TypeInv, NEW w \in Workers, Pack(w) PROVE TypeInv'
<1> USE DEF TypeInv
<1>1. dir' \in Directory
  <2>1. cache[w].failed \in BOOLEAN
    BY AtWork DEF Pack, At, Holding, Batch
  <2>2. [output |-> dir.output, mapping |-> dir.mapping, clean |-> ~cache[w].failed] \in Archive
    BY <2>1 DEF TypeOK, Directory, Archive
  <2> QED
    BY <2>2 DEF Pack, TypeOK, Directory
<1>2. TypeOK'
  BY <1>1 DEF Pack, Goto, TypeOK, Steps, apiVars, history
<1>3. WorkersHold'
  BY DEF Pack, At, Goto, TypeOK, WorkersHold, Holding
<1> QED
  BY <1>2, <1>3

LEMMA CutShortType ==
    ASSUME TypeOK, NEW w \in Workers, CutShort(w) PROVE dir' \in Directory
<1>1. [output |-> NoOutput, mapping |-> NoMapping, clean |-> FALSE] \in Archive
  BY DEF Archive
<1> QED
  BY <1>1 DEF CutShort, TypeOK, Directory

LEMMA FailType ==
    ASSUME TypeInv, NEW w \in Workers, NEW kind \in {"retry", "fatal"}, Fail(w, kind)
    PROVE  TypeInv'
<1> USE DEF TypeInv
<1>1. pc[w] # "idle" /\ cache[w] \in Batch
  BY AtWork DEF Fail, At, Holding
<1>2. PICK b \in Batch : cache' = [cache EXCEPT ![w] = b]
  <2>1. CASE UNCHANGED cache
    BY <1>1, <2>1, WorkerIsNotApi DEF TypeOK
  <2>2. CASE \/ cache' = [cache EXCEPT ![w] = Marked(w)]
             \/ \E f \in BOOLEAN : cache' = [cache EXCEPT ![w] = Scanned(w, f)]
             \/ cache' = [cache EXCEPT ![w] = Reviewable(w)]
             \/ cache' = [cache EXCEPT ![w] = Finished(w)]
    BY <1>1, <2>2, TaskRecords
  <2> QED
    BY <2>1, <2>2 DEF Fail
<1>3. pc' \in [Workers -> Steps] /\ WorkersHold'
  BY <1>1, <1>2, WorkerMoves DEF Fail, Goto, Steps
<1>4. dir' \in Directory
  BY CutShortType DEF Fail
<1>5. TypeOK'
  BY <1>2, <1>3, <1>4, CacheType DEF Fail, TypeOK, MaybeBatch, apiVars, history
<1> QED
  BY <1>3, <1>5

LEMMA RecoverType == ASSUME TypeInv, NEW w \in Workers, Recover(w) PROVE TypeInv'
<1> USE DEF TypeInv
<1>1. pc[w] = "failed" /\ UNCHANGED <<storeVars, apiVars, keys, history>>
  BY DEF Recover, At
<1>2. CASE /\ Lookup(w) # NoBatch /\ cache' = [cache EXCEPT ![w] = Lookup(w)]
           /\ Goto(w, "record") /\ UNCHANGED <<queue, job, fault>>
  <2>1. Lookup(w) \in Batch
    BY <1>2, LookupType, WorkerIsNotApi DEF MaybeBatch
  <2>2. pc' \in [Workers -> Steps] /\ WorkersHold'
    BY <1>1, <1>2, <2>1, WorkerMoves DEF Goto, Steps
  <2> QED
    BY <1>1, <1>2, <2>1, <2>2, CacheType DEF TypeOK, MaybeBatch, storeVars, apiVars, history
<1>3. CASE EndTask(w, fault[w]) /\ UNCHANGED cache
  <2>1. cache' = [cache EXCEPT ![w] = cache[w]]
    BY <1>3, WorkerIsNotApi DEF TypeOK
  <2>2. WorkersHold'
    BY <1>1, <1>3, <2>1, AtWork, EndTaskType, WorkerStops
  <2> QED
    BY <1>1, <1>3, <2>2, AtWork, EndTaskType DEF TypeOK, storeVars, apiVars, history
<1> QED
  BY <1>2, <1>3 DEF Recover

LEMMA RecordErrorType == ASSUME TypeInv, NEW w \in Workers, RecordError(w) PROVE TypeInv'
<1> DEFINE b == [cache[w] EXCEPT !.status = "error"]
<1>1. pc[w] = "record" /\ b \in Batch
  BY AtWork, TaskRecords DEF RecordError, At, Holding
<1>2. UNCHANGED <<pass, decisions, apiVars, keys, history>>
  BY DEF RecordError
<1>3. CASE Update(w, b) /\ EndTask(w, fault[w])
  BY <1>1, <1>2, <1>3, UpdateAndEndType
<1>4. CASE cache' = [cache EXCEPT ![w] = b] /\ EndTask(w, "retry") /\ UNCHANGED <<store, dir>>
  <2> USE DEF TypeInv
  <2> HIDE DEF b
  <2>1. WorkersHold'
    BY <1>1, <1>4, AtWork, EndTaskType, WorkerStops
  <2>2. TypeOK'
    BY <1>1, <1>2, <1>4, AtWork, EndTaskType, CacheType DEF TypeOK, MaybeBatch, apiVars, history
  <2> QED
    BY <2>1, <2>2
<1> QED
  BY <1>3, <1>4 DEF RecordError

LEMMA WorkerRestartType == ASSUME TypeInv, NEW w \in Workers, WorkerRestart(w) PROVE TypeInv'
<1> USE DEF TypeInv
<1>1. WorkersHold'
  BY WorkerStops DEF WorkerRestart, Goto
<1>2. TypeOK'
  BY CutShortType, CacheType DEF WorkerRestart, Goto, TypeOK, MaybeBatch, AnyKey, Steps,
                                 apiVars, history
<1> QED
  BY <1>1, <1>2

LEMMA TypeStep == TypeInv /\ [Next]_vars => TypeInv'
<1> SUFFICES ASSUME TypeInv, [Next]_vars PROVE TypeInv'
  OBVIOUS
<1>1. CASE ApiStep
  BY <1>1, ApiStepType
<1>2. ASSUME NEW w \in Workers, TaskStep(w) PROVE TypeInv'
  BY <1>2, TakeType, FetchType, MissingType, MarkType, DetectType, ConfirmType, UnlockType,
     TransformType, SealType, PackType, FinishType, FailType, RecoverType, RecordErrorType
     DEF TaskStep
<1>3. ASSUME NEW w \in Workers, WorkerRestart(w) PROVE TypeInv'
  BY <1>3, WorkerRestartType
<1>4. CASE UNCHANGED vars
  BY <1>4 DEF TypeInv, TypeOK, WorkersHold, vars
<1> QED
  BY <1>1, <1>2, <1>3, <1>4 DEF Next

THEOREM TypeInvariant == Spec => []TypeInv
BY TypeInit, TypeStep, PTL DEF Spec

\* Every reachable state is well typed, whatever the number of workers, tasks
\* and retries (batch_manager.py, tasks.py, batches_routes.py).
THEOREM TypeCorrect == Spec => []TypeOK
BY TypeInvariant, PTL DEF TypeInv

-----------------------------------------------------------------------------
(* The API keeps the promise of ClientView *)

\* No task is queued or runs.
Quiet == queue = {} /\ \A w \in Workers : pc[w] = "idle"

\* Before the batch exists, and while its files are arriving, no task can touch
\* it; and between the queue and its last write a handler holds a batch in
\* flight, as the API does unless it forgot the batch.
HandlerInv ==
    /\ usedKeys = {} =>
          Quiet /\ store = NoBatch /\ cache[Api] = NoBatch /\ handler = Idle
    /\ handler.stage = "uploading" =>
          /\ Quiet
          /\ store.status \in {"none", "pending"}
          /\ cache[Api].status \in {"none", "pending"}
    /\ handler.stage = "enqueued" =>
          /\ handler.batch.status \in {"scanning", "applying"}
          /\ cache[Api].status \in {"none", "scanning", "applying"}

ViewInv == TypeInv /\ HandlerInv

LEMMA ApiIsProcess == Api \in Process
BY DEF Process

LEMMA HandlerInit == Init => HandlerInv
BY ApiIsProcess DEF Init, HandlerInv, Quiet, Idle

\* A task step needs a task, and leaves the API's memory alone.
LEMMA TaskStepFrame ==
    ASSUME TypeInv, NEW w \in Workers, TaskStep(w)
    PROVE  ~Quiet /\ cache'[Api] = cache[Api] /\ UNCHANGED <<handler, usedKeys, served>>
<1>1. ~Quiet
  <2>1. Take(w) \/ pc[w] # "idle"
    BY DEF TaskStep, Fetch, Missing, Mark, Detect, Confirm, Unlock, Transform, Seal, Pack,
           Finish, Fail, Recover, RecordError, At
  <2> QED
    BY <2>1 DEF Take, Quiet
<1>2. UNCHANGED <<handler, usedKeys, served>>
  BY DEF TaskStep, Take, Fetch, Missing, Mark, Detect, Confirm, Unlock, Transform, Seal, Pack,
         Finish, Fail, Recover, RecordError, apiVars, history
<1>3. \A b : cache' = [cache EXCEPT ![w] = b] => cache'[Api] = cache[Api]
  BY WorkerIsNotApi, ApiIsProcess DEF TypeInv, TypeOK
<1>4. UNCHANGED cache \/ \E b : cache' = [cache EXCEPT ![w] = b]
  BY DEF TaskStep, Take, Fetch, Missing, Mark, Detect, Confirm, Unlock, Transform, Seal, Pack,
         Finish, Fail, Recover, RecordError, Update
<1> QED
  BY <1>1, <1>2, <1>3, <1>4

LEMMA WorkerRestartFrame ==
    ASSUME TypeInv, NEW w \in Workers, WorkerRestart(w)
    PROVE  /\ cache'[Api] = cache[Api] /\ UNCHANGED <<handler, usedKeys, served, store, queue>>
           /\ Quiet => Quiet'
<1>1. cache'[Api] = cache[Api] /\ UNCHANGED <<handler, usedKeys, served, store, queue>>
  BY WorkerIsNotApi, ApiIsProcess DEF WorkerRestart, TypeInv, TypeOK, apiVars, history
<1>2. pc' = [pc EXCEPT ![w] = "idle"] /\ pc \in [Workers -> Steps]
  BY DEF WorkerRestart, Goto, TypeInv, TypeOK
<1> QED
  BY <1>1, <1>2 DEF Quiet

\* What the API looks up is what it holds, unless that is in flight.
LEMMA HeldOrInFlight ==
    ASSUME TypeOK
    PROVE  /\ cache[Api].status \in View!InFlight \/ Lookup(Api) = cache[Api]
           /\ cache[Api].status \in View!Held
           /\ Lookup(Api).status \in View!Held
<1>1. cache[Api] \in MaybeBatch /\ Lookup(Api) \in MaybeBatch
  BY LookupType, ApiIsProcess DEF TypeOK
<1>2. \A b \in MaybeBatch : b.status \in Status \union {"none"}
  BY DEF MaybeBatch, Batch, NoBatch
<1>3. cache[Api].status \in View!InFlight \/ Lookup(Api) = cache[Api]
  BY <1>1, <1>2 DEF Lookup, Status, Transient, Stable, View!InFlight, NoBatch
<1>4. Status \union {"none"} = View!Held
  BY DEF Status, Transient, Stable, View!Held, View!InFlight, View!Final
<1> QED
  BY <1>1, <1>2, <1>3, <1>4

\* What is stored in the API's memory is what it then holds.
LEMMA ApiHolds ==
    ASSUME TypeOK, NEW b, cache' = [cache EXCEPT ![Api] = b] PROVE cache'[Api] = b
BY ApiIsProcess DEF TypeOK

LEMMA CleanupForgets ==
    ASSUME TypeOK, Cleanup
    PROVE  cache'[Api] = NoBatch /\ (store' = NoBatch \/ store' = store)
BY ApiHolds DEF Cleanup, Removed, PartlyRemoved

LEMMA HandlerApiStep == ASSUME ViewInv, ApiStep PROVE HandlerInv'
<1> USE DEF ViewInv, TypeInv, HandlerInv
<1>q. ASSUME UNCHANGED <<queue, pc>> PROVE Quiet => Quiet'
  BY <1>q DEF Quiet
<1>n. NoBatch.status = "none" /\ (\A b \in Batch : b.status # "none")
  BY DEF NoBatch, Batch, Status, Transient, Stable
<1>1. ASSUME NEW k \in Keys, Create(k) PROVE HandlerInv'
  <2>1. cache'[Api] = NewBatch /\ store' = NewBatch
    BY <1>1, ApiHolds DEF Create
  <2> QED
    BY <1>1, <1>q, <2>1, NewBatchType DEF Create, workerVars
<1>2. ASSUME NEW k \in Keys, Regenerate(k) PROVE HandlerInv'
  <2>1. cache'[Api] = Lookup(Api) /\ Lookup(Api) # NoBatch
    BY <1>2, ApiHolds DEF Regenerate
  <2>2. Lookup(Api) = cache[Api] \/ Lookup(Api) = store
    BY DEF Lookup
  <2> QED
    BY <1>2, <1>q, <2>1, <2>2 DEF Regenerate, workerVars, LoopFree
<1>3. ASSUME RejectUpload \/ LoseUpload \/ ApiRestart PROVE HandlerInv'
  <2>1. handler' = Idle /\ UNCHANGED <<queue, pc, usedKeys>>
    BY <1>3 DEF RejectUpload, LoseUpload, ApiRestart, workerVars, history
  <2>2. (store' = store \/ store' = NoBatch) /\ (cache'[Api] = cache[Api] \/ cache'[Api] = NoBatch)
    BY <1>3, CleanupForgets, ApiHolds DEF RejectUpload, LoseUpload, ApiRestart, storeVars
  <2> QED
    BY <1>q, <2>1, <2>2 DEF Idle
<1>4. ASSUME EnqueueScan PROVE HandlerInv'
  <2> DEFINE b == [NewBatch EXCEPT !.status = "scanning"]
  <2>1. b \in Batch /\ b.status = "scanning"
    BY NewBatchType, StatusUpdate DEF Status, Transient
  <2>2. handler' = [stage |-> "enqueued", batch |-> b] /\ cache' = [cache EXCEPT ![Api] = b]
    BY <1>4 DEF EnqueueScan, ApiUpdate
  <2> HIDE DEF b
  <2>3. cache'[Api] = b /\ usedKeys' = usedKeys /\ handler.stage = "uploading"
    BY <1>4, <2>2, ApiHolds DEF EnqueueScan, history
  <2> QED
    BY <2>1, <2>2, <2>3 DEF Idle
<1>5. ASSUME EnqueueScanFails \/ FinishEnqueue PROVE HandlerInv'
  BY <1>5 DEF EnqueueScanFails, FinishEnqueue, Idle, history
<1>6. ASSUME Poll PROVE HandlerInv'
  <2>1. cache'[Api] = Lookup(Api) /\ Lookup(Api) # NoBatch
    BY <1>6, ApiHolds DEF Poll
  <2>2. Lookup(Api) = cache[Api] \/ Lookup(Api) = store
    BY DEF Lookup
  <2> QED
    BY <1>6, <1>q, <2>1, <2>2 DEF Poll, workerVars, LoopFree, storeVars, history
<1>7. ASSUME NEW r \in AnyReview, SubmitReview(r) PROVE HandlerInv'
  <2>1. Lookup(Api).status \in {"review", "done", "done_with_errors"}
        /\ UNCHANGED <<handler, usedKeys>> /\ handler.stage # "enqueued"
    BY <1>7 DEF SubmitReview, LoopFree, history
  <2>2. Lookup(Api) = cache[Api] \/ Lookup(Api) = store
    BY DEF Lookup
  <2> QED
    BY <1>n, <2>1, <2>2
<1>8. ASSUME Apply PROVE HandlerInv'
  <2> DEFINE b == [Decided(Lookup(Api)) EXCEPT !.status = "applying"]
  <2>1. Lookup(Api).status = "review" /\ Decided(Lookup(Api)) \in Batch
    BY <1>8, LookupHasStatus, DecidedType DEF Apply, Process, Status, Stable
  <2>2. b.status = "applying"
    BY <2>1, StatusUpdate DEF Status, Transient
  <2>3. handler' = [stage |-> "enqueued", batch |-> b] /\ cache' = [cache EXCEPT ![Api] = b]
    BY <1>8 DEF Apply, ApiUpdate
  <2> HIDE DEF b
  <2>4. cache'[Api] = b /\ usedKeys' = usedKeys
    BY <1>8, <2>3, ApiHolds DEF Apply
  <2>5. Lookup(Api) = cache[Api] \/ Lookup(Api) = store
    BY DEF Lookup
  <2> QED
    BY <1>n, <2>1, <2>2, <2>3, <2>4, <2>5
<1>9. ASSUME ApplyFails PROVE HandlerInv'
  <2>1. Lookup(Api).status = "review" /\ UNCHANGED <<handler, usedKeys>> /\ handler = Idle
    BY <1>9 DEF ApplyFails, history
  <2>2. Lookup(Api) = cache[Api] \/ Lookup(Api) = store
    BY DEF Lookup
  <2> QED
    BY <1>n, <2>1, <2>2 DEF Idle
<1>10. ASSUME Download PROVE HandlerInv'
  <2>1. Lookup(Api).status = "done" /\ UNCHANGED <<handler, usedKeys>> /\ handler.stage # "enqueued"
    BY <1>10 DEF Download, LoopFree
  <2>2. Lookup(Api) = cache[Api] \/ Lookup(Api) = store
    BY DEF Lookup
  <2> QED
    BY <1>n, <2>1, <2>2
<1>11. ASSUME DeferredCleanup \/ Delete \/ InactivityCleanup PROVE HandlerInv'
  <2>1. cache'[Api] = NoBatch /\ (store' = NoBatch \/ store' = store)
    BY <1>11, CleanupForgets DEF DeferredCleanup, Delete, InactivityCleanup
  <2>2. UNCHANGED <<handler, usedKeys, queue, pc>>
    BY <1>11 DEF DeferredCleanup, Delete, InactivityCleanup, workerVars, history
  <2> QED
    BY <1>q, <1>n, <2>1, <2>2
<1> QED
  BY <1>1, <1>2, <1>3, <1>4, <1>5, <1>6, <1>7, <1>8, <1>9, <1>10, <1>11 DEF ApiStep

LEMMA HandlerStep == ViewInv /\ [Next]_vars => HandlerInv'
<1> SUFFICES ASSUME ViewInv, [Next]_vars PROVE HandlerInv'
  OBVIOUS
<1> USE DEF ViewInv, TypeInv, HandlerInv
<1>1. CASE ApiStep
  BY <1>1, HandlerApiStep
<1>2. ASSUME NEW w \in Workers, TaskStep(w) PROVE HandlerInv'
  BY <1>2, TaskStepFrame
<1>3. ASSUME NEW w \in Workers, WorkerRestart(w) PROVE HandlerInv'
  BY <1>3, WorkerRestartFrame
<1>4. CASE UNCHANGED vars
  BY <1>4 DEF vars, Quiet
<1> QED
  BY <1>1, <1>2, <1>3, <1>4 DEF Next

LEMMA ViewInit == Init => View!Init
BY ApiIsProcess DEF Init, View!Init, NoBatch

LEMMA ViewApiStep == ASSUME ViewInv, ApiStep PROVE [View!Next]_View!vars
<1> USE DEF ViewInv, TypeInv, HandlerInv, View!Next, View!vars
<1> DEFINE held == cache[Api].status
<1>s. /\ held \in View!InFlight \/ Lookup(Api) = cache[Api]
      /\ held \in View!Held /\ Lookup(Api).status \in View!Held
  BY HeldOrInFlight
\* An action that leaves the archive alone and looks the batch up follows it.
<1>f. ASSUME UNCHANGED served, held' \in View!Held,
             held \in View!InFlight \/ held' = held
      PROVE  [View!Next]_View!vars
  BY <1>f DEF View!Follow
<1>d. ASSUME UNCHANGED served, cache'[Api] = NoBatch PROVE [View!Next]_View!vars
  BY <1>d DEF View!Disappear, NoBatch
<1>1. ASSUME NEW k \in Keys, Create(k) PROVE [View!Next]_View!vars
  <2>1. cache'[Api] = NewBatch /\ cache[Api] = NoBatch /\ UNCHANGED served
    BY <1>1, ApiHolds DEF Create
  <2> QED
    BY <1>f, <2>1, NewBatchType DEF View!InFlight, View!Held, NoBatch
<1>2. ASSUME \/ Poll
             \/ \E k \in Keys : Regenerate(k)
      PROVE  [View!Next]_View!vars
  <2>1. cache'[Api] = Lookup(Api) /\ UNCHANGED served
    BY <1>2, ApiHolds DEF Poll, Regenerate, history
  <2> QED
    BY <1>s, <1>f, <2>1
<1>3. ASSUME RejectUpload \/ ApiRestart \/ DeferredCleanup \/ Delete \/ InactivityCleanup
      PROVE  [View!Next]_View!vars
  <2>1. cache'[Api] = NoBatch /\ UNCHANGED served
    BY <1>3, CleanupForgets, ApiHolds
       DEF RejectUpload, ApiRestart, DeferredCleanup, Delete, InactivityCleanup, history
  <2> QED
    BY <1>d, <2>1
<1>4. ASSUME LoseUpload PROVE [View!Next]_View!vars
  BY <1>4 DEF LoseUpload, history
<1>5. ASSUME EnqueueScan PROVE [View!Next]_View!vars
  <2> DEFINE b == [NewBatch EXCEPT !.status = "scanning"]
  <2>1. b.status = "scanning"
    BY NewBatchType, StatusUpdate DEF Status, Transient
  <2>2. cache' = [cache EXCEPT ![Api] = b] /\ UNCHANGED served /\ handler.stage = "uploading"
    BY <1>5 DEF EnqueueScan, ApiUpdate, history
  <2> HIDE DEF b
  <2>3. cache'[Api] = b
    BY <2>2, ApiHolds
  <2> QED
    BY <1>f, <2>1, <2>2, <2>3 DEF View!InFlight, View!Held
<1>6. ASSUME EnqueueScanFails PROVE [View!Next]_View!vars
  <2>1. cache'[Api] = NewBatch /\ UNCHANGED served /\ handler.stage = "uploading"
    BY <1>6, ApiHolds DEF EnqueueScanFails, ApiUpdate, history
  <2> QED
    BY <1>f, <2>1, NewBatchType DEF View!InFlight, View!Held
<1>7. ASSUME FinishEnqueue PROVE [View!Next]_View!vars
  <2>1. cache'[Api] = handler.batch /\ UNCHANGED served /\ handler.stage = "enqueued"
    BY <1>7, ApiHolds DEF FinishEnqueue, ApiUpdate, history
  <2> QED
    BY <1>f, <2>1 DEF View!InFlight, View!Held
<1>8. ASSUME NEW r \in AnyReview, SubmitReview(r) PROVE [View!Next]_View!vars
  <2> DEFINE b == Lookup(Api)
             u == [b EXCEPT !.review = r]
  <2>1. b \in Batch
    BY <1>8, LookupHasStatus DEF SubmitReview, Process, Status, Stable
  <2>2. u.status = b.status /\ cache' = [cache EXCEPT ![Api] = u] /\ UNCHANGED served
    BY <1>8, <2>1, ReviewUpdate DEF SubmitReview, ApiUpdate, history
  <2> HIDE DEF u
  <2>3. cache'[Api] = u
    BY <2>2, ApiHolds
  <2> QED
    BY <1>s, <1>f, <2>2, <2>3
<1>9. ASSUME Apply PROVE [View!Next]_View!vars
  <2> DEFINE b == [Decided(Lookup(Api)) EXCEPT !.status = "applying"]
  <2>1. Lookup(Api).status = "review" /\ Decided(Lookup(Api)) \in Batch
    BY <1>9, LookupHasStatus, DecidedType DEF Apply, Process, Status, Stable
  <2>2. b.status = "applying" /\ cache' = [cache EXCEPT ![Api] = b] /\ UNCHANGED served
    BY <1>9, <2>1, StatusUpdate DEF Apply, ApiUpdate, Status, Transient
  <2> HIDE DEF b
  <2>3. cache'[Api].status = "applying"
    BY <2>2, ApiHolds
  <2>4. CASE held \in View!InFlight
    BY <1>f, <2>2, <2>3, <2>4 DEF View!Held, View!InFlight
  <2>5. CASE Lookup(Api) = cache[Api]
    BY <2>1, <2>2, <2>3, <2>5 DEF View!RequestApply
  <2> QED
    BY <1>s, <2>4, <2>5
<1>10. ASSUME ApplyFails PROVE [View!Next]_View!vars
  <2> DEFINE u == Decided(Lookup(Api))
  <2>1. u.status = Lookup(Api).status
    BY <1>10, LookupHasStatus, DecidedType DEF ApplyFails, Process, Status, Stable
  <2>2. cache' = [cache EXCEPT ![Api] = u] /\ UNCHANGED served
    BY <1>10 DEF ApplyFails, ApiUpdate, history
  <2> HIDE DEF u
  <2>3. cache'[Api] = u
    BY <2>2, ApiHolds
  <2> QED
    BY <1>s, <1>f, <2>1, <2>2, <2>3
<1>11. ASSUME Download PROVE [View!Next]_View!vars
  <2>1. cache'[Api] = Lookup(Api) /\ Lookup(Api).status = "done"
    BY <1>11, ApiHolds DEF Download
  <2>2. dir.zip \in Archive
    BY <1>11 DEF Download, TypeOK, Directory
  <2>3. served' # NothingServed
    BY <1>11, <2>2 DEF Download, NothingServed
  <2>4. held \in View!InFlight \union {"done"} /\ held' = "done"
    BY <1>s, <2>1
  <2> HIDE DEF held
  <2> QED
    BY <2>3, <2>4 DEF View!Export, held
<1> QED
  BY <1>1, <1>2, <1>3, <1>4, <1>5, <1>6, <1>7, <1>8, <1>9, <1>10, <1>11 DEF ApiStep

LEMMA ViewStep == ViewInv /\ [Next]_vars => [View!Next]_View!vars
<1> SUFFICES ASSUME ViewInv, [Next]_vars PROVE [View!Next]_View!vars
  OBVIOUS
<1>1. CASE ApiStep
  BY <1>1, ViewApiStep
<1>2. ASSUME NEW w \in Workers, TaskStep(w) \/ WorkerRestart(w) PROVE UNCHANGED View!vars
  BY <1>2, TaskStepFrame, WorkerRestartFrame DEF ViewInv, View!vars
<1>3. CASE UNCHANGED vars
  BY <1>3 DEF vars, View!vars
<1> QED
  BY <1>1, <1>2, <1>3 DEF Next

\* The API, with its cache, its queue, its retrying workers and its cleanup, is
\* an implementation of ClientView: the status it holds, which GET /batches/{id}
\* answers and review, apply and download are checked against, leaves a review
\* only by an apply or by removal, and a final status only by removal (get_batch).
THEOREM ViewCorrect == Spec => ImplementsClientView
<1>1. Init => ViewInv /\ View!Init
  BY TypeInit, HandlerInit, ViewInit DEF ViewInv
<1>2. ViewInv /\ [Next]_vars => ViewInv'
  BY TypeStep, HandlerStep DEF ViewInv
<1>3. ViewInv /\ [Next]_vars => [View!Next]_View!vars
  BY ViewStep
<1> QED
  BY <1>1, <1>2, <1>3, PTL DEF Spec, ImplementsClientView, View!Spec

=============================================================================
