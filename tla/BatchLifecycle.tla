--------------------------- MODULE BatchLifecycle ---------------------------
(***************************************************************************)
(* The life of one batch: the FastAPI process, the Celery workers, the     *)
(* task queue between them and the state they share in Redis and on disk.  *)
(*                                                                         *)
(* Every dictionary of batch_manager.py is keyed by the batch id (a fresh  *)
(* UUID) and no operation relates two ids, so one batch is modelled.       *)
(*                                                                         *)
(* Each process keeps its own cache.  A lock of batch_manager.py orders    *)
(* threads of one process only; between processes every get_batch and      *)
(* every update_batch is a step of its own.  A route handler has no await  *)
(* between its calls, so within the API it is one step, up to the moment   *)
(* where it puts a task on the queue and a worker may run beside it.       *)
(***************************************************************************)
EXTENDS Naturals

CONSTANTS
    Api,         \* the FastAPI process
    Workers,     \* the Celery worker processes
    Reviews,     \* contents a review can give to the findings
    NoReview,    \* every finding still on its default action (ACCEPT)
    Keys,        \* passphrases
    NoKey,       \* no passphrase
    MaxTasks,    \* bound: tasks the API ever puts on the queue
    MaxRetries,  \* retry_kwargs max_retries of DatabaseTask
    RemovalFails \* whether removing a directory may fail (the API logs it)

ASSUME ProcessAssumption == Api \notin Workers
ASSUME ReviewAssumption == NoReview \notin Reviews
ASSUME KeyAssumption == NoKey \notin Keys
ASSUME BoundAssumption == MaxTasks \in Nat /\ MaxRetries \in Nat
ASSUME FaultAssumption == RemovalFails \in BOOLEAN

VARIABLES
    store,       \* the batch record in Redis and in batch.json
    dir,         \* the batch directory
    pass,        \* the stored passphrase
    decisions,   \* the stored review decisions
    cache,       \* _batches of every process
    keys,        \* _passphrases of the workers
    tracked,     \* whether the API has the batch in _last_activity
    handler,     \* the API route that has more than one step
    deferred,    \* a cleanup the API owes after a download
    queue,       \* tasks in the broker
    issued,      \* how many tasks the API has put on the queue
    job,         \* the task a worker runs
    pc,          \* the next call of that task
    fault,       \* what the task failed with
    usedKeys,    \* passphrases already generated
    asked,       \* the review the API held when it last queued an apply
    served       \* the last archive a client downloaded, with what it asked

storeVars  == <<store, dir, pass, decisions>>
apiVars    == <<tracked, handler, deferred, issued>>
workerVars == <<keys, job, pc, fault>>
history    == <<usedKeys, asked, served>>
vars == <<store, dir, pass, decisions, cache, keys, tracked, handler, deferred,
          queue, issued, job, pc, fault, usedKeys, asked, served>>

-----------------------------------------------------------------------------
(* Types *)

Process == Workers \union {Api}

Transient == {"pending", "scanning", "applying"}
Stable    == {"review", "done", "done_with_errors", "error"}
Status    == Transient \union Stable

AnyReview == Reviews \union {NoReview}
AnyKey    == Keys \union {NoKey}

\* The number of a scan attempt; 0 before the first.
Scans == 0 .. MaxRetries + 1

\* scan: the attempt whose findings the record holds (finding ids are fresh
\* UUIDs, so a decision on one attempt says nothing of the next); review: the
\* actions those findings carry; failed: some file is FAILED; safe: the label
\* is SAFE_TO_UPLOAD.
Batch == [status : Status, scan : Scans, review : AnyReview,
          failed : BOOLEAN, safe : BOOLEAN]
NoBatch == [status |-> "none"]
MaybeBatch == Batch \union {NoBatch}

NewBatch == [status |-> "pending", scan |-> 0, review |-> NoReview,
             failed |-> FALSE, safe |-> TRUE]

Decisions == [scan : Scans, review : AnyReview]
NoDecisions == [scan |-> 0, review |-> NoReview]

\* An output or a mapping is known by the review it was made with; an archive
\* is clean when it was written to its end and no file was FAILED.
Output   == [made : {TRUE}, review : AnyReview]
NoOutput == [made |-> FALSE]
Mapping   == [key : Keys, review : AnyReview]
NoMapping == [key |-> NoKey]
Archive   == [output : Output \union {NoOutput},
              mapping : Mapping \union {NoMapping}, clean : BOOLEAN]
NoArchive == [output |-> NoOutput]

Directory == [exists : BOOLEAN, uploads : BOOLEAN,
              output : Output \union {NoOutput},
              mapping : Mapping \union {NoMapping},
              zip : Archive \union {NoArchive}]
NoDirectory == [exists |-> FALSE, uploads |-> FALSE, output |-> NoOutput,
                mapping |-> NoMapping, zip |-> NoArchive]

Task   == [id : 1 .. MaxTasks, kind : {"scan", "apply"}, tries : 0 .. MaxRetries]
NoTask == [kind |-> "none"]

Handler == [stage : {"idle"}] \union
           [stage : {"uploading"}] \union
           [stage : {"enqueued"}, batch : Batch]
Idle == [stage |-> "idle"]

Steps == {"idle", "begin", "mark", "reload", "remark", "detect", "confirm",
          "unlock", "transform", "seal", "pack", "finish", "failed", "record"}

Served == [archive : Archive, asked : AnyReview]
NothingServed == [archive |-> NoArchive]

TypeOK ==
    /\ store \in MaybeBatch
    /\ dir \in Directory
    /\ pass \in AnyKey
    /\ decisions \in Decisions
    /\ cache \in [Process -> MaybeBatch]
    /\ keys \in [Workers -> AnyKey]
    /\ tracked \in BOOLEAN
    /\ handler \in Handler
    /\ deferred \in BOOLEAN
    /\ queue \subseteq Task
    /\ issued \in 0 .. MaxTasks
    /\ job \in [Workers -> Task \union {NoTask}]
    /\ pc \in [Workers -> Steps]
    /\ fault \in [Workers -> {"none", "retry", "fatal"}]
    /\ usedKeys \subseteq Keys
    /\ asked \in AnyReview
    /\ served \in Served \union {NothingServed}

Init ==
    /\ store = NoBatch
    /\ dir = NoDirectory
    /\ pass = NoKey
    /\ decisions = NoDecisions
    /\ cache = [p \in Process |-> NoBatch]
    /\ keys = [w \in Workers |-> NoKey]
    /\ tracked = FALSE
    /\ handler = Idle
    /\ deferred = FALSE
    /\ queue = {}
    /\ issued = 0
    /\ job = [w \in Workers |-> NoTask]
    /\ pc = [w \in Workers |-> "idle"]
    /\ fault = [w \in Workers |-> "none"]
    /\ usedKeys = {}
    /\ asked = NoReview
    /\ served = NothingServed

-----------------------------------------------------------------------------
(* batch_manager.py *)

\* Wrong on purpose: the cache is never believed.
LookupStoreFirst(p) == IF store # NoBatch THEN store ELSE cache[p]

\* What get_batch returns to process p: a stable cached record is believed,
\* anything else is read again, and a cached one is the fallback.
Lookup(p) ==
    IF cache[p] # NoBatch /\ cache[p].status \in Stable THEN cache[p]
    ELSE IF store # NoBatch THEN store
    ELSE cache[p]

\* Writing batch.json recreates the directory (mkdir with parents).
Persist(b) ==
    /\ store' = b
    /\ dir' = [dir EXCEPT !.exists = TRUE]

\* update_batch in the API
ApiUpdate(b) ==
    /\ Persist(b)
    /\ cache' = [cache EXCEPT ![Api] = b]
    /\ tracked' = TRUE

\* Wrong on purpose: the directory is forgotten.
CleanupKeepsFiles ==
    /\ store' = NoBatch /\ pass' = NoKey /\ decisions' = NoDecisions
    /\ cache' = [cache EXCEPT ![Api] = NoBatch]
    /\ tracked' = FALSE
    /\ UNCHANGED dir

Removed ==
    /\ dir' = NoDirectory
    /\ store' = NoBatch /\ pass' = NoKey /\ decisions' = NoDecisions

\* rmtree raised: any file may be gone, the three files of the record included.
PartlyRemoved ==
    /\ \E u \in {dir.uploads, FALSE}, o \in {dir.output, NoOutput},
          m \in {dir.mapping, NoMapping}, z \in {dir.zip, NoArchive} :
        dir' = [dir EXCEPT !.uploads = u, !.output = o, !.mapping = m, !.zip = z]
    /\ store' \in {store, NoBatch}
    /\ pass' \in {pass, NoKey}
    /\ decisions' \in {decisions, NoDecisions}

\* cleanup_batch in the API: the directory, Redis and the memory of this
\* process.  When removing the directory fails, the rest is done all the same,
\* and what stays on disk stays in the store.
Cleanup ==
    /\ Removed \/ (RemovalFails /\ dir.exists /\ PartlyRemoved)
    /\ cache' = [cache EXCEPT ![Api] = NoBatch]
    /\ tracked' = FALSE

-----------------------------------------------------------------------------
(* The API: batches_routes.py *)

\* No coroutine runs while a handler is between the queue and its last write.
LoopFree == handler.stage # "enqueued"

Enqueue(kind) ==
    /\ issued < MaxTasks
    /\ queue' = queue \union {[id |-> issued + 1, kind |-> kind, tries |-> 0]}
    /\ issued' = issued + 1

\* create_new_batch up to the first await: the batch exists, files are arriving.
Create(k) ==
    /\ handler = Idle
    /\ usedKeys = {}
    /\ store' = NewBatch
    /\ dir' = [dir EXCEPT !.exists = TRUE, !.uploads = TRUE]
    /\ pass' = k
    /\ usedKeys' = {k}
    /\ decisions' = NoDecisions
    /\ cache' = [cache EXCEPT ![Api] = NewBatch]
    /\ tracked' = TRUE
    /\ handler' = [stage |-> "uploading"]
    /\ UNCHANGED <<workerVars, deferred, queue, issued, asked, served>>

\* No valid file: the batch is cleaned up and the client gets 400.
RejectUpload ==
    /\ handler.stage = "uploading"
    /\ Cleanup
    /\ handler' = Idle
    /\ UNCHANGED <<workerVars, deferred, queue, issued, history>>

\* The directory went away while a file was awaited: writing it raises.
LoseUpload ==
    /\ handler.stage = "uploading"
    /\ ~dir.uploads
    /\ handler' = Idle
    /\ UNCHANGED <<storeVars, cache, workerVars, tracked, deferred, queue,
                   issued, history>>

\* The files are stored and the scan is queued.
EnqueueScan ==
    LET b == [NewBatch EXCEPT !.status = "scanning"] IN
    /\ handler.stage = "uploading"
    /\ Enqueue("scan")
    /\ ApiUpdate(b)
    /\ handler' = [stage |-> "enqueued", batch |-> b]
    /\ UNCHANGED <<pass, decisions, workerVars, deferred, history>>

\* The broker refuses the task: back to PENDING, the client gets 503.
EnqueueScanFails ==
    /\ handler.stage = "uploading"
    /\ ApiUpdate(NewBatch)
    /\ handler' = Idle
    /\ UNCHANGED <<pass, decisions, workerVars, deferred, queue, issued, history>>

\* The handler writes its copy of the batch again, now with the task id.
FinishEnqueue ==
    /\ handler.stage = "enqueued"
    /\ ApiUpdate(handler.batch)
    /\ handler' = Idle
    /\ UNCHANGED <<pass, decisions, workerVars, deferred, queue, issued, history>>

\* GET of the batch, its status, findings or events, and list_batches for a
\* batch this process does not know.  All they change is what get_batch keeps.
\* The status route and the events answer with the state of the Celery task
\* first, and with the status held here only once the task succeeded.
Poll ==
    /\ LoopFree
    /\ Lookup(Api) # NoBatch
    /\ cache' = [cache EXCEPT ![Api] = Lookup(Api)]
    /\ tracked' = TRUE
    /\ UNCHANGED <<storeVars, workerVars, handler, deferred, queue, issued, history>>

\* submit_review: the decisions are stored and applied to the findings.
SubmitReview(r) ==
    LET b == Lookup(Api) IN
    /\ LoopFree
    /\ b.status \in {"review", "done", "done_with_errors"}
    /\ decisions' = [scan |-> b.scan, review |-> r]
    /\ ApiUpdate([b EXCEPT !.review = r])
    /\ UNCHANGED <<pass, workerVars, handler, deferred, queue, issued, history>>

\* The batch with the stored decisions applied to the findings they are about.
Decided(b) ==
    IF decisions.scan = b.scan THEN [b EXCEPT !.review = decisions.review] ELSE b

\* Wrong on purpose: the status of the batch is not checked.
ApplyAnyStatus ==
    LET b == [Decided(Lookup(Api)) EXCEPT !.status = "applying"] IN
    /\ handler = Idle
    /\ Lookup(Api) # NoBatch
    /\ pass # NoKey
    /\ Enqueue("apply")
    /\ ApiUpdate(b)
    /\ handler' = [stage |-> "enqueued", batch |-> b]
    /\ asked' = b.review
    /\ UNCHANGED <<pass, decisions, workerVars, deferred, usedKeys, served>>

\* apply_batch up to the queue: only from REVIEW and with a passphrase.
Apply ==
    LET b == [Decided(Lookup(Api)) EXCEPT !.status = "applying"] IN
    /\ handler = Idle
    /\ Lookup(Api).status = "review"
    /\ pass # NoKey
    /\ Enqueue("apply")
    /\ ApiUpdate(b)
    /\ handler' = [stage |-> "enqueued", batch |-> b]
    /\ asked' = b.review
    /\ UNCHANGED <<pass, decisions, workerVars, deferred, usedKeys, served>>

\* The broker refuses the task: back to REVIEW, the client gets 503.
ApplyFails ==
    LET b == Lookup(Api) IN
    /\ handler = Idle
    /\ b.status = "review"
    /\ pass # NoKey
    /\ ApiUpdate(Decided(b))
    /\ UNCHANGED <<pass, decisions, workerVars, handler, deferred, queue, issued, history>>

\* download_batch: a DONE batch with a safe label and an archive on disk.
Download ==
    LET b == Lookup(Api) IN
    /\ LoopFree
    /\ b.status = "done"
    /\ b.safe
    /\ dir.zip # NoArchive
    /\ served' = [archive |-> dir.zip, asked |-> asked]
    /\ deferred' = TRUE
    /\ cache' = [cache EXCEPT ![Api] = b]
    /\ tracked' = TRUE
    /\ UNCHANGED <<storeVars, workerVars, handler, queue, issued, usedKeys, asked>>

\* The background task of a download, in a thread of its own.
DeferredCleanup ==
    /\ deferred
    /\ Cleanup
    /\ deferred' = FALSE
    /\ UNCHANGED <<workerVars, handler, queue, issued, history>>

\* delete_batch
Delete ==
    /\ LoopFree
    /\ Lookup(Api) # NoBatch
    /\ Cleanup
    /\ UNCHANGED <<workerVars, handler, deferred, queue, issued, history>>

\* cleanup_inactive_batches for a batch nobody touched for the timeout.
InactivityCleanup ==
    /\ LoopFree
    /\ tracked
    /\ Cleanup
    /\ UNCHANGED <<workerVars, handler, deferred, queue, issued, history>>

\* regenerate_batch_passphrase
Regenerate(k) ==
    /\ LoopFree
    /\ Lookup(Api) # NoBatch
    /\ k \notin usedKeys
    /\ usedKeys' = usedKeys \union {k}
    /\ pass' = k
    /\ dir' = [dir EXCEPT !.exists = TRUE]
    /\ cache' = [cache EXCEPT ![Api] = Lookup(Api)]
    /\ tracked' = TRUE
    /\ UNCHANGED <<store, decisions, workerVars, handler, deferred, queue, issued,
                   asked, served>>

\* The API process stops and starts: nothing of its memory is left.
ApiRestart ==
    /\ cache' = [cache EXCEPT ![Api] = NoBatch]
    /\ tracked' = FALSE
    /\ handler' = Idle
    /\ deferred' = FALSE
    /\ UNCHANGED <<storeVars, workerVars, queue, issued, history>>

-----------------------------------------------------------------------------
(* The workers: tasks.py and pipeline.py *)

At(w, step) == pc[w] = step
Goto(w, step) == pc' = [pc EXCEPT ![w] = step]

\* update_batch in worker w, of the record it already holds
Update(w, b) ==
    /\ Persist(b)
    /\ cache' = [cache EXCEPT ![w] = b]

Working(kind) == IF kind = "scan" THEN "scanning" ELSE "applying"
Marked(w) == [cache[w] EXCEPT !.status = Working(job[w].kind)]
Scanned(w, f) ==
    [cache[w] EXCEPT !.status = "review", !.scan = job[w].tries + 1,
                     !.review = NoReview, !.failed = f]
Reviewable(w) == [cache[w] EXCEPT !.status = "review"]
Finished(w) ==
    [cache[w] EXCEPT !.status = IF cache[w].failed THEN "done_with_errors" ELSE "done"]

\* Wrong on purpose: one retry too many, and retries that are not counted.
EndTaskOnceMore(w, how) ==
    /\ job' = [job EXCEPT ![w] = NoTask]
    /\ Goto(w, "idle")
    /\ fault' = [fault EXCEPT ![w] = "none"]
    /\ queue' = IF how = "retry" /\ job[w].tries <= MaxRetries
                THEN queue \union {[job[w] EXCEPT !.tries = @ + 1]}
                ELSE queue

EndTaskUncounted(w, how) ==
    /\ job' = [job EXCEPT ![w] = NoTask]
    /\ Goto(w, "idle")
    /\ fault' = [fault EXCEPT ![w] = "none"]
    /\ queue' = IF how = "retry" THEN queue \union {job[w]} ELSE queue

\* The task is over; after a transient fault Celery queues it once more.
EndTask(w, how) ==
    /\ job' = [job EXCEPT ![w] = NoTask]
    /\ Goto(w, "idle")
    /\ fault' = [fault EXCEPT ![w] = "none"]
    /\ queue' = IF how = "retry" /\ job[w].tries < MaxRetries
                THEN queue \union {[job[w] EXCEPT !.tries = @ + 1]}
                ELSE queue

Take(w) ==
    /\ job[w] = NoTask
    /\ \E t \in queue :
        /\ queue' = queue \ {t}
        /\ job' = [job EXCEPT ![w] = t]
    /\ Goto(w, "begin")
    /\ UNCHANGED <<storeVars, cache, apiVars, keys, fault, history>>

\* get_batch of the task, and then of the pipeline
Fetch(w) ==
    /\ Lookup(w) # NoBatch
    /\ cache' = [cache EXCEPT ![w] = Lookup(w)]
    /\ \/ At(w, "begin") /\ Goto(w, "mark")
       \/ At(w, "reload") /\ Goto(w, "remark")
    /\ UNCHANGED <<storeVars, apiVars, keys, queue, job, fault, history>>

\* ValueError: the batch does not exist, and the task is not retried.
Missing(w) ==
    /\ At(w, "begin")
    /\ Lookup(w) = NoBatch
    /\ fault' = [fault EXCEPT ![w] = "fatal"]
    /\ Goto(w, "failed")
    /\ UNCHANGED <<storeVars, cache, apiVars, keys, queue, job, history>>

\* SCANNING or APPLYING, by the task and then by the pipeline
Mark(w) ==
    /\ Update(w, Marked(w))
    /\ \/ At(w, "mark") /\ Goto(w, "reload")
       \/ At(w, "remark") /\ Goto(w, IF job[w].kind = "scan" THEN "detect" ELSE "unlock")
    /\ UNCHANGED <<pass, decisions, apiVars, keys, queue, job, fault, history>>

\* run_scan_pipeline: the findings of every file, then REVIEW
Detect(w) ==
    /\ At(w, "detect")
    /\ \E f \in BOOLEAN : Update(w, Scanned(w, f))
    /\ Goto(w, "confirm")
    /\ UNCHANGED <<pass, decisions, apiVars, keys, queue, job, fault, history>>

\* scan_batch_task writes REVIEW again
Confirm(w) ==
    /\ At(w, "confirm")
    /\ Update(w, Reviewable(w))
    /\ EndTask(w, "done")
    /\ UNCHANGED <<pass, decisions, apiVars, keys, history>>

\* get_passphrase in the worker: once read, the cached value is kept.
Unlock(w) ==
    /\ At(w, "unlock")
    /\ keys' = [keys EXCEPT ![w] = IF keys[w] # NoKey THEN keys[w] ELSE pass]
    /\ Goto(w, "transform")
    /\ UNCHANGED <<storeVars, cache, apiVars, queue, job, fault, history>>

\* transform_file for every file: the output is written, or the transformer
\* turns its error into a warning, or it raises and the file is FAILED.
Transform(w) ==
    /\ At(w, "transform")
    /\ \/ /\ dir.uploads
          /\ dir' = [dir EXCEPT !.output = [made |-> TRUE, review |-> cache[w].review]]
          /\ UNCHANGED cache
       \/ UNCHANGED <<dir, cache>>
       \/ /\ cache' = [cache EXCEPT ![w].failed = TRUE]
          /\ UNCHANGED dir
    /\ Goto(w, "seal")
    /\ UNCHANGED <<store, pass, decisions, apiVars, keys, queue, job, fault, history>>

\* Wrong on purpose: the final status is written before the archive.
SealThenFinish(w) ==
    /\ At(w, "seal")
    /\ \E s \in BOOLEAN :
        /\ s => ~cache[w].failed
        /\ cache' = [cache EXCEPT ![w].safe = s]
    /\ Goto(w, "finish")
    /\ UNCHANGED <<storeVars, apiVars, keys, queue, job, fault, history>>

\* mapping.enc, unless there is no passphrase or writing it fails, which is
\* only logged; then the safety label
Seal(w) ==
    /\ At(w, "seal")
    /\ \/ /\ keys[w] # NoKey
          /\ dir.exists
          /\ dir' = [dir EXCEPT !.mapping = [key |-> keys[w], review |-> cache[w].review]]
       \/ UNCHANGED dir
    /\ \E s \in BOOLEAN :
        /\ s => ~cache[w].failed
        /\ cache' = [cache EXCEPT ![w].safe = s]
    /\ Goto(w, "pack")
    /\ UNCHANGED <<store, pass, decisions, apiVars, keys, queue, job, fault, history>>

\* The reports and the archive of whatever the directory then holds
Pack(w) ==
    /\ At(w, "pack")
    /\ dir.exists
    /\ dir' = [dir EXCEPT !.zip = [output |-> dir.output, mapping |-> dir.mapping,
                                  clean |-> ~cache[w].failed]]
    /\ Goto(w, "finish")
    /\ UNCHANGED <<store, pass, decisions, cache, apiVars, keys, queue, job, fault,
                   history>>

\* The archive is opened for writing over an earlier one: what interrupts the
\* task here may leave it cut short.
CutShort(w) ==
    \/ UNCHANGED dir
    \/ /\ At(w, "pack")
       /\ dir.exists
       /\ dir' = [dir EXCEPT !.zip = [output |-> NoOutput, mapping |-> NoMapping,
                                     clean |-> FALSE]]

\* DONE or DONE_WITH_ERRORS
Finish(w) ==
    /\ At(w, "finish")
    /\ Update(w, Finished(w))
    /\ EndTask(w, "done")
    /\ UNCHANGED <<pass, decisions, apiVars, keys, history>>

\* An exception in the body of the task.  The record it was about to write is
\* the cached object itself, so the assignments before the failing save stay.
Fail(w, kind) ==
    /\ \/ /\ pc[w] \in {"mark", "remark"}
          /\ cache' = [cache EXCEPT ![w] = Marked(w)]
       \/ /\ At(w, "detect")
          /\ \/ UNCHANGED cache
             \/ \E f \in BOOLEAN : cache' = [cache EXCEPT ![w] = Scanned(w, f)]
       \/ At(w, "confirm") /\ cache' = [cache EXCEPT ![w] = Reviewable(w)]
       \/ pc[w] \in {"unlock", "pack"} /\ UNCHANGED cache
       \/ At(w, "finish") /\ cache' = [cache EXCEPT ![w] = Finished(w)]
    /\ CutShort(w)
    /\ fault' = [fault EXCEPT ![w] = kind]
    /\ Goto(w, "failed")
    /\ UNCHANGED <<store, pass, decisions, apiVars, keys, queue, job, history>>

\* get_batch of the exception handler
Recover(w) ==
    /\ At(w, "failed")
    /\ \/ /\ Lookup(w) # NoBatch
          /\ cache' = [cache EXCEPT ![w] = Lookup(w)]
          /\ Goto(w, "record")
          /\ UNCHANGED <<queue, job, fault>>
       \/ /\ Lookup(w) = NoBatch
          /\ EndTask(w, fault[w])
          /\ UNCHANGED cache
    /\ UNCHANGED <<storeVars, apiVars, keys, history>>

\* ERROR is written, or writing it fails with a transient error of its own.
RecordError(w) ==
    LET b == [cache[w] EXCEPT !.status = "error"] IN
    /\ At(w, "record")
    /\ \/ Update(w, b) /\ EndTask(w, fault[w])
       \/ /\ cache' = [cache EXCEPT ![w] = b]
          /\ EndTask(w, "retry")
          /\ UNCHANGED <<store, dir>>
    /\ UNCHANGED <<pass, decisions, apiVars, keys, history>>

\* A worker process is killed or recycled: a task is acknowledged before it
\* runs, so what the process ran is lost.
WorkerRestart(w) ==
    /\ cache' = [cache EXCEPT ![w] = NoBatch]
    /\ keys' = [keys EXCEPT ![w] = NoKey]
    /\ job' = [job EXCEPT ![w] = NoTask]
    /\ fault' = [fault EXCEPT ![w] = "none"]
    /\ Goto(w, "idle")
    /\ CutShort(w)
    /\ UNCHANGED <<store, pass, decisions, apiVars, queue, history>>

-----------------------------------------------------------------------------

ApiStep ==
    \/ \E k \in Keys : Create(k) \/ Regenerate(k)
    \/ RejectUpload \/ LoseUpload
    \/ EnqueueScan \/ EnqueueScanFails \/ FinishEnqueue
    \/ Poll
    \/ \E r \in AnyReview : SubmitReview(r)
    \/ Apply \/ ApplyFails
    \/ Download \/ DeferredCleanup \/ Delete \/ InactivityCleanup
    \/ ApiRestart

TaskStep(w) ==
    \/ Take(w) \/ Fetch(w) \/ Missing(w) \/ Mark(w)
    \/ Detect(w) \/ Confirm(w)
    \/ Unlock(w) \/ Transform(w) \/ Seal(w) \/ Pack(w) \/ Finish(w)
    \/ \E kind \in {"retry", "fatal"} : Fail(w, kind)
    \/ Recover(w) \/ RecordError(w)

Next ==
    \/ ApiStep
    \/ \E w \in Workers : TaskStep(w) \/ WorkerRestart(w)

Spec == Init /\ [][Next]_vars

\* A worker that runs keeps running its task, a handler past the queue ends,
\* and clients, sooner or later, leave a batch the API tracks alone for long
\* enough that the cleanup thread removes it.
Fairness ==
    /\ \A w \in Workers : WF_vars(TaskStep(w))
    /\ WF_vars(FinishEnqueue)
    /\ SF_vars(InactivityCleanup)

FairSpec == Spec /\ Fairness

-----------------------------------------------------------------------------
(* What the system promises *)

\* The records a process or the store may still act on
Records == {store} \union {cache[p] : p \in Process} \union
           {h.batch : h \in {handler} \intersect [stage : {"enqueued"}, batch : Batch]}

PastScan == {"review", "applying", "done", "done_with_errors"}

\* Nobody holds a batch that is in review, being applied or finished without
\* the findings of a scan: an apply that finds none would copy the originals
\* into the archive as they are (tasks.py, pipeline.py, get_batch).
FindingsBeforeReview == \A b \in Records : b.status \in PastScan => b.scan > 0

\* While the uploaded originals are on disk, the batch record and its
\* passphrase are in the store, so that a listing finds the batch and a cleanup
\* can remove them, whatever cleanup, upload or retry ran in between.
OriginalsAreOwned == dir.uploads => store # NoBatch /\ pass # NoKey

\* A batch recorded as finished has its archive on disk for as long as it was
\* not cleaned up: no retry, second task or crash of a worker removes it.  (A
\* removal that fails half-way may take the archive and leave the rest.)
DoneKeepsArchive ==
    /\ store.status \in {"done", "done_with_errors"}
    /\ dir.uploads
    => dir.zip # NoArchive

View == INSTANCE ClientView
            WITH held <- cache[Api].status, exported <- served # NothingServed

\* The status the API holds, which GET /batches/{id} answers and every later
\* route is checked against, keeps the order of ClientView: a review is left
\* only by an apply or by removal, and a final status only by removal, although
\* workers retry and overwrite the record behind it (get_batch).
ImplementsClientView == View!Spec

\* The queue is emptied and every worker idle again and again: transient
\* faults are retried a bounded number of times (DatabaseTask).
QueueDrains == []<>(queue = {} /\ \A w \in Workers : job[w] = NoTask)

-----------------------------------------------------------------------------
(* What the repository says of the system and the code does not keep *)

\* The archive a client downloads was made with the review it submitted before
\* the apply (docs/07_Test_Plan_and_Metrics.md, TC-WF-01).
ReviewRespected ==
    served # NothingServed /\ served.archive.output # NoOutput
        => served.archive.output.review = served.asked

\* A batch whose files could not be transformed is not exported: an archive
\* handed out holds the transformed file (download_batch).
ErrorsBlockExport == served # NothingServed => served.archive.output # NoOutput

\* Once a batch and its passphrase were removed, no record of it is left or
\* comes back (docs/07_Test_Plan_and_Metrics.md, TC-SEC-02; delete_batch).
RemovedIsGone == usedKeys # {} /\ pass = NoKey => store = NoBatch

\* Uploaded originals do not stay on disk forever: the batch expires by
\* inactivity (docs/02_Technical_Architecture.md, batch cleanup).
OriginalsExpire == dir.uploads ~> ~dir.uploads
=============================================================================
