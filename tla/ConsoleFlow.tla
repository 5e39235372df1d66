----------------------------- MODULE ConsoleFlow -----------------------------
(***************************************************************************)
(* Text pasted into the console: a batch of one text, scanned and          *)
(* pseudonymized inside the API process (api/console_routes.py,            *)
(* core/console_pipeline.py), and the routes it shares with other batches, *)
(* POST /batches/{id}/apply among them: that one hands the batch to a      *)
(* worker, which works on a copy of its own.                               *)
(*                                                                         *)
(* A route runs on the event loop and gives way only while it awaits its   *)
(* thread; the thread works on the batch through get_batch and             *)
(* update_batch, each under the global lock, and outlives a route that     *)
(* stops waiting.  All that hold the object in _batches share it; get_batch *)
(* puts another object there when it loads the record, and whoever holds   *)
(* the old one keeps it as it is.  Files and Redis keys are one store, and *)
(* a directory can be removed (BatchLifecycle and TieredStore have the     *)
(* other cases).                                                           *)
(***************************************************************************)
EXTENDS Naturals, FiniteSets

CONSTANTS
    Applies,      \* bound: calls of /console/apply at a time
    Scan, Route,  \* the thread of the scan, and POST /batches/{id}/apply
    Reviews,      \* the decisions a review can post
    NoReview,     \* the findings with no decisions
    NoFindings,   \* a batch that was not scanned
    Nothing,      \* a file that is not there
    Torn,         \* a file written in part
    MaxKeys,      \* bound: passphrases generated, the n-th being n
    MaxRestarts,  \* bound: restarts of the API
    MaxRetries    \* retry_kwargs max_retries of DatabaseTask

Marks == Reviews \cup {NoReview, NoFindings}

ASSUME MarksAssumption ==
    /\ {NoReview, NoFindings, Nothing, Torn} \cap Reviews = {}
    /\ NoReview # NoFindings /\ Nothing \notin {NoReview, NoFindings, Torn}
    /\ {Nothing, Torn} \cap [marks : Marks, key : 1..MaxKeys] = {}
ASSUME BoundsAssumption ==
    MaxKeys \in Nat \ {0} /\ MaxRestarts \in Nat /\ MaxRetries \in Nat
ASSUME HoldersAssumption == Scan \notin Applies /\ Route \notin Applies /\ Scan # Route

VARIABLES
    store,        \* the record in Redis and batch.json
    cached,       \* the object in the API's _batches
    holds,        \* the object each thread, and the route of the worker, holds
    decisions,    \* the stored decisions
    passphrase,   \* the passphrase, 0 if there is none
    dir,          \* whether the directory is there
    timer,        \* in _last_activity: "running"; "lost" by a restart, or not
                  \* there when a worker stored a batch that had been removed
    scan,         \* whether the route of the scan waits, and its thread
    apply,        \* apply[a]: the same, and the marks the thread has read
    task,         \* the task of a batch apply, and its tries so far
    worker,       \* the next call of the task, the worker's copy and passphrase
    textFile,     \* the marks pseudonymized_text.txt was made from
    mappingFile,  \* the marks and the key of mapping.enc
    keys, restarts, quiet,  \* passphrases and restarts so far; no more requests
    \* history of the files:
    reviewed,     \* other marks were stored since the text read its own
    disturbed,    \* or when the mapping was written, or it was not written
    rekeyed,      \* a new passphrase since the key of the mapping was read
    late          \* an apply wrote after the batch had been removed

batch == <<store, cached, holds, decisions, passphrase, dir, timer>>
celery == <<task, worker>>
files == <<textFile, mappingFile, reviewed, disturbed, rekeyed, late>>
bounds == <<keys, restarts, quiet>>
vars == <<batch, scan, apply, celery, files, bounds>>

Stable == {"review", "done", "error"}
Batch == [status : Stable \cup {"pending", "applying"}, marks : Marks]
NoBatch == [status |-> "none"]
Shared == [status |-> "shared"]   \* held: the object in _batches itself
Holders == Applies \cup {Scan, Route}
Thread == {"none", "start", "read", "done", "failed"}
Call == [waits : BOOLEAN, thread : Thread, marks : Marks, raced : BOOLEAN]
Idle == [waits |-> FALSE, thread |-> "none", marks |-> NoReview, raced |-> FALSE]
Mapping == [marks : Marks, key : 1..MaxKeys]
Steps == {"idle", "mark", "reload", "remark", "unlock", "seal", "finish",
          "failed", "record"}

TypeOK ==
    /\ store \in Batch \cup {NoBatch} /\ cached \in Batch \cup {NoBatch}
    /\ holds \in [Holders -> Batch \cup {NoBatch, Shared}]
    /\ decisions \in Reviews \cup {NoReview}
    /\ passphrase \in 0..MaxKeys
    /\ dir \in BOOLEAN /\ timer \in {"none", "running", "lost"}
    /\ scan \in [waits : BOOLEAN, thread : Thread]
    /\ apply \in [Applies -> Call]
    /\ task \in [state : {"none", "queued", "taken", "over"}, tries : 0..MaxRetries]
    /\ worker \in [pc : Steps, batch : Batch \cup {NoBatch}, key : 0..MaxKeys,
                   stale : BOOLEAN, again : BOOLEAN]
    /\ textFile \in Marks \cup {Nothing}
    /\ mappingFile \in Mapping \cup {Nothing, Torn}
    /\ keys \in 0..MaxKeys /\ restarts \in 0..MaxRestarts /\ quiet \in BOOLEAN
    /\ reviewed \in BOOLEAN /\ disturbed \in BOOLEAN
    /\ rekeyed \in BOOLEAN /\ late \in BOOLEAN
    /\ \A a \in Applies : apply[a].thread = "none" => apply[a] = Idle

NoWorker == [pc |-> "idle", batch |-> NoBatch, key |-> 0, stale |-> FALSE, again |-> FALSE]

Init ==
    /\ store = NoBatch /\ cached = NoBatch
    /\ holds = [h \in Holders |-> NoBatch]
    /\ decisions = NoReview /\ passphrase = 0 /\ dir = FALSE /\ timer = "none"
    /\ scan = [waits |-> FALSE, thread |-> "none"]
    /\ apply = [a \in Applies |-> Idle]
    /\ task = [state |-> "none", tries |-> 0] /\ worker = NoWorker
    /\ textFile = Nothing /\ mappingFile = Nothing
    /\ keys = 0 /\ restarts = 0 /\ quiet = FALSE
    /\ reviewed = FALSE /\ disturbed = FALSE /\ rekeyed = FALSE /\ late = FALSE

-----------------------------------------------------------------------------
(* batch_manager.py in the API: each call is under the global lock.        *)

Believed == cached # NoBatch /\ (cached.status \in Stable \/ store = NoBatch)

\* What get_batch returns.
Seen == IF Believed THEN cached ELSE store

\* What is held once _batches has another object, or none.
Detached == [h \in Holders |-> IF holds[h] = Shared THEN cached ELSE holds[h]]
Holding == IF Believed THEN holds ELSE Detached

\* get_batch of a batch there is: it restarts the timer.
GetBatch == Seen # NoBatch /\ cached' = Seen /\ timer' = "running"

\* The applies whose thread read other marks than those now stored.
Race(b) ==
    [a \in Applies |-> IF apply[a].thread \in {"read", "done"} /\ apply[a].marks # b.marks
                       THEN [apply[a] EXCEPT !.raced = TRUE] ELSE apply[a]]

Write(b) ==
    /\ store' = b /\ dir' = TRUE
    /\ reviewed' = (reviewed \/ (textFile # Nothing /\ textFile # b.marks))

\* Wrong on purpose: the batch is written, and the timer forgotten.
StoreUntimed(b) == Write(b) /\ cached' = b /\ UNCHANGED timer

\* update_batch: registers the batch, restarts its timer and writes its record,
\* making the directory if it is gone.
Store(b) == Write(b) /\ cached' = b /\ timer' = "running"

\* The object h holds; storing it makes it that of _batches, for all who hold it.
\* An object out of _batches is not changed, so equal ones need not be told apart.
Held(h) == IF holds[h] = Shared THEN cached ELSE holds[h]
Returned(h) ==
    [k \in Holders |-> IF k = h THEN NoBatch
                       ELSE IF holds[k] = holds[h] /\ holds[h] # NoBatch THEN Shared
                       ELSE Detached[k]]

\* apply_review_decisions: on the findings there are.
Marked(b, decided) ==
    IF decided = NoReview \/ b.marks = NoFindings THEN b ELSE [b EXCEPT !.marks = decided]

Cleanup ==
    /\ store' = NoBatch /\ cached' = NoBatch /\ holds' = Detached
    /\ decisions' = NoReview /\ passphrase' = 0
    /\ dir' = FALSE /\ timer' = "none"
    /\ textFile' = Nothing /\ mappingFile' = Nothing
    /\ reviewed' = FALSE /\ disturbed' = FALSE /\ rekeyed' = FALSE /\ late' = FALSE

\* The event loop is free: no route is between the queue and its last write.
LoopFree == holds[Route] = NoBatch

\* A thread ends; nobody looks at what it returns once its route has given up.
Ends(call, how) ==
    IF call.waits THEN [call EXCEPT !.thread = how] ELSE [call EXCEPT !.thread = "none"]

-----------------------------------------------------------------------------
(* The scan.                                                               *)

NewBatch == [status |-> "pending", marks |-> NoFindings]

\* One batch is followed, from its creation: before it the directory is empty.
Create ==
    /\ ~quiet /\ keys = 0
    /\ Store(NewBatch)
    /\ keys' = 1
    /\ apply' = Race(NewBatch)
    /\ UNCHANGED <<holds, decisions, celery, textFile, mappingFile, disturbed,
                   rekeyed, late, restarts, quiet>>

ScanStart ==
    /\ Create
    /\ passphrase' = 1
    /\ scan' = [waits |-> TRUE, thread |-> "start"]

\* An error between the creation and the try: the client gets 500, and the batch
\* stays, with its passphrase or without.
ScanStartFails ==
    /\ Create
    /\ passphrase' \in {0, 1}
    /\ UNCHANGED scan

ScanReads ==
    /\ scan.thread = "start"
    /\ \/ /\ GetBatch
          /\ holds' = [Holding EXCEPT ![Scan] = Shared]
          /\ scan' = [scan EXCEPT !.thread = "read"]
       \/ /\ Seen = NoBatch
          /\ scan' = Ends(scan, "failed")
          /\ UNCHANGED <<holds, cached, timer>>
    /\ UNCHANGED <<store, decisions, passphrase, dir, apply, celery, files, bounds>>

\* The findings; a PENDING batch is then in REVIEW.
Scanned(b) ==
    [status |-> IF b.status = "pending" THEN "review" ELSE b.status,
     marks |-> IF b.marks = NoFindings THEN NoReview ELSE b.marks]

ScanStores ==
    LET b == Scanned(Held(Scan)) IN
    /\ scan.thread = "read"
    /\ Store(b)
    /\ holds' = Returned(Scan)
    /\ apply' = Race(b)
    /\ scan' = Ends(scan, "done")
    /\ UNCHANGED <<decisions, passphrase, celery, textFile, mappingFile, disturbed,
                   rekeyed, late, bounds>>

ScanRaises ==
    /\ scan.thread = "read"
    /\ scan' = Ends(scan, "failed")
    /\ holds' = [holds EXCEPT ![Scan] = NoBatch]
    /\ UNCHANGED <<store, cached, decisions, passphrase, dir, timer, apply, celery,
                   files, bounds>>

ScanAnswers ==
    /\ LoopFree /\ scan.waits /\ scan.thread = "done"
    /\ scan' = [waits |-> FALSE, thread |-> "none"]
    /\ UNCHANGED <<batch, apply, celery, files, bounds>>

\* The thread failed, or the time is over: the batch goes, the thread goes on.
ScanGivesUp ==
    /\ LoopFree /\ scan.waits
    /\ scan' = [waits |-> FALSE,
                thread |-> IF scan.thread \in {"start", "read"} THEN scan.thread
                           ELSE "none"]
    /\ Cleanup
    /\ UNCHANGED <<apply, celery, bounds>>

-----------------------------------------------------------------------------
(* The review: stored, and marked on the findings in the same call.        *)

Reviewable == Seen.status \in {"review", "done"}

PostReview(decided) ==
    LET b == Marked(Seen, decided) IN
    /\ ~quiet /\ LoopFree /\ Reviewable
    /\ decisions' = decided
    /\ Store(b)
    /\ holds' = Holding
    /\ apply' = Race(b)
    /\ UNCHANGED <<passphrase, scan, celery, textFile, mappingFile, disturbed, rekeyed,
                   late, bounds>>

-----------------------------------------------------------------------------
(* The application of the decisions to the text of the caller.             *)

\* Any batch there is, whatever its status.  The stored decisions are marked once
\* more; a review in which the API stopped may have stored some it never marked.
ApplyBegins(a) ==
    LET b == Marked(Seen, decisions) IN
    /\ ~quiet /\ LoopFree /\ apply[a] = Idle
    /\ Seen # NoBatch
    /\ IF decisions = NoReview
       THEN GetBatch /\ UNCHANGED <<store, dir, reviewed>>
       ELSE Store(b)
    /\ holds' = Holding
    /\ apply' = [Race(b) EXCEPT ![a] = [Idle EXCEPT !.waits = TRUE, !.thread = "start"]]
    /\ UNCHANGED <<decisions, passphrase, scan, celery, textFile, mappingFile, disturbed,
                   rekeyed, late, bounds>>

Finished(call) == IF call.waits THEN [call EXCEPT !.thread = "done"] ELSE Idle
Failed(call) == IF call.waits THEN [Idle EXCEPT !.waits = TRUE, !.thread = "failed"] ELSE Idle

\* The store may have another copy, and so may a worker, about to write its mapping.
ApplyReads(a) ==
    /\ apply[a].thread = "start"
    /\ \/ /\ GetBatch
          /\ holds' = [Holding EXCEPT ![a] = Shared]
          /\ apply' = [apply EXCEPT ![a] =
                [@ EXCEPT !.thread = "read", !.marks = Seen.marks,
                          !.raced = \/ store # NoBatch /\ store.marks # Seen.marks
                                    \/ /\ worker.pc \in {"unlock", "seal"}
                                       /\ worker.batch.marks # Seen.marks]]
       \/ /\ Seen = NoBatch
          /\ apply' = [apply EXCEPT ![a] = Failed(@)]
          /\ UNCHANGED <<holds, cached, timer>>
    /\ UNCHANGED <<store, decisions, passphrase, dir, scan, celery, files, bounds>>

ApplyStores(a) ==
    LET b == Held(a) IN
    /\ apply[a].thread = "read"
    /\ Store(b)
    /\ holds' = Returned(a)
    /\ apply' = [Race(b) EXCEPT ![a] = Finished(@)]
    /\ UNCHANGED <<decisions, passphrase, scan, celery, textFile, mappingFile, disturbed,
                   rekeyed, late, bounds>>

ApplyRaises(a) ==
    /\ apply[a].thread = "read"
    /\ holds' = [holds EXCEPT ![a] = NoBatch]
    /\ apply' = [apply EXCEPT ![a] = Failed(@)]
    /\ UNCHANGED <<store, cached, decisions, passphrase, dir, timer, scan, celery,
                   files, bounds>>

\* Wrong on purpose: the place is free although the thread left its marks there.
ApplyGivesUpAtOnce(a) ==
    /\ LoopFree /\ apply[a].waits
    /\ apply' = [apply EXCEPT ![a].waits = FALSE, ![a].thread = "none"]
    /\ UNCHANGED <<batch, scan, celery, files, bounds>>

\* 504 or 500: a thread that still runs goes on.
ApplyGivesUp(a) ==
    /\ LoopFree /\ apply[a].waits
    /\ apply' = [apply EXCEPT ![a] = IF @.thread \in {"start", "read"}
                                     THEN [@ EXCEPT !.waits = FALSE] ELSE Idle]
    /\ UNCHANGED <<batch, scan, celery, files, bounds>>

\* Wrong on purpose: made from the stored decisions; sealed with the key of the scan.
SealedFromDecisions == [marks |-> decisions, key |-> passphrase]
SealedWithFirstKey == [marks |-> Seen.marks, key |-> 1]

\* What the mapping is made from: the findings and the key as they are now.
Sealed == [marks |-> Seen.marks, key |-> passphrase]

SaveMapping ==
    /\ Seen # NoBatch /\ passphrase # 0
    /\ mappingFile' = Sealed /\ rekeyed' = FALSE

\* Without a batch or a key nothing is written; a write that fails leaves what
\* it had written, for it is not atomic.
SaveMappingFails ==
    /\ mappingFile' = mappingFile \/ (Seen # NoBatch /\ passphrase # 0 /\ mappingFile' = Torn)
    /\ UNCHANGED rekeyed

SaveText(a) ==
    textFile' = apply[a].marks /\ reviewed' = apply[a].raced /\ dir' = TRUE

SaveTextFails == UNCHANGED <<textFile, reviewed>> /\ dir' \in {dir, TRUE}

\* Both files follow the thread without another await, the mapping first; the text
\* is written, and its directory made, although the batch may be gone.  What fails
\* is only logged, and the caller has the text in the answer.
ApplySaves(a) ==
    /\ LoopFree /\ apply[a].waits /\ apply[a].thread = "done"
    /\ IF Seen = NoBatch THEN UNCHANGED <<cached, timer>> ELSE GetBatch
    /\ holds' = Holding
    /\ \/ SaveMapping /\ SaveText(a) /\ disturbed' = apply[a].raced
       \/ SaveMapping /\ SaveTextFails /\ disturbed' = reviewed
       \/ SaveMappingFails /\ SaveText(a) /\ disturbed' = TRUE
       \/ SaveMappingFails /\ SaveTextFails /\ UNCHANGED disturbed
    /\ late' = (late \/ (Seen = NoBatch /\ dir'))
    /\ apply' = [apply EXCEPT ![a] = Idle]
    /\ UNCHANGED <<store, decisions, passphrase, scan, celery, bounds>>

-----------------------------------------------------------------------------
(* The batch given to a worker: POST /batches/{id}/apply does not ask      *)
(* whether it is a text of the console (batches_routes.py, tasks.py,       *)
(* pipeline.py).                                                           *)

\* Up to the queue; the route writes its object once more afterwards.
BatchApply ==
    LET b == [Marked(Seen, decisions) EXCEPT !.status = "applying"] IN
    /\ ~quiet /\ LoopFree /\ task.state = "none"
    /\ Seen.status = "review" /\ passphrase # 0
    /\ Store(b)
    /\ holds' = [Holding EXCEPT ![Route] = Shared]
    /\ apply' = Race(b)
    /\ task' = [task EXCEPT !.state = "queued"]
    /\ UNCHANGED <<decisions, passphrase, scan, worker, textFile, mappingFile, disturbed,
                   rekeyed, late, bounds>>

BatchApplyEnds ==
    LET b == Held(Route) IN
    /\ ~LoopFree
    /\ Store(b)
    /\ holds' = Returned(Route)
    /\ apply' = Race(b)
    /\ UNCHANGED <<decisions, passphrase, scan, celery, textFile, mappingFile, disturbed,
                   rekeyed, late, bounds>>

\* The broker refuses the task: back to REVIEW, with the decisions marked.
BatchApplyFails ==
    LET b == Marked(Seen, decisions) IN
    /\ ~quiet /\ LoopFree /\ task.state = "none"
    /\ Seen.status = "review" /\ passphrase # 0
    /\ Store(b)
    /\ holds' = Holding
    /\ apply' = Race(b)
    /\ UNCHANGED <<decisions, passphrase, scan, celery, textFile, mappingFile, disturbed,
                   rekeyed, late, bounds>>

\* get_batch in the worker: its own dictionary, the same store.
WorkerSees ==
    IF worker.batch # NoBatch /\ (worker.batch.status \in Stable \/ store = NoBatch)
    THEN worker.batch ELSE store

\* update_batch in the worker: the API's memory and its timers know nothing of it.
WorkerStores(b) ==
    /\ Write(b)
    /\ timer' = IF timer = "none" THEN "lost" ELSE timer
    /\ apply' = Race(b)
    /\ UNCHANGED <<cached, holds, decisions, passphrase, scan, textFile, mappingFile,
                   disturbed, rekeyed, late, bounds>>

Goto(step) == worker' = [worker EXCEPT !.pc = step]

\* get_batch of the task; without a batch it is a ValueError, and not tried again.
WorkerTakes ==
    /\ task.state = "queued"
    /\ task' = [task EXCEPT !.state = "taken"]
    /\ worker' = IF WorkerSees = NoBatch THEN [worker EXCEPT !.pc = "failed"]
                 ELSE [worker EXCEPT !.pc = "mark", !.batch = WorkerSees]
    /\ UNCHANGED <<batch, scan, apply, files, bounds>>

\* get_batch of the pipeline.
WorkerReloads ==
    /\ worker.pc = "reload"
    /\ worker' = [worker EXCEPT !.pc = "remark", !.batch = WorkerSees]
    /\ UNCHANGED <<batch, scan, apply, task, files, bounds>>

Applying == [worker.batch EXCEPT !.status = "applying"]

\* APPLYING, by the task and then by the pipeline.
WorkerMarks ==
    /\ worker.pc \in {"mark", "remark"}
    /\ WorkerStores(Applying)
    /\ worker' = [worker EXCEPT !.batch = Applying,
                                !.pc = IF @ = "mark" THEN "reload" ELSE "unlock"]
    /\ UNCHANGED task

\* get_passphrase in the worker: once read, the value is kept.
WorkerUnlocks ==
    /\ worker.pc = "unlock" /\ dir
    /\ worker' = IF worker.key # 0 THEN [worker EXCEPT !.pc = "seal"]
                 ELSE [worker EXCEPT !.pc = "seal", !.key = passphrase, !.stale = FALSE]
    /\ UNCHANGED <<batch, scan, apply, task, files, bounds>>

\* The text has no file to transform; mapping.enc is made from the worker's copy
\* and key, and a failure to write it is only logged.
WorkerSeals ==
    /\ worker.pc = "seal"
    /\ \/ /\ dir /\ worker.key # 0
          /\ mappingFile' = [marks |-> worker.batch.marks, key |-> worker.key]
          /\ rekeyed' = worker.stale /\ disturbed' = reviewed
       \/ /\ mappingFile' = mappingFile \/ (dir /\ worker.key # 0 /\ mappingFile' = Torn)
          /\ UNCHANGED <<rekeyed, disturbed>>
    /\ Goto("finish")
    /\ UNCHANGED <<batch, scan, apply, task, textFile, reviewed, late, bounds>>

\* Celery queues the task once more, and the worker keeps its copy and its key; or
\* it is over, and nothing reads them again, for one task is followed.
TaskEnds(b, again) ==
    IF again
    THEN /\ task' = [state |-> "queued", tries |-> task.tries + 1]
         /\ worker' = [worker EXCEPT !.batch = b, !.pc = "idle", !.again = FALSE]
    ELSE /\ task' = [task EXCEPT !.state = "over"]
         /\ worker' = NoWorker

Done == [worker.batch EXCEPT !.status = "done"]

WorkerFinishes ==
    /\ worker.pc = "finish"
    /\ WorkerStores(Done)
    /\ TaskEnds(Done, FALSE)

\* An exception in the body of the task; what it assigned to its copy stays.
WorkerFails(again) ==
    /\ again => task.tries < MaxRetries
    /\ \/ worker.pc \in {"mark", "remark"}
          /\ worker' = [worker EXCEPT !.batch = Applying, !.pc = "failed", !.again = again]
       \/ worker.pc \in {"unlock", "seal"}
          /\ worker' = [worker EXCEPT !.pc = "failed", !.again = again]
       \/ worker.pc = "finish"
          /\ \E b \in {worker.batch, Done} :
                worker' = [worker EXCEPT !.batch = b, !.pc = "failed", !.again = again]
    /\ UNCHANGED <<batch, scan, apply, task, files, bounds>>

WorkerRecovers ==
    /\ worker.pc = "failed"
    /\ \/ /\ WorkerSees # NoBatch
          /\ worker' = [worker EXCEPT !.batch = WorkerSees, !.pc = "record"]
          /\ UNCHANGED task
       \/ /\ WorkerSees = NoBatch
          /\ TaskEnds(NoBatch, worker.again)
    /\ UNCHANGED <<batch, scan, apply, files, bounds>>

WorkerRecords ==
    LET b == [worker.batch EXCEPT !.status = "error"] IN
    /\ worker.pc = "record"
    /\ WorkerStores(b)
    /\ TaskEnds(b, worker.again)

\* A task is acknowledged before it runs: what the process ran is lost.
WorkerRestarts ==
    /\ worker # NoWorker /\ worker' = NoWorker
    /\ task' = IF task.state = "taken" THEN [task EXCEPT !.state = "over"] ELSE task
    /\ UNCHANGED <<batch, scan, apply, files, bounds>>

-----------------------------------------------------------------------------
(* The routes it shares with other batches, the scheduler, the process.    *)

\* Status, findings, list, mapping.enc, download: they look the batch up.
Look ==
    /\ ~quiet /\ LoopFree /\ GetBatch
    /\ holds' = Holding
    /\ UNCHANGED <<store, decisions, passphrase, dir, scan, apply, celery, files, bounds>>

Regenerate ==
    /\ ~quiet /\ LoopFree /\ keys < MaxKeys
    /\ GetBatch
    /\ holds' = Holding
    /\ keys' = keys + 1 /\ passphrase' = keys + 1
    /\ rekeyed' = (mappingFile # Nothing)
    /\ worker' = [worker EXCEPT !.stale = worker.key # 0]
    /\ UNCHANGED <<store, decisions, dir, scan, apply, task, textFile, mappingFile,
                   reviewed, disturbed, late, restarts, quiet>>

Delete ==
    /\ ~quiet /\ LoopFree /\ Seen # NoBatch
    /\ Cleanup
    /\ UNCHANGED <<scan, apply, celery, bounds>>

\* Wrong on purpose: a batch whose scan is not finished is spared.
InactivityCleanupOfScanned ==
    /\ timer = "running" /\ cached.status # "pending"
    /\ Cleanup
    /\ UNCHANGED <<scan, apply, celery, bounds>>

\* In a thread of its own: no route need have ended.
InactivityCleanup ==
    /\ timer = "running"
    /\ Cleanup
    /\ UNCHANGED <<scan, apply, celery, bounds>>

Forget ==
    /\ restarts < MaxRestarts /\ restarts' = restarts + 1
    /\ timer' = IF store = NoBatch THEN "none" ELSE "lost"
    /\ cached' = NoBatch /\ holds' = [h \in Holders |-> NoBatch]
    /\ scan' = [waits |-> FALSE, thread |-> "none"]
    /\ apply' = [a \in Applies |-> Idle]
    /\ UNCHANGED <<store, passphrase, celery, keys, quiet>>

Restart == Forget /\ UNCHANGED <<decisions, dir, files>>

\* The process stops between the two halves of a review: stored, not marked.
StopInReview(decided) ==
    /\ ~quiet /\ LoopFree /\ Reviewable
    /\ decisions' = decided
    /\ Forget
    /\ UNCHANGED <<dir, files>>

\* It stops while an apply writes its files, the mapping first.
StopInApply(a) ==
    /\ LoopFree /\ apply[a].waits /\ apply[a].thread = "done" /\ Seen # NoBatch
    /\ \/ SaveMapping /\ disturbed' = reviewed
       \/ SaveMappingFails /\ UNCHANGED disturbed
    /\ Forget
    /\ UNCHANGED <<decisions, dir, textFile, reviewed, late>>

ClientsLeave ==
    /\ ~quiet /\ quiet' = TRUE
    /\ UNCHANGED <<batch, scan, apply, celery, files, keys, restarts>>

WorkerStep ==
    \/ WorkerTakes \/ WorkerReloads \/ WorkerMarks \/ WorkerUnlocks \/ WorkerSeals
    \/ WorkerFinishes \/ WorkerRecovers \/ WorkerRecords
    \/ \E again \in BOOLEAN : WorkerFails(again)
    \/ WorkerRestarts

Next ==
    \/ ScanStart \/ ScanStartFails \/ ScanReads \/ ScanStores \/ ScanRaises
    \/ ScanAnswers \/ ScanGivesUp
    \/ \E decided \in Reviews : PostReview(decided) \/ StopInReview(decided)
    \/ \E a \in Applies :
          \/ ApplyBegins(a) \/ ApplyReads(a) \/ ApplyStores(a) \/ ApplyRaises(a)
          \/ ApplyGivesUp(a) \/ ApplySaves(a) \/ StopInApply(a)
    \/ BatchApply \/ BatchApplyEnds \/ BatchApplyFails
    \/ WorkerStep
    \/ Look \/ Regenerate \/ Delete \/ InactivityCleanup \/ Restart
    \/ ClientsLeave

Spec == Init /\ [][Next]_vars

\* The scheduler runs every ten minutes for as long as the process does.
Fairness == WF_vars(quiet /\ InactivityCleanup)

FairSpec == Spec /\ Fairness

-----------------------------------------------------------------------------
(* Properties.                                                             *)

\* What the user pasted is on the list of the cleanup scheduler for as long as the
\* API has the batch in memory: a thread that stores it after it was given up,
\* deleted or expired puts it there again.  A batch that is only in the store is on
\* it too, unless the API restarted, or a worker stored the batch after its removal
\* (the one route to that is POST /batches/{id}/apply).
ConsoleTracked ==
    /\ cached # NoBatch => timer = "running"
    /\ store # NoBatch => timer # "none"

\* The archive of the console restores its own text: text and mapping were made
\* from the same decisions, if no other copy of the batch, with other decisions, was
\* stored between the reading of the text's and the writing of the mapping, or was
\* in the store or a worker's hands when they were read, and if the last text has its
\* mapping.
\* Neither old threads and their objects nor a worker that writes the mapping from
\* its own copy, restarts, a deletion or the return of the batch come between them.
ZipReverts ==
    textFile # Nothing /\ mappingFile \in Mapping /\ ~disturbed
        => textFile = mappingFile.marks

\* The last passphrase a client was given opens the mapping, unless it was
\* regenerated after the key of the mapping had been read: by the console in the
\* call that writes it, by a worker earlier, and once for all its tasks.
ZipOpens == mappingFile \in Mapping /\ ~rekeyed => mappingFile.key = keys

\* When the clients have gone the pasted text goes too, and for good: its record,
\* what the API has of it in memory, its passphrase and its files.  The exceptions
\* are the batches the scheduler does not know (ConsoleTracked), and what an apply
\* wrote after its batch had been removed, into a directory nobody owns.
GoneInTheEnd ==
    <>quiet => <>[](\/ /\ store = NoBatch /\ cached = NoBatch /\ passphrase = 0
                       /\ textFile = Nothing /\ mappingFile = Nothing
                    \/ timer = "lost" \/ late)

=============================================================================
