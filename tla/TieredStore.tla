---------------------------- MODULE TieredStore ----------------------------
(***************************************************************************)
(* The two tiers of the batch store: batch_persistence.py over             *)
(* batch_redis.py, as the API and the workers use them for one batch.      *)
(*                                                                         *)
(* A save writes a file and a Redis key, in an order that depends on the   *)
(* record; a load asks Redis and, when it has nothing, the file; a removal *)
(* removes the directory, then the keys.  Every process has its own Redis  *)
(* client: once a ping has succeeded it is kept for good and its errors    *)
(* reach the caller; until then Redis is left out without a word.          *)
(*                                                                         *)
(* The lock of batch_manager.py is held around each of these operations,   *)
(* so a process runs one of them at a time.  Processes share no lock.      *)
(***************************************************************************)
EXTENDS Naturals

CONSTANTS
    Workers,      \* the Celery worker processes
    Api,          \* the FastAPI process
    AuthSecret,   \* whether AUTH_SECRET is set: without it no key goes to disk
    MaxSaves,     \* bound: saves of the two records together
    MaxOutages,   \* bound: times Redis goes away
    MaxRemovals   \* bound: removals of the batch

ASSUME ProcessAssumption == Api \notin Workers
ASSUME SecretAssumption == AuthSecret \in BOOLEAN
ASSUME BoundAssumption ==
    MaxSaves \in Nat /\ MaxOutages \in Nat /\ MaxRemovals \in Nat

VARIABLES
    file,      \* what each file of the batch directory holds
    redis,     \* what each key of the batch holds
    dump,      \* the last RDB file Redis wrote
    redisUp,   \* whether Redis answers
    client,    \* _redis_client_cached and _redis_last_check of each process
    op,        \* the operation each process runs
    issued,    \* versions given to the saves of each record
    ended,     \* versions of saves that are over, done or failed
    over,      \* contents an acknowledged save or removal has superseded
    outages,
    removals,
    diverged   \* a writer has gone without Redis, or Redis has lost data

tiers   == <<file, redis, dump, redisUp>>
history == <<issued, ended, over, diverged>>
vars == <<file, redis, dump, redisUp, client, op, issued, ended, over,
          outages, removals, diverged>>

-----------------------------------------------------------------------------
(* Types *)

Process == Workers \union {Api}

(* "meta" stands for the records whose file is written first: batch.json   *)
(* and decisions.json (started_at.txt is saved and loaded alike; its file  *)
(* is also removed by a download, which is left out).  A content is the    *)
(* number of the save that wrote it.                                       *)
Records  == {"meta", "passphrase"}
Nothing  == 0
Contents == 0 .. MaxSaves

(* Every process saves metadata; only routes generate passphrases.         *)
MaySave(p, r) == r = "meta" \/ p = Api

(* before: for a save or a removal, what it supersedes when acknowledged;  *)
(* for a load, what was superseded when it began.                          *)
Operation == [kind : {"none", "save", "load", "remove"},
              rec : Records,
              ver : Contents,
              pc : {"file", "redis", "end"},
              before : [Records -> SUBSET Contents]]

Empty  == [r \in Records |-> Nothing]
NoneOf == [r \in Records |-> {}]
Idle == [kind |-> "none", rec |-> "meta", ver |-> Nothing, pc |-> "end",
         before |-> NoneOf]

Types ==
    /\ file \in [Records -> Contents]
    /\ redis \in [Records -> Contents]
    /\ dump \in [Records -> Contents]
    /\ redisUp \in BOOLEAN
    /\ client \in [Process -> {"unknown", "held", "avoided"}]
    /\ op \in [Process -> Operation]
    /\ issued \in [Records -> Contents]
    /\ ended \in [Records -> SUBSET Contents]
    /\ over \in [Records -> SUBSET Contents]
    /\ outages \in 0 .. MaxOutages
    /\ removals \in 0 .. MaxRemovals
    /\ diverged \in BOOLEAN

(* The type invariant.  What is found under the name of a record, in a     *)
(* file, a key or a dump, was once saved as that record: a passphrase is   *)
(* never taken for a batch, nor is there anything nobody saved.            *)
TypeOK ==
    /\ Types
    /\ \A r \in Records :
          file[r] <= issued[r] /\ redis[r] <= issued[r] /\ dump[r] <= issued[r]

Init ==
    /\ file = Empty
    /\ redis = Empty
    /\ dump = Empty
    /\ redisUp = TRUE
    /\ client = [p \in Process |-> "unknown"]
    /\ op = [p \in Process |-> Idle]
    /\ issued = Empty
    /\ ended = NoneOf
    /\ over = NoneOf
    /\ outages = 0
    /\ removals = 0
    /\ diverged = FALSE

-----------------------------------------------------------------------------
(* Beginning and ending an operation *)

At(p, kind, pc) == op[p].kind = kind /\ op[p].pc = pc
Free(p) == op[p].pc = "end"
Removing == \E p \in Process : op[p].kind = "remove"

Goto(p, pc) == op' = [op EXCEPT ![p].pc = pc]

FirstTier(r) == IF r = "meta" THEN "file" ELSE "redis"

(* While a removal runs, finding nothing is not out of date.               *)
Save(p, r) ==
    /\ Free(p)
    /\ MaySave(p, r)
    /\ issued["meta"] + issued["passphrase"] < MaxSaves
    /\ issued' = [issued EXCEPT ![r] = @ + 1]
    /\ op' = [op EXCEPT ![p] =
                [kind |-> "save", rec |-> r, ver |-> issued[r] + 1,
                 pc |-> FirstTier(r),
                 before |-> [NoneOf EXCEPT ![r] =
                     ended[r] \union (IF Removing THEN {} ELSE {Nothing})]]]
    /\ UNCHANGED <<tiers, client, ended, over, outages, removals, diverged>>

Load(p, r) ==
    /\ Free(p)
    /\ op' = [op EXCEPT ![p] =
                [kind |-> "load", rec |-> r, ver |-> Nothing, pc |-> "redis",
                 before |-> [NoneOf EXCEPT ![r] = over[r]]]]
    /\ UNCHANGED <<tiers, client, history, outages, removals>>

(* cleanup_batch and cleanup_inactive_batches run in the API only.         *)
Remove ==
    /\ Free(Api)
    /\ removals < MaxRemovals
    /\ removals' = removals + 1
    /\ op' = [p \in Process |->
                IF p = Api
                THEN [kind |-> "remove", rec |-> "meta", ver |-> Nothing,
                      pc |-> "file", before |-> ended]
                ELSE [op[p] EXCEPT !.before =
                        [r \in Records |-> @[r] \ {Nothing}]]]
    /\ over' = [r \in Records |-> over[r] \ {Nothing}]
    /\ UNCHANGED <<tiers, client, issued, ended, outages, diverged>>

(* A save that is over, however it ended, writes no more.                  *)
Close(p) ==
    /\ op' = [op EXCEPT ![p] = Idle]
    /\ ended' = IF op[p].kind = "save"
                THEN [ended EXCEPT ![op[p].rec] = @ \union {op[p].ver}]
                ELSE ended

Acknowledge(p) ==
    /\ Close(p)
    /\ over' = [r \in Records |-> over[r] \union op[p].before[r]]

(* It raises, or was a load.                                               *)
Leave(p) == Close(p) /\ UNCHANGED over

-----------------------------------------------------------------------------
(* The file tier *)

(* atomic_write_text makes the directory if it has to, and renames.        *)
WriteFile(p) ==
    /\ At(p, "save", "file")
    /\ file' = [file EXCEPT ![op[p].rec] = op[p].ver]
    /\ IF op[p].rec = "meta"
       THEN Goto(p, "redis") /\ UNCHANGED <<ended, over>>
       ELSE Acknowledge(p)
    /\ UNCHANGED <<redis, dump, redisUp, client, issued, outages, removals,
                   diverged>>

(* Wrong on purpose: the error is only logged.                             *)
WriteFileFailsUnseen(p) ==
    /\ At(p, "save", "file")
    /\ IF op[p].rec = "meta"
       THEN Goto(p, "redis") /\ UNCHANGED <<ended, over>>
       ELSE Acknowledge(p)
    /\ UNCHANGED <<tiers, client, issued, outages, removals, diverged>>

(* The disk is full or read-only: the exception leaves the save.           *)
WriteFileFails(p) ==
    /\ At(p, "save", "file")
    /\ Leave(p)
    /\ UNCHANGED <<tiers, client, issued, outages, removals, diverged>>

(* What a load that reaches this tier now returns, and is over with.       *)
FromFile(r) == IF r = "passphrase" /\ ~AuthSecret THEN Nothing ELSE file[r]

ReadFile(p) ==
    /\ At(p, "load", "file")
    /\ Leave(p)
    /\ UNCHANGED <<tiers, client, issued, outages, removals, diverged>>

RemoveFiles ==
    /\ At(Api, "remove", "file")
    /\ file' = Empty
    /\ Goto(Api, "redis")
    /\ UNCHANGED <<redis, dump, redisUp, client, history, outages, removals>>

(* An error of rmtree is logged and the removal goes on; what is left is   *)
(* any part of the directory.  Such a removal supersedes nothing.          *)
RemoveFilesFails ==
    /\ At(Api, "remove", "file")
    /\ \E left \in SUBSET Records :
           file' = [r \in Records |-> IF r \in left THEN file[r] ELSE Nothing]
    /\ op' = [op EXCEPT ![Api].pc = "redis", ![Api].before = NoneOf]
    /\ UNCHANGED <<redis, dump, redisUp, client, history, outages, removals>>

-----------------------------------------------------------------------------
(* The Redis tier *)

AtRedis(p) == op[p].pc = "redis"

(* _get_redis_client: the first ping that succeeds makes the client stay.  *)
(* One that fails, or takes more than 0.3 s, is not repeated for 5 s.      *)
Connect(p) ==
    /\ AtRedis(p)
    /\ client[p] = "unknown"
    /\ \/ redisUp /\ client' = [client EXCEPT ![p] = "held"]
       \/ client' = [client EXCEPT ![p] = "avoided"]
    /\ UNCHANGED <<tiers, op, history, outages, removals>>

RetryDue(p) ==
    /\ client[p] = "avoided"
    /\ client' = [client EXCEPT ![p] = "unknown"]
    /\ UNCHANGED <<tiers, op, history, outages, removals>>

(* Wrong on purpose: every save uses the key of the metadata.              *)
StoredAsMeta(p) ==
    CASE op[p].kind = "save"   -> [redis EXCEPT !["meta"] = op[p].ver]
      [] op[p].kind = "remove" -> Empty
      [] OTHER                 -> redis

(* What the command of the operation leaves in Redis.                      *)
Stored(p) ==
    CASE op[p].kind = "save"   -> [redis EXCEPT ![op[p].rec] = op[p].ver]
      [] op[p].kind = "remove" -> Empty
      [] OTHER                 -> redis

(* What follows once Redis has been written, or left out.                  *)
PastRedis(p) ==
    IF op[p].kind = "load"
          \/ (op[p].kind = "save" /\ op[p].rec = "passphrase" /\ AuthSecret)
    THEN Goto(p, "file") /\ UNCHANGED <<ended, over>>
    ELSE Acknowledge(p)

WriteRedis(p) ==
    /\ At(p, "save", "redis") \/ At(p, "remove", "redis")
    /\ client[p] = "held"
    /\ redisUp
    /\ redis' = Stored(p)
    /\ PastRedis(p)
    /\ UNCHANGED <<file, dump, redisUp, client, issued, outages, removals,
                   diverged>>

ReadRedis(p) ==
    /\ At(p, "load", "redis")
    /\ client[p] = "held"
    /\ redisUp
    /\ IF redis[op[p].rec] # Nothing THEN Leave(p) ELSE PastRedis(p)
    /\ UNCHANGED <<tiers, client, issued, outages, removals, diverged>>

(* No client: a save or a removal leaves Redis as it is, a load turns to   *)
(* the file.                                                               *)
SkipRedis(p) ==
    /\ AtRedis(p)
    /\ client[p] = "avoided"
    /\ PastRedis(p)
    /\ diverged' = (diverged \/ op[p].kind # "load")
    /\ UNCHANGED <<tiers, client, issued, outages, removals>>

(* Wrong on purpose: the error is swallowed, as if there were no client.   *)
RedisErrorUnseen(p) ==
    /\ AtRedis(p)
    /\ client[p] = "held"
    /\ redis' \in IF redisUp THEN {redis, Stored(p)} ELSE {redis}
    /\ PastRedis(p)
    /\ UNCHANGED <<file, dump, redisUp, client, issued, outages, removals,
                   diverged>>

(* A client that is held is never given up: the exception leaves the       *)
(* operation, a load's as well.  After a timeout the command may have been *)
(* carried out.                                                            *)
RedisRaises(p) ==
    /\ AtRedis(p)
    /\ client[p] = "held"
    /\ redis' \in IF redisUp THEN {redis, Stored(p)} ELSE {redis}
    /\ Leave(p)
    /\ UNCHANGED <<file, dump, redisUp, client, issued, outages, removals,
                   diverged>>

-----------------------------------------------------------------------------
(* Redis and the processes come and go *)

RedisDumps ==
    /\ redisUp
    /\ dump' = redis
    /\ UNCHANGED <<file, redis, redisUp, client, op, history, outages,
                   removals>>

RedisStops ==
    /\ redisUp
    /\ outages < MaxOutages
    /\ redisUp' = FALSE
    /\ outages' = outages + 1
    /\ UNCHANGED <<file, redis, dump, client, op, history, removals>>

(* It comes back with what it had (a network failure, or a shutdown that   *)
(* could dump) or with its last dump.                                      *)
RedisReturns ==
    /\ ~redisUp
    /\ redisUp' = TRUE
    /\ redis' \in {redis, dump}
    /\ diverged' = (diverged \/ redis' # redis)
    /\ UNCHANGED <<file, dump, client, op, issued, ended, over, outages,
                   removals>>

(* A process is killed, between any two steps, and starts again.           *)
ProcessRestarts(p) ==
    /\ Leave(p)
    /\ client' = [client EXCEPT ![p] = "unknown"]
    /\ UNCHANGED <<tiers, issued, outages, removals, diverged>>

Next ==
    \/ \E p \in Process :
          \/ \E r \in Records : Save(p, r) \/ Load(p, r)
          \/ WriteFile(p) \/ WriteFileFails(p) \/ ReadFile(p)
          \/ Connect(p) \/ RetryDue(p)
          \/ WriteRedis(p) \/ ReadRedis(p) \/ SkipRedis(p) \/ RedisRaises(p)
          \/ ProcessRestarts(p)
    \/ Remove \/ RemoveFiles \/ RemoveFilesFails
    \/ RedisDumps \/ RedisStops \/ RedisReturns

Spec == Init /\ [][Next]_vars

-----------------------------------------------------------------------------
(* Properties *)

(* What is on disk is never older than the last save or removal a caller   *)
(* was told of, whatever Redis does: neither a failed save beside it nor a *)
(* crash between the tiers brings an older record back.  Keys are on disk  *)
(* only if there is a secret to encrypt them with.                         *)
DiskIsCurrent ==
    \A r \in Records :
        (r = "passphrase" => AuthSecret) => file[r] \notin over[r]

(* A process that loads a record while others save and remove it is not    *)
(* answered with one that was superseded before it asked, as long as no    *)
(* writer has gone without Redis and Redis has lost nothing.               *)
LoadsAreCurrent ==
    ~diverged => \A p \in Process :
        LET r == op[p].rec
        IN  /\ At(p, "load", "redis") /\ redis[r] # Nothing =>
                   redis[r] \notin op[p].before[r]
            /\ At(p, "load", "file") => FromFile(r) \notin op[p].before[r]

(* After Redis has been away and is back, a process that asks for the      *)
(* state of a batch gets what is on disk, or at least nothing older than   *)
(* what was last acknowledged.                                             *)
RestartReadsDisk ==
    (redisUp /\ outages > 0) =>
        \/ redis["meta"] \in {Nothing, file["meta"]}
        \/ redis["meta"] \notin over["meta"]

=============================================================================
