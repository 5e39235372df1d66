# Pseudonymization tool: a TLA+ verification project

The tool takes documents, finds personal and security-relevant entities in
them, lets a person review the findings, replaces them by pseudonyms, and hands
out an encrypted mapping with which the pseudonyms can be reverted later. It is
a FastAPI process, one or more Celery workers, Redis, and a directory tree on
disk (`backend/app`), behind nginx and a React frontend.

This directory holds models of the parts where that system is hard. The first is
the batch itself: it is held by several processes at once, each with a cache of
its own, and nothing but the *order* of their reads and writes decides what the
client is told, what is written into the archive, and whether the uploaded
originals are ever removed. The others are the rate limiter, logins and accounts,
the detectors that are reconfigured under running scans, the console, which does
the work of a batch in threads of the API, and the way from findings to
pseudonyms and back.

## 1. Inventory

| Component | State | Operations | What makes it correct |
|---|---|---|---|
| Batch store: `core/batch_manager.py`, `batch_persistence.py`, `batch_redis.py` | per process `_batches`, `_passphrases`, `_decisions`, `_last_activity`; shared: the Redis records and `batch.json`, passphrase, decisions, start time on disk | create, get, update, store decisions, get/regenerate passphrase, cleanup, inactivity cleanup | a process acts on what the store holds now; a removed batch stays removed; originals are removed in time |
| HTTP routes: `api/batches_routes.py` | the handler's local copy of the batch, the background task of a download | create + upload + queue, status, findings, review, apply, download, delete, regenerate | the status the API holds moves as a client expects; export is refused while the batch has errors |
| Tasks and pipelines: `core/tasks.py`, `core/pipeline.py` | the running task, its retry count, the cached batch object it mutates | scan (parse, detect, REVIEW), apply (transform, encrypt, label, archive, DONE), retry, error handler | review decisions are what the archive is made with; a done batch has its archive; a failed task ends |
| Transformer, safety label: `pseudonymizer/transformer.py`, `core/safety.py` | none | build the substitution map, replace in a text, run, cell or page, label | a value is replaced whole and everywhere; a file that was not transformed does not pass for one that was |
| Pseudonym engine: `pseudonymizer/engine.py` | counters, (type, value) -> pseudonym | get or create a pseudonym | equal values get equal pseudonyms, different ones different |
| Revert: `core/revert.py`, `api/revert_routes.py` | none | decrypt the mapping, replace back | inverse of the transformer |
| Console flow: `api/console_routes.py`, `core/console_pipeline.py` | a batch of one text, the threads that scan and apply, `pseudonymized_text.txt`, `mapping.enc` | scan and apply under a timeout, download of ZIP and mapping | text and mapping belong together; what was pasted is removed in the end |
| Rate limiter: `core/rate_limit.py`, `redis_utils.py` | a sorted set per client in Redis, or buckets in memory | check, cleanup, LRU eviction, fallback | never more than `limit` in a window |
| Sessions: `core/auth.py`, `api/auth_routes.py`, the middleware of `main.py` | sessions and CSRF tokens in Redis or memory | login, validate, logout, global logout | a closed session stays closed; an open one has its token |
| Users: `core/user_manager.py`, `api/users_routes.py`, `core/ldap_auth.py` | a SQLite table shared by the processes, a lock per process | bootstrap, create, change role and password, delete, login by directory | only administrators change accounts, and only those they name |
| LDAP detector: `detectors/ldap_client.py`, `ldap_detector.py`, `core/circuit_breaker.py` | the cache of people with its four lookup structures, its thread, the breaker | configure, test, refresh, look up; `is_open`, success, failure | a scan sees one answer of the directory; people are not lost; a failing service is left alone, and tried again |
| Dictionary detector | the list of terms | reload, match | a scan misses no term |
| Detection engine: `detectors/engine.py`, `preprocessor.py` | none | chunk, run the detectors, choose between overlapping findings | what is kept is disjoint, and the strongest |
| ML detector, detector cache: `detectors/ml_detector.py`, `cache.py` | a model, an LRU table | | no caller outside the tests |
| Regex and SOC detectors, parsers, report, profiles, policies, configuration, audit, metrics, logging, frontend, deployment | none, or written only | | pure functions and I/O |

How they interact: a route calls `batch_manager` (locked within its process
only) and puts a task on the queue with `.delay()`; the worker calls the same
`batch_manager` code in *its* process, so both sides meet only in Redis and the
files. Status polling is a `get_batch` in the API, beside a look at the state of the Celery task. A cleanup thread in the API
removes inactive batches; a FastAPI background task removes a batch after its
download. Console requests do the same work in a thread of the API, on the very
object the other routes hold; but a batch of the console can be given to a worker too
(`POST /batches/{id}/apply`). Every request passes the limiter, the CSRF check
and the session check first, and those meet the other API processes in Redis and
in the user table. The settings routes exchange the detectors' data under the
scans of the console; LDAP is configured in the API process only, so the
workers never use it.

What is hard: stale caches (a stable status is believed without asking the
store), the second write of a route after the task is already on the queue, the
two writes of REVIEW, cleanup and deletion under a running task or upload,
retries that start from what a failed run left, a worker killed after the
message was acknowledged, an API restart that forgets every timer, a removal
that fails half way; a thread that outlives the request that started it; checks
and uses of a role, a session or an instant with another process in between;
calls that fail although they were carried out, or are cut short and report nothing; a
Redis that comes back with an old dump; structures exchanged one by one under readers. `PROJECT.json` lists them line by line under `hazards`.

## 2. The modules and how they compose

| Module | Of what | Proofs | Instance for TLC |
|---|---|---|---|
| `BatchLifecycle` | batch, routes, tasks, store as one | `BatchLifecycle_proofs`, `BatchContents_proofs` | itself |
| `ClientView` | how the status the API holds for a batch may change; implemented by `BatchLifecycle` | as above | |
| `TieredStore` | that store as it is: files and Redis | `TieredStore_proofs` | itself |
| `RateLimiter` | `rate_limit.py` | `RateLimiter_proofs` | `MCRateLimiter`: symmetry of processes and clients |
| `Access` | sessions, accounts, middleware, LDAP login | `Access_proofs` | `MCAccess`: symmetry, and what administrators ask for |
| `Detection` | LDAP cache, breaker, dictionaries | `Detection_proofs` | `MCDetection`, with `Overlaps`: refreshes beside one scan, or reloads beside two |
| `Overlaps` | the choice between findings | `Detection_proofs` | `MCDetection` |
| `ConsoleFlow` | the console's batch and threads | `ConsoleFlow_proofs` | `MCConsole`, with `Pseudonyms`: how much meets in one run |
| `Pseudonyms` | engine, substitution, mapping, revert | `Pseudonyms_proofs` | `MCConsole`: values, words, types |

`Overlaps` and `Pseudonyms` are small state machines of their own: one goes through
the findings of a chunk, the other through those of a batch and its review, and
both then begin anew. They share nothing with the modules that call them, so
their MC module runs them beside the first state of the caller, and not beside
each of its states. `MCDetection` has two kinds of runs, because the cache of
people and the dictionaries share no state but the route and the breaker: refreshes
beside one scan, or reloads beside all of them.

What a further step could add: the progress channel with its snapshot, and the
status route and event stream with the state Celery keeps of a task; the rebuilding
of PDFs by two libraries and the revert of a whole ZIP; the inner counters of
e-mail, host and URL pseudonyms in light mode.

## 3. The modules

### BatchLifecycle

One batch. Every dictionary of `batch_manager.py` is keyed by a batch id that is
a fresh UUID, and no operation relates two ids, so batches do not influence each
other except by sharing the workers, which only delays.

| State | In the code |
|---|---|
| `store`, `pass`, `decisions` | the batch record, passphrase and decisions in Redis and on disk |
| `dir` | the batch directory: uploads, output, `mapping.enc`, archive |
| `cache[p]`, `keys[w]` | `_batches` of process `p`; `_passphrases` of worker `w` |
| `tracked` | the batch is in the API's `_last_activity` |
| `handler` | the create or apply route between its awaits / after its enqueue |
| `deferred` | the cleanup a download scheduled |
| `queue`, `job`, `pc`, `fault` | Celery: broker, running task, its next call, what it failed with |
| `usedKeys`, `asked`, `served` | history: keys generated, the review of the last apply, the last download |

Granularity. A coroutine is not interrupted between two awaits, so a route is
one action, with two exceptions: the upload is awaited (`Create`, then
`EnqueueScan`, `EnqueueScanFails`, `RejectUpload` or `LoseUpload`), and after
`.delay()` a worker runs in parallel, so the last write of the route is an
action of its own (`FinishEnqueue`, during which no other coroutine runs:
`LoopFree`). In a worker every call that reads or writes shared state is an
action: `Fetch` (`get_batch`), `Mark` (SCANNING/APPLYING, by the task and again
by the pipeline), `Detect` (the scan to its REVIEW), `Confirm` (the second
REVIEW), `Unlock`, `Transform`, `Seal`, `Pack`, `Finish`. `Fail` is an exception
at any of them; `Recover` and `RecordError` are the exception handler, which
calls `get_batch` again; `EndTask` is Celery's retry policy. `WorkerRestart` is
a killed or recycled worker: messages are acknowledged when taken, so its task
is lost.

A cached record is the Python object itself: what a task assigns before a save
fails stays in its cache. That is why `Fail` changes `cache[w]`.

A scan gives every finding a fresh UUID, so decisions stored for one scan match
nothing of the next: `scan` numbers the attempts and `Decided` compares them.

Abstracted: one file stands for all (`failed` says that some file is FAILED);
the review is one value; task ids, timestamps, progress and error texts are left
out; the store is one tier (`TieredStore` says when that is right); a failed
removal of the directory (`RemovalFails`) may leave any part of it (`PartlyRemoved`),
the files of the record included.

### ClientView

The status the API holds for a batch: it is what `GET /batches` and
`GET /batches/{id}` answer, and what review, apply and download check. While it is
unknown or in flight the next one may be anything; a review is left only by an apply (or
by disappearing); a final status never changes; an archive leaves only while the API
holds DONE. `BatchLifecycle` implements it with `held <- cache[Api].status` and
`exported <- served # NothingServed`.

It says nothing of `GET /batches/{id}/status` and of the event stream. These two look
the batch up as well, but answer with the state of the Celery task first
(`batches_routes.py:453-465`), and fall back on the status held only when the task
succeeded. Celery forgets a task after an hour and then says PENDING, so a client
of these routes can see a finished batch go back to pending.

This does not hold because of what the workers write - they overwrite final
statuses freely - but because the API believes its own stable copy. The same
rule, in a worker, is what loses a review (section 5): the trade is visible here.

### TieredStore

What `BatchLifecycle` takes for one atomic store is two: files written by
rename, and Redis keys. This module models the operations of
`batch_persistence.py` over `batch_redis.py` for one batch, run by several
processes at once, one step per access to a tier.

| State | In the code |
|---|---|
| `file`, `redis` | the files of the batch directory; the `batch:<id>:*` keys |
| `dump`, `redisUp` | the RDB file on the `redis_data` volume; whether Redis answers |
| `client[p]` | `_redis_client_cached` and `_redis_last_check`: not tried, held, avoided for 5 s |
| `op[p]` | the save, load or removal the process is in (`_global_lock`: one at a time) |
| `issued`, `ended`, `over`, `diverged` | history: save numbers, saves that are over, contents superseded by something acknowledged, whether a writer went without Redis or Redis lost data |

Two records stand for all. `"meta"` is written to the file first and to Redis
second (`batch.json`, `decisions.json`); `"passphrase"` to Redis first, and to
the file only if `AUTH_SECRET` is set. The order is what decides which tier can
be ahead after a crash. A content is the number of the save that wrote it, so
"older" means something. The history variable `over` collects what a caller may
no longer be given: when a save or a removal is acknowledged, every save that
was over before it began becomes superseded. Saves that overlap supersede
neither each other, so the model does not ask for more order than the code
promises. `Nothing` is superseded by a save, and stops being so when a removal
begins.

`Connect` and `SkipRedis` are a process without a client, which leaves Redis out
silently; `RedisRaises` is a process with one, which gets the error, and whose
command may have been carried out although it timed out. `WriteFileFails` is a
full disk, `RemoveFilesFails` an `rmtree` whose error is only logged.
`RedisReturns` brings back what Redis had or its last dump. A command that is
carried out later than its caller's timeout *and* later than other commands is
not modelled. The set `batch:ids` is not: a listing that follows it loads the
records it names as any load does.

### RateLimiter

Every API process asks one sorted set per client in Redis, and falls back to a
window of its own in memory whenever Redis does not answer.

| State | In the code |
|---|---|
| `window[k]` | `rate_limit:{k}`: its members are instants, so two requests of the same instant are one member |
| `dump` | the last RDB file of Redis, with what the observers need of that moment |
| `client[p]`, `lastCheck[p]` | `_redis_client`, `_last_redis_check` |
| `held`, `newer` | the keys of `_buckets`, an `OrderedDict`: which there are, and for each those that come after it |
| `stamps`, `last` | the timestamps of a bucket, and its `last_access` |
| `pc`, `key`, `now` | the request a process answers, and the instant it read first |
| `log`, `errored` | observers: recent admissions, and requests a Redis call failed on |

A process answers one request at a time, because the routes call the limiter
without an await. Steps are the calls to Redis: the pipeline that drops old
members, adds the new one and counts; for a refused request the removal of its
member; and the question for the oldest one. Between them the clock goes on, by
at most `Delay`, and the other processes run. A call that fails may have been
carried out (`CheckFails`, `UndoFails`, `OldestFails`); the process then gives the
client up and counts in memory, under its lock. A request moves its bucket to the end
of the order; the cleanup thread removes the buckets without an admission for
`TTL` (`Live` are the others) and then the least recently used ones beyond
`MaxClients` (`Evicted`: so many of those that stay are newer). The order is the relation
`newer` and not a sequence, which says the same and can be reasoned about. A
process that restarts begins with nothing and is not modelled. Redis that restarts is: it
runs with its default save points on a volume (`docker-compose.yml:39`, `:44-45`), so
it comes back with the windows of its last dump (`RedisDumps`, `RedisRestarts`), which
may have a refused member the second call of its refusal had removed since.

### Access

| State | In the code |
|---|---|
| `db` | the `users` table: the role of each name |
| `redisSes`, `redisCsrf`; `memSes`, `memCsrf` | `auth:session:*`, `auth:csrf:*`; `_sessions`, `_csrf_tokens` of a process without Redis |
| `client[p]`, `up[p]` | whether `p` has a Redis client (it keeps it); how far its start is, with the bootstrap |
| `dump` | the `auth:*` keys of the last RDB file of Redis |
| `expired` | sessions past `expires_at` |
| `req[r]` | a request: where it is, its session, what it has read |
| `handed`, `revoked`, `overlap`, `revived`, `admins` | observers, used by the properties only |

A request passes the middleware (CSRF, session), the dependency `_require_admin`
in a thread, and the body. Requests of different processes interleave at every
call of Redis or SQLite; those of one process between middleware, dependency and
body. A login stores its session and then its token, in two calls; a logout
removes the session, then the token; a global logout lists both kinds of keys
and deletes what it listed, in four. Every Redis call may fail: an exception at a
login or logout is an error to the client, at a check it is a refusal. Directory
logins get any role `ldap_auth.py` can give that name: by its groups, or
`auth_default_role`. The credentials are those of the name in lower case, the session
is for the name as typed (`Clean`). A token may come as a cookie or as a Bearer token,
which the CSRF check lets pass. A role that cannot be read from the table
(`RequireAdminUnread`) is that of the settings. Passwords are whether they match. A token cannot be forged: the signature is external.

`docker-compose.yml:28-36` calls the sessions volatile, lost when Redis restarts. But
its command only leaves the append-only file off, and the default dumps go to a
volume; so `RedisRestarts` brings back the sessions and tokens of the last one.

### Detection

| State | In the code |
|---|---|
| `config`, `cached` | `_ldap_config`, and the `_config` of the cache |
| `accounts`, `names` | the lookup structures, exchanged in this order under `_lock` |
| `at`, `used`, `answer` | a refresh (of the thread, or of a route): its step, its configuration, what the directory answered |
| `breaker` | state, failures, and whether the recovery time is over |
| `scan[t]` | a scan of one chunk: its references to the term list and the structures |
| `terms`, `lists` | `_terms`: which list it is; of each list how many files are in it, and how many could not be read |

`directory` is the version of the directory, which changes now and then; an
answer is a version and the configuration it was asked with. A refresh checks that
LDAP is on, creates a client (which reads the configuration again), asks,
builds, and exchanges. A query that ends with an exception ends the refresh. But one that
is cut short without an exception is exchanged: a search stopped at `max_entries`, or
a fallback search that came to a limit or to any other result code, which nobody
looks at (`ldap_client.py:188-193`, `:224-248`). `Found` therefore has the whole answer,
a part of it, and none. A scan takes its references to the people under the lock. It
reads the list of terms twice, once to see whether it is empty (`BeginTerms`) and once
to iterate over it (`WalkTerms`); `Reload` puts an empty list in place and fills it file
by file, and a file that cannot be read is left out. The calls
a half-open breaker lets through are counted in whatever order they end.

### Overlaps

| State | In the code |
|---|---|
| `found` | `all_findings` of the chunk: each a span and the priority of its type |
| `rest` | those of `sorted_findings` that the loop has not come to |
| `kept` | `resolved` |

`Collect` is what the detectors found in a chunk, whichever of them raised;
`TakeFirst` is one turn of the loop of `_resolve_overlaps`, for the finding that
is first by start, priority and width (`Before`); `HandOn` its end. Findings of
one span and one priority are one here: the code keeps at most the first of them,
and neither the confidence nor the detector matters to the properties. (Which one
is first is up to the threads if the confidence is the same too: `sorted` is stable
and the list is in the order of `as_completed`. A user name and an account, both of
priority 70, get pseudonyms of different types, although line 172 of `engine.py`
calls the input order-independent.)

### ConsoleFlow

| State | In the code |
|---|---|
| `store`, `cached` | the stored batch and the object in the API's `_batches`: a status, and the review its findings carry |
| `holds` | the objects the threads, and the route of the batch apply, work on |
| `decisions`, `passphrase`, `dir` | the stored decisions, the key, whether the directory is there |
| `timer` | its entry in `_last_activity`: none, running, or lost, in a restart or because a worker stored a removed batch |
| `scan`, `apply[a]` | the route that waits, its thread, and the marks the thread has read |
| `task`, `worker` | the task of a batch apply; the step, copy and passphrase of the worker |
| `textFile`, `mappingFile` | what the two files were made from |
| `quiet` | the clients have gone |
| `reviewed`, `disturbed`, `rekeyed`, `late` | history, see the properties |

`asyncio.wait_for` stops waiting, it does not stop the thread: so `scan` and
`apply` have a part of the route and a part of the thread, and a thread goes on
with the batch after `ScanGivesUp`, a deletion, or the scheduler. Its steps are
`get_batch`, the work, and `update_batch`; both files are written by the route
afterwards. The batch object is shared by all who hold that of `_batches` (`Shared`), so
a review is seen by a thread that has begun; one that was loaded anew meanwhile is
another (`Detached`). A mapping is written in place, and may be left half written
(`Torn`). A review is stored and marked in one call, in the middle of which the process
may stop (`StopInReview`).

`BatchApply` is `POST /batches/{id}/apply`, which does not ask whether the batch is a
text of the console. The worker marks its own copy, reads the passphrase, writes
`mapping.enc` from the two in a later step, and stores the copy as DONE or ERROR from its
process, even if the batch was deleted; the scheduler of the API learns nothing of that.
A task may be retried, and a worker may be killed at any step.

### Pseudonyms

| State | In the code |
|---|---|
| `found` | the findings of the batch so far, each with its pseudonym |
| `assigned`, `counters` | `_mapping` and `_counters` of its `PseudonymEngine` |
| `verdicts` | what was decided of each finding; nothing before the review |
| `stage` | scanning, reviewed, pseudonymizing, reverting |
| `words`, `text` | the text as it was, and as it is: `result` and `out` of the two loops |
| `documents` | the two runs of a document, for each place it may be cut at |
| `todo` | the keys of the map that the loop has not come to |

`FindNew` and `FindAgain` are a turn of `process_findings` whose type and canonical
value are new or known: a pseudonym has one of three shapes (the prefix of the type
and a counter; one that keeps a part of the value; the shared `ENTITY`). A finding
that the policy filters out has taken its number by then; it is one that is
rejected. `Final` takes the reviewer's choices; `SubstitutionMap` and `MappingOf` are
the two maps. `Apply` and `Revert` are a turn of the loop over their keys, longest
first: which of two keys of one length is first is left open. `Replace` is
`str.replace`, letter by letter.

A text is a sequence of letters, made of words with a `Gap` between any two. A word
is a value that is replaced or one that no such value occurs in (`Words`); a value
inside a longer word that is not a finding is replaced there too, and the properties
do not speak of such texts. TLC takes one text with all words of an instance and one
without the word that is also the reviewer's choice; the proofs take every sequence
of words. How a counter is written is the constant `Numeral`, of which only that
two numbers are written differently is assumed; TLC has base 2, so that three
findings reach every case the code has with thousands: one value inside another, one
value in two cases, a counter longer than its padding, a reviewer's pseudonym
equal to a part of another or to a word of the text.

## 4. The runs that pass

| Run | Instance | What it shows |
|---|---|---|
| `lifecycle` | 1 worker, 1 key, 2 tasks, 1 retry; 1.4 million states | the deployed configuration (`docker-compose.yml` starts one worker with concurrency 1): the type invariant; `FindingsBeforeReview`, `OriginalsAreOwned`, `DoneKeepsArchive`; the refinement of `ClientView` |
| `drain` | 2 workers, 2 keys, 1 task, 1 retry, removals may fail; 0.2 million states | `QueueDrains`, the liveness property |
| `store` | 2 processes, 3 saves, 1 outage, 1 removal; 7.2 million states | `DiskIsCurrent`, `LoadsAreCurrent` |
| `limiter` | 2 processes, 3 clients of limit 1, room for 1, 3 requests, 2 faults, a window of 3 ticks, 5 ticks; 4.2 million states | `SharedLimit`, `MemoryLimit`, `RefusedUncounted`, `CleanupMakesRoom` |
| `access` | 2 processes, 2 requests at a time, 2 names, 2 sessions, 2 requests with a session out of 8, 1 fault, dump or expiry; 3.4 million states | `RevokedStaysOut`, `SessionHasCsrf`, `AuthorisedDuring`, `AccountsKept` |
| `detection` | 2 scans (1 beside refreshes), 2 configurations (1 enables), 2 versions of the directory, 2 files, 1 reload, threshold 2, 3 failures; up to 4 findings in a text of 4 with 2 priorities; 0.4 million states | `SetsFromOneAnswer`, `BreakerCounts`, `TermsKnown`, `PeopleKept`, `FreshInTheEnd`; `KeptAreDisjoint`, `StrongestAreKept`, `DroppedForAStronger` |
| `console` | 2 applies, 1 review, 2 passphrases, 1 restart, 1 batch apply with 1 retry, 2 of these at once (`MaxAtOnce`); up to 3 findings; 1.5 million states | `ConsoleTracked`, `ZipReverts`, `ZipOpens`, `GoneInTheEnd`; `PseudonymsTellApart`, `ReplacedAsWholes`, `RevertRestores`, `RunsHideTheSame` |

Batches and the store:

- `FindingsBeforeReview`: nobody holds a batch in REVIEW or later that no scan
  filled. An apply of such a batch would copy originals into the archive.
- `OriginalsAreOwned`: while uploads exist on disk, the record and the
  passphrase are in the store, so the batch can be listed and removed.
- `DoneKeepsArchive`: a batch recorded as finished has its archive. (A removal that
  fails half-way may take the archive and leave the record: the run has removals that
  work.)
- `ImplementsClientView`: see section 3.
- `QueueDrains`: always eventually, nothing is queued and every worker is idle.
- `DiskIsCurrent`: the file of a record is never one that an acknowledged save
  or removal superseded, whatever fails.
- `LoadsAreCurrent`: until a writer goes without Redis, or Redis loses data, no
  load returns a record superseded before it began. So plain outages, timeouts
  and crashes do not break the "one store" of `BatchLifecycle`: the code fails
  loudly there. Its silent fallback does, and so does a restart from a dump.

Limiter:

- `SharedLimit`: Redis admits at most `Limit` requests of a client in a stretch
  of `Window - Delay`. It is not `Window`: a process reads the clock before it
  asks, so an admission may be counted under an instant up to `Delay` earlier,
  and be forgotten so much too early. Requests of one instant share a member
  and are counted once, in the code and here. After a restart of Redis the observer
  goes back to the admissions the dump knows of: those made since are forgotten, in the
  code too. A process that falls back to memory opens a window of its own, and each
  keeper of a window is counted by itself.
- `MemoryLimit`: in memory the window is exact, for as long as no eviction for
  lack of room forgets a bucket.
- `RefusedUncounted`: what the window counts belongs to an admission, to a refusal
  about to take it back, or to a call of Redis that failed; or a restart of Redis has
  brought it back from a dump between the two calls of its refusal.
- `CleanupMakesRoom`: a cleanup that removes a bucket leaves no more than
  `MaxClients`, in whatever order buckets were made, used, and removed for age.

Logins and accounts:

- `RevokedStaysOut`: a session whose removal was confirmed is accepted by no
  process again, although it may still be in the memory of one, or be stored by a
  login that a global logout overtakes. The exception is real: a restart of Redis from
  an older dump makes it valid again (`revived`), until it is removed once more.
- `SessionHasCsrf`: a session that was handed to a client has its CSRF token, but
  for logins during a global logout, and for a restart of Redis from a dump between the
  two keys of a login or in the middle of a removal (`overlap`): there the token can go
  and the session stay, and then the user can neither change anything nor log out.
- `AuthorisedDuring`: an account operation is carried out for somebody who was an
  administrator at some moment of the request. It may be over when the body runs. And
  one name is excepted: if the table cannot be read, the administrator of the settings
  passes, whatever his row says (`auth.py:397-398`).
- `AccountsKept`: an existing account changes its role only by an operation that
  names it; starting processes do not reset the administrator.

Detectors:

- `SetsFromOneAnswer`: the accounts and the names of one chunk come from one
  answer of the directory.
- `BreakerCounts`: closed exactly while fewer failures than the threshold have
  gone by since the last success, in whatever order the calls end: a success of a scan
  that was let through before others opened the breaker closes it.
- `TermsKnown`: a chunk during neither of whose two reads of the list a reload was going
  on misses no term of a file that could be read, though reloads begin between the reads
  or after them. Without the second condition it does: a reload between the two makes
  it iterate over the new, empty list.
- `PeopleKept`: neither queries that fail nor overtaken refreshes empty the cache. A search
  that was cut short does, and so does a configuration disabled in mid-refresh.
- `FreshInTheEnd`: when nothing changes any more, and no answer is cut short, the cache
  has what the directory has.
- `KeptAreDisjoint`, `StrongestAreKept`, `DroppedForAStronger`: what the pass over
  overlapping findings guarantees, although it looks back at one finding only. A
  finding may be dropped for one that is then replaced itself, so two findings that do
  not overlap can both be lost to a chain; the third property says no more.

Console:

- `ConsoleTracked`: what the API has in memory has a running timer, in particular when a
  thread that outlived its request stores it again; and a stored batch has one, unless a
  restart took it or a worker stored the batch after its removal.
- `ZipReverts`: text and mapping are made from the same decisions, whoever wrote the
  mapping, if no copy of the batch with other decisions was stored between the reading for
  the text and the writing of the mapping (or was there, in the store or with a worker,
  when it was read), and the last text has its mapping. The exceptions are real: a review
  during an apply, or between a console apply and a batch apply, gives a ZIP whose
  mapping does not belong to its text.
- `ZipOpens`: the last passphrase opens the mapping unless it was regenerated after the
  key of the mapping had been read: at once by the console, steps earlier by a worker,
  which keeps what it read for a retry.
- `GoneInTheEnd`: when the clients have left, what was pasted is removed for good: the
  record, the key and both files. Two exceptions: a batch whose timer is lost, and what an
  apply wrote after the removal of its batch (`late`), into a directory nobody owns.
- `PseudonymsTellApart`: in a type with a prefix, same pseudonym if and only if
  same value when normalised. Types without one share `ENTITY_nnn`, and
  structure-preserving ones are not injective.
- `ReplacedAsWholes`: a value is replaced as a whole, by the pseudonym of its first
  finding that was kept, and nothing else is touched, unless a value occurs in the
  pseudonym of another one that may be replaced before it (`Apart`).
- `RevertRestores`: the revert gives the text back, if besides findings with one
  pseudonym are of one value (`Distinct`) and no pseudonym occurs in the other words
  or in a value that may be put back before it (`Fresh`). TLC finds either
  property violated without any one of these conditions.
- `RunsHideTheSame`: after each key a document hides what its text does, wherever it
  is cut into runs but through a value that is replaced.

Bounds. Two tasks are a scan and an apply, or an apply followed by a second one
after a failed first; one retry is enough for a run to start from what a failed
run left. Two workers are enough for one to hold a copy that another made
stale. Two keys are what it takes to regenerate one. Larger instances (three
tasks with one worker, 12.8 million states; two keys with one worker, 9.4
million) were run without an error of the properties that hold there and take too
long to be kept. In `store` three saves are one that is superseded, one that
supersedes it and one that overlaps; two processes are enough as the tiers are
all they share. In `limiter` a limit of 1 is the smallest that can be exceeded,
three requests are two that compete and one after the first is too old, and a
second and a third client need the only place in memory; two faults are a failed
call and a restart of Redis. In `access` two sessions are one that is
removed while the other logs in; the fault falls on any call, or is a dump, after which
Redis may restart at any time. In `detection` three failures pass a threshold of two
once more while half open, two scans are one that ends while the other's call is under
way, and a reload of two files has a moment with one. In `console` the findings without
decisions and those of one review are what it takes to tell decisions apart; two reviews
were run too (2.6 million states). `MaxAtOnce` lets any two of an apply, a new
passphrase, the batch apply, its retry, a restart and the end of the requests meet, with
all that is not counted (reviews, deletions, the scheduler, the scan); the proofs have
no such bound. Three findings have two values in one another
and a third in another case. A text there has every word once or lacks only the
reviewer's choice, which is what `Fresh` turns on, and every cut of the document is
tried; texts of any length are left to the proofs. `FreshInTheEnd` and `GoneInTheEnd` use no symmetry.

Deadlock is checked in `lifecycle`, `drain` and `store` (a restart of the API is
always possible there, so it says little; `QueueDrains` is what says that the
tasks do not block). The other four stop when the bounds on time, requests and
failures are used up, which the real system does not, so they switch it off.

Fairness. `BatchLifecycle`: a running worker goes on with its task and takes the
next one (`WF TaskStep`), a route that has queued a task ends (`WF
FinishEnqueue`); `SF InactivityCleanup` says that clients leave a tracked batch
alone for long enough, again and again, and the thread that removes it runs every few
minutes (`start_cleanup_scheduler`); `QueueDrains` does not use it. `Detection`:
a refresh and a configuration that have begun go on; the thread wakes up after its
interval; a lock that is free again and again is taken (its holders keep it for
two assignments); and the directory answers now and again (`SF Query`), without
which nothing can be fresh. `ConsoleFlow`: the scheduler runs for as long as the
process does, once the clients have left; neither threads nor routes are required to end.
Crashes, failures and requests are never required to happen.

Every property of a passing run has a mutant in `PROJECT.json` - a change of one
definition as a plausible bug would make it - for which TLC finds the property
violated. The mutated forms stand in the module, each before the definition it
replaces, marked "Wrong on purpose".

## 5. Disagreements between the code and what is said of it

| Run | Property | What happens |
|---|---|---|
| `review_respected` | `ReviewRespected` | the worker that scanned holds a stable REVIEW copy and applies from it; decisions stored since are not read, so a finding the user rejected is replaced, or one given another pseudonym keeps the proposed one |
| `export_blocked` | `ErrorsBlockExport` | a transformer swallows its error as a warning; the batch ends DONE and is exported without the file |
| `removed_is_gone` | `RemovedIsGone` | delete during the upload; the route's `update_batch` writes record and directory again |
| `restart_reads_disk` | `RestartReadsDisk` | Redis restarts from a dump older than the files and is believed before them |
| `originals_expire` | `OriginalsExpire` | after an API restart the timers are empty; an idle batch is never removed |

Each quotes the sentence of the documentation it contradicts under `findings`.

Seen while modelling, without a run of their own.

Batches:
- With two workers, which `docs/02_Technical_Architecture.md:487` and `:749` offer,
  `FindingsBeforeReview` fails: one worker's stale ERROR copy is what an apply
  starts from. `lifecycle.cfg` with `Workers = {w1, w2}` shows it.
- The API caches ERROR during a retry and goes on holding it although the retry
  succeeds (`batch_manager.py:211` calls a stable cache reliable).
- The status route answers from the state of the Celery task, which is forgotten after an
  hour: a finished batch is then "pending" (`batches_routes.py:457`).
- The second write of REVIEW by the scan task (`tasks.py:171`) can overwrite the APPLYING
  of a client that was quick, who can then ask for a second apply.
- A worker killed inside a task leaves the batch SCANNING or APPLYING: the message was
  acknowledged when it was taken.
- `FinishEnqueue` can overwrite the final status of a fast worker, after which
  the batch stays SCANNING or APPLYING. `docs/08` says an apply that fails rolls
  back to READY; the code writes ERROR. `safety.py` says its label is only
  informative; `download_batch` refuses unsafe ones. `cleanup_batch` clears the API's
  memory, the workers keep their copies. A second apply can replace the archive
  behind a DONE the API still shows from the first.
- While Redis is away a process that has a client gets an exception from every
  load, although `docs/RUNBOOK.md` promises that it reads from disk, and a save
  raises after it has written the file.
- `regenerate_passphrase` loads a batch into `_batches` without giving it a timer
  (`batch_manager.py:291`).

Console and files:
- An apply that ends after a deletion writes `pseudonymized_text.txt` into a
  directory that belongs to no batch (`console_routes.py:234-239`), which nobody removes.
- `POST /batches/{id}/apply` takes a batch of the console, which the download refuses
  (`is_text_input`): the worker replaces its `mapping.enc` by one of other decisions, or
  with a passphrase that was regenerated meanwhile, and stores it again after a
  deletion.
- An error between the creation of a console batch and its scan
  (`console_routes.py:134-137`) leaves a PENDING batch until the scheduler removes it.
- `mapping.enc` is written in place (`mapping/crypto.py:127`).
- The whitelist of the residual scan is made of proposed pseudonyms, not of those
  the reviewer chose (`console_pipeline.py:111`).
- A value that occurs inside a pseudonym already inserted is replaced again
  (`transformer.py:42`); one that goes across two runs of a DOCX is not replaced.
- Types without a prefix share the counter name `ENTITY`, each with its own counter, so
  a revert restores the value of another type.
- A PDF that is encrypted, without text or fails is copied as it is, with a
  warning, and the file counts as processed (`transformer.py:275-300`). If the first
  library that rebuilds fails and the second succeeds, the first warning contains
  "fallito" and the original is copied over the result.

Logins, accounts, limits:
- `README.md:15` maps directory groups to roles, but a validated session takes its
  role from the local table, which has no row for a directory user: he is an
  operator, unless he has the name of the administrator (`auth.py:388-398`). The same
  lines make a demoted administrator of the settings one again while the table cannot be
  read.
- Sessions are called volatile (`docker-compose.yml:28-36`), but the dumps of Redis are
  on a volume: a restart can bring a removed session back.
- The last administrator can be demoted (`user_manager.py:244`), and two processes can
  delete the last two at once (`user_manager.py:323`, `:329`).
- `users_routes.py:221` says users may change their own password; the dependency admits
  administrators only.
- The comments of `main.py` order the checks 401 before 403; the CSRF check runs first.

Detectors:
- Half open, every caller is let through, not one (`circuit_breaker.py:7`, `:65`).
- `README.md:232` says the LDAP configuration is kept in the database; it is a
  variable of one process (`settings_routes.py:206`).
- A fallback search that ends with a result code other than success is logged or not
  looked at, and its entries, perhaps none, replace the people (`ldap_client.py:224-248`).
- A dictionary that cannot be read is left out until the next reload
  (`dictionary_detector.py:62-63`).
- Testing and refreshing LDAP report success although the query failed
  (`ldap_detector.py:153-171`), which is caught and logged.
- `DetectorCache` and `get_ml_detector` have no caller.

## 6. Proofs

The safety properties of the state machines are proved, for every set of
processes, workers, requests, scans and applies and every bound:

| Theorem | Module | States |
|---|---|---|
| `TypeCorrect` | `BatchLifecycle_proofs` | `Spec => []TypeOK` |
| `ViewCorrect` | `BatchLifecycle_proofs` | `Spec => ImplementsClientView` |
| `ArchiveKept` | `BatchContents_proofs` | `Spec => []DoneKeepsArchive`, if `RemovalFails = FALSE` |
| `OriginalsOwned` | `BatchContents_proofs` | `Spec => []OriginalsAreOwned`, if `RemovalFails = FALSE` |
| `FindingsFirst` | `BatchContents_proofs` | `Spec => []FindingsBeforeReview`, if there is one worker |
| `StoreTypeCorrect` | `TieredStore_proofs` | `Spec => []TypeOK` |
| `DiskCurrent` | `TieredStore_proofs` | `Spec => []DiskIsCurrent` |
| `LoadsCurrent` | `TieredStore_proofs` | `Spec => []LoadsAreCurrent`, if `AuthSecret` |
| `LimiterTypes` | `RateLimiter_proofs` | `Spec => []TypeOK` |
| `MemoryLimits` | `RateLimiter_proofs` | `Spec => []MemoryLimit` |
| `CleanupBounds` | `RateLimiter_proofs` | `Spec => CleanupMakesRoom` |
| `SharedWindowLimits` | `RateLimiter_proofs` | `Spec => []SharedLimit` |
| `RefusalsAreUncounted` | `RateLimiter_proofs` | `Spec => []RefusedUncounted` |
| `AccessTypeCorrect` | `Access_proofs` | `Spec => []TypeOK` |
| `RevokedIsOut` | `Access_proofs` | `Spec => []RevokedStaysOut` |
| `SessionsKeepTheirCsrf` | `Access_proofs` | `Spec => []SessionHasCsrf` |
| `AdminsOnly` | `Access_proofs` | `Spec => []AuthorisedDuring` |
| `AccountsAreKept` | `Access_proofs` | `Spec => AccountsKept` |
| `DetectionTypeCorrect` | `Detection_proofs` | `Spec => []TypeOK` |
| `SetsAreConsistent` | `Detection_proofs` | `Spec => []SetsFromOneAnswer` |
| `BreakerIsExact` | `Detection_proofs` | `Spec => []BreakerCounts` |
| `TermsAreKnown` | `Detection_proofs` | `Spec => []TermsKnown` |
| `PeopleAreKept` | `Detection_proofs` | `Spec => PeopleKept` |
| `NoOverlapIsKept` | `Detection_proofs` | `OverlapsSpec => []KeptAreDisjoint` |
| `StrongestFindingsAreKept` | `Detection_proofs` | `OverlapsSpec => []StrongestAreKept` |
| `DroppedWithReason` | `Detection_proofs` | `OverlapsSpec => []DroppedForAStronger` |
| `ConsoleTypeCorrect` | `ConsoleFlow_proofs` | `Spec => []TypeOK` |
| `ConsoleIsTracked` | `ConsoleFlow_proofs` | `Spec => []ConsoleTracked` |
| `ZipIsReverted` | `ConsoleFlow_proofs` | `Spec => []ZipReverts` |
| `ZipIsOpened` | `ConsoleFlow_proofs` | `Spec => []ZipOpens` |
| `ReadersTellApart` | `Pseudonyms_proofs` | `PseudonymsSpec => []PseudonymsTellApart` |
| `ValuesReplacedAsWholes` | `Pseudonyms_proofs` | `PseudonymsSpec => []ReplacedAsWholes` |
| `TextsRevert` | `Pseudonyms_proofs` | `PseudonymsSpec => []RevertRestores` |
| `DocumentsHideTheSame` | `Pseudonyms_proofs` | `PseudonymsSpec => []RunsHideTheSame` |

The first conditions are needed: a directory that is removed in part can keep originals
whose record is gone, or a record whose archive is gone; and a second worker can start
an apply from its stale ERROR copy (section 5).

### Batches

`TypeOK` is not inductive: a worker past `Fetch` uses `cache[w]` as a record,
and `NoBatch` has no fields. `TypeInv == TypeOK /\ WorkersHold` adds that a
worker at such a step holds a batch and a task; it is inductive, with a lemma
per action. The bound on retries is part of it: `tries \in 0 .. MaxRetries` is
preserved by `EndTask` because of its guard.

For the refinement, `HandlerInv` says what cannot happen beside a route: before
the batch is created, and while its files arrive, no task is queued or runs (so
the first status the route writes cannot hide a final one); between the enqueue
and the last write the route holds an in-flight batch, and so does the API, or
it has forgotten the batch. `ViewInv == TypeInv /\ HandlerInv` is inductive.
Every step of the workers maps to a stutter, as `cache[Api]` is not theirs
(`TaskStepFrame`); each API action maps to a named step of `ClientView` or to a
stutter, which rests on what `Lookup` returns when the cached status is stable
(`HeldOrInFlight`).

`DoneKeepsArchive` speaks of the store only, but any cache may hold a final
record and write it back, and a worker past `Pack` is about to write one.
`ArchiveInv` therefore says that while uploads are there without an archive
(`Bare`), neither the store nor any cache holds a final record and no worker is
at `finish` (`Unfinished`). If removals work, no step takes an archive away and leaves
the uploads, and only `Pack`, which makes one, leads to `finish`. That the batch is
known to nobody when its uploads arrive is the second conjunct.

`OriginalsAreOwned` is inductive on top of `ViewInv`: only `Create` brings
uploads, only a cleanup takes the record, and it takes the uploads too.

`FindingsBeforeReview` is the hardest: an APPLYING written by the worker is made
from the worker's own copy. `ScanInv` orders the copies by whether they hold
findings: once the API has seen findings, or an apply is queued, running or
about to be written (`Seen`), neither the store nor the worker's copy is without
them (`OrderInv`); and a copy of the worker is never behind the store. The one
write that goes back, `FinishEnqueue` of the scan over a scan that is already
over, is allowed because no apply can be pending then. A second worker breaks
"the worker's copy is never behind".

### The store

`DiskIsCurrent` rests on the bookkeeping of saves, `BookInv`: what a running save
is about to write is in nobody's set of superseded contents (`SaversAreNew`),
running saves of one record differ, and while a removal runs nobody holds
absence for superseded (`AbsenceIsFresh`). `DiskInv` then adds that an operation
past its file step has nothing on disk that its acknowledgement would supersede;
another process may have written there since, but only something new. Steps are
grouped: `Move(p)` says what every step does by which an operation goes on or
ends, and most actions are shown to be one. `LoadsAreCurrent` adds the same for
the keys (`RedisInv`), and that what a load must not return stays superseded
(`LoadersInv`). The condition is for the passphrase: without a secret it is
nowhere but in Redis, and the theorem does not speak of that.

### The limiter

`RequestInv` bounds the age of the instant a running request has read by
`Delay`. `LogInv` ties the observer to the window: an admission by Redis is
counted under an instant at most `Delay` before it, that instant is a member for
as long as it is within the window, and two admissions never share a member. So the
admissions of the last `Window - Delay` map one to one into the recent members
(`MembersBound`), and at the moment of the last one these were at most
`Limit`. `Delay < Window` is used; `Slack` only keeps the key alive
for long enough. A restart of Redis goes back to the last dump, and the observer with it:
`DumpInv` says of the dump and its part of the log what `LogInv` says of the window, and
`DumpLimit` that it never knew of more recent admissions than `Limit`.
`RefusedUncounted` is inductive on these with `DumpCovered`, why a member of the dump may
be counted.

`MemoryInv` says that an admission from memory which the observer still knows is
a timestamp of its bucket, that the bucket is there, and that its `last_access` is
not older; and that a bucket never has more than `Limit` timestamps of the window.
A bucket that goes for its age then holds no admission of the window, as
`Window <= TTL`. The admissions of one bucket map one to one into its timestamps
by their numbers, so they are at most `Limit`.

`OrderInv` says that `newer` orders the buckets of a process totally. Of those a
cleanup keeps, the least recently used one therefore exists (a minimum over a
finite set, `OldestKept`) and has all the others among its newer ones; it
was not evicted, so these are fewer than `MaxClients`.

### Access

A session goes from the login that creates it through its two stores and then
leaves. `SessionInv` is the conjunction of `Created` (until it is stored it is in no
list and belongs to one request), `InOnePlace` (one in the memory of a process is
not in Redis, and all its requests are that process's) and `Leaving` (what a
logout is about to confirm has left Redis, and a confirmed one that is in some
memory is out of the sight of its process, which has a client). The
second conjunct is what a login in memory needs, whose logout goes to Redis because the
process found a client in between. To have left Redis is `Out`: not there, or brought
back by a restart. The dump has no session that is not in Redis yet or is in a memory.
`AdminInv` says that the observer has every
request whose user is an administrator now, so a check that succeeds
finds its request in it.

`SessionHasCsrf` is about two keys that are written by two calls and listed and
removed by four. `CsrfInv` says that a login which has written its session and not
yet its token shares the session with no other request; and that a token in the
list of a global logout belongs to a session which is in its other list too, or
may lose it: it met that logout in its login (`overlap`), or it has left Redis
or was never handed out, and its login is over (`Past`). `DumpInv` says the same of the
last dump: a session without its token there was in its login when it was written, is
known to the observer, or was never answered (`Unanswered`); so a restart brings no
other back. And what is being removed has left Redis or is known (`GoneInv`). Steps that
only remove, and never the token of a session that stays, are
grouped (`Calm`).

`AccountsAreKept` is a property of each step on its
own, given the types: an insertion takes names without a row only.

### Detection

`DirectoryInv` says of a refresh under way (`Underway`): its answer is empty only
if its client's configuration is disabled or the search was cut short; it is at its second exchange if and
only if it holds the lock, and then the first structure is what it is about to
store as the second. While nobody holds the lock the two are equal, which
is when a scan reads them. `TermsInv` says that outside a reload every
file was loaded or could not be read, that this is so of every list that was replaced, and
that a search both of whose reads were outside a reload is of such a list, which no later
reload touches. `BreakerCounts` is inductive with the types.

`OverlapsInv` adds to the three properties of the findings the loop has come to that
what is kept begins no later than anything that is still to come. So a finding that
replaces the last one kept begins after the one before it ended, and what it
replaces overlaps it and is not stronger, which is the reason for
dropping either.

### The console

`TypeOK` is not inductive: who works on an object holds one, and a task is tried again
only below its bound (`HeldInv`). `Inv == TypeOK /\ HeldInv` is, and is proved in parts,
each of which most actions leave alone (`InvParts`).

`ConsoleTracked` is inductive by itself. `ZipOpens` needs `KeyInv`: the passphrase is the
last one there is, or none, and the key of a worker is the last one unless it is noted
as stale.

`ZipReverts` needs that all copies of the batch agree. `Agree(m)` says that the store,
the object of the API and the copy of a worker that is about to write a mapping have the
decisions `m`. `FlowInv` says that they agree with what an apply has read, unless it was
noted that another copy was stored since (`raced`), and with the text, unless that was
noted (`reviewed`). Each step stores a copy, which the history compares with what was
read (`FlowStored`), or only loses, loads or puts down copies there are (`Subdued`); and
whoever writes the mapping writes it from one of the copies.

### Pseudonyms

`EngineInv`: what a key was assigned was made for it with a number its type
has reached (`Numbered`), no two keys of a type with its own prefix were assigned the
same (`NoneTwice`), and a finding carries what its key was assigned (`Carried`).
A new key takes a number its type has not reached, and `GenerateApart` shows that
a prefixed pseudonym tells its type and its number: the first letter is the
prefix, which neither `ENTITY` nor an address is, and the rest is the numeral.

The other three theorems are about texts of any length, and need what `Replace` and
`Join`, two recursive functions, give for every text. The induction is over sets
instead of predicates: `FromZero` says that a set which holds 0 and with each number
the next holds all numbers, and follows from the well-founded order of finite sets;
`Backwards` is the same for the places of a text, from its end. With them
`ReplaceAcross` shows that no occurrence of a text without a gap goes across one,
`ReplaceJoin` that a key is therefore replaced word by word, and `JoinCut` that the
two runs of a document, put together, are its text.

From there on a text is a sequence of words. `TextInv` says that each word has become
something, the same in the text and in the runs of every document, and that a word
without a value has not changed (`Image`). If values and pseudonyms do not mix, what
a word has become is its pseudonym if its key is done and itself if not (`ShownBy`):
the next key is longer than those left, so it occurs in no word that still waits
(`LongerDoesNotOccur`), and not in a pseudonym that is there. During the
revert each pseudonym that is done is a value again (`Back`), for the same reasons.

### Assumptions, and what is only model-checked

`Api \notin Workers`, `NoReview \notin Reviews`, `NoKey \notin Keys` and their like
say that names differ; the bounds are natural numbers; `RemovalFails` is
Boolean; the limiter's delay is below its window and a bucket lives as long as
the window; the directory's administrators are in the directory; two numbers are
written differently; no address begins with the prefix of a type, and `ENTITY`
is none (`type_prefixes` in `engine.py`). The modules state them and TLC evaluates
them.

Values are words that are not empty and have no gap in them, so is the
reviewer's choice but for the gap, and texts are sequences of words.

Only model-checked are `QueueDrains`, `FreshInTheEnd` and `GoneInTheEnd`, which as
liveness under fairness are out of the prover's reach.

## 7. Not modelled

- Regex and SOC detectors, parsers, report, profiles, policies, configuration:
  functions without shared state, or files read whole.
- Audit, metrics, logging, exceptions: output nobody reads back.
- The ML detector and the detector cache: no route reaches them.
- Reading routes (previews, health), the progress channel and the SSE stream. What Celery
  keeps of a task, with which the status route answers.
- The rebuilding of PDFs and images, and thresholds of the safety label.
- Inside pseudonyms of e-mails, hosts and URLs in light mode, whose domain has a counter of
  its own; `Pseudonyms` takes them as one letter kept. A host name found after an URL of
  the same domain can get the pseudonym of that URL's domain.
- Cryptography and signatures: a key is a value, a token cannot be forged.
- The frontend is a client. The models let a client call the routes they have in any
  order and at any time, the batch apply of a console batch included; the
  download of files refuses such a batch.
- Deployment files; the models take from them how many processes there are.
