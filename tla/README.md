# Verification of Fundamental-Terminal

Fundamental-Terminal serves company research pages from a Postgres database. A
page whose data are missing or stale is answered at once from what is there,
and a background refresh of the company is queued; worker processes fetch SEC
filings and prices and rebuild the datasets, and the browser follows the job
over server-sent events. Redis, when it is configured, carries locks, the event
channel and a shared cache of rendered responses; every use of it has a fallback
without it.

The core that can go wrong over time is small and sits under most of the code:
the refresh queue, the event stream of a job, what a job does to the datasets of
a company, the pages that read them, and the two caches. That core is what these
modules model, check with TLC and prove with TLAPS.

## Files

| file | content |
| --- | --- |
| `JobLifecycle.tla` | abstract specification: what the queue promises of a job |
| `RefreshQueue.tla` | the queue: enqueuers, workers, heartbeats, leases, recovery, Redis lock |
| `RefreshQueueProofs.tla` | TLAPS proofs about `RefreshQueue`, with that it implements `JobLifecycle` |
| `RefreshQueueLockProofs.tla` | TLAPS proofs about its Redis lock and its `active_job_id` flag |
| `JobEventStream.tla` | from the persisted events of a job to the page that follows it |
| `JobEventStreamProofs.tla` | TLAPS proofs about `JobEventStream` |
| `RefreshPolicy.tla` | which datasets a job refreshes, as pure operators |
| `DatasetRefresh.tla` | a job's work on the datasets and derived caches of a company (uses `RefreshPolicy`) |
| `DatasetRefreshProofs.tla` | TLAPS proofs about both |
| `DatasetHonestyProofs.tla` | TLAPS proof of `HashIsHonest` |
| `CompanyPages.tla` | the routes over those data, composed with `DatasetRefresh` |
| `CompanyPagesProofs.tla` | TLAPS proof about `CompanyPages` |
| `HotCache.tla` | the shared response cache: single flight, store, invalidation |
| `HotCacheProofs.tla` | TLAPS proofs about `HotCache` |
| `SharedUpstreamCache.tla` | the cache of upstream responses: memory LRU, Redis, locks |
| `SharedUpstreamCacheProofs.tla` | TLAPS proofs about `SharedUpstreamCache` |
| `MC*.tla`, `*.cfg` | the instances TLC checks |
| `PROJECT.json` | components, runs, map to the source, findings, hazards, theorems |

## Inventory

| component | state | operations | interacts with |
| --- | --- | --- | --- |
| refresh queue, `SharedStatusBroker` (`app/services/status_stream.py`) | tables `refresh_jobs`, `refresh_job_events`; Redis key `refresh-lock:{company}:company_refresh`, wake-up list | `create_job_result`, `claim_next_job`, `touch`, `step`, `complete`, `fail`, `requeue_expired_jobs` | routes and CLI (enqueue), workers, event stream |
| worker loop (`app/worker.py`) | the claimed job, a heartbeat thread per job | recover, claim, process, heartbeat | queue, job runner |
| job runner and orchestrator (`app/services/sec/refresh_orchestrator.py`) | database session, reporter with the claim token | `run_refresh_job`, `refresh_company`, one job per dataset chosen by `RefreshPolicy` | queue, refresh state, SEC client, market data |
| refresh state (`app/services/refresh_state.py`) | `dataset_refresh_state`: freshness, payload hash, `active_job_id`, failures; pending invalidations of a session | `mark_dataset_checked`, `release_refresh_lock`, `release_refresh_lock_failed`, after-commit hook | queue, hot cache |
| derived caches (metrics mart, capital structure, earnings models, brief, charts) | stored payloads with the fingerprint of their inputs | `_refresh_*_cache`: skip or compute and mark | orchestrator, routes |
| company routes (`app/api/handlers/`) | none | read database or hot cache, `_trigger_refresh` | hot cache, refresh state, queue |
| event stream (`status_stream.py`, `api/handlers/jobs.py`, `frontend/hooks/use-job-stream.ts`) | pub/sub connection, `last_sequence`, bounded queue per subscriber, events in the page | publish, subscribe, gap fill, recovery, polling, send, reconnect | queue, browser |
| hot response cache (`app/services/hot_cache.py`) | Redis records and tag sets, Redis fill locks, local entries, `_inflight` objects | `fill_or_get`, `store`, `invalidate`, `clear` | routes, refresh state |
| shared upstream cache (`app/services/shared_upstream_cache.py`) | memory LRU with a byte budget, Redis, fill locks | `fill_json`, `get_json`, `store_json`, `run_singleflight` | SEC and market clients |
| rate limiter (`app/services/rate_limit.py`) | fixed windows in Redis or per process | `check` | middleware |
| frontend API cache (`frontend/lib/api/`) | entries with TTL, in-flight map | stale-while-revalidate read, invalidation | pages |
| SEC client, bulk ingest, market data, macro providers | files, HTTP sessions, throttle | fetch, parse | external services |
| model engine, charts, brief, screener, peers, ownership analytics | none | pure computations on rows | routes, orchestrator |
| handlers, schemas, middleware, migrations, frontend components | none of their own | formatting, headers, DDL, rendering | |

What is hard here, and what the properties are about:

* processes act on two stores (Postgres and Redis) that no transaction spans,
  so every handler can be cut between a commit and a Redis command;
* a lease may expire under a worker that is slow and not dead, so two workers
  may run the same job;
* locks are released by GET, compare and DELETE and renewed by SET XX, SET NX,
  each a command of its own;
* pub/sub loses messages and publishers overtake each other;
* a cached payload may be computed from data older than the invalidation;
* a job of many steps may fail at each, has committed some of them by then, and
  leaves hashes behind by which later jobs decide what needs no work;
* an error in one document of a fetch is swallowed: what could be read is stored
  under a hash that does not tell;
* locks have time limits, and the work under them may take longer;
* freshness is judged by several clocks (the job's window, the registry's TTLs,
  the ages of hot entries), and data that two of them take for fresh while a
  third hides them would never be refreshed.

`PROJECT.json` lists the hazards at their lines, with the property that would
catch each.

## RefreshQueue

One action is one database transaction or one Redis command. `epc` and `wpc`
say where an enqueuer or a worker is between two of them:

| state | next step in the code |
| --- | --- |
| `acquire`, `held`, `check`, `insert`, `conflict` | the parts of `create_job_result` in order |
| `xx`, `nx` | the two SETs of `_refresh_enqueue_lock_ttl` |
| `get`, `del` | GET, compare and DELETE of `_release_refresh_enqueue_lock` |
| `run` | inside `refresh_company` |
| `mark` | `release_refresh_lock` after a result |
| `failmark`, `fail` | `release_refresh_lock_failed`, then `job_reporter.fail` |

The heartbeat thread is `Touch` (database) followed by `TouchRelock` (Redis),
kept in `touches`, because the thread may be between the two when the job ends.
A Redis error in a renewal or release makes the code give up silently; a
database error is swallowed by `_record_event` but not by the marks. Faults are
drawn from a budget, `MaxFaults`, and from the kinds a configuration allows.

Abstractions. A job id stands for the uuid and for the `requested_at` stamp
taken with it, so ids are ordered by time of request. The claim token, a fresh
uuid, is the number of the claim: all the code does with it is to compare it,
and no two claims of a job have the same. Deadlines (lease, dedupe window, lock
TTL) are "passed" or "not passed". `kind`, `dataset` and `as_of_key` are the
same in all calls. The `BLPOP` wake-up list is a latency hint next to polling
and is left out. The content of events and error texts is left out.

`LockOutlivesJobs` states the operators' intention for the lock TTL: a lock
does not expire while a job of its company is queued, running or being worked
on. `LeaseExpires` under a live owner is a fault (`stall`), as the heartbeat
renews the lease every third of its duration.

Properties:

* `SingleOwner`: at most one worker passes the claim-token fence of a job, and
  none for a job that is not running.
* `TerminalIsFinal`: no step changes a completed or failed job.
* `LifecycleSpec`: the queue implements `JobLifecycle`, with the worker that
  passes the fence as the owner. This is what the event stream relies on:
  sequence numbers grow by one, and nothing follows a terminal event.
* `OneActivePerCompany`: with Redis, a known company and sufficient TTLs, one
  refresh of a company is active, whatever the reason. Without Redis this is
  not so: the unique index includes the reason, and a manual and a stale
  refresh are queued side by side.
* `ActiveFlagCleared`: at rest `active_job_id` is empty. The marks clear it
  whatever job it names, and this is what saves the flag when jobs overlap. A
  crash between the completion and the mark, or a failure of both marks, does
  leave it set until the next refresh, so the run has one fault and no crash.
* `EveryJobFinishes`: liveness, see below. A lock that is left behind has no
  property of its own: it goes away with its TTL, whatever the code does.
* `LockNamesJob`: violated, see Findings.

## JobEventStream

One job, one page. `log` is the table of events (its length is the job's
`event_sequence`), `unpublished` the events whose PUBLISH is still to come;
publishers are different processes, so these are taken in any order. `task` is
the subscriber coroutine of `async_subscribe`; every `await` in it is a state,
and `snapshot` holds what `_async_job_snapshot` returned until it is used. The
handler's backlog and queue are the other two places an event can be. The page
keeps what it has over reconnects and drops events it has already.

`Send` takes an event from the handler to the page in one step; an event lost
on a breaking connection is a `Disconnect` before that `Send`, which is the same
for the page, as every connection begins with the whole backlog.

* `PageSeesPrefix`: the page has events 1 to n, in order, without a gap.
* `TaskEndsWithTerminal`: the task ends by itself only with the terminal event
  in the backlog or the queue.
* `TerminalDelivered`: after the end of the job the page learns of it, or the
  task was killed by a subscribe or database error.

Bounds: four events give a queued, a claimed, a progress or requeue, and a
terminal event, so that gaps of one and two are possible; `QueueSize` is one
less than that, the smallest queue a page that is connected from the first
event on cannot overflow.

## HotCache

One logical key. A payload is the number of commits it was computed from. The
program counter of a request follows `fill_or_get` and `_fill_or_wait_remote`:
`read1`, `join` (in-process single flight), `wait`, `read2`, `coord` (SET NX),
`read3`, `fill`, `filled`, `store`, `rel1`, `rel2`, `finish`, and the polling
loop `poll`, `exists`, `relock`. `_InflightFill` objects are named by the
request that created them, so that a follower which timed out writes into, and
removes, the object of its leader as the code does. A process whose start-up
connection failed may reconnect before a call, which is why `connected` is
per process and two processes may use different stores for a while.

`Commit` is the commit of a session with a changed dataset; its invalidation is
resolved through the tag set and deletes the record in a MULTI block. The tags
of a key are the same in every call, so that loading the old tags before the
store needs no step of its own. A RedisError may hide a block that was executed.
Records of the legacy two-key layout, `clear`, the `*_sync` twins and metrics
are left out.

* `OneFiller`: nobody computes the payload twice at the same time in a process
  or under the Redis lock, as long as no deadline is exceeded.
* `InvalidationRemoves`: an invalidation leaves nothing older than its change
  in the store it worked on. It holds because record and tag sets change in one
  block, whatever expires in between.
* `EveryCallReturns`: liveness.

`HotCache` takes an invalidation to ask for tags the entry carries; which tags
the routes and the refresh really use is in `CompanyPages`.

## RefreshPolicy and DatasetRefresh

`RefreshPolicy` has the properties of the class of that name, one operator each,
the order in which `_refresh_cached_company` tests them, and what each branch
fetches. `DatasetRefresh` runs a job along the branch. `todo` is what is left of
the job, one element per transaction, fetch or cache; `CachedSteps` and `SecSteps`
are the bodies of `_refresh_cached_company` and `_refresh_from_sec` in order.

| variable | in the code |
| --- | --- |
| `up`, `snap` | what is published, and the filing index and company facts read by `_load_refresh_bootstrap_inputs` at the start of the job |
| `db` | per dataset: the stored rows, what is missing in them (`gaps`), `payload_version_hash`, and whether `last_checked` is within the window |
| `others` | the version of what the brief reads besides the company's datasets: model runs, rows of peers, proxy statements, the macro snapshot |
| `own` | what the session has written and not committed |
| `held` | the `DatasetRefreshState` objects the session keeps alive: `get_dataset_state` returns them from the identity map, unrefreshed by Core upserts and by commits (`expire_on_commit=False`); a rollback expires them |
| `known`, `force`, `reported` | the company row, the flag of the job, its last event |

A row is a version number, or for a derived cache the values it was computed
from, so that "computed from the current rows" can be asked. A hash says how it
was made and of what; two hashes are equal when the code's digests would be. The
hash of prices covers the fetched tail only. `FingerprintOf` and `ReadBy` are
separate tables, taken from the fingerprint functions and from the builders: that
the first covers the second, as far as the company's datasets go, is what could be
wrong. `others` is in the second and in no fingerprint: it changes at any moment
(`OthersChange`: the models route and the statements step of a job compute model
runs, a peer is refreshed, proxy or macro data arrive). An instance may leave out
datasets; these count as fresh, and `CoverAssumption` keeps an instance from
leaving out a cache through which a fingerprint covers a source.

A failing fetch ends the job or rolls its dataset back, but an error in one
document is swallowed: by the parser of filings and the statements step
(`filing_parser.py:161`, `255`, `refresh_orchestrator.py:2247`, `6184`), earnings
releases (`earnings_release.py:248`, `313`), comment letters, beneficial ownership,
filing events, and 13F data fund by fund. What could be read is stored, marked and
completed as usual, with the dataset in `gaps`. What follows depends on the hash:

| dataset | hash | a missing document |
| --- | --- | --- |
| financials | of the filing index | unforced jobs reuse the statements until a new filing |
| earnings in 8-K filings, comment letters | of the filing index | the stored accession number is not fetched again before a forced refresh |
| earnings in 6-K filings (`SixK`) | of the filing index | the release is left out, fetched again, and added under the same hash |
| beneficial ownership, filings | of the fetched rows | fetched again by the next fetch, under another hash |
| institutional | of the holdings of the funds that answered | old holdings of the failed fund stay; the hash may be one of an earlier state |

One job of a company runs at a time (`OneActivePerCompany`). `Next` has unforced
jobs; the routes alone ask for forced ones, so these, and the deletion of
earnings releases they begin with, are in `CompanyPages`. Forecast accuracy and
the oil overlay, from which no modelled dataset is computed, are left out.

* `RowsMatchHash`: the hash of a fetched dataset names the version of its stored
  rows after every commit, rollback, failure and crash, and, where it is a hash of
  the rows, whether something is missing in them. It does not say that rows under
  a hash of the filing index are complete; the code does not keep that. Hashes of
  the holdings of some funds are excepted.
* `HashIsHonest`: a derived cache that the next job will take for unchanged was
  computed from the versions of the company's datasets that are in the database.
  In `others` it may be older: the code leaves the brief as it is when only these
  have changed.
* `GapsAreHonest`: such a cache lacks the documents that its inputs lack, no more
  and no fewer. A repair of rows under an unchanged hash would break this for the
  caches computed from them; the two datasets whose documents the code does fetch
  again under the same hash (institutional, 6-K earnings) are excepted.
* `Converges`: in the end every dataset has the version upstream publishes and the
  caches are computed from these, whatever failed before, also when the last commit
  of a job fails after it was reported as completed. Documents that could not be
  read are in the end stored in the datasets that are hashed by their rows, and may
  stay missing in the others.
* `CompletedIsCurrent`: violated, see Findings.

## CompanyPages

The 17 company routes as records: the datasets they read, how they use the hot
cache, their tags, and the reasons for which they call `_trigger_refresh`. `hot`
has the entries, `shown` the data of the last response, `req` the job that waits
in the queue. A visit is one step (the interleavings of a fill are in
`HotCache`); the steps of the job are those of `DatasetRefresh`, with the
after-commit invalidation. `Hits` is the intersection of tags that
`invalidate` computes.

* `PagesCatchUp`: in the end every page shows what upstream publishes, although
  no request waits for data and visits alone start the jobs.
* `ForcedJobsStop`: a company with data is not refreshed by force for ever. This
  needs a company that reports segments and pages other than governance, see
  "Deviations without a run".
* `CommitInvalidates`: violated, see Findings.

## SharedUpstreamCache

`local[p]` is the memory of a process, oldest entry first, with the byte count
the code keeps next to it; `remote` and `rlock` are in Redis, `llock` in the
process. The steps of a thread are those of `fill_json` and `run_singleflight`:
`idle` (the lookup of a call), `acquire` (SET NX), `acquire_local`, `recheck`,
`fill`, `store` (in Redis, after the memory), `release` and `delete` (GET with
compare, and DELETE), and the waiting loop `wait`, `exists`. `connected` is chosen
when a process starts, as the client is built once. `BuildFilingIndex` stands for
the callers that store without a lock; it is what evicts other entries.

Both locks last 30 s (`config.py:226`). A fill may take longer: several attempts
with the client's timeout each, and sleeps as long as `Retry-After` says
(`market_data.py:654-668`). So `RedisLockExpires` and `LocalLockExpires` may take a
lock from a holder that is still at work, and its DELETE may come when the lock is
another's. A caller that waits for a lock gives up after 15 s (`config.py:227`) and
fills without one (`Deadline`). Neither is a fault; `overruns` counts them, for the
bound and for the property. Metrics and `clear_local`, which tests use, are left out.
The loops over a memory are recursive functions on its positions (`Kept`: what is
left of it; `Sums`: its bytes), which the proofs can reason about.

* `WithinLimits`: both limits hold, a key has one entry, and the byte count is
  that of the entries, through replacements, expiry and evictions.
* `FetchesBounded`: single flight as far as the code provides it. `fetches` counts
  the fills of a payload that run, or are stored and not expired, all of them and
  those begun under the Redis lock; fills without a lock are counted like others. A
  caller that finds the Redis lock taken gets the local lock of its process and
  fetches as well. So the bounds are 1 under the Redis lock, and 1 plus the number
  of connected processes in all, each with one more per fault and per overrun: a
  lock that ends early lets in one caller and no avalanche.

## Runs

| run | expects | instance | shows |
| --- | --- | --- | --- |
| `queue_lifecycle` | pass | 1 company (new), 2 reasons, 2 enqueuers, 2 workers, 2 jobs, 1 fault (db, redis, stall), locks may expire | `TypeOK`, `SingleOwner`, `ActiveFlagCleared`, `TerminalIsFinal`, `LifecycleSpec` |
| `queue_single_flight` | pass | known company, Redis, 1 fault (db, crash, stall), TTLs outlive jobs | `OneActivePerCompany` |
| `queue_liveness` | pass | 1 enqueuer, 2 workers, 2 jobs, 1 fault of any kind | `EveryJobFinishes` |
| `queue_dedupe_lock` | violation | 1 enqueuer, 1 worker, no faults | `LockNamesJob` |
| `stream_delivery` | pass | 4 events, queue of 3, 2 faults of any kind | `TypeOK`, `PageSeesPrefix`, `TaskEndsWithTerminal`, `TerminalDelivered` |
| `cache_safety` | pass | 3 requests on 2 of 3 processes, 1 commit, 1 fault (redis, fill, cancel, crash) | `TypeOK`, `OneFiller`, `InvalidationRemoves` |
| `cache_liveness` | pass | 3 requests on 2 processes, 1 fault of any kind | `EveryCallReturns` |
| `dataset_refresh` | pass | financials, prices, filing events; brief, charts; 2 versions, 1 change of `others`, 1 fault (failed fetch or commit, swallowed error, crash) | `TypeOK`, `RowsMatchHash`, `HashIsHonest`, `GapsAreHonest`, `Converges` |
| `dataset_skipped_recompute` | violation | financials, prices; metrics, capital structure; no faults | `CompletedIsCurrent` |
| `company_pages` | pass | financials, earnings; earnings models, charts; 3 pages; 2 versions, no faults | `PagesTypeOK`, `PagesCatchUp`, `ForcedJobsStop` |
| `pages_invalidation` | violation | financials, prices; the financials page | `CommitInvalidates` |
| `upstream_cache` | pass | 3 threads in 2 processes, with or without Redis, 1 fault, 1 overrun | `TypeOK`, `WithinLimits`, `FetchesBounded` |

Why the bounds are enough. Two jobs of one company are the fewest that can
conflict, two workers the fewest that can contend for a claim; one stall gives
the full cycle expire, requeue, claim again, late write of the first worker.
Two requests of one process and one of another are the fewest that use both
single-flight layers, of either cache. The datasets of `dataset_refresh` have one
of each kind: one whose hash a session holds and does not tell what is missing, one
with a hash of the fetched tail and a prefetch, one hashed by its rows, with a
shortcut branch, that reaches the charts only through the brief; derived caches
both on sources and on each other. Two versions let data change once under a
running job, and a fault, a swallowed document included, can fall on each of its
steps. The
pages of `company_pages` are one that serves stale entries, one that reloads and
one without an entry. In `upstream_cache` a payload of 2 bytes and the index of 1
do not fit the memory of 2 together, and a payload of 3 does not fit at all.

Symmetry is used where the elements are interchangeable (enqueuers, workers, the
requests or threads of one process) and never with liveness. Deadlock checking is
off for the queue, the stream and the hot cache, which really stop with all calls
made and all jobs ended; it is on for the others.

Fairness. Queue: a live worker goes on claiming and working (no wait in its loop
is without a timeout), recovery runs every interval, and the lease nobody renews
runs out. Nothing is assumed of enqueuers, heartbeats, progress or
faults. Stream: the event loop runs the task and the handler, timers fire, and
the browser reconnects; nothing is assumed of publishers, so delivery rests on
the recovery query alone. Cache: the event loop runs the steps of a request and
the TTL of a lock nobody works under passes. Datasets: the worker goes on with a
job (weak), a company is visited or refreshed on a schedule again and again
(weak), and a dataset that can age between jobs does (strong, as it can age only
while no job runs and jobs may follow each other closely). Pages: the same, with
the visits themselves in the place of the schedule, and the ages of hot entries.
Nothing is assumed of `Publish` and of failures.

## Proofs

Every invariant and every safety action property of a passing run is proved for
all values of the constants, `GapsAreHonest` alone excepted. The table gives what a theorem assumes beyond the
named assumptions of its module.

| theorem | states | assumes |
| --- | --- | --- |
| `TypeCorrect` | `TypeOK` of `RefreshQueue` | |
| `ClaimIsExclusive` | `SingleOwner` | |
| `FinishedJobsAreFinal` | `TerminalIsFinal` | |
| `QueueImplementsLifecycle` | `LifecycleSpec` | |
| `LockMakesRefreshesUnique` | `OneActivePerCompany` | `LockWorks` |
| `FlagDoesNotOutliveRefreshes` | `ActiveFlagCleared` | `MarksWork` |
| `PageIsInOrder`, `StreamTypeCorrect` | `PageSeesPrefix`, `TypeOK` of `JobEventStream` | the queue holds the events |
| `TaskEndsOnlyWithTerminal` | `TaskEndsWithTerminal` | the queue holds the events |
| `SingleFlight` | `OneFiller` | no timeout, no stall |
| `CacheTypeCorrect`, `InvalidationIsThorough` | `TypeOK` of `HotCache`, `InvalidationRemoves` | |
| `DatasetTypeCorrect`, `HashesMatchRows` | `TypeOK` of `DatasetRefresh`, `RowsMatchHash` | |
| `UnchangedMeansCurrent` | `HashIsHonest` | |
| `EveryJobMakesProgress`, `SkipMeansFresh` | facts about `RefreshPolicy` | |
| `PagesTypeCorrect` | `PagesTypeOK` | |
| `SharedFetchesBounded`, `MemoriesWithinLimits`, `SharedCacheTypeCorrect` | `FetchesBounded`, `WithinLimits`, `TypeOK` of `SharedUpstreamCache` | |

### Queue

`RefreshQueueProofs` proves, for any sets of companies, reasons, enqueuers and
workers and any bounds, from `ConstantsAssumption` alone:

* `TypeCorrect`: `Spec => []TypeOK`.
* `Invariance`: `Spec => []Inv` with `Inv == TypeOK /\ IdInv /\ ClaimInv`.
* `ClaimIsExclusive`: `Spec => []SingleOwner`.
* `FinishedJobsAreFinal`: `Spec => TerminalIsFinal`.

`SingleOwner` is not inductive: it says nothing of a worker that has lost its
claim, and such a worker must not match a later claim of the job. `ClaimInv`
therefore says that no token exceeds the number of claims made, that workers
hold different tokens of a job, and that only a running job has a token. A new
claim draws a number above all of them. `TerminalIsFinal` needs in addition that
a row is inserted only under an id without a row (`IdInv`).

The same module proves `QueueImplementsLifecycle`: `Spec => LifecycleSpec`. The
owner of a job is defined by a CHOOSE over the workers that pass its fence;
`OwnerIs` shows from `Inv` that there is at most one, which turns `owner` into
an ordinary function. Then every action is classed: inserts are `Create` (this
needs `SeqInv`, a second inductive invariant: an id without a row has no
events), claims `Claim`, fenced events `Progress` and `Finish`, recovery
`Requeue`; a worker that dies or lets go of a job it still owns is `Abandon`,
and everything else, unfenced writes of former owners included, changes nothing.

`RefreshQueueLockProofs` proves two properties that depend on how the system is run.

* `LockMakesRefreshesUnique`: `OneActivePerCompany` under `LockWorks`, which says
  that Redis is configured and answers, that the companies are known, and that the
  lock's TTL outlives the work it covers. Each is needed: an enqueue of an unknown
  company asks for no lock (`status_stream.py:347`), one without Redis or with a
  Redis error takes it for granted (`:1490`, `:1500`), and a lock that runs out under
  a job lets the next caller in with another reason. Crashes, database errors,
  stalls, expired leases and late renewals are allowed.
  The right to be active passes from the enqueuer that was granted the lock to the
  job it inserts and on to the worker that ends the job. `LockInv` says that one
  of these at most has it for a company, and that the key exists while one has,
  although the renewal of a former job may have overwritten its value: a caller
  asks whether the key exists and not whose it is.
* `FlagDoesNotOutliveRefreshes`: `ActiveFlagCleared` under `MarksWork`, which says
  that no worker dies, and that there is at most one fault in all if the database
  may fail. It excludes what the property is known not to survive (see
  `RefreshQueue`). Stalls, Redis errors, expired locks and overlapping jobs are
  allowed, in any number where the database does not fail.
  `FlagInv`: while the flag of a known company is set, somebody owes a mark: an
  active job whose owner, if it has one, is not past its marks, or a worker that
  has ended a job and is about to mark.

### Event stream

`JobEventStreamProofs` proves, for any number of events and faults, from the
assumption that the subscriber queue can hold the events of the job
(`MaxEvents \in 1..QueueSize`; a queue that overflows loses events, see
"Deviations without a run"):

* `StreamTypeCorrect`: `Spec => []TypeOK`.
* `PageIsInOrder`: `Spec => []PageSeesPrefix`.
* `TaskEndsOnlyWithTerminal`: `Spec => []TaskEndsWithTerminal`.

`PageSeesPrefix` speaks of the page only. `StreamInv` adds what is on the way:
backlog and queue together are a run of consecutive sequence numbers that ends at
`last_sequence` and begins where the page can go on, and a page without an open
connection has nothing on the way. `EndInv` is for the end of a task: only the last
event of a log is terminal, a snapshot that says so was taken with the whole log,
and a terminal event the task has handled waits in the backlog or the queue, as
sending it closes the stream.

### Hot cache

`HotCacheProofs` proves `SingleFlight`: `Spec => []OneFiller`, for any number of
processes, requests, commits and faults of the kinds other than `timeout` and
`stall`, under which the code gives single flight up by design. The invariant
`Layers` ties the places together: the request that leads a fill is the one whose
object is in `_inflight` of its process, and a request that works under the Redis
lock is the one the lock names.

`CacheTypeCorrect` and `InvalidationIsThorough` hold under faults of every kind.
Their invariant `TypeInv` says what a request has at each step, that a follower's
object has an outcome once its leader is through, and that a record in Redis is in
its tag set, without which an invalidation would miss it. `Procs # {}` was added to
`CacheAssumption` for them: somebody commits.

### Datasets and pages

`DatasetRefreshProofs` proves, for every choice of datasets and settings:

* `DatasetTypeCorrect`: `Spec => []TypeOK`.
* `HashesMatchRows`: `Spec => []RowsMatchHash`.
* `EveryJobMakesProgress`: if a dataset is stale, the branch a job takes fetches
  a stale dataset; `SkipMeansFresh`: a job skips the SEC only for a known company
  whose datasets are all fresh. Both are facts about `RefreshPolicy` alone and
  hold for all of the policies.

The invariant is `WorldOK`, `RowsOK` (committed rows, complete or with gaps), `JobOK` (the steps that
are left are those of an unforced job, written rows match their hashes) and
`HeldIsCurrent`: until the statements are stored, the held hash of financials is
the committed one. Without the last, reusing unchanged statements could put the
new hash over old rows.

`DatasetHonestyProofs` proves `UnchangedMeansCurrent`. The argument is a chain of
inequalities between versions. Stored data never get older; the hashes a job sees
are never newer than the rows it reads (`HeldIsOld`, `SessionSmall`,
`SnapCovers`); so the versions in a fingerprint are at most those in the payload, and
these at most the stored ones (`RowsCovered`). When the next job takes the cache
for unchanged, the first and the last are the same, by `RowsMatchHash`, and so is
what lies between. The chain is about the company's datasets: `others` is in the
payload and in no fingerprint, and nothing is claimed of it. `CoverAssumption` is what the code's fingerprint functions
satisfy for the full set of datasets.

`CompanyPagesProofs` proves `PagesTypeCorrect`, which is inductive as it stands: a
response is stored only when the company is known, and the reasons for which any of
the 17 routes asks for a refresh are "stale" and "missing".

### Shared upstream cache

`SharedFetchesBounded` uses the invariant `FetchInv`, which leaves the memories
out, as they may evict a payload at any time. No assumption is made about the time
a fill takes. `Unprotected` are the threads that go on without the lock they were
granted, or without any, and those whose late DELETE will hit the lock of another:
each of them has had an overrun of its own (`Paid`), and a late DELETE only
exchanges one such thread for another. The other threads that fill hold the Redis
lock of their key or the local lock of their process, so they are mapped one to one
to the connected processes and one more (`FillingBounded`). As long as Redis has no
payload, each counted fetch runs or was lost to a fault (`Accounted`), and once it
has one, a caller finds it at its second look.

`MemoriesWithinLimits` is about the operations on one memory, by induction over
its entries. The library's induction theorems take an operator, so `Induction`
states them for a set of numbers instead, from well-foundedness of the order on
the naturals, and `RecursionTo` that a function can be defined by recursion up to a
bound. From these follow what `Sums` and `Keeping` are, that entries with different
keys stay so, and that the bytes that are kept and the bytes that go are those there
were (`BytesSplit`), which is why the count beside the entries never drifts.

### Only model-checked

Liveness (`EveryJobFinishes`, `TerminalDelivered`, `EveryCallReturns`, `Converges`,
`PagesCatchUp`, `ForcedJobsStop`), as fairness and ENABLED are out of the prover's
reach. `GapsAreHonest`, whose proof would repeat that of `HashIsHonest` for the gaps. That forced jobs, which only `CompanyPages`
has, keep the hashes of the datasets they fetch is implied by no theorem yet: those
of `DatasetRefresh` are about unforced jobs.

## Findings

* A deduplicated enqueue keeps its lock (`status_stream.py:384` and `411`, run
  `queue_dedupe_lock`), under an id that never gets a row.
* A job skips derived caches whose inputs it has just replaced
  (`refresh_orchestrator.py:3182`, run `dataset_skipped_recompute`): the
  fingerprints are made from state objects that are older than the job's own
  marks. The next job rebuilds them, which is why `Converges` holds.
* An invalidation asks for the payload hash as schema tag
  (`refresh_state.py:177`, run `pages_invalidation`). No entry carries it, so a
  refresh drops no hot entry, and pages catch up when entries age.

## Deviations without a run

Behaviour met while modelling that a maintainer should know of, covered by an
assumption or an exception of a property above:

* a lock renewal after the release creates the lock again, as the NX fallback
  does not ask whether the job is active (`status_stream.py:1515`);
* an error of `pubsub.subscribe` kills the subscriber task, where errors of
  `get_message` fall back to polling (`status_stream.py:1044`);
* a full subscriber queue drops events for good, as `last_sequence` is moved
  first (`status_stream.py:1151`);
* a fill that began before a commit is stored after its invalidation
  (`hot_cache.py:709`);
* a forced refresh deletes the earnings releases in a commit of its own before
  it fetches (`refresh_orchestrator.py:2173`): a failing fetch leaves the company
  without them, under the old hash;
* nothing stores proxy statements or marks their dataset, so the governance page
  asks for a forced refresh on every visit; so do pages of a company that reports
  no segments;
* the stored brief and charts keep the time of their last computation when a job
  finds their inputs unchanged, so their pages go on asking for a refresh;
* statements, earnings releases in 8-K filings and comment letters are stored under
  the full hash although a document could not be read (`filing_parser.py:161`,
  `earnings_release.py:248`, `refresh_orchestrator.py:1436`), and are reused as if
  they were complete; the regulated (FDIC) statements, which are in no fingerprint,
  are missing in the same way after an error (`refresh_orchestrator.py:2247`);
* a release in a 6-K filing that was left out is added by a later job under an
  unchanged hash, so that the caches computed without it stay;
* the payload hash of 13F data is that of the funds that answered
  (`institutional_holdings.py:244`), while the stored rows have those of all;
* a job skips the brief with "dependent inputs are unchanged"
  (`refresh_orchestrator.py:3981`) when model runs, peers, proxy statements or macro
  data, which are in the brief and not in its fingerprint, have changed;
* with an unlisted ticker the hash of the brief is its schema version, and the
  charts no longer follow capital markets events (`refresh_orchestrator.py:3772`);
* a taken Redis lock of the upstream cache falls through to the local lock
  (`shared_upstream_cache.py:290`), so that processes fetch side by side, where
  `docs/performance-notes.md:71` speaks of single flight "across concurrent
  requests and workers"; and both locks may end under a fill that takes longer than
  30 s, and waiting callers give up after 15 s, so that fills overlap without any
  error.

## Not modelled

* The rate limiter (a counter per client and window), the registry of worker
  heartbeats (stamps that only probes read), and the in-memory broker of CLI and
  tests: small, lock-protected, and nothing else depends on them.
* The frontend's API cache and job tracking: they meet the modelled parts through
  HTTP and the event stream only.
* The manual refresh route, workspace bootstrap, earnings workspace, compare,
  watchlist, screener and search: reads of the same datasets, without hot entries
  or triggers of another kind than those modelled.
* Oil overlay and forecast accuracy of a job: stored results from which no modelled
  dataset is computed. Model runs are computed by a job, by the models route and by
  other requests, and the brief reads them: they are part of `others`, of which the
  model has the changes and not the steps that make them.
* SEC, market and macro clients, bulk ingest and the macro worker: retries and
  upserts around external services.
* Parsers, model engine, charts and brief builders, analytics, payload builders,
  schemas, middleware, migrations, frontend components: pure computation,
  formatting and declarations. They are most of the repository's lines (floating
  point formulas, text extraction, layout of payloads), keep no state that the
  steps of others could disturb, and a model of them would repeat them line by
  line. The share of the source these modules stand for is therefore small,
  although nearly all of what runs concurrently or must survive a failure is in it.

## Plan

1. `RefreshQueue`, `JobLifecycle`, `JobEventStream`, `HotCache`, `RefreshPolicy`,
   `DatasetRefresh`, `CompanyPages`, `SharedUpstreamCache` (done).
2. Proofs of the queue, its refinement, the stream, single flight and the dataset
   hashes (done).
3. Proofs of the other invariants: the lock, the flag, the end of a task,
   invalidation, the honesty of hashes, the shared upstream cache, the pages (done).
4. Forced jobs: the types and the hashes of `DatasetRefresh` under `CompanyPages`,
   where the deletion of the earnings releases is the one exception.
5. A proof of `GapsAreHonest`, along the lines of `UnchangedMeansCurrent`.
6. The frontend's cache, composed with the end of a job stream.
