---------------------------- MODULE RefreshQueue ----------------------------
(***************************************************************************)
(* The durable company-refresh queue: SharedStatusBroker in                *)
(* app/services/status_stream.py, the worker loop of app/worker.py, the    *)
(* job runner run_refresh_job of app/services/sec/refresh_orchestrator.py  *)
(* and the company_refresh row of dataset_refresh_state.                   *)
(*                                                                         *)
(* Enqueuers (API requests, the CLI) and workers (queue consumers and      *)
(* their heartbeat threads) share a Postgres database and, when it is      *)
(* configured, a Redis server.  One action is one database transaction or  *)
(* one Redis command; the processes interleave between them.               *)
(*                                                                         *)
(* Data abstractions.  A job id stands for the uuid and the requested_at   *)
(* stamp taken at the start of create_job_result, so ids are handed out in *)
(* requested_at order.  A claim token, a fresh uuid per claim, is the      *)
(* attempt number of the claim; 0 is NULL.  The deadlines of a lease, of a *)
(* dedupe window and of a Redis key are "not passed" or "passed".  kind,   *)
(* dataset and as_of_key have one value each in every call of the code.    *)
(***************************************************************************)
EXTENDS Integers, FiniteSets

CONSTANTS
    Tickers,           \* companies that may be asked for
    InitialCompanies,  \* those that have a row in the companies table at start
    Reasons,           \* refresh reasons: "manual", "missing", "stale"
    Enqueuers,         \* callers of create_job_result
    Workers,           \* slots that process one claimed job at a time
    NoWorker,          \* not a worker
    MaxJobs,           \* bound: calls of create_job_result
    MaxEvents,         \* bound: events after which no more progress is reported
    MaxFaults,         \* bound: number of faults
    FaultKinds,        \* faults that may happen: "db", "redis", "crash", "stall"
    RecoveryBatch,     \* limit= of requeue_expired_jobs
    RedisOn,           \* is Redis configured and reachable at start-up
    DedupeOn,          \* is refresh_queue_dedupe_ttl_seconds above zero
    LockOutlivesJobs   \* does no job outlive the TTL of its enqueue lock

ASSUME ConstantsAssumption ==
    /\ InitialCompanies \subseteq Tickers /\ Tickers # {} /\ Reasons # {}
    /\ NoWorker \notin Workers
    /\ MaxJobs \in Nat /\ MaxEvents \in Nat /\ MaxFaults \in Nat
    /\ FaultKinds \subseteq {"db", "redis", "crash", "stall"}
    /\ RecoveryBatch \in Nat \ {0}
    /\ RedisOn \in BOOLEAN /\ DedupeOn \in BOOLEAN /\ LockOutlivesJobs \in BOOLEAN

Jobs == 1 .. MaxJobs
NoJob == 0

VARIABLES
    \* table refresh_jobs
    status, ticker, reason,
    company_id,        \* TRUE iff the row has a company_id
    claim_token, attempt_count, lease, event_sequence,
    recent,            \* terminal jobs whose updated_at is within the dedupe TTL
    \* other tables
    companies,         \* tickers with a row in companies
    active_job_id,     \* dataset_refresh_state.active_job_id of company_refresh
    \* Redis
    refresh_lock,      \* value of refresh-lock:{company_id}:company_refresh
    \* processes
    nextJob,           \* next id of create_job_result
    epc, ejob,         \* enqueuer: where it is, the job of its call or of its answer
    wpc, wjob, wtoken, \* worker: where it is, its ClaimedJob
    touches,           \* heartbeat threads between the database and Redis
    faults             \* faults left

rowVars == <<status, claim_token, attempt_count, lease, event_sequence, recent>>
keyVars == <<ticker, reason, company_id, nextJob>>
enqVars == <<epc, ejob>>
workVars == <<wpc, wjob, wtoken>>
vars == <<rowVars, keyVars, companies, active_job_id, refresh_lock, enqVars,
          workVars, touches, faults>>

ACTIVE_JOB_STATES == {"queued", "running"}
TERMINAL_JOB_STATES == {"completed", "failed"}

\* "none": the id was drawn but no row carries it (yet).
JobStates == ACTIVE_JOB_STATES \cup TERMINAL_JOB_STATES \cup {"none"}
Leases == {"none", "live", "expired"}
EnqueuerStates == {"idle", "acquire", "held", "check", "insert", "conflict", "xx", "nx",
                   "get", "del", "enqueued", "skipped", "failed"}
WorkerStates == {"idle", "xx", "nx", "run", "get", "del", "mark", "failmark", "fail"}

\* An enqueuer whose call has returned (or was never made).
AtRest == {"idle", "enqueued", "skipped", "failed"}

Init ==
    /\ status = [j \in Jobs |-> "none"]
    /\ ticker = [j \in Jobs |-> CHOOSE t \in Tickers : TRUE]
    /\ reason = [j \in Jobs |-> CHOOSE r \in Reasons : TRUE]
    /\ company_id = [j \in Jobs |-> FALSE]
    /\ claim_token = [j \in Jobs |-> 0]
    /\ attempt_count = [j \in Jobs |-> 0]
    /\ lease = [j \in Jobs |-> "none"]
    /\ event_sequence = [j \in Jobs |-> 0]
    /\ recent = {}
    /\ companies = InitialCompanies
    /\ active_job_id = [t \in Tickers |-> NoJob]
    /\ refresh_lock = [t \in Tickers |-> NoJob]
    /\ nextJob = 1
    /\ epc = [e \in Enqueuers |-> "idle"]
    /\ ejob = [e \in Enqueuers |-> NoJob]
    /\ wpc = [w \in Workers |-> "idle"]
    /\ wjob = [w \in Workers |-> NoJob]
    /\ wtoken = [w \in Workers |-> 0]
    /\ touches = {}
    /\ faults = MaxFaults

\* One more fault of kind k happens.
Fault(k) == k \in FaultKinds /\ faults > 0 /\ faults' = faults - 1

-----------------------------------------------------------------------------
(* Redis.  Each operator is the effect of one command on refresh_lock.      *)

\* SET key job NX EX ttl
SetIfAbsent(t, j) ==
    refresh_lock' = IF refresh_lock[t] = NoJob THEN [refresh_lock EXCEPT ![t] = j]
                                               ELSE refresh_lock

\* SET key job XX EX ttl: overwrites whatever value the key has
SetIfPresent(t, j) ==
    refresh_lock' = IF refresh_lock[t] # NoJob THEN [refresh_lock EXCEPT ![t] = j]
                                               ELSE refresh_lock

Delete(t) == refresh_lock' = [refresh_lock EXCEPT ![t] = NoJob]

\* Mutant: the answer of SET NX is ignored.
MutLockGranted(t) == TRUE

LockGranted(t) == refresh_lock[t] = NoJob

\* Does job j use a Redis lock at all?
Locked(j) == RedisOn /\ company_id[j]

-----------------------------------------------------------------------------
(* Queries on refresh_jobs.                                                 *)

Active(j) == status[j] \in ACTIVE_JOB_STATES
Terminal(j) == status[j] \in TERMINAL_JOB_STATES
SameKey(j, k) == ticker[j] = ticker[k] /\ reason[j] = reason[k]

\* _find_equivalent_active_job, also what the partial unique index compares
EquivalentActive(j) == {k \in Jobs : Active(k) /\ SameKey(j, k)}

\* _find_recent_equivalent_terminal_job
EquivalentRecent(j) == {k \in recent : Terminal(k) /\ SameKey(j, k)}

\* _get_active_job_for_dataset
ActiveForDataset(t) == {k \in Jobs : Active(k) /\ ticker[k] = t}

\* ORDER BY requested_at DESC LIMIT 1: the newest of S, if there is one
Latest(S) == {k \in S : \A i \in S : i <= k}

-----------------------------------------------------------------------------
(* Enqueuer: create_job_result.                                             *)

EnqueuerGoes(e, pc) == epc' = [epc EXCEPT ![e] = pc] /\ UNCHANGED ejob

Answer(e, pc, j) ==
    /\ epc' = [epc EXCEPT ![e] = pc]
    /\ ejob' = [ejob EXCEPT ![e] = j]

\* Draw an id and resolve the company row.  Without one there is no lock.
BeginEnqueue(e, t, r) ==
    /\ epc[e] \in AtRest
    /\ nextJob <= MaxJobs
    /\ nextJob' = nextJob + 1
    /\ ticker' = [ticker EXCEPT ![nextJob] = t]
    /\ reason' = [reason EXCEPT ![nextJob] = r]
    /\ company_id' = [company_id EXCEPT ![nextJob] = t \in companies]
    /\ Answer(e, IF RedisOn /\ t \in companies THEN "acquire" ELSE "check", nextJob)
    /\ UNCHANGED <<rowVars, companies, active_job_id, refresh_lock, workVars,
                   touches, faults>>

\* _acquire_refresh_enqueue_lock
AcquireLock(e) ==
    LET j == ejob[e] IN
    /\ epc[e] = "acquire"
    /\ SetIfAbsent(ticker[j], j)
    /\ EnqueuerGoes(e, IF LockGranted(ticker[j]) THEN "check" ELSE "held")
    /\ UNCHANGED <<rowVars, keyVars, companies, active_job_id, workVars, touches, faults>>

\* The lock is held: answer with the job that is active for the company, if any.
SkipHeld(e) ==
    /\ epc[e] = "held"
    /\ LET S == ActiveForDataset(ticker[ejob[e]]) IN
         \/ S = {} /\ Answer(e, "skipped", NoJob)
         \/ \E k \in Latest(S) : Answer(e, "skipped", k)
    /\ UNCHANGED <<rowVars, keyVars, companies, active_job_id, refresh_lock,
                   workVars, touches, faults>>

\* An equivalent job is active, or ended within the dedupe window: answer with
\* it.  The lock taken in AcquireLock is not released on these returns.
SkipEquivalent(e) ==
    /\ epc[e] = "check"
    /\ \/ \E k \in Latest(EquivalentActive(ejob[e])) : Answer(e, "skipped", k)
       \/ /\ EquivalentActive(ejob[e]) = {}
          /\ DedupeOn
          /\ \E k \in EquivalentRecent(ejob[e]) : Answer(e, "skipped", k)
    /\ UNCHANGED <<rowVars, keyVars, companies, active_job_id, refresh_lock,
                   workVars, touches, faults>>

NoEquivalent(e) ==
    /\ epc[e] = "check"
    /\ EquivalentActive(ejob[e]) = {}
    /\ DedupeOn => EquivalentRecent(ejob[e]) = {}
    /\ EnqueuerGoes(e, "insert")
    /\ UNCHANGED <<rowVars, keyVars, companies, active_job_id, refresh_lock,
                   workVars, touches, faults>>

\* INSERT ... ON CONFLICT DO NOTHING, the queued event and active_job_id, in
\* one transaction; then the TTL of the lock is renewed, when there is one.
InsertJob(e) ==
    LET j == ejob[e] IN
    /\ epc[e] = "insert"
    /\ EquivalentActive(j) = {}
    /\ status' = [status EXCEPT ![j] = "queued"]
    /\ event_sequence' = [event_sequence EXCEPT ![j] = @ + 1]
    /\ active_job_id' = IF company_id[j] THEN [active_job_id EXCEPT ![ticker[j]] = j]
                                         ELSE active_job_id
    /\ EnqueuerGoes(e, IF Locked(j) THEN "xx" ELSE "enqueued")
    /\ UNCHANGED <<claim_token, attempt_count, lease, recent, keyVars, companies,
                   refresh_lock, workVars, touches, faults>>

InsertConflict(e) ==
    /\ epc[e] = "insert"
    /\ EquivalentActive(ejob[e]) # {}
    /\ EnqueuerGoes(e, "conflict")
    /\ UNCHANGED <<rowVars, keyVars, companies, active_job_id, refresh_lock,
                   workVars, touches, faults>>

\* After a conflict the active row is looked up again; it may be gone by then,
\* which raises, releases the lock and answers "failed".
ResolveConflict(e) ==
    LET S == EquivalentActive(ejob[e]) IN
    /\ epc[e] = "conflict"
    /\ \/ \E k \in Latest(S) : Answer(e, "skipped", k)
       \/ S = {} /\ IF Locked(ejob[e]) THEN EnqueuerGoes(e, "get")
                                       ELSE Answer(e, "failed", NoJob)
    /\ UNCHANGED <<rowVars, keyVars, companies, active_job_id, refresh_lock,
                   workVars, touches, faults>>

\* A database error inside the try block: the transaction is rolled back.
EnqueueError(e) ==
    /\ epc[e] \in {"held", "check", "insert", "conflict"}
    /\ Fault("db")
    /\ IF epc[e] # "held" /\ Locked(ejob[e]) THEN EnqueuerGoes(e, "get")
                                             ELSE Answer(e, "failed", NoJob)
    /\ UNCHANGED <<rowVars, keyVars, companies, active_job_id, refresh_lock,
                   workVars, touches>>

\* _refresh_enqueue_lock_ttl after the insert
EnqueueRelock(e) ==
    LET j == ejob[e] IN
    /\ \/ /\ epc[e] = "xx"
          /\ SetIfPresent(ticker[j], j)
          /\ EnqueuerGoes(e, IF refresh_lock[ticker[j]] # NoJob THEN "enqueued" ELSE "nx")
       \/ /\ epc[e] = "nx"
          /\ SetIfAbsent(ticker[j], j)
          /\ EnqueuerGoes(e, "enqueued")
    /\ UNCHANGED <<rowVars, keyVars, companies, active_job_id, workVars, touches, faults>>

\* _release_refresh_enqueue_lock in the except block: GET, compare, DELETE
EnqueueRelease(e) ==
    LET j == ejob[e] IN
    /\ \/ /\ epc[e] = "get"
          /\ IF refresh_lock[ticker[j]] = j THEN EnqueuerGoes(e, "del")
                                            ELSE Answer(e, "failed", NoJob)
          /\ UNCHANGED refresh_lock
       \/ /\ epc[e] = "del"
          /\ Delete(ticker[j])
          /\ Answer(e, "failed", NoJob)
    /\ UNCHANGED <<rowVars, keyVars, companies, active_job_id, workVars, touches, faults>>

\* The API process dies in the middle of the call.
EnqueuerCrash(e) ==
    /\ epc[e] \notin AtRest
    /\ Fault("crash")
    /\ Answer(e, "idle", NoJob)
    /\ UNCHANGED <<rowVars, keyVars, companies, active_job_id, refresh_lock,
                   workVars, touches>>

\* Redis raises: acquiring succeeds without a lock, renewing and releasing
\* give up.
EnqueueRedisError(e) ==
    /\ Fault("redis")
    /\ \/ epc[e] = "acquire" /\ EnqueuerGoes(e, "check")
       \/ epc[e] \in {"xx", "nx"} /\ EnqueuerGoes(e, "enqueued")
       \/ epc[e] \in {"get", "del"} /\ Answer(e, "failed", NoJob)
    /\ UNCHANGED <<rowVars, keyVars, companies, active_job_id, refresh_lock,
                   workVars, touches>>

-----------------------------------------------------------------------------
(* Worker: claim_next_job, run_refresh_job and the heartbeat thread.        *)

WorkerGoes(w, pc) == wpc' = [wpc EXCEPT ![w] = pc] /\ UNCHANGED <<wjob, wtoken>>

\* The worker loop takes up the next job; the ClaimedJob is dropped.
WorkerDone(w) ==
    /\ wpc' = [wpc EXCEPT ![w] = "idle"]
    /\ wjob' = [wjob EXCEPT ![w] = NoJob]
    /\ wtoken' = [wtoken EXCEPT ![w] = 0]

\* Mutant: writes are not fenced by the claim token.
MutUnfenced(w) == TRUE

\* expected_claim_token = job.claim_token: the fence on every write of a worker
Fenced(w) == claim_token[wjob[w]] = wtoken[w]

\* Mutants: every claim of a job uses the same token; an off-by-one.
MutReusedToken(j) == 1
MutTokenOffByOne(j) == attempt_count[j] - 1

\* uuid4().hex: unlike every token drawn for the job before
FreshToken(j) == attempt_count[j] + 1

\* claim_next_job: oldest queued row first (SKIP LOCKED never blocks)
Claim(w) ==
    \E j \in Jobs :
    /\ wpc[w] = "idle"
    /\ status[j] = "queued"
    /\ \A k \in Jobs : status[k] = "queued" => j <= k
    /\ status' = [status EXCEPT ![j] = "running"]
    /\ attempt_count' = [attempt_count EXCEPT ![j] = @ + 1]
    /\ claim_token' = [claim_token EXCEPT ![j] = FreshToken(j)]
    /\ lease' = [lease EXCEPT ![j] = "live"]
    /\ event_sequence' = [event_sequence EXCEPT ![j] = @ + 1]
    /\ wjob' = [wjob EXCEPT ![w] = j]
    /\ wtoken' = [wtoken EXCEPT ![w] = FreshToken(j)]
    /\ wpc' = [wpc EXCEPT ![w] = IF Locked(j) THEN "xx" ELSE "run"]
    /\ UNCHANGED <<recent, keyVars, companies, active_job_id, refresh_lock, enqVars,
                   touches, faults>>

\* _refresh_enqueue_lock_ttl after the claim
ClaimRelock(w) ==
    LET t == ticker[wjob[w]] IN
    /\ \/ /\ wpc[w] = "xx"
          /\ SetIfPresent(t, wjob[w])
          /\ WorkerGoes(w, IF refresh_lock[t] # NoJob THEN "run" ELSE "nx")
       \/ /\ wpc[w] = "nx"
          /\ SetIfAbsent(t, wjob[w])
          /\ WorkerGoes(w, "run")
    /\ UNCHANGED <<rowVars, keyVars, companies, active_job_id, enqVars, touches, faults>>

\* JobReporter.step: one more event and a renewed lease
Step(w) ==
    LET j == wjob[w] IN
    /\ wpc[w] = "run"
    /\ Fenced(w)
    /\ event_sequence[j] < MaxEvents
    /\ event_sequence' = [event_sequence EXCEPT ![j] = @ + 1]
    /\ lease' = [lease EXCEPT ![j] = "live"]
    /\ UNCHANGED <<status, claim_token, attempt_count, recent, keyVars, companies,
                   active_job_id, refresh_lock, enqVars, workVars, touches, faults>>

\* _refresh_from_sec upserts and commits the company row of a new ticker.
UpsertCompany(w) ==
    /\ wpc[w] = "run"
    /\ ticker[wjob[w]] \notin companies
    /\ companies' = companies \cup {ticker[wjob[w]]}
    /\ UNCHANGED <<rowVars, keyVars, active_job_id, refresh_lock, enqVars, workVars,
                   touches, faults>>

\* _record_event with a terminal status: a stale token changes nothing, a
\* valid one is consumed; after the commit the lock is released.  Then the
\* worker goes on at pc.
RecordTerminal(w, s, pc) ==
    LET j == wjob[w] IN
    IF Fenced(w)
      THEN /\ status' = [status EXCEPT ![j] = s]
           /\ claim_token' = [claim_token EXCEPT ![j] = 0]
           /\ lease' = [lease EXCEPT ![j] = "none"]
           /\ event_sequence' = [event_sequence EXCEPT ![j] = @ + 1]
           /\ recent' = IF DedupeOn THEN recent \cup {j} ELSE recent
           /\ IF Locked(j) THEN WorkerGoes(w, "get")
              ELSE IF pc = "idle" THEN WorkerDone(w) ELSE WorkerGoes(w, pc)
           /\ UNCHANGED attempt_count
      ELSE /\ IF pc = "idle" THEN WorkerDone(w) ELSE WorkerGoes(w, pc)
           /\ UNCHANGED rowVars

\* refresh_company reports completion as its last event; a result is returned
\* only for a company that has a row.
Complete(w) ==
    /\ wpc[w] = "run"
    /\ ticker[wjob[w]] \in companies
    /\ RecordTerminal(w, "completed", "mark")
    /\ UNCHANGED <<keyVars, companies, active_job_id, refresh_lock, enqVars, touches, faults>>

\* run_refresh_job's except block, last statement
Fail(w) ==
    /\ wpc[w] = "fail"
    /\ RecordTerminal(w, "failed", "idle")
    /\ UNCHANGED <<keyVars, companies, active_job_id, refresh_lock, enqVars, touches, faults>>

\* _release_refresh_enqueue_lock after a terminal event: GET, compare, DELETE.
\* A completed job then goes on to mark the dataset, a failed one is over.
AfterRelease(w) == IF status[wjob[w]] = "completed" THEN WorkerGoes(w, "mark")
                                                    ELSE WorkerDone(w)

Release(w) ==
    LET t == ticker[wjob[w]] IN
    /\ \/ /\ wpc[w] = "get"
          /\ IF refresh_lock[t] = wjob[w] THEN WorkerGoes(w, "del") ELSE AfterRelease(w)
          /\ UNCHANGED refresh_lock
       \/ /\ wpc[w] = "del"
          /\ Delete(t)
          /\ AfterRelease(w)
    /\ UNCHANGED <<rowVars, keyVars, companies, active_job_id, enqVars, touches, faults>>

\* Mutant: marking the dataset leaves active_job_id alone.
MutKeepActive(t) == UNCHANGED active_job_id

\* mark_dataset_checked clears active_job_id whatever job it names.
ClearActive(t) ==
    active_job_id' = IF t \in companies THEN [active_job_id EXCEPT ![t] = NoJob]
                                        ELSE active_job_id

\* release_refresh_lock: the dataset was refreshed
MarkChecked(w) ==
    /\ wpc[w] = "mark"
    /\ ClearActive(ticker[wjob[w]])
    /\ WorkerDone(w)
    /\ UNCHANGED <<rowVars, keyVars, companies, refresh_lock, enqVars, touches, faults>>

\* refresh_company raises (an upstream error, an unresolvable ticker)
Raise(w) ==
    /\ wpc[w] = "run"
    /\ WorkerGoes(w, "failmark")
    /\ UNCHANGED <<rowVars, keyVars, companies, active_job_id, refresh_lock, enqVars,
                   touches, faults>>

\* release_refresh_lock_failed
MarkFailed(w) ==
    /\ wpc[w] = "failmark"
    /\ ClearActive(ticker[wjob[w]])
    /\ WorkerGoes(w, "fail")
    /\ UNCHANGED <<rowVars, keyVars, companies, refresh_lock, enqVars, touches, faults>>

\* The database fails under the runner.  complete and fail swallow the error;
\* while marking success it enters the except block; there it escapes to the
\* worker loop and fail is never called.
DatabaseError(w) ==
    /\ Fault("db")
    /\ \/ wpc[w] = "run" /\ ticker[wjob[w]] \in companies /\ WorkerGoes(w, "mark")
       \/ wpc[w] = "mark" /\ WorkerGoes(w, "failmark")
       \/ wpc[w] \in {"failmark", "fail"} /\ WorkerDone(w)
    /\ UNCHANGED <<rowVars, keyVars, companies, active_job_id, refresh_lock, enqVars, touches>>

\* Redis raises: renewing and releasing give up.
WorkerRedisError(w) ==
    /\ Fault("redis")
    /\ \/ wpc[w] \in {"xx", "nx"} /\ WorkerGoes(w, "run")
       \/ wpc[w] \in {"get", "del"} /\ AfterRelease(w)
    /\ UNCHANGED <<rowVars, keyVars, companies, active_job_id, refresh_lock, enqVars, touches>>

\* The worker process dies, with its heartbeat threads, and is restarted.
WorkerCrash(w) ==
    /\ wpc[w] # "idle"
    /\ Fault("crash")
    /\ WorkerDone(w)
    /\ touches' = {h \in touches : h.worker # w}
    /\ UNCHANGED <<rowVars, keyVars, companies, active_job_id, refresh_lock, enqVars>>

\* touch, database part: the heartbeat thread of w renews the lease, expired
\* or not, and has the lock renewal before it.
Touch(w) ==
    LET j == wjob[w] IN
    /\ wpc[w] \notin {"idle", "xx", "nx"}
    /\ status[j] = "running" /\ Fenced(w)
    /\ \A h \in touches : h.worker # w \/ h.job # j
    /\ lease[j] = "expired" \/ Locked(j)
    /\ lease' = [lease EXCEPT ![j] = "live"]
    /\ touches' = IF Locked(j) THEN touches \cup {[worker |-> w, job |-> j, op |-> "xx"]}
                               ELSE touches
    /\ UNCHANGED <<status, claim_token, attempt_count, event_sequence, recent, keyVars,
                   companies, active_job_id, refresh_lock, enqVars, workVars, faults>>

\* touch, Redis part.  stop_event does not interrupt it and the join of the
\* thread is given up after a second, so it may come after the job has ended.
TouchRelock(h) ==
    LET t == ticker[h.job] IN
    /\ \/ /\ h.op = "xx"
          /\ SetIfPresent(t, h.job)
          /\ touches' = (touches \ {h}) \cup
                          IF refresh_lock[t] # NoJob THEN {} ELSE {[h EXCEPT !.op = "nx"]}
       \/ /\ h.op = "nx"
          /\ SetIfAbsent(t, h.job)
          /\ touches' = touches \ {h}
    /\ UNCHANGED <<rowVars, keyVars, companies, active_job_id, enqVars, workVars, faults>>

-----------------------------------------------------------------------------
(* Time and recovery.                                                       *)

\* Worker w acts under the current claim of its job.
Owns(w, j) == wpc[w] # "idle" /\ wjob[w] = j /\ wtoken[w] = claim_token[j]

\* lease_expires_at passes.  While the claimant lives its heartbeat renews the
\* lease every third of its duration, so only a stall lets it pass.
LeaseExpires(j) ==
    /\ lease[j] = "live"
    /\ IF \E w \in Workers : Owns(w, j) THEN Fault("stall") ELSE UNCHANGED faults
    /\ lease' = [lease EXCEPT ![j] = "expired"]
    /\ UNCHANGED <<status, claim_token, attempt_count, event_sequence, recent, keyVars,
                   companies, active_job_id, refresh_lock, enqVars, workVars, touches>>

\* Mutant: lease_expires_at IS NULL instead of IS NOT NULL.
MutExpired(j) == status[j] = "running" /\ lease[j] = "none"

\* The rows requeue_expired_jobs selects.
Expired(j) == status[j] = "running" /\ lease[j] = "expired"

\* requeue_expired_jobs, called from the worker loop: a batch of the expired
\* rows that no other transaction has locked
RequeueExpired(S) ==
    /\ S # {} /\ Cardinality(S) <= RecoveryBatch
    /\ \A j \in S : Expired(j)
    /\ status' = [j \in Jobs |-> IF j \in S THEN "queued" ELSE status[j]]
    /\ claim_token' = [j \in Jobs |-> IF j \in S THEN 0 ELSE claim_token[j]]
    /\ lease' = [j \in Jobs |-> IF j \in S THEN "none" ELSE lease[j]]
    /\ event_sequence' = [j \in Jobs |-> IF j \in S THEN event_sequence[j] + 1
                                                    ELSE event_sequence[j]]
    /\ UNCHANGED <<attempt_count, recent, keyVars, companies, active_job_id,
                   refresh_lock, enqVars, workVars, touches, faults>>

\* Somebody is working on, or about to work on, the lock of ticker t.
LockInUse(t) ==
    \/ ActiveForDataset(t) # {}
    \/ \E e \in Enqueuers : epc[e] \notin AtRest /\ ticker[ejob[e]] = t
    \/ \E w \in Workers : wpc[w] # "idle" /\ ticker[wjob[w]] = t

\* Every SET of the key gives it a TTL; the TTL may have run out.
TtlPassed(t) == refresh_lock[t] # NoJob /\ (LockOutlivesJobs => ~LockInUse(t))

\* The TTL of the Redis key passes.
LockExpires(t) ==
    /\ TtlPassed(t)
    /\ Delete(t)
    /\ UNCHANGED <<rowVars, keyVars, companies, active_job_id, enqVars, workVars,
                   touches, faults>>

\* The dedupe window of a terminal job passes.
DedupeExpires(j) ==
    /\ j \in recent
    /\ recent' = recent \ {j}
    /\ UNCHANGED <<status, claim_token, attempt_count, lease, event_sequence, keyVars,
                   companies, active_job_id, refresh_lock, enqVars, workVars, touches, faults>>

-----------------------------------------------------------------------------
EnqueuerNext(e) ==
    \/ \E t \in Tickers, r \in Reasons : BeginEnqueue(e, t, r)
    \/ AcquireLock(e) \/ SkipHeld(e) \/ SkipEquivalent(e) \/ NoEquivalent(e)
    \/ InsertJob(e) \/ InsertConflict(e) \/ ResolveConflict(e)
    \/ EnqueueRelock(e) \/ EnqueueRelease(e)
    \/ EnqueueError(e) \/ EnqueueRedisError(e) \/ EnqueuerCrash(e)

\* The steps a live worker owes its claimed job.
WorkerProceeds(w) ==
    \/ ClaimRelock(w) \/ Complete(w) \/ Raise(w) \/ Release(w)
    \/ MarkChecked(w) \/ MarkFailed(w) \/ Fail(w)

WorkerNext(w) ==
    \/ Claim(w) \/ WorkerProceeds(w)
    \/ Step(w) \/ UpsertCompany(w) \/ Touch(w)
    \/ DatabaseError(w) \/ WorkerRedisError(w) \/ WorkerCrash(w)

TimeNext ==
    \/ \E j \in Jobs : LeaseExpires(j) \/ DedupeExpires(j)
    \/ \E S \in SUBSET Jobs : RequeueExpired(S)
    \/ \E t \in Tickers : LockExpires(t)

Next ==
    \/ \E e \in Enqueuers : EnqueuerNext(e)
    \/ \E w \in Workers : WorkerNext(w)
    \/ \E h \in touches : TouchRelock(h)
    \/ TimeNext

Spec == Init /\ [][Next]_vars

(***************************************************************************)
(* Fairness.  A live worker keeps claiming and working (its loop never     *)
(* blocks without a timeout), recovery runs every recovery interval, and   *)
(* clocks advance: the lease of a job nobody renews passes.  Nothing is    *)
(* assumed of enqueuers, of the heartbeat, of faults or of the TTL of the  *)
(* lock: no queued job waits for it.                                       *)
(***************************************************************************)
Fairness ==
    /\ \A w \in Workers : WF_vars(Claim(w)) /\ WF_vars(WorkerProceeds(w))
    /\ \A j \in Jobs : WF_vars(LeaseExpires(j) /\ UNCHANGED faults)
    /\ WF_vars(\E S \in SUBSET Jobs : RequeueExpired(S))

FairSpec == Spec /\ Fairness

-----------------------------------------------------------------------------
(* Properties.                                                              *)

\* Type correctness; a caller in the middle of create_job_result and a worker
\* that is not idle each have a job.
TypeOK ==
    /\ status \in [Jobs -> JobStates]
    /\ ticker \in [Jobs -> Tickers]
    /\ reason \in [Jobs -> Reasons]
    /\ company_id \in [Jobs -> BOOLEAN]
    /\ claim_token \in [Jobs -> Nat]
    /\ attempt_count \in [Jobs -> Nat]
    /\ lease \in [Jobs -> Leases]
    /\ event_sequence \in [Jobs -> Nat]
    /\ recent \subseteq Jobs
    /\ companies \subseteq Tickers
    /\ active_job_id \in [Tickers -> Jobs \cup {NoJob}]
    /\ refresh_lock \in [Tickers -> Jobs \cup {NoJob}]
    /\ nextJob \in 1 .. MaxJobs + 1
    /\ epc \in [Enqueuers -> EnqueuerStates]
    /\ ejob \in [Enqueuers -> Jobs \cup {NoJob}]
    /\ wpc \in [Workers -> WorkerStates]
    /\ wjob \in [Workers -> Jobs \cup {NoJob}]
    /\ wtoken \in [Workers -> Nat]
    /\ touches \subseteq [worker : Workers, job : Jobs, op : {"xx", "nx"}]
    /\ faults \in 0 .. MaxFaults
    /\ \A e \in Enqueuers : epc[e] \notin AtRest => ejob[e] \in Jobs
    /\ \A w \in Workers : wpc[w] # "idle" => wjob[w] \in Jobs

\* A job is claimed by exactly the worker that may write for it: two workers
\* never pass the claim-token fence of one job, whatever leases expired,
\* workers crashed and jobs were requeued in between, and a job that is not
\* running has no worker that passes it.
SingleOwner ==
    \A j \in Jobs :
        /\ status[j] # "running" => \A w \in Workers : ~Owns(w, j)
        /\ \A v, w \in Workers : Owns(v, j) /\ Owns(w, j) => v = w

\* A finished job stays as it is: no late completion, failure, progress event,
\* heartbeat or recovery pass of a worker that lost its claim changes the row.
TerminalIsFinal ==
    [][\A j \in Jobs : Terminal(j) =>
          /\ status'[j] = status[j]
          /\ event_sequence'[j] = event_sequence[j]
          /\ lease'[j] = lease[j]]_vars

\* With Redis, companies that have a row and a lock TTL longer than any job,
\* at most one refresh of a company is queued or running, whatever its reason:
\* the enqueue lock makes up for the unique index, which is per reason.
OneActivePerCompany ==
    \A i, j \in Jobs : Active(i) /\ Active(j) /\ ticker[i] = ticker[j] => i = j

\* Everything has come to rest.
Quiescent ==
    /\ \A j \in Jobs : ~Active(j)
    /\ \A e \in Enqueuers : epc[e] \in AtRest
    /\ \A w \in Workers : wpc[w] = "idle"
    /\ touches = {}

\* When nothing is queued or running any more, dataset_refresh_state names no
\* active job (the source registry reports a named one as running): the marks
\* of overlapping jobs of a company do not leave the flag of one of them.
ActiveFlagCleared == Quiescent => \A t \in Tickers : active_job_id[t] = NoJob

\* The lock of a company names a job that exists, or is about to be inserted.
LockNamesJob ==
    \A t \in Tickers : LET j == refresh_lock[t] IN
        j # NoJob /\ status[j] = "none" =>
            \E e \in Enqueuers : ejob[e] = j /\ epc[e] \notin AtRest

\* Every refresh that was queued ends: a crash, a lost final write or a stalled
\* worker delays it until the lease expires and another worker takes it over.
EveryJobFinishes == \A j \in Jobs : Active(j) ~> Terminal(j)

\* The worker that holds the claim of a job.
owner == [j \in Jobs |-> IF \E w \in Workers : Owns(w, j)
                           THEN CHOOSE w \in Workers : Owns(w, j) ELSE NoWorker]

Lifecycle == INSTANCE JobLifecycle WITH sequence <- event_sequence

\* The queue implements the job life cycle of JobLifecycle.
LifecycleSpec == Lifecycle!Spec

=============================================================================
