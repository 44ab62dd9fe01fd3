---------------------- MODULE RefreshQueueLockProofs ----------------------
(***************************************************************************)
(* Proofs about the enqueue lock in Redis and the active_job_id flag of    *)
(* RefreshQueue: at most one refresh of a company is active, and the flag  *)
(* does not outlive the refreshes.                                         *)
(***************************************************************************)
EXTENDS RefreshQueueProofs

-----------------------------------------------------------------------------
(* Ids and companies.                                                       *)

\* Ids in use were drawn before nextJob; a row with a company_id has a company.
KeyInv ==
    /\ \A e \in Enqueuers : epc[e] \notin AtRest => ejob[e] < nextJob
    /\ \A w \in Workers : wpc[w] # "idle" => wjob[w] < nextJob
    /\ \A j \in Jobs : company_id[j] => ticker[j] \in companies

LEMMA KeyInit == Init => KeyInv
BY DEF Init, KeyInv, AtRest

\* BeginEnqueue is the only step that changes the key of a job: of one that
\* no row, no other caller and no worker has.
LEMMA BeginIsFresh ==
    ASSUME Inv, KeyInv, NEW e \in Enqueuers, NEW t \in Tickers, NEW r \in Reasons,
           BeginEnqueue(e, t, r)
    PROVE  /\ nextJob \in Jobs /\ nextJob' = nextJob + 1
           /\ \A j \in Jobs : j # nextJob =>
                 ticker'[j] = ticker[j] /\ company_id'[j] = company_id[j]
           /\ ticker'[nextJob] = t /\ company_id'[nextJob] = (t \in companies)
           /\ status[nextJob] = "none"
           /\ \A d \in Enqueuers : epc[d] \notin AtRest => ejob[d] \in Jobs /\ ejob[d] # nextJob
           /\ \A w \in Workers : wpc[w] # "idle" => wjob[w] \in Jobs /\ wjob[w] # nextJob
<1>1. nextJob \in Jobs /\ nextJob' = nextJob + 1 /\ Jobs \subseteq Int
  BY ConstantsAssumption DEF Inv, TypeOK, BeginEnqueue, Jobs
<1>2. \A i \in Jobs : ~(i < i)
  BY <1>1
<1>3. status[nextJob] = "none"
  BY <1>1, <1>2 DEF Inv, IdInv
<1>4. \A d \in Enqueuers : epc[d] \notin AtRest => ejob[d] \in Jobs /\ ejob[d] # nextJob
  BY <1>1, <1>2 DEF Inv, TypeOK, KeyInv
<1>5. \A w \in Workers : wpc[w] # "idle" => wjob[w] \in Jobs /\ wjob[w] # nextJob
  BY <1>1, <1>2 DEF Inv, TypeOK, KeyInv
<1>6. ticker'[nextJob] = t /\ company_id'[nextJob] = (t \in companies)
  BY <1>1 DEF Inv, TypeOK, BeginEnqueue
<1>7. \A j \in Jobs : j # nextJob => ticker'[j] = ticker[j] /\ company_id'[j] = company_id[j]
  BY <1>1 DEF Inv, TypeOK, BeginEnqueue
<1>8. QED
  BY <1>1, <1>3, <1>4, <1>5, <1>6, <1>7

\* No step other than BeginEnqueue touches the keys or draws an id.
LEMMA KeysStay ==
    ASSUME [Next]_vars,
           \A e \in Enqueuers, t \in Tickers, r \in Reasons : ~BeginEnqueue(e, t, r)
    PROVE  UNCHANGED keyVars /\ companies \subseteq companies'
<1>1. ASSUME NEW e \in Enqueuers, EnqueuerNext(e) PROVE UNCHANGED <<keyVars, companies>>
  BY <1>1 DEF EnqueuerNext, AcquireLock, SkipHeld, SkipEquivalent, NoEquivalent, InsertJob,
     InsertConflict, ResolveConflict, EnqueueRelock, EnqueueRelease, EnqueueError,
     EnqueueRedisError, EnqueuerCrash
<1>2. ASSUME NEW w \in Workers, WorkerNext(w) PROVE UNCHANGED keyVars /\ companies \subseteq companies'
  BY <1>2 DEF WorkerNext, WorkerProceeds, Claim, ClaimRelock, Complete, Raise, Release, MarkChecked,
     MarkFailed, Fail, Step, UpsertCompany, Touch, DatabaseError, WorkerRedisError, WorkerCrash
<1>3. CASE (\E h \in touches : TouchRelock(h)) \/ TimeNext
  BY <1>3 DEF TouchRelock, TimeNext, LeaseExpires, DedupeExpires, RequeueExpired, LockExpires
<1>4. CASE UNCHANGED vars
  BY <1>4 DEF vars
<1>5. QED
  BY <1>1, <1>2, <1>3, <1>4 DEF Next

\* An id is drawn once and then stays in use with its key.
LEMMA KeyStep ==
    ASSUME Inv, KeyInv, [Next]_vars
    PROVE  KeyInv'
<1>1. ASSUME NEW e \in Enqueuers, NEW t \in Tickers, NEW r \in Reasons, BeginEnqueue(e, t, r)
      PROVE  KeyInv'
  <2>1. /\ nextJob \in Jobs /\ nextJob' = nextJob + 1
        /\ \A j \in Jobs : j # nextJob =>
              ticker'[j] = ticker[j] /\ company_id'[j] = company_id[j]
        /\ ticker'[nextJob] = t /\ company_id'[nextJob] = (t \in companies)
    BY <1>1, BeginIsFresh
  <2>2. /\ UNCHANGED <<companies, wpc, wjob>> /\ ejob'[e] = nextJob
        /\ \A d \in Enqueuers : d # e => epc'[d] = epc[d] /\ ejob'[d] = ejob[d]
    BY <1>1 DEF BeginEnqueue, Answer, workVars, Inv, TypeOK
  <2>3. \A i \in Jobs : i < nextJob => i < nextJob + 1
    BY <2>1, ConstantsAssumption DEF Jobs
  <2>4. nextJob < nextJob + 1
    BY <2>1, ConstantsAssumption DEF Jobs
  <2>5. \A d \in Enqueuers : epc'[d] \notin AtRest => ejob'[d] < nextJob'
    BY <2>1, <2>2, <2>3, <2>4 DEF KeyInv, Inv, TypeOK
  <2>6. \A w \in Workers : wpc'[w] # "idle" => wjob'[w] < nextJob'
    BY <2>1, <2>2, <2>3 DEF KeyInv, Inv, TypeOK
  <2>7. \A j \in Jobs : company_id'[j] => ticker'[j] \in companies'
    BY <2>1, <2>2 DEF KeyInv
  <2>8. QED
    BY <2>5, <2>6, <2>7 DEF KeyInv
<1>2. CASE \A e \in Enqueuers, t \in Tickers, r \in Reasons : ~BeginEnqueue(e, t, r)
  <2>1. UNCHANGED keyVars /\ companies \subseteq companies'
    BY <1>2, KeysStay
  <2>2. \A e \in Enqueuers : epc'[e] \notin AtRest => epc[e] \notin AtRest /\ ejob'[e] = ejob[e]
    <3>1. ASSUME NEW d \in Enqueuers, EnqueuerNext(d)
          PROVE  \A e \in Enqueuers : epc'[e] \notin AtRest => epc[e] \notin AtRest /\ ejob'[e] = ejob[e]
      BY <1>2, <3>1 DEF EnqueuerNext, AcquireLock, SkipHeld, SkipEquivalent, NoEquivalent, InsertJob,
         InsertConflict, ResolveConflict, EnqueueRelock, EnqueueRelease, EnqueueError,
         EnqueueRedisError, EnqueuerCrash, EnqueuerGoes, Answer, AtRest, Inv, TypeOK
    <3>2. ASSUME NEW w \in Workers, WorkerNext(w) PROVE UNCHANGED <<epc, ejob>>
      BY <3>2 DEF WorkerNext, WorkerProceeds, Claim, ClaimRelock, Complete, Raise, Release, MarkChecked,
         MarkFailed, Fail, Step, UpsertCompany, Touch, DatabaseError, WorkerRedisError, WorkerCrash,
         enqVars
    <3>3. CASE (\E h \in touches : TouchRelock(h)) \/ TimeNext \/ UNCHANGED vars
      BY <3>3 DEF TouchRelock, TimeNext, LeaseExpires, DedupeExpires, RequeueExpired, LockExpires,
         enqVars, vars
    <3>4. QED
      BY <3>1, <3>2, <3>3 DEF Next
  <2>3. \A w \in Workers : wpc'[w] # "idle" => wjob'[w] < nextJob
    <3>1. ASSUME NEW w \in Workers, WorkerNext(w)
          PROVE  \A v \in Workers : wpc'[v] # "idle" => wjob'[v] < nextJob
      <4>1. CASE Claim(w)
        BY <4>1 DEF Claim, Inv, TypeOK, IdInv, KeyInv
      <4>2. CASE ~Claim(w)
        <5>1. \A v \in Workers : wpc'[v] # "idle" => wpc[v] # "idle" /\ wjob'[v] = wjob[v]
          BY <3>1, <4>2 DEF WorkerNext, WorkerProceeds, ClaimRelock, Complete, Raise, Release, MarkChecked,
             MarkFailed, Fail, Step, UpsertCompany, Touch, DatabaseError, WorkerRedisError, WorkerCrash,
             RecordTerminal, AfterRelease, WorkerGoes, WorkerDone, workVars, Inv, TypeOK
        <5>2. QED
          BY <5>1 DEF KeyInv
      <4>3. QED
        BY <4>1, <4>2
    <3>2. ASSUME NEW e \in Enqueuers, EnqueuerNext(e) PROVE UNCHANGED <<wpc, wjob>>
      BY <3>2 DEF EnqueuerNext, BeginEnqueue, AcquireLock, SkipHeld, SkipEquivalent, NoEquivalent,
         InsertJob, InsertConflict, ResolveConflict, EnqueueRelock, EnqueueRelease, EnqueueError,
         EnqueueRedisError, EnqueuerCrash, workVars
    <3>3. CASE (\E h \in touches : TouchRelock(h)) \/ TimeNext \/ UNCHANGED vars
      BY <3>3 DEF TouchRelock, TimeNext, LeaseExpires, DedupeExpires, RequeueExpired, LockExpires,
         workVars, vars, KeyInv
    <3>4. QED
      BY <3>1, <3>2, <3>3 DEF Next, KeyInv
  <2>4. QED
    BY <2>1, <2>2, <2>3 DEF KeyInv, keyVars
<1>3. QED
  BY <1>1, <1>2

-----------------------------------------------------------------------------
(* The enqueue lock.  OneActivePerCompany is not inductive: it says nothing *)
(* of who may insert next.  Between the grant of the lock of a company and  *)
(* its release the right to be active passes from the enqueuer to the job   *)
(* it inserts and from there to the worker that ends the job.               *)

\* The deployment the docs describe: Redis is configured, every company has a
\* row, no job outlives the TTL of its lock, and Redis commands do not fail.
LockWorks == RedisOn /\ InitialCompanies = Tickers /\ LockOutlivesJobs /\ "redis" \notin FaultKinds

\* Every key that was drawn is locked.
AllKnown == companies = Tickers /\ \A j \in Jobs : j < nextJob => company_id[j]

EnqueuerHolds(e, t) == epc[e] \in {"check", "insert", "conflict", "get", "del"} /\ ticker[ejob[e]] = t
JobHolds(j, t) == Active(j) /\ ticker[j] = t
WorkerHolds(w, t) == wpc[w] \in {"get", "del"} /\ ticker[wjob[w]] = t

Held(t) == \/ \E e \in Enqueuers : EnqueuerHolds(e, t)
           \/ \E j \in Jobs : JobHolds(j, t)
           \/ \E w \in Workers : WorkerHolds(w, t)

\* Nobody shares the lock of a company ...
OneHolder(t) ==
    /\ \A d, e \in Enqueuers : EnqueuerHolds(d, t) /\ EnqueuerHolds(e, t) => d = e
    /\ \A i, j \in Jobs : JobHolds(i, t) /\ JobHolds(j, t) => i = j
    /\ \A v, w \in Workers : WorkerHolds(v, t) /\ WorkerHolds(w, t) => v = w
    /\ \A e \in Enqueuers, j \in Jobs : ~(EnqueuerHolds(e, t) /\ JobHolds(j, t))
    /\ \A e \in Enqueuers, w \in Workers : ~(EnqueuerHolds(e, t) /\ WorkerHolds(w, t))
    /\ \A j \in Jobs, w \in Workers : ~(JobHolds(j, t) /\ WorkerHolds(w, t))

\* ... and the key is there as long as somebody holds it, although renewals of
\* former jobs may have overwritten its value.
KeyPresent(t) == Held(t) => refresh_lock[t] # NoJob

LockInv == AllKnown /\ \A t \in Tickers : OneHolder(t) /\ KeyPresent(t)

LEMMA LockInit == LockWorks /\ Init => LockInv
<1> SUFFICES ASSUME LockWorks, Init PROVE LockInv
  OBVIOUS
<1>1. AllKnown
  BY ConstantsAssumption DEF Init, LockWorks, AllKnown, Jobs
<1>2. \A t \in Tickers : ~Held(t)
  BY DEF Init, Held, EnqueuerHolds, JobHolds, WorkerHolds, Active, ACTIVE_JOB_STATES
<1>3. \A t \in Tickers : ~Held(t) => OneHolder(t) /\ KeyPresent(t)
  BY DEF Held, OneHolder, KeyPresent
<1>4. QED
  BY <1>1, <1>2, <1>3 DEF LockInv

\* Holders that only let go, and do not lose the key, keep the lock exclusive.
LEMMA HoldersLetGo ==
    ASSUME NEW t \in Tickers, OneHolder(t), KeyPresent(t),
           \A e \in Enqueuers : EnqueuerHolds(e, t)' => EnqueuerHolds(e, t),
           \A j \in Jobs : JobHolds(j, t)' => JobHolds(j, t),
           \A w \in Workers : WorkerHolds(w, t)' => WorkerHolds(w, t),
           refresh_lock[t] # NoJob /\ Held(t)' => refresh_lock'[t] # NoJob
    PROVE  OneHolder(t)' /\ KeyPresent(t)'
BY DEF OneHolder, KeyPresent, Held

\* No job becomes active or inactive, no key changes and no worker enters a release.
QuietOthers == UNCHANGED <<status, ticker, wpc, wjob>>

\* AllKnown depends on the company table and the keys alone.
LEMMA KnownStays ==
    ASSUME Inv, KeyInv, AllKnown, [Next]_vars
    PROVE  AllKnown'
<1>1. ASSUME NEW e \in Enqueuers, NEW t \in Tickers, NEW r \in Reasons, BeginEnqueue(e, t, r)
      PROVE  AllKnown'
  <2>1. /\ nextJob \in Jobs /\ nextJob' = nextJob + 1 /\ companies' = companies
        /\ \A j \in Jobs : j # nextJob => company_id'[j] = company_id[j]
        /\ company_id'[nextJob]
    BY <1>1, BeginIsFresh DEF AllKnown, BeginEnqueue
  <2>2. \A j \in Jobs : j < nextJob + 1 => j < nextJob \/ j = nextJob
    BY <2>1, ConstantsAssumption DEF Jobs
  <2>3. QED
    BY <2>1, <2>2 DEF AllKnown
<1>2. CASE \A e \in Enqueuers, t \in Tickers, r \in Reasons : ~BeginEnqueue(e, t, r)
  <2>1. UNCHANGED keyVars /\ companies \subseteq companies'
    BY <1>2, KeysStay
  <2>2. companies' \subseteq Tickers
    BY InvStep DEF Inv, TypeOK
  <2>3. QED
    BY <2>1, <2>2 DEF AllKnown, keyVars
<1>3. QED
  BY <1>1, <1>2

\* A caller that keeps its id, and neither takes the lock nor inserts, leaves
\* the lock with its holder; it deletes the key only when it lets go of it.
LEMMA CallerLetsGo ==
    ASSUME Inv, LockInv, NEW e \in Enqueuers, QuietOthers,
           \A d \in Enqueuers : d # e => epc'[d] = epc[d] /\ ejob'[d] = ejob[d],
           NEW t \in Tickers,
           EnqueuerHolds(e, t)' => EnqueuerHolds(e, t),
           refresh_lock'[t] = NoJob /\ refresh_lock[t] # NoJob =>
              EnqueuerHolds(e, t) /\ ~EnqueuerHolds(e, t)'
    PROVE  OneHolder(t)' /\ KeyPresent(t)'
<1>1. \A d \in Enqueuers : EnqueuerHolds(d, t)' => EnqueuerHolds(d, t)
  BY DEF QuietOthers, EnqueuerHolds
<1>2. \A j \in Jobs : JobHolds(j, t)' => JobHolds(j, t)
  BY DEF QuietOthers, JobHolds, Active
<1>3. \A w \in Workers : WorkerHolds(w, t)' => WorkerHolds(w, t)
  BY DEF QuietOthers, WorkerHolds
<1>4. EnqueuerHolds(e, t) /\ ~EnqueuerHolds(e, t)' => ~Held(t)'
  BY <1>1, <1>2, <1>3 DEF LockInv, OneHolder, Held
<1>5. OneHolder(t) /\ KeyPresent(t)
  BY DEF LockInv
<1>6. QED
  BY <1>1, <1>2, <1>3, <1>4, <1>5, HoldersLetGo

\* Drawing an id gives nobody the lock: the caller has to acquire it.
LEMMA BeginHoldsNothing ==
    ASSUME LockWorks, Inv, KeyInv, LockInv,
           NEW e \in Enqueuers, NEW s \in Tickers, NEW r \in Reasons, BeginEnqueue(e, s, r),
           NEW t \in Tickers
    PROVE  OneHolder(t)' /\ KeyPresent(t)'
<1>1. /\ \A j \in Jobs : j # nextJob => ticker'[j] = ticker[j]
      /\ status[nextJob] = "none"
      /\ \A d \in Enqueuers : epc[d] \notin AtRest => ejob[d] \in Jobs /\ ejob[d] # nextJob
      /\ \A w \in Workers : wpc[w] # "idle" => wjob[w] \in Jobs /\ wjob[w] # nextJob
  BY BeginIsFresh
<1>2. UNCHANGED <<status, wpc, wjob, refresh_lock>> /\ epc'[e] = "acquire"
  BY DEF BeginEnqueue, Answer, rowVars, workVars, LockWorks, LockInv, AllKnown, Inv, TypeOK
<1>3. \A d \in Enqueuers : d # e => epc'[d] = epc[d] /\ ejob'[d] = ejob[d]
  BY DEF BeginEnqueue, Answer, Inv, TypeOK
<1>4. \A d \in Enqueuers : EnqueuerHolds(d, t)' => EnqueuerHolds(d, t)
  BY <1>1, <1>2, <1>3 DEF EnqueuerHolds, AtRest
<1>5. \A j \in Jobs : JobHolds(j, t)' => JobHolds(j, t)
  BY <1>1, <1>2 DEF JobHolds, Active, ACTIVE_JOB_STATES
<1>6. \A w \in Workers : WorkerHolds(w, t)' => WorkerHolds(w, t)
  BY <1>1, <1>2 DEF WorkerHolds
<1>7. OneHolder(t) /\ KeyPresent(t)
  BY DEF LockInv
<1>8. QED
  BY <1>2, <1>4, <1>5, <1>6, <1>7, HoldersLetGo

\* SET NX grants the lock when the key is absent, that is when nobody holds it.
LEMMA AcquireIsExclusive ==
    ASSUME Inv, LockInv, NEW e \in Enqueuers, AcquireLock(e), NEW t \in Tickers
    PROVE  OneHolder(t)' /\ KeyPresent(t)'
<1> DEFINE s == ticker[ejob[e]]
<1>1. /\ UNCHANGED <<status, ticker, wpc, wjob, ejob>> /\ ejob[e] \in Jobs /\ s \in Tickers
      /\ \A d \in Enqueuers : d # e => epc'[d] = epc[d]
      /\ epc'[e] = IF refresh_lock[s] = NoJob THEN "check" ELSE "held"
  BY DEF AcquireLock, LockGranted, EnqueuerGoes, rowVars, keyVars, workVars, Inv, TypeOK, AtRest
<1>2. \A u \in Tickers : refresh_lock'[u] = IF u = s /\ refresh_lock[s] = NoJob THEN ejob[e]
                                                                              ELSE refresh_lock[u]
  BY <1>1 DEF AcquireLock, SetIfAbsent, Inv, TypeOK
<1>3. CASE t = s /\ refresh_lock[s] = NoJob
  <2>1. ~Held(t)
    BY <1>3 DEF LockInv, KeyPresent
  <2>2. \A d \in Enqueuers : EnqueuerHolds(d, t)' => d = e
    BY <1>1, <2>1 DEF EnqueuerHolds, Held
  <2>3. \A j \in Jobs : ~JobHolds(j, t)'
    BY <1>1, <2>1 DEF JobHolds, Active, Held
  <2>4. \A w \in Workers : ~WorkerHolds(w, t)'
    BY <1>1, <2>1 DEF WorkerHolds, Held
  <2>5. refresh_lock'[t] # NoJob
    BY <1>1, <1>2, <1>3, NoJobNotJob
  <2>6. QED
    BY <2>2, <2>3, <2>4, <2>5 DEF OneHolder, KeyPresent
<1>4. CASE ~(t = s /\ refresh_lock[s] = NoJob)
  <2>1. EnqueuerHolds(e, t)' => EnqueuerHolds(e, t)
    BY <1>1, <1>4 DEF EnqueuerHolds
  <2>2. refresh_lock'[t] = refresh_lock[t]
    BY <1>2, <1>4
  <2>3. QED
    BY <1>1, <2>1, <2>2, CallerLetsGo DEF QuietOthers
<1>5. QED
  BY <1>3, <1>4

\* The insert hands the lock over to the job.
LEMMA InsertHandsOver ==
    ASSUME Inv, LockInv, NEW e \in Enqueuers, InsertJob(e), NEW t \in Tickers
    PROVE  OneHolder(t)' /\ KeyPresent(t)'
<1> DEFINE j == ejob[e]
<1>1. /\ UNCHANGED <<ticker, wpc, wjob, ejob, refresh_lock>> /\ j \in Jobs
      /\ \A d \in Enqueuers : d # e => epc'[d] = epc[d]
      /\ \A i \in Jobs : i # j => status'[i] = status[i]
      /\ epc[e] = "insert" /\ epc'[e] = IF Locked(j) THEN "xx" ELSE "enqueued"
  BY DEF InsertJob, EnqueuerGoes, keyVars, workVars, Inv, TypeOK, AtRest
<1>2. \A d \in Enqueuers : EnqueuerHolds(d, t)' => EnqueuerHolds(d, t) /\ d # e
  BY <1>1 DEF EnqueuerHolds
<1>3. \A i \in Jobs : JobHolds(i, t)' => JobHolds(i, t) \/ (i = j /\ EnqueuerHolds(e, t))
  BY <1>1 DEF JobHolds, Active, EnqueuerHolds
<1>4. \A w \in Workers : WorkerHolds(w, t)' => WorkerHolds(w, t)
  BY <1>1 DEF WorkerHolds
<1>5. OneHolder(t) /\ KeyPresent(t)
  BY DEF LockInv
<1>6. CASE EnqueuerHolds(e, t)
  <2>1. refresh_lock'[t] # NoJob
    BY <1>1, <1>5, <1>6 DEF KeyPresent, Held
  <2>2. (\A d \in Enqueuers : ~EnqueuerHolds(d, t)') /\ (\A w \in Workers : ~WorkerHolds(w, t)')
    BY <1>2, <1>4, <1>5, <1>6 DEF OneHolder
  <2>3. \A i \in Jobs : JobHolds(i, t)' => i = j
    BY <1>3, <1>5, <1>6 DEF OneHolder
  <2>4. QED
    BY <2>1, <2>2, <2>3 DEF OneHolder, KeyPresent
<1>7. CASE ~EnqueuerHolds(e, t)
  BY <1>1, <1>2, <1>3, <1>4, <1>5, <1>7, HoldersLetGo
<1>8. QED
  BY <1>6, <1>7

\* Every step of an enqueuer keeps the lock of each company with one holder.
LEMMA LockEnqueuer ==
    ASSUME LockWorks, Inv, KeyInv, LockInv, NEW e \in Enqueuers, EnqueuerNext(e), NEW t \in Tickers
    PROVE  OneHolder(t)' /\ KeyPresent(t)'
<1> USE DEF QuietOthers, rowVars, keyVars, workVars
<1>1. ASSUME NEW s \in Tickers, NEW r \in Reasons, BeginEnqueue(e, s, r)
      PROVE  OneHolder(t)' /\ KeyPresent(t)'
  BY <1>1, BeginHoldsNothing
<1>2. CASE AcquireLock(e)
  BY <1>2, AcquireIsExclusive
<1>3. CASE InsertJob(e)
  BY <1>3, InsertHandsOver
<1>4. CASE SkipHeld(e) \/ SkipEquivalent(e) \/ NoEquivalent(e) \/ InsertConflict(e)
           \/ ResolveConflict(e) \/ EnqueueError(e) \/ EnqueuerCrash(e)
  <2>1. QuietOthers /\ UNCHANGED refresh_lock
    BY <1>4 DEF SkipHeld, SkipEquivalent, NoEquivalent, InsertConflict, ResolveConflict,
       EnqueueError, EnqueuerCrash
  <2>2. \A d \in Enqueuers : d # e => epc'[d] = epc[d] /\ ejob'[d] = ejob[d]
    BY <1>4 DEF SkipHeld, SkipEquivalent, NoEquivalent, InsertConflict, ResolveConflict,
       EnqueueError, EnqueuerCrash, Answer, EnqueuerGoes, Inv, TypeOK
  <2>3. EnqueuerHolds(e, t)' => EnqueuerHolds(e, t)
    BY <1>4 DEF SkipHeld, SkipEquivalent, NoEquivalent, InsertConflict, ResolveConflict,
       EnqueueError, EnqueuerCrash, Answer, EnqueuerGoes, EnqueuerHolds, Inv, TypeOK
  <2>4. QED
    BY <2>1, <2>2, <2>3, CallerLetsGo
<1>5. CASE EnqueueRelock(e)
  <2>1. /\ QuietOthers /\ UNCHANGED ejob /\ ejob[e] \in Jobs /\ ticker[ejob[e]] \in Tickers
        /\ \A d \in Enqueuers : d # e => epc'[d] = epc[d]
        /\ epc'[e] \in {"enqueued", "nx"}
    BY <1>5 DEF EnqueueRelock, EnqueuerGoes, AtRest, Inv, TypeOK
  <2>2. ~EnqueuerHolds(e, t)'
    BY <2>1 DEF EnqueuerHolds
  <2>3. refresh_lock'[t] = NoJob => refresh_lock[t] = NoJob
    BY <1>5, <2>1, NoJobNotJob DEF EnqueueRelock, SetIfAbsent, SetIfPresent, Inv, TypeOK
  <2>4. QED
    BY <2>1, <2>2, <2>3, CallerLetsGo
<1>6. CASE EnqueueRelease(e)
  <2>1. /\ QuietOthers /\ ejob[e] \in Jobs
        /\ \A d \in Enqueuers : d # e => epc'[d] = epc[d] /\ ejob'[d] = ejob[d]
    BY <1>6 DEF EnqueueRelease, EnqueuerGoes, Answer, AtRest, Inv, TypeOK
  <2>2. EnqueuerHolds(e, t)' => EnqueuerHolds(e, t)
    BY <1>6 DEF EnqueueRelease, EnqueuerGoes, Answer, EnqueuerHolds, Inv, TypeOK
  <2>3. refresh_lock'[t] = NoJob /\ refresh_lock[t] # NoJob => EnqueuerHolds(e, t) /\ ~EnqueuerHolds(e, t)'
    BY <1>6, <2>1 DEF EnqueueRelease, Delete, Answer, EnqueuerHolds, Inv, TypeOK
  <2>4. QED
    BY <2>1, <2>2, <2>3, CallerLetsGo
<1>7. CASE EnqueueRedisError(e)
  BY <1>7 DEF EnqueueRedisError, Fault, LockWorks
<1>8. QED
  BY <1>1, <1>2, <1>3, <1>4, <1>5, <1>6, <1>7 DEF EnqueuerNext

\* A worker takes the lock over from the job it ends, as its claimant, and
\* deletes the key only when it lets go of it.
LEMMA LockWorker ==
    ASSUME LockWorks, Inv, KeyInv, LockInv, NEW w \in Workers, WorkerNext(w), NEW t \in Tickers
    PROVE  OneHolder(t)' /\ KeyPresent(t)'
<1> USE DEF rowVars, keyVars, workVars, enqVars
<1>0. OneHolder(t) /\ KeyPresent(t)
  BY DEF LockInv
<1>1. UNCHANGED <<epc, ejob, ticker>>
  BY DEF WorkerNext, WorkerProceeds, Claim, ClaimRelock, Complete, Raise, Release, MarkChecked,
     MarkFailed, Fail, Step, UpsertCompany, Touch, DatabaseError, WorkerRedisError, WorkerCrash
<1>2. \A e \in Enqueuers : EnqueuerHolds(e, t)' => EnqueuerHolds(e, t)
  BY <1>1 DEF EnqueuerHolds
<1>3. CASE Claim(w)
  <2>1. \A j \in Jobs : JobHolds(j, t)' => JobHolds(j, t)
    BY <1>1, <1>3 DEF Claim, JobHolds, Active, ACTIVE_JOB_STATES, Inv, TypeOK
  <2>2. \A v \in Workers : WorkerHolds(v, t)' => WorkerHolds(v, t)
    BY <1>1, <1>3 DEF Claim, WorkerHolds, Inv, TypeOK
  <2>3. UNCHANGED refresh_lock
    BY <1>3 DEF Claim
  <2>4. QED
    BY <1>0, <1>2, <2>1, <2>2, <2>3, HoldersLetGo
<1>4. CASE ClaimRelock(w) \/ Raise(w) \/ MarkChecked(w) \/ MarkFailed(w) \/ Step(w) \/ UpsertCompany(w)
           \/ Touch(w) \/ DatabaseError(w) \/ WorkerCrash(w)
  <2>1. UNCHANGED status
    BY <1>4 DEF ClaimRelock, Raise, MarkChecked, MarkFailed, Step, UpsertCompany, Touch,
       DatabaseError, WorkerCrash
  <2>2. \A v \in Workers : WorkerHolds(v, t)' => WorkerHolds(v, t)
    BY <1>1, <1>4 DEF ClaimRelock, Raise, MarkChecked, MarkFailed, Step, UpsertCompany, Touch,
       DatabaseError, WorkerCrash, WorkerGoes, WorkerDone, WorkerHolds, Inv, TypeOK
  <2>3. refresh_lock[t] # NoJob => refresh_lock'[t] # NoJob
    <3>1. CASE ClaimRelock(w)
      <4>1. wjob[w] \in Jobs /\ ticker[wjob[w]] \in Tickers
        BY <3>1 DEF ClaimRelock, Inv, TypeOK
      <4>2. QED
        BY <3>1, <4>1, NoJobNotJob DEF ClaimRelock, SetIfAbsent, SetIfPresent, Inv, TypeOK
    <3>2. CASE ~ClaimRelock(w)
      BY <1>4, <3>2 DEF Raise, MarkChecked, MarkFailed, Step, UpsertCompany, Touch,
         DatabaseError, WorkerCrash
    <3>3. QED
      BY <3>1, <3>2
  <2>4. \A j \in Jobs : JobHolds(j, t)' => JobHolds(j, t)
    BY <1>1, <2>1 DEF JobHolds, Active
  <2>5. QED
    BY <1>0, <1>2, <2>2, <2>3, <2>4, HoldersLetGo
<1>5. CASE Complete(w) \/ Fail(w)
  <2> DEFINE j == wjob[w]
  <2>1. /\ wpc[w] \in {"run", "fail"} /\ UNCHANGED refresh_lock /\ j \in Jobs
        /\ \E s \in TERMINAL_JOB_STATES, pc \in {"mark", "idle"} : RecordTerminal(w, s, pc)
    BY <1>5 DEF Complete, Fail, TERMINAL_JOB_STATES, Inv, TypeOK
  <2>2. PICK s \in TERMINAL_JOB_STATES, pc \in {"mark", "idle"} : RecordTerminal(w, s, pc)
    BY <2>1
  <2>3. \A v \in Workers : v # w => wpc'[v] = wpc[v] /\ wjob'[v] = wjob[v]
    BY <2>2 DEF RecordTerminal, WorkerGoes, WorkerDone, Inv, TypeOK
  <2>4. CASE Fenced(w)
    <3>1. status[j] = "running"
      BY <2>1, <2>4 DEF Fenced, Inv, TypeOK, ClaimInv
    <3>2. /\ status'[j] \notin ACTIVE_JOB_STATES
          /\ \A i \in Jobs : i # j => status'[i] = status[i]
          /\ wpc'[w] \in {"get", "mark", "idle"} /\ (wpc'[w] = "get" => wjob'[w] = j)
      BY <2>1, <2>2, <2>4 DEF RecordTerminal, WorkerGoes, WorkerDone, TERMINAL_JOB_STATES,
         ACTIVE_JOB_STATES, Inv, TypeOK
    <3>3. \A i \in Jobs : JobHolds(i, t)' => JobHolds(i, t) /\ i # j
      BY <1>1, <3>2 DEF JobHolds, Active
    <3>4. \A v \in Workers : WorkerHolds(v, t)' => WorkerHolds(v, t) \/ (v = w /\ JobHolds(j, t))
      BY <1>1, <2>3, <3>1, <3>2 DEF WorkerHolds, JobHolds, Active, ACTIVE_JOB_STATES
    <3>5. CASE JobHolds(j, t)
      <4>1. refresh_lock'[t] # NoJob
        BY <1>0, <2>1, <3>5 DEF KeyPresent, Held
      <4>2. (\A e \in Enqueuers : ~EnqueuerHolds(e, t)') /\ (\A i \in Jobs : ~JobHolds(i, t)')
        BY <1>0, <1>2, <2>1, <3>3, <3>5 DEF OneHolder
      <4>3. \A v \in Workers : WorkerHolds(v, t)' => v = w
        BY <1>0, <2>1, <3>4, <3>5 DEF OneHolder
      <4>4. QED
        BY <4>1, <4>2, <4>3 DEF OneHolder, KeyPresent
    <3>6. CASE ~JobHolds(j, t)
      BY <1>0, <1>2, <2>1, <3>3, <3>4, <3>6, HoldersLetGo
    <3>7. QED
      BY <3>5, <3>6
  <2>5. CASE ~Fenced(w)
    <3>1. UNCHANGED status /\ wpc'[w] \in {"mark", "idle"}
      BY <2>2, <2>5 DEF RecordTerminal, WorkerGoes, WorkerDone, Inv, TypeOK
    <3>2. \A i \in Jobs : JobHolds(i, t)' => JobHolds(i, t)
      BY <1>1, <3>1 DEF JobHolds, Active
    <3>3. \A v \in Workers : WorkerHolds(v, t)' => WorkerHolds(v, t)
      BY <1>1, <2>3, <3>1 DEF WorkerHolds
    <3>4. QED
      BY <1>0, <1>2, <2>1, <3>2, <3>3, HoldersLetGo
  <2>6. QED
    BY <2>4, <2>5
<1>6. CASE Release(w)
  <2>1. UNCHANGED status /\ wjob[w] \in Jobs /\ wpc[w] \in {"get", "del"}
    BY <1>6 DEF Release, Inv, TypeOK
  <2>2. \A v \in Workers : v # w => wpc'[v] = wpc[v] /\ wjob'[v] = wjob[v]
    BY <1>6 DEF Release, AfterRelease, WorkerGoes, WorkerDone, Inv, TypeOK
  <2>3. WorkerHolds(w, t)' => WorkerHolds(w, t)
    BY <1>1, <1>6 DEF Release, AfterRelease, WorkerGoes, WorkerDone, WorkerHolds, Inv, TypeOK
  <2>4. refresh_lock'[t] = NoJob /\ refresh_lock[t] # NoJob => WorkerHolds(w, t) /\ ~WorkerHolds(w, t)'
    BY <1>1, <1>6, <2>1 DEF Release, AfterRelease, Delete, WorkerGoes, WorkerDone, WorkerHolds, Inv, TypeOK
  <2>5. \A i \in Jobs : JobHolds(i, t)' => JobHolds(i, t)
    BY <1>1, <2>1 DEF JobHolds, Active
  <2>6. \A v \in Workers : WorkerHolds(v, t)' => WorkerHolds(v, t)
    BY <1>1, <2>2, <2>3 DEF WorkerHolds
  <2>7. WorkerHolds(w, t) /\ ~WorkerHolds(w, t)' => ~Held(t)'
    BY <1>0, <1>2, <2>5, <2>6 DEF OneHolder, Held
  <2>8. QED
    BY <1>0, <1>2, <2>4, <2>5, <2>6, <2>7, HoldersLetGo
<1>7. CASE WorkerRedisError(w)
  BY <1>7 DEF WorkerRedisError, Fault, LockWorks
<1>8. QED
  BY <1>3, <1>4, <1>5, <1>6, <1>7 DEF WorkerNext, WorkerProceeds

\* Late renewals never empty a key, recovery leaves active what was active, and
\* the TTL of a key passes only when nobody holds it.
LEMMA LockRest ==
    ASSUME LockWorks, Inv, KeyInv, LockInv, (\E h \in touches : TouchRelock(h)) \/ TimeNext,
           NEW t \in Tickers
    PROVE  OneHolder(t)' /\ KeyPresent(t)'
<1> USE DEF rowVars, keyVars, workVars, enqVars
<1>0. OneHolder(t) /\ KeyPresent(t)
  BY DEF LockInv
<1>1. UNCHANGED <<epc, ejob, wpc, wjob, ticker>>
  BY DEF TouchRelock, TimeNext, LeaseExpires, DedupeExpires, RequeueExpired, LockExpires
<1>2. /\ \A e \in Enqueuers : EnqueuerHolds(e, t)' => EnqueuerHolds(e, t)
      /\ \A w \in Workers : WorkerHolds(w, t)' => WorkerHolds(w, t)
  BY <1>1 DEF EnqueuerHolds, WorkerHolds
<1>3. \A j \in Jobs : JobHolds(j, t)' => JobHolds(j, t)
  BY <1>1 DEF TouchRelock, TimeNext, LeaseExpires, DedupeExpires, RequeueExpired, LockExpires,
     Expired, JobHolds, Active, ACTIVE_JOB_STATES, Inv, TypeOK
<1>4. refresh_lock[t] # NoJob /\ Held(t)' => refresh_lock'[t] # NoJob
  <2>1. ASSUME NEW h \in touches, TouchRelock(h)
        PROVE  refresh_lock[t] # NoJob => refresh_lock'[t] # NoJob
    <3>1. h.job \in Jobs /\ ticker[h.job] \in Tickers
      BY DEF Inv, TypeOK
    <3>2. QED
      BY <2>1, <3>1, NoJobNotJob DEF TouchRelock, SetIfAbsent, SetIfPresent, Inv, TypeOK
  <2>2. ASSUME NEW s \in Tickers, LockExpires(s)
        PROVE  refresh_lock[t] # NoJob /\ Held(t)' => refresh_lock'[t] # NoJob
    <3>1. CASE s = t
      <4>1. ~LockInUse(t)
        BY <2>2, <3>1 DEF LockExpires, TtlPassed, LockWorks
      <4>2. ~Held(t)
        BY <4>1 DEF LockInUse, ActiveForDataset, Held, EnqueuerHolds, JobHolds, WorkerHolds, AtRest
      <4>3. QED
        BY <1>2, <1>3, <4>2 DEF Held
    <3>2. CASE s # t
      BY <2>2, <3>2 DEF LockExpires, Delete, Inv, TypeOK
    <3>3. QED
      BY <3>1, <3>2
  <2>3. ASSUME NEW j \in Jobs, LeaseExpires(j) \/ DedupeExpires(j) PROVE UNCHANGED refresh_lock
    BY <2>3 DEF LeaseExpires, DedupeExpires
  <2>4. ASSUME NEW S \in SUBSET Jobs, RequeueExpired(S) PROVE UNCHANGED refresh_lock
    BY <2>4 DEF RequeueExpired
  <2>5. QED
    BY <2>1, <2>2, <2>3, <2>4 DEF TimeNext
<1>5. QED
  BY <1>0, <1>2, <1>3, <1>4, HoldersLetGo

LEMMA LockStutter ==
    ASSUME LockInv, UNCHANGED vars, NEW t \in Tickers
    PROVE  OneHolder(t)' /\ KeyPresent(t)'
BY DEF LockInv, vars, rowVars, keyVars, enqVars, workVars, OneHolder, KeyPresent, Held,
   EnqueuerHolds, JobHolds, WorkerHolds, Active

\* The enqueue lock is inductive on top of the invariant of the claims.
LEMMA LockStep ==
    ASSUME LockWorks, Inv, KeyInv, LockInv, [Next]_vars
    PROVE  LockInv'
<1>1. AllKnown'
  BY KnownStays DEF LockInv
<1>2. ASSUME NEW t \in Tickers PROVE OneHolder(t)' /\ KeyPresent(t)'
  <2>1. ASSUME NEW e \in Enqueuers, EnqueuerNext(e) PROVE OneHolder(t)' /\ KeyPresent(t)'
    BY <2>1, LockEnqueuer
  <2>2. ASSUME NEW w \in Workers, WorkerNext(w) PROVE OneHolder(t)' /\ KeyPresent(t)'
    BY <2>2, LockWorker
  <2>3. CASE (\E h \in touches : TouchRelock(h)) \/ TimeNext
    BY <2>3, LockRest
  <2>4. CASE UNCHANGED vars
    BY <2>4, LockStutter
  <2>5. QED
    BY <2>1, <2>2, <2>3, <2>4 DEF Next
<1>3. QED
  BY <1>1, <1>2 DEF LockInv

\* With a lock that works, at most one refresh of a company is queued or
\* running, whatever crashed, expired, was requeued or renewed late: nobody
\* but the holder of the lock inserts, and its key is not deleted under it.
THEOREM LockMakesRefreshesUnique ==
    ASSUME LockWorks
    PROVE  Spec => []OneActivePerCompany
<1>1. Init => Inv /\ KeyInv /\ LockInv
  BY TypeInit, IdInit, ClaimInit, KeyInit, LockInit DEF Inv
<1>2. Inv /\ KeyInv /\ LockInv /\ [Next]_vars => (Inv /\ KeyInv /\ LockInv)'
  BY InvStep, KeyStep, LockStep
<1>3. Inv /\ LockInv => OneActivePerCompany
  BY DEF Inv, TypeOK, LockInv, OneHolder, JobHolds, OneActivePerCompany
<1>4. QED
  BY <1>1, <1>2, <1>3, PTL DEF Spec

-----------------------------------------------------------------------------
(* The active_job_id flag.  ActiveFlagCleared speaks of quiescent states    *)
(* only; what leads there is that somebody who will clear the flag exists   *)
(* as long as it is set.  The two exceptions of the code are assumed away:  *)
(* a worker that dies between its terminal event and its mark, and a        *)
(* database that fails at the mark and again at the failure mark.           *)

\* No worker dies, and the database fails once at most.
MarksWork == "crash" \notin FaultKinds /\ ("db" \in FaultKinds => MaxFaults <= 1)

\* A job that will be marked by the worker that ends it.
JobOwesMark(j, t) ==
    Active(j) /\ ticker[j] = t /\ \A w \in Workers : Owns(w, j) => wpc[w] # "fail"

\* A worker that will mark the dataset whatever happens.
WorkerOwesMark(w, t) ==
    /\ wpc[w] # "idle" /\ ticker[wjob[w]] = t
    /\ \/ wpc[w] \in {"get", "del"} /\ status[wjob[w]] = "completed"
       \/ wpc[w] = "mark"
       \/ wpc[w] = "failmark" /\ ("db" \in FaultKinds => faults = 0)

MarkOwed(t) == \/ \E j \in Jobs : JobOwesMark(j, t)
               \/ \E w \in Workers : WorkerOwesMark(w, t)

FlagInv == \A t \in Tickers : active_job_id[t] # NoJob => t \in companies /\ MarkOwed(t)

LEMMA FlagInit == Init => FlagInv
BY DEF Init, FlagInv

\* A mark that is owed stays owed while the flag is not cleared.
LEMMA FlagStays ==
    ASSUME NEW t \in Tickers, FlagInv, companies \subseteq companies',
           active_job_id'[t] # NoJob => active_job_id[t] # NoJob,
           active_job_id'[t] # NoJob => \A j \in Jobs : JobOwesMark(j, t) => MarkOwed(t)',
           active_job_id'[t] # NoJob => \A w \in Workers : WorkerOwesMark(w, t) => MarkOwed(t)'
    PROVE  active_job_id'[t] # NoJob => t \in companies' /\ MarkOwed(t)'
BY DEF FlagInv, MarkOwed

\* Enqueuers set the flag with the row of the job that will clear it.
LEMMA FlagEnqueuer ==
    ASSUME Inv, KeyInv, FlagInv, NEW e \in Enqueuers, EnqueuerNext(e), NEW t \in Tickers
    PROVE  active_job_id'[t] # NoJob => t \in companies' /\ MarkOwed(t)'
<1> USE DEF rowVars, keyVars, workVars
<1>0. /\ UNCHANGED <<companies, claim_token, wpc, wjob, wtoken>>
      /\ faults \in Nat /\ faults' \in Nat /\ faults' <= faults
  <2>1. UNCHANGED <<companies, claim_token, wpc, wjob, wtoken>>
    BY DEF EnqueuerNext, BeginEnqueue, AcquireLock, SkipHeld, SkipEquivalent, NoEquivalent, InsertJob,
       InsertConflict, ResolveConflict, EnqueueRelock, EnqueueRelease, EnqueueError,
       EnqueueRedisError, EnqueuerCrash
  <2>2. faults' = faults \/ (faults > 0 /\ faults' = faults - 1)
    BY DEF EnqueuerNext, BeginEnqueue, AcquireLock, SkipHeld, SkipEquivalent, NoEquivalent, InsertJob,
       InsertConflict, ResolveConflict, EnqueueRelock, EnqueueRelease, EnqueueError,
       EnqueueRedisError, EnqueuerCrash, Fault
  <2>3. faults \in Nat
    BY ConstantsAssumption DEF Inv, TypeOK
  <2>4. QED
    BY <2>1, <2>2, <2>3
<1>1. ASSUME NEW s \in Tickers, NEW r \in Reasons, BeginEnqueue(e, s, r)
      PROVE  active_job_id'[t] # NoJob => t \in companies' /\ MarkOwed(t)'
  <2>1. /\ \A j \in Jobs : j # nextJob => ticker'[j] = ticker[j]
        /\ status[nextJob] = "none"
        /\ \A w \in Workers : wpc[w] # "idle" => wjob[w] \in Jobs /\ wjob[w] # nextJob
    BY <1>1, BeginIsFresh
  <2>2. UNCHANGED <<status, active_job_id, faults>>
    BY <1>1 DEF BeginEnqueue
  <2>3. \A j \in Jobs : JobOwesMark(j, t) => JobOwesMark(j, t)'
    BY <1>0, <2>1, <2>2 DEF JobOwesMark, Active, ACTIVE_JOB_STATES, Owns
  <2>4. \A w \in Workers : WorkerOwesMark(w, t) => WorkerOwesMark(w, t)'
    BY <1>0, <2>1, <2>2 DEF WorkerOwesMark
  <2>5. QED
    BY <1>0, <2>2, <2>3, <2>4, FlagStays DEF MarkOwed
<1>2. CASE InsertJob(e)
  <2>0. PICK j \in Jobs : j = ejob[e]
    BY <1>2 DEF InsertJob, Inv, TypeOK, AtRest
  <2>1. /\ UNCHANGED <<ticker, company_id, faults>> /\ status[j] = "none"
        /\ status' = [status EXCEPT ![j] = "queued"]
        /\ active_job_id' = IF company_id[j] THEN [active_job_id EXCEPT ![ticker[j]] = j]
                                             ELSE active_job_id
    BY <1>2, <2>0 DEF InsertJob, Inv, TypeOK, IdInv, BeforeInsert
  <2>2. claim_token[j] = 0
    BY <2>1 DEF Inv, ClaimInv
  <2>3. \A w \in Workers : ~Owns(w, j)'
    BY <1>0, <2>1, <2>2 DEF Owns, Inv, TypeOK, ClaimInv
  <2>4. JobOwesMark(j, ticker[j])'
    BY <2>1, <2>3 DEF JobOwesMark, Active, ACTIVE_JOB_STATES, Inv, TypeOK
  <2>5. CASE t = ticker[j] /\ company_id[j]
    BY <1>0, <2>1, <2>4, <2>5 DEF MarkOwed, KeyInv
  <2>6. CASE ~(t = ticker[j] /\ company_id[j])
    <3>1. active_job_id'[t] = active_job_id[t]
      BY <2>1, <2>6 DEF Inv, TypeOK
    <3>2. \A i \in Jobs : JobOwesMark(i, t) => JobOwesMark(i, t)'
      BY <1>0, <2>1 DEF JobOwesMark, Active, ACTIVE_JOB_STATES, Owns, Inv, TypeOK
    <3>3. \A w \in Workers : WorkerOwesMark(w, t) => WorkerOwesMark(w, t)'
      BY <1>0, <2>1 DEF WorkerOwesMark, Inv, TypeOK
    <3>4. QED
      BY <1>0, <3>1, <3>2, <3>3, FlagStays DEF MarkOwed
  <2>7. QED
    BY <2>5, <2>6
<1>3. CASE AcquireLock(e) \/ SkipHeld(e) \/ SkipEquivalent(e) \/ NoEquivalent(e) \/ InsertConflict(e)
           \/ ResolveConflict(e) \/ EnqueueRelock(e) \/ EnqueueRelease(e) \/ EnqueueError(e)
           \/ EnqueueRedisError(e) \/ EnqueuerCrash(e)
  <2>1. UNCHANGED <<status, ticker, active_job_id>>
    BY <1>3 DEF AcquireLock, SkipHeld, SkipEquivalent, NoEquivalent, InsertConflict, ResolveConflict,
       EnqueueRelock, EnqueueRelease, EnqueueError, EnqueueRedisError, EnqueuerCrash
  <2>2. faults = 0 => faults' = 0
    BY <1>0
  <2>3. \A j \in Jobs : JobOwesMark(j, t) => JobOwesMark(j, t)'
    BY <1>0, <2>1 DEF JobOwesMark, Active, Owns
  <2>4. \A w \in Workers : WorkerOwesMark(w, t) => WorkerOwesMark(w, t)'
    BY <1>0, <2>1, <2>2 DEF WorkerOwesMark
  <2>5. QED
    BY <1>0, <2>1, <2>3, <2>4, FlagStays DEF MarkOwed
<1>4. QED
  BY <1>1, <1>2, <1>3 DEF EnqueuerNext

\* When a worker ends a job, the mark the job owed is owed by the worker; it
\* stops owing by clearing the flag.
LEMMA FlagWorker ==
    ASSUME MarksWork, Inv, KeyInv, FlagInv, NEW w \in Workers, WorkerNext(w), NEW t \in Tickers
    PROVE  active_job_id'[t] # NoJob => t \in companies' /\ MarkOwed(t)'
<1> USE DEF rowVars, keyVars, workVars
<1>0. UNCHANGED ticker /\ companies \subseteq companies'
  BY DEF WorkerNext, WorkerProceeds, Claim, ClaimRelock, Complete, Raise, Release, MarkChecked,
     MarkFailed, Fail, Step, UpsertCompany, Touch, DatabaseError, WorkerRedisError, WorkerCrash
<1>1. CASE Claim(w)
  <2>1. PICK j \in Jobs :
          /\ status[j] = "queued" /\ wpc[w] = "idle"
          /\ status' = [status EXCEPT ![j] = "running"]
          /\ claim_token' = [claim_token EXCEPT ![j] = attempt_count[j] + 1]
          /\ wjob' = [wjob EXCEPT ![w] = j]
          /\ wtoken' = [wtoken EXCEPT ![w] = attempt_count[j] + 1]
          /\ wpc' = [wpc EXCEPT ![w] = IF Locked(j) THEN "xx" ELSE "run"]
    BY <1>1 DEF Claim, FreshToken
  <2>2. UNCHANGED <<active_job_id, faults>>
    BY <1>1 DEF Claim
  <2>3. \A v \in Workers : v # w => wpc'[v] = wpc[v] /\ wjob'[v] = wjob[v] /\ wtoken'[v] = wtoken[v]
    BY <2>1 DEF Inv, TypeOK
  <2>4. wjob'[w] = j /\ wpc'[w] \in {"xx", "run"}
    BY <2>1 DEF Inv, TypeOK
  <2>5. \A v \in Workers : Owns(v, j)' => v = w
    BY <2>1, <2>3, InvStep DEF Inv, TypeOK, ClaimInv, Owns
  <2>6. \A i \in Jobs : i # j => status'[i] = status[i] /\ claim_token'[i] = claim_token[i]
    BY <2>1 DEF Inv, TypeOK
  <2>7. \A i \in Jobs : JobOwesMark(i, t) => JobOwesMark(i, t)'
    <3> SUFFICES ASSUME NEW i \in Jobs, JobOwesMark(i, t) PROVE JobOwesMark(i, t)'
      OBVIOUS
    <3>1. CASE i = j
      BY <1>0, <2>1, <2>4, <2>5, <3>1 DEF JobOwesMark, Active, ACTIVE_JOB_STATES, Inv, TypeOK
    <3>2. CASE i # j
      BY <1>0, <2>3, <2>4, <2>6, <3>2 DEF JobOwesMark, Active, Owns
    <3>3. QED
      BY <3>1, <3>2
  <2>8. \A v \in Workers : WorkerOwesMark(v, t) => WorkerOwesMark(v, t)'
    BY <1>0, <2>1, <2>2, <2>3, <2>6 DEF WorkerOwesMark, Inv, TypeOK
  <2>9. QED
    BY <1>0, <2>2, <2>7, <2>8, FlagStays DEF MarkOwed
<1>2. CASE Step(w) \/ UpsertCompany(w) \/ Touch(w)
  <2>1. UNCHANGED <<status, claim_token, active_job_id, wpc, wjob, wtoken, faults>>
    BY <1>2 DEF Step, UpsertCompany, Touch
  <2>2. \A j \in Jobs : JobOwesMark(j, t) => JobOwesMark(j, t)'
    BY <1>0, <2>1 DEF JobOwesMark, Active, Owns
  <2>3. \A v \in Workers : WorkerOwesMark(v, t) => WorkerOwesMark(v, t)'
    BY <1>0, <2>1 DEF WorkerOwesMark
  <2>4. QED
    BY <1>0, <2>1, <2>2, <2>3, FlagStays DEF MarkOwed
<1>3. CASE ClaimRelock(w) \/ Raise(w) \/ Release(w) \/ DatabaseError(w) \/ WorkerRedisError(w)
  <2>1. /\ UNCHANGED <<status, claim_token, active_job_id>> /\ wpc[w] # "idle"
        /\ faults' = faults \/ (faults > 0 /\ faults' = faults - 1)
    BY <1>3 DEF ClaimRelock, Raise, Release, DatabaseError, WorkerRedisError, Fault
  <2>2. /\ \A v \in Workers : v # w => wpc'[v] = wpc[v] /\ wjob'[v] = wjob[v] /\ wtoken'[v] = wtoken[v]
        /\ wpc'[w] # "idle" => wjob'[w] = wjob[w] /\ wtoken'[w] = wtoken[w]
        /\ wpc'[w] # "fail"
    BY <1>3 DEF ClaimRelock, Raise, Release, DatabaseError, WorkerRedisError, AfterRelease,
       WorkerGoes, WorkerDone, Inv, TypeOK
  <2>3. faults \in Nat /\ (faults = 0 => faults' = 0)
    BY <2>1, ConstantsAssumption DEF Inv, TypeOK
  <2>4. \A j \in Jobs : JobOwesMark(j, t) => JobOwesMark(j, t)'
    BY <1>0, <2>1, <2>2 DEF JobOwesMark, Active, Owns
  <2>5. \A v \in Workers : v # w /\ WorkerOwesMark(v, t) => WorkerOwesMark(v, t)'
    BY <1>0, <2>1, <2>2, <2>3 DEF WorkerOwesMark
  <2>6. WorkerOwesMark(w, t) => WorkerOwesMark(w, t)'
    <3> SUFFICES ASSUME WorkerOwesMark(w, t) PROVE WorkerOwesMark(w, t)'
      OBVIOUS
    <3>1. CASE Release(w) \/ WorkerRedisError(w)
      <4>1. wpc[w] \in {"get", "del"} /\ status[wjob[w]] = "completed"
        BY <3>1 DEF Release, WorkerRedisError, WorkerOwesMark
      <4>2. wpc'[w] \in {"del", "mark"} /\ wjob'[w] = wjob[w]
        BY <3>1, <4>1 DEF Release, WorkerRedisError, AfterRelease, WorkerGoes, Inv, TypeOK
      <4>3. QED
        BY <1>0, <2>1, <4>1, <4>2 DEF WorkerOwesMark
    <3>2. CASE DatabaseError(w)
      <4>1. "db" \in FaultKinds /\ faults > 0 /\ faults' = faults - 1 /\ faults \in 0 .. MaxFaults
        BY <3>2 DEF DatabaseError, Fault, Inv, TypeOK
      <4>2. faults' = 0
        BY <4>1, ConstantsAssumption DEF MarksWork
      <4>3. wpc[w] = "mark"
        BY <3>2, <4>1, <2>3 DEF DatabaseError, WorkerOwesMark
      <4>4. wpc'[w] = "failmark" /\ wjob'[w] = wjob[w]
        BY <3>2, <4>3 DEF DatabaseError, WorkerGoes, WorkerDone, Inv, TypeOK
      <4>5. QED
        BY <1>0, <4>2, <4>4 DEF WorkerOwesMark
    <3>3. CASE ClaimRelock(w) \/ Raise(w)
      BY <3>3 DEF ClaimRelock, Raise, WorkerOwesMark
    <3>4. QED
      BY <1>3, <3>1, <3>2, <3>3
  <2>7. \A v \in Workers : WorkerOwesMark(v, t) => WorkerOwesMark(v, t)'
    BY <2>5, <2>6
  <2>8. QED
    BY <1>0, <2>1, <2>4, <2>7, FlagStays DEF MarkOwed
<1>4. CASE MarkChecked(w) \/ MarkFailed(w)
  <2>1. /\ UNCHANGED <<status, claim_token, companies, faults>> /\ wjob[w] \in Jobs
        /\ wpc[w] \in {"mark", "failmark"} /\ ticker[wjob[w]] \in Tickers
        /\ ClearActive(ticker[wjob[w]])
    BY <1>4 DEF MarkChecked, MarkFailed, Inv, TypeOK
  <2>2. \A v \in Workers : v # w => wpc'[v] = wpc[v] /\ wjob'[v] = wjob[v] /\ wtoken'[v] = wtoken[v]
    BY <1>4 DEF MarkChecked, MarkFailed, WorkerGoes, WorkerDone, Inv, TypeOK
  <2>3. wpc'[w] # "idle" => wjob'[w] = wjob[w]
    BY <1>4 DEF MarkChecked, MarkFailed, WorkerGoes, WorkerDone, Inv, TypeOK
  <2>4. CASE t = ticker[wjob[w]]
    <3>1. t \in companies => active_job_id'[t] = NoJob
      BY <2>1, <2>4 DEF ClearActive, Inv, TypeOK
    <3>2. t \notin companies => active_job_id'[t] = active_job_id[t]
      BY <2>1, <2>4 DEF ClearActive
    <3>3. QED
      BY <3>1, <3>2 DEF FlagInv
  <2>5. CASE t # ticker[wjob[w]]
    <3>1. active_job_id'[t] = active_job_id[t]
      BY <2>1, <2>5 DEF ClearActive, Inv, TypeOK
    <3>2. \A j \in Jobs : JobOwesMark(j, t) => JobOwesMark(j, t)'
      BY <1>0, <2>1, <2>2, <2>3, <2>5 DEF JobOwesMark, Active, Owns
    <3>3. \A v \in Workers : WorkerOwesMark(v, t) => WorkerOwesMark(v, t)'
      BY <1>0, <2>1, <2>2, <2>5 DEF WorkerOwesMark
    <3>4. QED
      BY <1>0, <3>1, <3>2, <3>3, FlagStays DEF MarkOwed
  <2>6. QED
    BY <2>4, <2>5
<1>5. CASE Complete(w) \/ Fail(w)
  <2> DEFINE j == wjob[w]
  <2>1. UNCHANGED <<active_job_id, companies, faults>> /\ j \in Jobs /\ wpc[w] \in {"run", "fail"}
    BY <1>5 DEF Complete, Fail, Inv, TypeOK
  <2>2. /\ wpc[w] = "run" => RecordTerminal(w, "completed", "mark")
        /\ wpc[w] = "fail" => RecordTerminal(w, "failed", "idle")
    BY <1>5 DEF Complete, Fail
  <2>3. \A v \in Workers : v # w => wpc'[v] = wpc[v] /\ wjob'[v] = wjob[v] /\ wtoken'[v] = wtoken[v]
    BY <2>1, <2>2 DEF RecordTerminal, WorkerGoes, WorkerDone, Inv, TypeOK
  <2>4. \A v \in Workers : WorkerOwesMark(v, t) => v # w
    BY <2>1 DEF WorkerOwesMark
  <2>5. CASE Fenced(w)
    <3>1. status[j] = "running" /\ Owns(w, j)
      BY <2>1, <2>5 DEF Fenced, Owns, Inv, TypeOK, ClaimInv
    <3>2. \A i \in Jobs : i # j => status'[i] = status[i] /\ claim_token'[i] = claim_token[i]
      BY <2>1, <2>2, <2>5 DEF RecordTerminal, Inv, TypeOK
    <3>3. /\ wpc[w] = "run" => status'[j] = "completed"
          /\ wpc[w] = "run" => wpc'[w] \in {"get", "mark"} /\ wjob'[w] = j
          /\ wpc'[w] # "fail" /\ (wpc'[w] # "idle" => wjob'[w] = j)
      BY <2>1, <2>2, <2>5 DEF RecordTerminal, WorkerGoes, WorkerDone, Inv, TypeOK
    <3>4. \A i \in Jobs : i # j /\ JobOwesMark(i, t) => JobOwesMark(i, t)'
      BY <1>0, <2>3, <3>2, <3>3 DEF JobOwesMark, Active, Owns
    <3>5. JobOwesMark(j, t) => WorkerOwesMark(w, t)'
      <4> SUFFICES ASSUME JobOwesMark(j, t) PROVE WorkerOwesMark(w, t)'
        OBVIOUS
      <4>1. wpc[w] = "run" /\ ticker[j] = t
        BY <2>1, <3>1 DEF JobOwesMark
      <4>2. QED
        BY <1>0, <3>3, <4>1 DEF WorkerOwesMark
    <3>6. \A v \in Workers : WorkerOwesMark(v, t) => WorkerOwesMark(v, t)'
      <4>1. \A v \in Workers : wpc[v] # "idle" => wjob[v] \in Jobs
        BY DEF Inv, TypeOK
      <4>2. QED
        BY <1>0, <2>1, <2>3, <2>4, <3>1, <3>2, <4>1 DEF WorkerOwesMark
    <3>7. QED
      BY <1>0, <2>1, <3>4, <3>5, <3>6, FlagStays DEF MarkOwed
  <2>6. CASE ~Fenced(w)
    <3>1. UNCHANGED <<status, claim_token>> /\ wpc'[w] \in {"mark", "idle"}
      BY <2>1, <2>2, <2>6 DEF RecordTerminal, WorkerGoes, WorkerDone, Inv, TypeOK
    <3>2. \A i \in Jobs : JobOwesMark(i, t) => JobOwesMark(i, t)'
      BY <1>0, <2>3, <3>1 DEF JobOwesMark, Active, Owns
    <3>3. \A v \in Workers : WorkerOwesMark(v, t) => WorkerOwesMark(v, t)'
      BY <1>0, <2>1, <2>3, <2>4, <3>1 DEF WorkerOwesMark
    <3>4. QED
      BY <1>0, <2>1, <3>2, <3>3, FlagStays DEF MarkOwed
  <2>7. QED
    BY <2>5, <2>6
<1>6. CASE WorkerCrash(w)
  BY <1>6 DEF WorkerCrash, Fault, MarksWork
<1>7. QED
  BY <1>1, <1>2, <1>3, <1>4, <1>5, <1>6 DEF WorkerNext, WorkerProceeds

\* Recovery takes a job from its worker, and whoever claims it next will mark.
LEMMA FlagRest ==
    ASSUME Inv, FlagInv, (\E h \in touches : TouchRelock(h)) \/ TimeNext \/ UNCHANGED vars,
           NEW t \in Tickers
    PROVE  active_job_id'[t] # NoJob => t \in companies' /\ MarkOwed(t)'
<1> USE DEF rowVars, keyVars, workVars
<1>1. UNCHANGED <<ticker, companies, active_job_id, wpc, wjob, wtoken>>
  BY DEF TouchRelock, TimeNext, LeaseExpires, DedupeExpires, RequeueExpired, LockExpires, vars
<1>2. \A j \in Jobs : \/ status'[j] = status[j] /\ claim_token'[j] = claim_token[j]
                      \/ status[j] = "running" /\ status'[j] = "queued" /\ claim_token'[j] = 0
  BY DEF TouchRelock, TimeNext, LeaseExpires, DedupeExpires, RequeueExpired, Expired, LockExpires, vars,
     Inv, TypeOK
<1>3. faults = 0 => faults' = 0
  BY DEF TouchRelock, TimeNext, LeaseExpires, Fault, DedupeExpires, RequeueExpired, LockExpires, vars,
     Inv, TypeOK
<1>4. \A w \in Workers : wpc[w] # "idle" => wjob[w] \in Jobs /\ wtoken[w] # 0
  BY DEF Inv, TypeOK, ClaimInv
<1>5. \A j \in Jobs : JobOwesMark(j, t) => JobOwesMark(j, t)'
  BY <1>1, <1>2, <1>4 DEF JobOwesMark, Active, ACTIVE_JOB_STATES, Owns
<1>6. \A w \in Workers : WorkerOwesMark(w, t) => WorkerOwesMark(w, t)'
  BY <1>1, <1>2, <1>3, <1>4 DEF WorkerOwesMark
<1>7. QED
  BY <1>1, <1>5, <1>6, FlagStays DEF MarkOwed

LEMMA FlagStep ==
    ASSUME MarksWork, Inv, KeyInv, FlagInv, [Next]_vars
    PROVE  FlagInv'
<1>1. ASSUME NEW t \in Tickers PROVE active_job_id'[t] # NoJob => t \in companies' /\ MarkOwed(t)'
  BY FlagEnqueuer, FlagWorker, FlagRest DEF Next
<1>2. QED
  BY <1>1 DEF FlagInv

\* Where no worker dies and the database fails once at most, the flag of a
\* dataset is gone when its refreshes are over, in whatever order overlapping
\* jobs, lost claims and recoveries ended them.
THEOREM FlagDoesNotOutliveRefreshes ==
    ASSUME MarksWork
    PROVE  Spec => []ActiveFlagCleared
<1>1. Init => Inv /\ KeyInv /\ FlagInv
  BY TypeInit, IdInit, ClaimInit, KeyInit, FlagInit DEF Inv
<1>2. Inv /\ KeyInv /\ FlagInv /\ [Next]_vars => (Inv /\ KeyInv /\ FlagInv)'
  BY InvStep, KeyStep, FlagStep
<1>3. FlagInv => ActiveFlagCleared
  BY DEF FlagInv, MarkOwed, JobOwesMark, WorkerOwesMark, ActiveFlagCleared, Quiescent
<1>4. QED
  BY <1>1, <1>2, <1>3, PTL DEF Spec
=============================================================================
