------------------------ MODULE RefreshQueueProofs ------------------------
(***************************************************************************)
(* Proofs about RefreshQueue for any number of jobs, enqueuers, workers,   *)
(* tickers and faults: type correctness, single ownership of a claim, the  *)
(* finality of terminal jobs, and that it implements JobLifecycle.         *)
(***************************************************************************)
EXTENDS RefreshQueue, TLAPS

\* Where an enqueuer has drawn an id but its row is not inserted.
BeforeInsert == {"acquire", "held", "check", "insert", "conflict"}

\* The id an enqueuer works with is its own and has no row before the insert.
IdInv ==
    /\ \A j \in Jobs : status[j] # "none" => j < nextJob
    /\ \A e \in Enqueuers : epc[e] \in BeforeInsert =>
          status[ejob[e]] = "none" /\ ejob[e] < nextJob
    /\ \A d, e \in Enqueuers :
          epc[d] \in BeforeInsert /\ epc[e] \in BeforeInsert /\ ejob[d] = ejob[e] => d = e

\* A token is the number of the claim that drew it; only a running job has one
\* and a lease; no two workers hold the same token of a job.
ClaimInv ==
    /\ \A j \in Jobs :
          /\ claim_token[j] <= attempt_count[j]
          /\ status[j] # "running" => claim_token[j] = 0 /\ lease[j] = "none"
    /\ \A w \in Workers : wpc[w] # "idle" =>
          wtoken[w] >= 1 /\ wtoken[w] <= attempt_count[wjob[w]]
    /\ \A v, w \in Workers :
          wpc[v] # "idle" /\ wpc[w] # "idle" /\ wjob[v] = wjob[w] /\ wtoken[v] = wtoken[w]
             => v = w

Inv == TypeOK /\ IdInv /\ ClaimInv

-----------------------------------------------------------------------------
(* Type correctness.                                                        *)

LEMMA NoJobNotJob == NoJob \notin Jobs
BY ConstantsAssumption DEF NoJob, Jobs

\* The initial state has the types of TypeOK.
LEMMA TypeInit == Init => TypeOK
BY ConstantsAssumption, NoJobNotJob DEF Init, TypeOK, Jobs, NoJob, JobStates, Leases, EnqueuerStates,
   WorkerStates, AtRest, ACTIVE_JOB_STATES, TERMINAL_JOB_STATES


\* Every step of an enqueuer keeps the types.
LEMMA TypeEnqueuer ==
    ASSUME TypeOK, NEW e \in Enqueuers, EnqueuerNext(e)
    PROVE  TypeOK'
<1> USE ConstantsAssumption, NoJobNotJob
    DEF EnqueuerStates, AtRest, rowVars, keyVars, enqVars, workVars
<1>1. ASSUME NEW t \in Tickers, NEW r \in Reasons, BeginEnqueue(e, t, r)
      PROVE  TypeOK'
  <2>1. nextJob \in Jobs /\ nextJob + 1 \in 1 .. MaxJobs + 1
    BY <1>1 DEF TypeOK, BeginEnqueue, Jobs
  <2>2. QED
    BY <1>1, <2>1 DEF TypeOK, BeginEnqueue, Answer
<1>2. CASE AcquireLock(e)
  BY <1>2 DEF TypeOK, AcquireLock, SetIfAbsent, EnqueuerGoes
<1>3. CASE SkipHeld(e)
  BY <1>3 DEF TypeOK, SkipHeld, Answer, Latest, ActiveForDataset
<1>4. CASE SkipEquivalent(e)
  BY <1>4 DEF TypeOK, SkipEquivalent, Answer, Latest, EquivalentActive, EquivalentRecent
<1>5. CASE NoEquivalent(e)
  BY <1>5 DEF TypeOK, NoEquivalent, EnqueuerGoes
<1>6. CASE InsertJob(e)
  BY <1>6 DEF TypeOK, InsertJob, EnqueuerGoes, JobStates, ACTIVE_JOB_STATES
<1>7. CASE InsertConflict(e)
  BY <1>7 DEF TypeOK, InsertConflict, EnqueuerGoes
<1>8. CASE ResolveConflict(e)
  BY <1>8 DEF TypeOK, ResolveConflict, Answer, EnqueuerGoes, Latest, EquivalentActive
<1>9. CASE EnqueueRelock(e)
  BY <1>9 DEF TypeOK, EnqueueRelock, SetIfAbsent, SetIfPresent, EnqueuerGoes
<1>10. CASE EnqueueRelease(e)
  BY <1>10 DEF TypeOK, EnqueueRelease, Delete, Answer, EnqueuerGoes
<1>11. CASE EnqueueError(e)
  BY <1>11 DEF TypeOK, EnqueueError, Answer, EnqueuerGoes, Fault
<1>12. CASE EnqueueRedisError(e)
  BY <1>12 DEF TypeOK, EnqueueRedisError, Answer, EnqueuerGoes, Fault
<1>13. CASE EnqueuerCrash(e)
  BY <1>13 DEF TypeOK, EnqueuerCrash, Answer, Fault
<1>14. QED
  BY <1>1, <1>2, <1>3, <1>4, <1>5, <1>6, <1>7, <1>8, <1>9, <1>10, <1>11, <1>12, <1>13 DEF EnqueuerNext

\* Every step of a worker keeps the types.
LEMMA TypeWorker ==
    ASSUME TypeOK, NEW w \in Workers, WorkerNext(w)
    PROVE  TypeOK'
<1> USE ConstantsAssumption, NoJobNotJob
    DEF WorkerStates, rowVars, keyVars, enqVars, workVars
<1>1. CASE Claim(w)
  BY <1>1 DEF TypeOK, Claim, FreshToken, JobStates, ACTIVE_JOB_STATES, Leases
<1>2. CASE ClaimRelock(w)
  BY <1>2 DEF TypeOK, ClaimRelock, SetIfAbsent, SetIfPresent, WorkerGoes
<1>3. CASE Complete(w)
  BY <1>3 DEF TypeOK, Complete, RecordTerminal, JobStates,
     TERMINAL_JOB_STATES, Leases, WorkerGoes, WorkerDone
<1>4. CASE Raise(w)
  BY <1>4 DEF TypeOK, Raise, WorkerGoes
<1>5. CASE Release(w)
  BY <1>5 DEF TypeOK, Release, Delete, AfterRelease, WorkerGoes, WorkerDone
<1>6. CASE MarkChecked(w)
  BY <1>6 DEF TypeOK, MarkChecked, ClearActive, WorkerDone
<1>7. CASE MarkFailed(w)
  BY <1>7 DEF TypeOK, MarkFailed, ClearActive, WorkerGoes
<1>8. CASE Fail(w)
  BY <1>8 DEF TypeOK, Fail, RecordTerminal, JobStates,
     TERMINAL_JOB_STATES, Leases, WorkerGoes, WorkerDone
<1>9. CASE Step(w)
  BY <1>9 DEF TypeOK, Step, Leases
<1>10. CASE UpsertCompany(w)
  BY <1>10 DEF TypeOK, UpsertCompany
<1>11. CASE Touch(w)
  BY <1>11 DEF TypeOK, Touch, Leases
<1>12. CASE DatabaseError(w)
  BY <1>12 DEF TypeOK, DatabaseError, WorkerGoes, WorkerDone, Fault
<1>13. CASE WorkerRedisError(w)
  BY <1>13 DEF TypeOK, WorkerRedisError, AfterRelease, WorkerGoes, WorkerDone, Fault
<1>14. CASE WorkerCrash(w)
  BY <1>14 DEF TypeOK, WorkerCrash, WorkerDone, Fault
<1>15. QED
  BY <1>1, <1>2, <1>3, <1>4, <1>5, <1>6, <1>7, <1>8, <1>9, <1>10, <1>11, <1>12, <1>13, <1>14 DEF WorkerNext, WorkerProceeds

\* Redis renewals of heartbeat threads and the passing of time keep the types.
LEMMA TypeRest ==
    ASSUME TypeOK, (\E h \in touches : TouchRelock(h)) \/ TimeNext
    PROVE  TypeOK'
<1> USE ConstantsAssumption, NoJobNotJob DEF rowVars, keyVars, enqVars, workVars
<1>1. ASSUME NEW h \in touches, TouchRelock(h)
      PROVE  TypeOK'
  BY <1>1 DEF TypeOK, TouchRelock, SetIfAbsent, SetIfPresent
<1>2. ASSUME NEW j \in Jobs, LeaseExpires(j)
      PROVE  TypeOK'
  BY <1>2 DEF TypeOK, LeaseExpires, Fault, Leases
<1>3. ASSUME NEW j \in Jobs, DedupeExpires(j)
      PROVE  TypeOK'
  BY <1>3 DEF TypeOK, DedupeExpires
<1>4. ASSUME NEW S \in SUBSET Jobs, RequeueExpired(S)
      PROVE  TypeOK'
  BY <1>4 DEF TypeOK, RequeueExpired, JobStates, ACTIVE_JOB_STATES, Leases
<1>5. ASSUME NEW t \in Tickers, LockExpires(t)
      PROVE  TypeOK'
  BY <1>5 DEF TypeOK, LockExpires, Delete
<1>6. QED
  BY <1>1, <1>2, <1>3, <1>4, <1>5 DEF TimeNext

\* Stuttering keeps the types.
LEMMA TypeStutter == TypeOK /\ UNCHANGED vars => TypeOK'
BY DEF TypeOK, vars, rowVars, keyVars, enqVars, workVars

\* Every reachable state of the queue is well typed: no interleaving makes a
\* column, a lock or a program counter leave its domain, and a process that is
\* in the middle of a call names a job.
THEOREM TypeCorrect == Spec => []TypeOK
<1>1. TypeOK /\ [Next]_vars => TypeOK'
  BY TypeEnqueuer, TypeWorker, TypeRest, TypeStutter DEF Next
<1>2. QED
  BY TypeInit, <1>1, PTL DEF Spec

-----------------------------------------------------------------------------
(* The inductive invariant.  SingleOwner alone is not inductive: it says    *)
(* nothing of a worker whose claim was taken away, and that worker must     *)
(* never match a later claim (ClaimInv); finality needs in addition that a  *)
(* row is inserted under an id that has none (IdInv).                       *)

LEMMA IdInit == Init => IdInv
BY ConstantsAssumption DEF Init, IdInv, BeforeInsert

LEMMA ClaimInit == Init => ClaimInv
BY ConstantsAssumption DEF Init, ClaimInv

\* An enqueuer keeps ids apart: it draws a new one and inserts only its own.
LEMMA IdEnqueuer ==
    ASSUME TypeOK, IdInv, NEW e \in Enqueuers, EnqueuerNext(e)
    PROVE  IdInv'
<1> USE DEF BeforeInsert, AtRest, rowVars, keyVars
<1>1. ASSUME NEW t \in Tickers, NEW r \in Reasons, BeginEnqueue(e, t, r)
      PROVE  IdInv'
  <2>1. nextJob \in Jobs /\ nextJob \in Int /\ nextJob' = nextJob + 1 /\ status[nextJob] = "none"
    BY <1>1, ConstantsAssumption DEF TypeOK, BeginEnqueue, Jobs, IdInv
  <2>2. Jobs \subseteq Int
    BY ConstantsAssumption DEF Jobs
  <2>3. status' = status /\ nextJob' = nextJob + 1 /\ ejob'[e] = nextJob
    BY <1>1 DEF BeginEnqueue, Answer, TypeOK
  <2>4. \A d \in Enqueuers : d # e => epc'[d] = epc[d] /\ ejob'[d] = ejob[d]
    BY <1>1 DEF BeginEnqueue, Answer, TypeOK
  <2>5. \A d \in Enqueuers : epc[d] \in BeforeInsert =>
           ejob[d] \in Jobs /\ ejob[d] < nextJob /\ status[ejob[d]] = "none"
    BY DEF TypeOK, IdInv
  <2>6. \A j \in Jobs : status'[j] # "none" => j < nextJob'
    BY <2>1, <2>2, <2>3 DEF IdInv
  <2>7. \A d \in Enqueuers : epc'[d] \in BeforeInsert =>
           status'[ejob'[d]] = "none" /\ ejob'[d] < nextJob'
    <3> SUFFICES ASSUME NEW d \in Enqueuers, epc'[d] \in BeforeInsert
                 PROVE  status'[ejob'[d]] = "none" /\ ejob'[d] < nextJob'
      OBVIOUS
    <3>1. CASE d = e
      BY <2>1, <2>3, <3>1
    <3>2. CASE d # e
      <4>1. ejob'[d] = ejob[d] /\ ejob[d] \in Jobs /\ ejob[d] < nextJob /\ status[ejob[d]] = "none"
        BY <2>4, <2>5, <3>2
      <4>2. \A i \in Jobs : i < nextJob => i < nextJob + 1
        BY <2>1, <2>2
      <4>3. QED
        BY <4>1, <4>2, <2>3
    <3> QED
      BY <3>1, <3>2
  <2>8. \A c, d \in Enqueuers : epc'[c] \in BeforeInsert /\ epc'[d] \in BeforeInsert
                                /\ ejob'[c] = ejob'[d] => c = d
    BY <2>1, <2>2, <2>3, <2>4, <2>5 DEF IdInv
  <2>9. QED
    BY <2>6, <2>7, <2>8 DEF IdInv
<1>2. CASE AcquireLock(e)
  BY <1>2 DEF TypeOK, IdInv, AcquireLock, SetIfAbsent, EnqueuerGoes
<1>3. CASE SkipHeld(e)
  BY <1>3 DEF TypeOK, IdInv, SkipHeld, Answer, Latest, ActiveForDataset
<1>4. CASE SkipEquivalent(e)
  BY <1>4 DEF TypeOK, IdInv, SkipEquivalent, Answer, Latest, EquivalentActive, EquivalentRecent
<1>5. CASE NoEquivalent(e)
  BY <1>5 DEF TypeOK, IdInv, NoEquivalent, EnqueuerGoes
<1>6. CASE InsertJob(e)
  BY <1>6 DEF TypeOK, IdInv, InsertJob, EnqueuerGoes
<1>7. CASE InsertConflict(e)
  BY <1>7 DEF TypeOK, IdInv, InsertConflict, EnqueuerGoes
<1>8. CASE ResolveConflict(e)
  BY <1>8 DEF TypeOK, IdInv, ResolveConflict, Answer, EnqueuerGoes, Latest, EquivalentActive
<1>9. CASE EnqueueRelock(e)
  BY <1>9 DEF TypeOK, IdInv, EnqueueRelock, SetIfAbsent, SetIfPresent, EnqueuerGoes
<1>10. CASE EnqueueRelease(e)
  BY <1>10 DEF TypeOK, IdInv, EnqueueRelease, Delete, Answer, EnqueuerGoes
<1>11. CASE EnqueueError(e)
  BY <1>11 DEF TypeOK, IdInv, EnqueueError, Answer, EnqueuerGoes, Fault
<1>12. CASE EnqueueRedisError(e)
  BY <1>12 DEF TypeOK, IdInv, EnqueueRedisError, Answer, EnqueuerGoes, Fault
<1>13. CASE EnqueuerCrash(e)
  BY <1>13 DEF TypeOK, IdInv, EnqueuerCrash, Answer, Fault
<1>14. QED
  BY <1>1, <1>2, <1>3, <1>4, <1>5, <1>6, <1>7, <1>8, <1>9, <1>10, <1>11, <1>12, <1>13 DEF EnqueuerNext

\* A worker never gives a row to an id that has none.
LEMMA IdWorker ==
    ASSUME TypeOK, IdInv, ClaimInv, NEW w \in Workers, WorkerNext(w)
    PROVE  IdInv'
<1> USE DEF rowVars, keyVars, enqVars
<1>1. CASE Claim(w)
  BY <1>1 DEF TypeOK, IdInv, Claim
<1>2. CASE ClaimRelock(w)
  BY <1>2 DEF TypeOK, IdInv, ClaimRelock
<1>3. CASE Complete(w)
  <2>1. Fenced(w) => status[wjob[w]] = "running"
    BY <1>3 DEF TypeOK, ClaimInv, Complete, Fenced
  <2>2. \A j \in Jobs : status'[j] = status[j] \/ (status[j] = "running" /\ status'[j] # "none")
    BY <1>3, <2>1 DEF TypeOK, Complete, RecordTerminal
  <2>3. UNCHANGED <<epc, ejob, nextJob>>
    BY <1>3 DEF Complete
  <2>4. QED
    BY <2>2, <2>3 DEF TypeOK, IdInv, BeforeInsert, AtRest
<1>4. CASE Raise(w)
  BY <1>4 DEF TypeOK, IdInv, Raise
<1>5. CASE Release(w)
  BY <1>5 DEF TypeOK, IdInv, Release
<1>6. CASE MarkChecked(w)
  BY <1>6 DEF TypeOK, IdInv, MarkChecked
<1>7. CASE MarkFailed(w)
  BY <1>7 DEF TypeOK, IdInv, MarkFailed
<1>8. CASE Fail(w)
  <2>1. Fenced(w) => status[wjob[w]] = "running"
    BY <1>8 DEF TypeOK, ClaimInv, Fail, Fenced
  <2>2. \A j \in Jobs : status'[j] = status[j] \/ (status[j] = "running" /\ status'[j] # "none")
    BY <1>8, <2>1 DEF TypeOK, Fail, RecordTerminal
  <2>3. UNCHANGED <<epc, ejob, nextJob>>
    BY <1>8 DEF Fail
  <2>4. QED
    BY <2>2, <2>3 DEF TypeOK, IdInv, BeforeInsert, AtRest
<1>9. CASE Step(w)
  BY <1>9 DEF TypeOK, IdInv, Step
<1>10. CASE UpsertCompany(w)
  BY <1>10 DEF TypeOK, IdInv, UpsertCompany
<1>11. CASE Touch(w)
  BY <1>11 DEF TypeOK, IdInv, Touch
<1>12. CASE DatabaseError(w)
  BY <1>12 DEF TypeOK, IdInv, DatabaseError
<1>13. CASE WorkerRedisError(w)
  BY <1>13 DEF TypeOK, IdInv, WorkerRedisError
<1>14. CASE WorkerCrash(w)
  BY <1>14 DEF TypeOK, IdInv, WorkerCrash
<1>15. QED
  BY <1>1, <1>2, <1>3, <1>4, <1>5, <1>6, <1>7, <1>8, <1>9, <1>10, <1>11, <1>12, <1>13, <1>14 DEF WorkerNext, WorkerProceeds

LEMMA IdRest ==
    ASSUME TypeOK, IdInv, (\E h \in touches : TouchRelock(h)) \/ TimeNext
    PROVE  IdInv'
<1> USE DEF rowVars, keyVars, enqVars
<1>1. ASSUME NEW h \in touches, TouchRelock(h)
      PROVE  IdInv'
  BY <1>1 DEF IdInv, TouchRelock
<1>2. ASSUME NEW j \in Jobs, LeaseExpires(j) \/ DedupeExpires(j)
      PROVE  IdInv'
  BY <1>2 DEF IdInv, LeaseExpires, DedupeExpires
<1>3. ASSUME NEW S \in SUBSET Jobs, RequeueExpired(S)
      PROVE  IdInv'
  <2>1. \A j \in Jobs : status'[j] = status[j] \/ (status[j] = "running" /\ status'[j] # "none")
    BY <1>3 DEF TypeOK, RequeueExpired, Expired
  <2>2. UNCHANGED <<epc, ejob, nextJob>>
    BY <1>3 DEF RequeueExpired
  <2>3. QED
    BY <2>1, <2>2 DEF TypeOK, IdInv, BeforeInsert, AtRest
<1>4. ASSUME NEW t \in Tickers, LockExpires(t)
      PROVE  IdInv'
  BY <1>4 DEF IdInv, LockExpires
<1>5. QED
  BY <1>1, <1>2, <1>3, <1>4 DEF TimeNext

\* Enqueuers touch no claim; the row they insert was not running.
LEMMA ClaimEnqueuer ==
    ASSUME TypeOK, IdInv, ClaimInv, NEW e \in Enqueuers, EnqueuerNext(e)
    PROVE  ClaimInv'
<1> USE DEF rowVars, workVars
<1>1. CASE InsertJob(e)
  BY <1>1 DEF TypeOK, IdInv, ClaimInv, InsertJob, BeforeInsert
<1>2. CASE ~InsertJob(e)
  <2>1. UNCHANGED <<rowVars, workVars>>
    BY <1>2 DEF EnqueuerNext, BeginEnqueue, AcquireLock, SkipHeld, SkipEquivalent, NoEquivalent,
       InsertConflict, ResolveConflict, EnqueueRelock, EnqueueRelease, EnqueueError,
       EnqueueRedisError, EnqueuerCrash
  <2>2. QED
    BY <2>1 DEF ClaimInv
<1>3. QED
  BY <1>1, <1>2

\* A worker that goes on, or lets go of its job, keeps the claims of all workers apart.
LEMMA ClaimGoesOn ==
    ASSUME TypeOK, ClaimInv, NEW w \in Workers, NEW pc, wpc[w] # "idle",
           WorkerGoes(w, pc) \/ WorkerDone(w), UNCHANGED attempt_count,
           \A j \in Jobs : /\ claim_token'[j] \in {claim_token[j], 0}
                           /\ status'[j] # "running" => claim_token'[j] = 0 /\ lease'[j] = "none"
    PROVE  ClaimInv'
<1>1. \A v \in Workers : wpc'[v] # "idle" =>
         wpc[v] # "idle" /\ wjob'[v] = wjob[v] /\ wtoken'[v] = wtoken[v]
  BY DEF TypeOK, WorkerGoes, WorkerDone
<1>2. \A j \in Jobs : claim_token'[j] <= attempt_count'[j]
  BY DEF TypeOK, ClaimInv
<1>3. \A v \in Workers : wpc'[v] # "idle" =>
         wtoken'[v] >= 1 /\ wtoken'[v] <= attempt_count'[wjob'[v]]
  BY <1>1 DEF ClaimInv
<1>4. \A u, v \in Workers : wpc'[u] # "idle" /\ wpc'[v] # "idle" /\ wjob'[u] = wjob'[v]
                            /\ wtoken'[u] = wtoken'[v] => u = v
  BY <1>1 DEF ClaimInv
<1>5. QED
  BY <1>2, <1>3, <1>4 DEF ClaimInv

\* Claiming draws a token above every token held for the job; nothing else a
\* worker does draws one.
LEMMA ClaimWorker ==
    ASSUME TypeOK, ClaimInv, NEW w \in Workers, WorkerNext(w)
    PROVE  ClaimInv'
<1> USE DEF rowVars, workVars
<1>1. CASE Claim(w)
  <2>1. PICK j \in Jobs :
          /\ status[j] = "queued" /\ wpc[w] = "idle"
          /\ status' = [status EXCEPT ![j] = "running"]
          /\ attempt_count' = [attempt_count EXCEPT ![j] = @ + 1]
          /\ claim_token' = [claim_token EXCEPT ![j] = attempt_count[j] + 1]
          /\ lease' = [lease EXCEPT ![j] = "live"]
          /\ wjob' = [wjob EXCEPT ![w] = j]
          /\ wtoken' = [wtoken EXCEPT ![w] = attempt_count[j] + 1]
          /\ wpc' = [wpc EXCEPT ![w] = IF Locked(j) THEN "xx" ELSE "run"]
    BY <1>1 DEF Claim, FreshToken
  <2>2. \A v \in Workers : v # w =>
           wpc'[v] = wpc[v] /\ wjob'[v] = wjob[v] /\ wtoken'[v] = wtoken[v]
    BY <2>1 DEF TypeOK
  <2>3. wjob'[w] = j /\ wtoken'[w] = attempt_count[j] + 1 /\ attempt_count'[j] = attempt_count[j] + 1
    BY <2>1 DEF TypeOK
  <2>4. \A i \in Jobs : /\ claim_token'[i] <= attempt_count'[i]
                        /\ status'[i] # "running" => claim_token'[i] = 0 /\ lease'[i] = "none"
                        /\ attempt_count[i] <= attempt_count'[i]
                        /\ attempt_count[i] \in Nat /\ attempt_count'[i] \in Nat
    BY <2>1 DEF TypeOK, ClaimInv
  <2>5. \A v \in Workers : wpc[v] # "idle" => wjob[v] \in Jobs /\ wtoken[v] \in Nat
    BY DEF TypeOK
  <2>6. \A v \in Workers : wpc'[v] # "idle" =>
           wtoken'[v] >= 1 /\ wtoken'[v] <= attempt_count'[wjob'[v]]
    BY <2>2, <2>3, <2>4, <2>5 DEF ClaimInv
  <2>7. \A v \in Workers : v # w /\ wpc'[v] # "idle" /\ wjob'[v] = j => wtoken'[v] <= attempt_count[j]
    BY <2>2 DEF ClaimInv
  <2>8. \A u, v \in Workers : wpc'[u] # "idle" /\ wpc'[v] # "idle" /\ wjob'[u] = wjob'[v]
                              /\ wtoken'[u] = wtoken'[v] => u = v
    BY <2>2, <2>3, <2>4, <2>5, <2>7 DEF ClaimInv
  <2>9. QED
    BY <2>4, <2>6, <2>8 DEF ClaimInv
<1>2. CASE ClaimRelock(w) \/ Raise(w) \/ Release(w) \/ MarkChecked(w) \/ MarkFailed(w)
           \/ DatabaseError(w) \/ WorkerRedisError(w) \/ WorkerCrash(w)
  <2>1. wpc[w] # "idle" /\ UNCHANGED rowVars
    BY <1>2 DEF ClaimRelock, Raise, Release, MarkChecked, MarkFailed, DatabaseError,
       WorkerRedisError, WorkerCrash
  <2>2. (\E pc \in WorkerStates : WorkerGoes(w, pc)) \/ WorkerDone(w)
    BY <1>2 DEF ClaimRelock, Raise, Release, MarkChecked, MarkFailed, DatabaseError,
       WorkerRedisError, WorkerCrash, AfterRelease, WorkerStates
  <2>3. QED
    BY <2>1, <2>2, ClaimGoesOn DEF ClaimInv
<1>3. CASE Complete(w) \/ Fail(w)
  <2>1. wpc[w] # "idle" /\ (\E s \in TERMINAL_JOB_STATES, pc \in WorkerStates : RecordTerminal(w, s, pc))
    BY <1>3 DEF Complete, Fail, WorkerStates, TERMINAL_JOB_STATES
  <2>2. PICK s \in TERMINAL_JOB_STATES, pc \in WorkerStates : RecordTerminal(w, s, pc)
    BY <2>1
  <2>3. (\E q \in WorkerStates : WorkerGoes(w, q)) \/ WorkerDone(w)
    BY <2>2 DEF RecordTerminal, WorkerStates
  <2>4. UNCHANGED attempt_count
    BY <2>2 DEF RecordTerminal
  <2>5. \A j \in Jobs : /\ claim_token'[j] \in {claim_token[j], 0}
                        /\ status'[j] # "running" => claim_token'[j] = 0 /\ lease'[j] = "none"
    BY <2>2 DEF RecordTerminal, TypeOK, ClaimInv
  <2>6. QED
    BY <2>1, <2>3, <2>4, <2>5, ClaimGoesOn
<1>4. CASE Step(w) \/ Touch(w)
  <2>1. status[wjob[w]] = "running" /\ wjob[w] \in Jobs
    BY <1>4 DEF Step, Touch, Fenced, TypeOK, ClaimInv
  <2>2. QED
    BY <1>4, <2>1 DEF Step, Touch, TypeOK, ClaimInv
<1>5. CASE UpsertCompany(w)
  BY <1>5 DEF UpsertCompany, ClaimInv
<1>6. QED
  BY <1>1, <1>2, <1>3, <1>4, <1>5 DEF WorkerNext, WorkerProceeds

\* A lease expires only on a running job, and recovery takes its token away.
LEMMA ClaimRest ==
    ASSUME TypeOK, ClaimInv, (\E h \in touches : TouchRelock(h)) \/ TimeNext
    PROVE  ClaimInv'
<1> USE DEF rowVars, workVars
<1>1. ASSUME NEW h \in touches, TouchRelock(h)
      PROVE  ClaimInv'
  BY <1>1 DEF ClaimInv, TouchRelock
<1>2. ASSUME NEW j \in Jobs, LeaseExpires(j)
      PROVE  ClaimInv'
  BY <1>2 DEF TypeOK, ClaimInv, LeaseExpires
<1>3. ASSUME NEW j \in Jobs, DedupeExpires(j)
      PROVE  ClaimInv'
  BY <1>3 DEF ClaimInv, DedupeExpires
<1>4. ASSUME NEW S \in SUBSET Jobs, RequeueExpired(S)
      PROVE  ClaimInv'
  BY <1>4 DEF TypeOK, ClaimInv, RequeueExpired
<1>5. ASSUME NEW t \in Tickers, LockExpires(t)
      PROVE  ClaimInv'
  BY <1>5 DEF ClaimInv, LockExpires
<1>6. QED
  BY <1>1, <1>2, <1>3, <1>4, <1>5 DEF TimeNext

LEMMA InvStutter == Inv /\ UNCHANGED vars => Inv'
BY TypeStutter DEF Inv, IdInv, ClaimInv, vars, rowVars, keyVars, enqVars, workVars

LEMMA InvStep == Inv /\ [Next]_vars => Inv'
<1> SUFFICES ASSUME Inv, [Next]_vars PROVE Inv'
  OBVIOUS
<1> USE DEF Inv
<1>1. ASSUME NEW e \in Enqueuers, EnqueuerNext(e) PROVE Inv'
  BY <1>1, TypeEnqueuer, IdEnqueuer, ClaimEnqueuer
<1>2. ASSUME NEW w \in Workers, WorkerNext(w) PROVE Inv'
  BY <1>2, TypeWorker, IdWorker, ClaimWorker
<1>3. CASE (\E h \in touches : TouchRelock(h)) \/ TimeNext
  BY <1>3, TypeRest, IdRest, ClaimRest
<1>4. CASE UNCHANGED vars
  BY <1>4, InvStutter
<1>5. QED
  BY <1>1, <1>2, <1>3, <1>4 DEF Next

\* The inductive invariant holds in every reachable state.
THEOREM Invariance == Spec => []Inv
<1>1. Init => Inv
  BY TypeInit, IdInit, ClaimInit DEF Inv
<1>2. QED
  BY <1>1, InvStep, PTL DEF Spec

\* At most one worker can write for a job, and none for a job that is not
\* running: the claim token fences off every worker that lost its lease.
THEOREM ClaimIsExclusive == Spec => []SingleOwner
<1>1. Inv => SingleOwner
  BY DEF Inv, TypeOK, ClaimInv, SingleOwner, Owns
<1>2. QED
  BY <1>1, Invariance, PTL

\* A finished job stays as it is: every write is fenced, recovery and lease
\* expiry concern running jobs, claims concern queued ones, and an insert uses
\* an id without a row.
THEOREM FinishedJobsAreFinal == Spec => TerminalIsFinal
<1> DEFINE Final == \A j \in Jobs : Terminal(j) =>
                       /\ status'[j] = status[j]
                       /\ event_sequence'[j] = event_sequence[j]
                       /\ lease'[j] = lease[j]
<1>1. Inv /\ [Next]_vars => [Final]_vars
  <2> SUFFICES ASSUME Inv, Next, NEW j \in Jobs, Terminal(j)
               PROVE  /\ status'[j] = status[j]
                      /\ event_sequence'[j] = event_sequence[j]
                      /\ lease'[j] = lease[j]
    OBVIOUS
  <2> DEFINE Same == /\ status'[j] = status[j]
                     /\ event_sequence'[j] = event_sequence[j]
                     /\ lease'[j] = lease[j]
  <2>0. status[j] \notin {"none", "queued", "running"} /\ claim_token[j] = 0 /\ lease[j] = "none"
    BY DEF Inv, ClaimInv, Terminal, TERMINAL_JOB_STATES
  <2>1. ASSUME NEW e \in Enqueuers, EnqueuerNext(e) PROVE Same
    <3>1. CASE InsertJob(e)
      <4>1. ejob[e] # j
        BY <2>0, <3>1 DEF Inv, IdInv, InsertJob, BeforeInsert
      <4>2. QED
        BY <3>1, <4>1 DEF Inv, TypeOK, InsertJob
    <3>2. CASE ~InsertJob(e)
      BY <2>1, <3>2 DEF rowVars, EnqueuerNext, BeginEnqueue, AcquireLock, SkipHeld, SkipEquivalent,
         NoEquivalent, InsertConflict, ResolveConflict, EnqueueRelock, EnqueueRelease,
         EnqueueError, EnqueueRedisError, EnqueuerCrash
    <3>3. QED
      BY <3>1, <3>2
  <2>2. ASSUME NEW w \in Workers, WorkerNext(w) PROVE Same
    <3>1. CASE Claim(w)
      BY <2>0, <3>1 DEF Inv, TypeOK, Claim
    <3>2. CASE Complete(w) \/ Fail(w) \/ Step(w) \/ Touch(w)
      <4>1. wpc[w] # "idle" /\ (wjob[w] # j \/ ~Fenced(w))
        BY <2>0, <3>2 DEF Inv, TypeOK, ClaimInv, Fenced, Complete, Fail, Step, Touch
      <4>2. QED
        BY <3>2, <4>1 DEF Inv, TypeOK, Complete, Fail, Step, Touch, RecordTerminal, rowVars
    <3>3. CASE ~(Claim(w) \/ Complete(w) \/ Fail(w) \/ Step(w) \/ Touch(w))
      BY <2>2, <3>3 DEF rowVars, WorkerNext, WorkerProceeds, ClaimRelock, Raise, Release, MarkChecked,
         MarkFailed, UpsertCompany, DatabaseError, WorkerRedisError, WorkerCrash
    <3>4. QED
      BY <3>1, <3>2, <3>3
  <2>3. CASE (\E h \in touches : TouchRelock(h)) \/ TimeNext
    BY <2>0, <2>3 DEF Inv, TypeOK, TimeNext, TouchRelock, LeaseExpires, DedupeExpires,
       RequeueExpired, Expired, LockExpires, rowVars
  <2>4. QED
    BY <2>1, <2>2, <2>3 DEF Next
<1>2. QED
  BY <1>1, Invariance, PTL DEF Spec, TerminalIsFinal

-----------------------------------------------------------------------------
(* RefreshQueue implements JobLifecycle.  The owner of a job is the worker *)
(* that passes the fence of its claim token.                               *)

\* An id without a row has no events.
SeqInv == \A j \in Jobs : status[j] = "none" => event_sequence[j] = 0

\* What the CHOOSE in owner stands for.
OwnerInv ==
    /\ owner = [j \in Jobs |-> owner[j]]
    /\ \A j \in Jobs, w \in Workers : owner[j] = w <=> Owns(w, j)
    /\ \A j \in Jobs : owner[j] \in Workers \cup {NoWorker}

\* There is one owner at most, so owner names it.
LEMMA OwnerIs == Inv => OwnerInv
<1> SUFFICES ASSUME Inv PROVE OwnerInv
  OBVIOUS
<1>1. SingleOwner
  BY DEF Inv, TypeOK, ClaimInv, SingleOwner, Owns
<1>2. ASSUME NEW j \in Jobs, NEW w \in Workers, Owns(w, j)
      PROVE  owner[j] = w
  <2>1. \A v \in Workers : Owns(v, j) => v = w
    BY <1>1, <1>2 DEF SingleOwner
  <2>2. (CHOOSE v \in Workers : Owns(v, j)) = w
    BY <1>2, <2>1
  <2>3. QED
    BY <1>2, <2>2 DEF owner
<1>3. ASSUME NEW j \in Jobs, \A w \in Workers : ~Owns(w, j)
      PROVE  owner[j] = NoWorker
  BY <1>3 DEF owner
<1>4. owner = [j \in Jobs |-> owner[j]]
  BY DEF owner
<1>5. QED
  BY <1>2, <1>3, <1>4, ConstantsAssumption DEF OwnerInv

\* The same of the next state.
LEMMA OwnerIsNext == Inv' => OwnerInv'
BY OwnerIs, PTL

\* Two states with the same owning workers have the same owner.
LEMMA SameOwner ==
    ASSUME OwnerInv, OwnerInv', \A w \in Workers, j \in Jobs : Owns(w, j)' <=> Owns(w, j)
    PROVE  owner' = owner
<1>1. \A j \in Jobs : owner'[j] = owner[j]
  BY DEF OwnerInv
<1>2. QED
  BY <1>1 DEF OwnerInv

-----------------------------------------------------------------------------
(* The second inductive invariant: SeqInv.                                  *)

LEMMA SeqStep == Inv /\ SeqInv /\ [Next]_vars => SeqInv'
<1> SUFFICES ASSUME Inv, SeqInv, [Next]_vars PROVE SeqInv'
  OBVIOUS
<1> USE DEF Inv, rowVars
<1>1. ASSUME NEW e \in Enqueuers, EnqueuerNext(e) PROVE SeqInv'
  <2>1. CASE InsertJob(e)
    BY <2>1 DEF InsertJob, TypeOK, AtRest, SeqInv
  <2>2. CASE ~InsertJob(e)
    BY <1>1, <2>2 DEF SeqInv, EnqueuerNext, BeginEnqueue, AcquireLock, SkipHeld, SkipEquivalent,
       NoEquivalent, InsertConflict, ResolveConflict, EnqueueRelock, EnqueueRelease,
       EnqueueError, EnqueueRedisError, EnqueuerCrash
  <2>3. QED
    BY <2>1, <2>2
<1>2. ASSUME NEW w \in Workers, WorkerNext(w) PROVE SeqInv'
  <2>1. CASE Claim(w)
    BY <2>1 DEF Claim, TypeOK, SeqInv
  <2>2. CASE Complete(w) \/ Fail(w)
    BY <2>2 DEF Complete, Fail, RecordTerminal, TypeOK, SeqInv
  <2>3. CASE Step(w)
    <3>1. status[wjob[w]] = "running"
      BY <2>3 DEF Step, Fenced, TypeOK, ClaimInv
    <3>2. QED
      BY <2>3, <3>1 DEF Step, TypeOK, SeqInv
  <2>4. CASE ~(Claim(w) \/ Complete(w) \/ Fail(w) \/ Step(w))
    BY <1>2, <2>4 DEF SeqInv, WorkerNext, WorkerProceeds, ClaimRelock, Raise, Release, MarkChecked,
       MarkFailed, UpsertCompany, Touch, DatabaseError, WorkerRedisError, WorkerCrash
  <2>5. QED
    BY <2>1, <2>2, <2>3, <2>4
<1>3. CASE (\E h \in touches : TouchRelock(h)) \/ TimeNext
  BY <1>3 DEF TypeOK, SeqInv, TimeNext, TouchRelock, LeaseExpires, DedupeExpires,
     RequeueExpired, Expired, LockExpires
<1>4. CASE UNCHANGED vars
  BY <1>4 DEF SeqInv, vars
<1>5. QED
  BY <1>1, <1>2, <1>3, <1>4 DEF Next

-----------------------------------------------------------------------------
(* Each step of the queue is a step of the life cycle, or none.             *)

\* A step that changes neither a row's status and events nor who passes a
\* fence is no step of the life cycle.
LEMMA Stutters ==
    ASSUME Inv, Inv', UNCHANGED <<status, event_sequence, claim_token>>,
           \A w \in Workers : /\ wpc'[w] = "idle" <=> wpc[w] = "idle"
                              /\ wjob'[w] = wjob[w] /\ wtoken'[w] = wtoken[w]
    PROVE  UNCHANGED Lifecycle!vars
<1>1. \A w \in Workers, j \in Jobs : Owns(w, j)' <=> Owns(w, j)
  BY DEF Owns
<1>2. owner' = owner
  BY <1>1, OwnerIs, OwnerIsNext, SameOwner
<1>3. QED
  BY <1>2 DEF Lifecycle!vars

\* A worker that lets go of its job abandons it, if it still owned it.
LEMMA LetsGo ==
    ASSUME Inv, Inv', UNCHANGED <<status, event_sequence, claim_token>>,
           NEW w \in Workers, WorkerDone(w)
    PROVE  Lifecycle!Abandon(w)
<1>1. \A v \in Workers, j \in Jobs : Owns(v, j)' <=> Owns(v, j) /\ v # w
  BY DEF Inv, TypeOK, WorkerDone, Owns
<1>2. OwnerInv /\ OwnerInv'
  BY OwnerIs, OwnerIsNext
<1>3. \A j \in Jobs : owner'[j] = IF owner[j] = w THEN NoWorker ELSE owner[j]
  BY <1>1, <1>2, ConstantsAssumption DEF OwnerInv
<1>4. owner' = [j \in Jobs |-> IF owner[j] = w THEN NoWorker ELSE owner[j]]
  BY <1>2, <1>3 DEF OwnerInv
<1>5. QED
  BY <1>4 DEF Lifecycle!Abandon

\* A worker that goes on with its job, or lets go of it.
LEMMA GoesOn ==
    ASSUME Inv, Inv', UNCHANGED <<status, event_sequence, claim_token>>,
           NEW w \in Workers, wpc[w] # "idle", NEW pc, pc # "idle",
           WorkerGoes(w, pc) \/ WorkerDone(w)
    PROVE  Lifecycle!Abandon(w) \/ UNCHANGED Lifecycle!vars
<1>1. CASE WorkerGoes(w, pc)
  BY <1>1, Stutters DEF Inv, TypeOK, WorkerGoes
<1>2. CASE WorkerDone(w)
  BY <1>2, LetsGo
<1>3. QED
  BY <1>1, <1>2

\* An enqueuer inserts a row together with its first event.
LEMMA EnqueuerImplements ==
    ASSUME Inv, Inv', SeqInv, NEW e \in Enqueuers, EnqueuerNext(e)
    PROVE  [Lifecycle!Next]_Lifecycle!vars
<1>1. UNCHANGED <<claim_token, workVars>>
  BY DEF rowVars, EnqueuerNext, BeginEnqueue, AcquireLock, SkipHeld, SkipEquivalent, NoEquivalent,
     InsertJob, InsertConflict, ResolveConflict, EnqueueRelock, EnqueueRelease,
     EnqueueError, EnqueueRedisError, EnqueuerCrash
<1>2. CASE InsertJob(e)
  <2>1. ejob[e] \in Jobs /\ status[ejob[e]] = "none" /\ event_sequence[ejob[e]] = 0
    BY <1>2 DEF InsertJob, Inv, TypeOK, IdInv, SeqInv, BeforeInsert, AtRest
  <2>2. \A w \in Workers, j \in Jobs : Owns(w, j)' <=> Owns(w, j)
    BY <1>1 DEF Owns, workVars
  <2>3. owner' = owner
    BY <2>2, OwnerIs, OwnerIsNext, SameOwner
  <2>4. event_sequence' = [event_sequence EXCEPT ![ejob[e]] = 1]
    BY <1>2, <2>1 DEF InsertJob
  <2>5. Lifecycle!Create(ejob[e])
    BY <1>2, <2>1, <2>3, <2>4 DEF InsertJob, Lifecycle!Create
  <2>6. QED
    BY <2>1, <2>5 DEF Lifecycle!Next
<1>3. CASE ~InsertJob(e)
  <2>1. UNCHANGED rowVars
    BY <1>3 DEF EnqueuerNext, BeginEnqueue, AcquireLock, SkipHeld, SkipEquivalent, NoEquivalent,
       InsertConflict, ResolveConflict, EnqueueRelock, EnqueueRelease, EnqueueError,
       EnqueueRedisError, EnqueuerCrash
  <2>2. UNCHANGED Lifecycle!vars
    BY <1>1, <2>1, Stutters DEF rowVars, workVars
  <2>3. QED
    BY <2>2
<1>4. QED
  BY <1>2, <1>3

\* A claim makes the worker the owner, as no older token of the job matches.
LEMMA ClaimImplements ==
    ASSUME Inv, Inv', NEW w \in Workers, Claim(w)
    PROVE  \E j \in Jobs : Lifecycle!Claim(j, w)
<1>1. PICK j \in Jobs :
        /\ status[j] = "queued" /\ wpc[w] = "idle"
        /\ status' = [status EXCEPT ![j] = "running"]
        /\ event_sequence' = [event_sequence EXCEPT ![j] = @ + 1]
        /\ claim_token' = [claim_token EXCEPT ![j] = attempt_count[j] + 1]
        /\ wjob' = [wjob EXCEPT ![w] = j]
        /\ wtoken' = [wtoken EXCEPT ![w] = attempt_count[j] + 1]
        /\ wpc' = [wpc EXCEPT ![w] = IF Locked(j) THEN "xx" ELSE "run"]
  BY DEF Claim, FreshToken
<1>2. attempt_count[j] \in Nat /\ \A v \in Workers : wpc[v] # "idle" /\ wjob[v] = j =>
         wtoken[v] \in Nat /\ wtoken[v] <= attempt_count[j]
  BY DEF Inv, TypeOK, ClaimInv
<1>3. \A v \in Workers : Owns(v, j)' <=> v = w
  <2>1. Owns(w, j)'
    BY <1>1 DEF Inv, TypeOK, Owns
  <2>2. ASSUME NEW v \in Workers, v # w PROVE ~Owns(v, j)'
    <3>1. wpc'[v] = wpc[v] /\ wjob'[v] = wjob[v] /\ wtoken'[v] = wtoken[v]
          /\ claim_token'[j] = attempt_count[j] + 1
      BY <1>1, <2>2 DEF Inv, TypeOK
    <3>2. QED
      BY <1>2, <3>1 DEF Owns
  <2>3. QED
    BY <2>1, <2>2
<1>4. \A v \in Workers, i \in Jobs : i # j => (Owns(v, i)' <=> Owns(v, i))
  BY <1>1 DEF Inv, TypeOK, Owns
<1>5. OwnerInv /\ OwnerInv'
  BY OwnerIs, OwnerIsNext
<1>6. \A i \in Jobs : owner'[i] = IF i = j THEN w ELSE owner[i]
  BY <1>3, <1>4, <1>5, ConstantsAssumption DEF OwnerInv
<1>7. owner' = [owner EXCEPT ![j] = w]
  BY <1>5, <1>6 DEF OwnerInv
<1>8. QED
  BY <1>1, <1>7 DEF Lifecycle!Claim

\* A terminal event of the owner finishes the job, one of anybody else is lost.
LEMMA TerminalImplements ==
    ASSUME Inv, Inv', NEW w \in Workers, Complete(w) \/ Fail(w)
    PROVE  [Lifecycle!Next]_Lifecycle!vars
<1>1. wpc[w] # "idle" /\ (\E s \in TERMINAL_JOB_STATES, pc \in WorkerStates : RecordTerminal(w, s, pc))
  BY DEF Complete, Fail, WorkerStates, TERMINAL_JOB_STATES
<1>2. PICK s \in TERMINAL_JOB_STATES, pc \in WorkerStates : RecordTerminal(w, s, pc)
  BY <1>1
<1>3. (\E q \in WorkerStates \ {"idle"} : WorkerGoes(w, q)) \/ WorkerDone(w)
  BY <1>2 DEF RecordTerminal, WorkerStates
<1>4. CASE Fenced(w)
  <2>0. PICK j \in Jobs : j = wjob[w]
    BY <1>1 DEF Inv, TypeOK
  <2>1. j \in Jobs /\ wjob[w] = j /\ Owns(w, j) /\ status[j] = "running"
    BY <1>1, <1>4, <2>0 DEF Inv, TypeOK, ClaimInv, Fenced, Owns
  <2>2. /\ status' = [status EXCEPT ![j] = s]
        /\ claim_token' = [claim_token EXCEPT ![j] = 0]
        /\ event_sequence' = [event_sequence EXCEPT ![j] = @ + 1]
    BY <1>2, <1>4, <2>0 DEF RecordTerminal
  <2>3. \A v \in Workers : wpc'[v] # "idle" =>
           wpc[v] # "idle" /\ wjob'[v] = wjob[v] /\ wtoken'[v] = wtoken[v] /\ wtoken[v] >= 1
    BY <1>1, <1>3 DEF Inv, TypeOK, ClaimInv, WorkerGoes, WorkerDone
  <2>4. \A v \in Workers : ~Owns(v, j)'
    BY <2>1, <2>2, <2>3 DEF Inv, TypeOK, Owns
  <2>5. ASSUME NEW v \in Workers, NEW i \in Jobs, i # j PROVE Owns(v, i)' <=> Owns(v, i)
    <3>1. CASE v = w
      BY <2>1, <2>3, <2>5, <3>1 DEF Owns
    <3>2. CASE v # w
      BY <1>3, <2>1, <2>2, <2>5, <3>2 DEF Inv, TypeOK, Owns, WorkerGoes, WorkerDone
    <3>3. QED
      BY <3>1, <3>2
  <2>6. OwnerInv /\ OwnerInv'
    BY OwnerIs, OwnerIsNext
  <2>7. \A i \in Jobs : owner'[i] = IF i = j THEN NoWorker ELSE owner[i]
    BY <2>4, <2>5, <2>6, ConstantsAssumption DEF OwnerInv
  <2>8. owner' = [owner EXCEPT ![j] = NoWorker] /\ owner[j] = w
    BY <2>1, <2>6, <2>7 DEF OwnerInv
  <2>9. Lifecycle!Finish(j, w)
    BY <2>1, <2>2, <2>8 DEF Lifecycle!Finish, Lifecycle!TERMINAL_JOB_STATES, TERMINAL_JOB_STATES
  <2>10. QED
    BY <2>1, <2>9 DEF Lifecycle!Next
<1>5. CASE ~Fenced(w)
  <2>1. UNCHANGED rowVars
    BY <1>2, <1>5 DEF RecordTerminal
  <2>2. Lifecycle!Abandon(w) \/ UNCHANGED Lifecycle!vars
    BY <1>1, <1>3, <2>1, GoesOn, LetsGo DEF rowVars
  <2>3. QED
    BY <2>2 DEF Lifecycle!Next
<1>6. QED
  BY <1>4, <1>5

\* Progress comes from the owner only.
LEMMA StepImplements ==
    ASSUME Inv, Inv', NEW w \in Workers, Step(w)
    PROVE  \E j \in Jobs : Lifecycle!Progress(j, w)
<1>1. wjob[w] \in Jobs /\ Owns(w, wjob[w])
  BY DEF Step, Inv, TypeOK, Fenced, Owns
<1>2. \A v \in Workers, j \in Jobs : Owns(v, j)' <=> Owns(v, j)
  BY DEF Step, workVars, Owns
<1>3. owner' = owner /\ owner[wjob[w]] = w
  BY <1>1, <1>2, OwnerIs, OwnerIsNext, SameOwner DEF OwnerInv
<1>4. QED
  BY <1>1, <1>3 DEF Step, Lifecycle!Progress

\* Everything a worker does.
LEMMA WorkerImplements ==
    ASSUME Inv, Inv', NEW w \in Workers, WorkerNext(w)
    PROVE  [Lifecycle!Next]_Lifecycle!vars
<1>1. CASE Claim(w)
  BY <1>1, ClaimImplements DEF Lifecycle!Next
<1>2. CASE Complete(w) \/ Fail(w)
  BY <1>2, TerminalImplements
<1>3. CASE Step(w)
  BY <1>3, StepImplements DEF Lifecycle!Next
<1>4. CASE UpsertCompany(w) \/ Touch(w)
  <2>1. UNCHANGED <<status, event_sequence, claim_token, workVars>>
    BY <1>4 DEF UpsertCompany, Touch, rowVars
  <2>2. UNCHANGED Lifecycle!vars
    BY <2>1, Stutters DEF workVars
  <2>3. QED
    BY <2>2
<1>5. CASE ClaimRelock(w) \/ Raise(w) \/ Release(w) \/ MarkChecked(w) \/ MarkFailed(w)
           \/ DatabaseError(w) \/ WorkerRedisError(w) \/ WorkerCrash(w)
  <2>1. wpc[w] # "idle" /\ UNCHANGED rowVars
    BY <1>5 DEF ClaimRelock, Raise, Release, MarkChecked, MarkFailed, DatabaseError,
       WorkerRedisError, WorkerCrash
  <2>2. (\E pc \in WorkerStates \ {"idle"} : WorkerGoes(w, pc)) \/ WorkerDone(w)
    BY <1>5 DEF ClaimRelock, Raise, Release, MarkChecked, MarkFailed, DatabaseError,
       WorkerRedisError, WorkerCrash, AfterRelease, WorkerStates
  <2>3. Lifecycle!Abandon(w) \/ UNCHANGED Lifecycle!vars
    BY <2>1, <2>2, GoesOn, LetsGo DEF rowVars
  <2>4. QED
    BY <2>3 DEF Lifecycle!Next
<1>6. QED
  BY <1>1, <1>2, <1>3, <1>4, <1>5 DEF WorkerNext, WorkerProceeds

\* Recovery takes expired jobs from whoever owns them.
LEMMA RequeueImplements ==
    ASSUME Inv, Inv', NEW S \in SUBSET Jobs, RequeueExpired(S)
    PROVE  Lifecycle!Requeue(S)
<1>1. \A w \in Workers : wpc[w] # "idle" => wtoken[w] >= 1 /\ wtoken[w] \in Nat
  BY DEF Inv, TypeOK, ClaimInv
<1>2. \A j \in Jobs : claim_token'[j] = IF j \in S THEN 0 ELSE claim_token[j]
  BY DEF RequeueExpired
<1>3. UNCHANGED <<wpc, wjob, wtoken>>
  BY DEF RequeueExpired, workVars
<1>4. \A w \in Workers, j \in Jobs : Owns(w, j)' <=> Owns(w, j) /\ j \notin S
  BY <1>1, <1>2, <1>3 DEF Owns
<1>5. OwnerInv /\ OwnerInv'
  BY OwnerIs, OwnerIsNext
<1>6. \A j \in Jobs : owner'[j] = IF j \in S THEN NoWorker ELSE owner[j]
  BY <1>4, <1>5, ConstantsAssumption DEF OwnerInv
<1>7. owner' = [j \in Jobs |-> IF j \in S THEN NoWorker ELSE owner[j]]
  BY <1>5, <1>6 DEF OwnerInv
<1>8. QED
  BY <1>7 DEF RequeueExpired, Expired, Lifecycle!Requeue

\* Heartbeat renewals of the lock and the passing of time.
LEMMA RestImplements ==
    ASSUME Inv, Inv', (\E h \in touches : TouchRelock(h)) \/ TimeNext
    PROVE  [Lifecycle!Next]_Lifecycle!vars
<1>1. CASE \E S \in SUBSET Jobs : RequeueExpired(S)
  BY <1>1, RequeueImplements DEF Lifecycle!Next
<1>2. CASE ~\E S \in SUBSET Jobs : RequeueExpired(S)
  <2>1. UNCHANGED <<status, event_sequence, claim_token, workVars>>
    BY <1>2 DEF TimeNext, TouchRelock, LeaseExpires, DedupeExpires, LockExpires, rowVars
  <2>2. UNCHANGED Lifecycle!vars
    BY <2>1, Stutters DEF workVars
  <2>3. QED
    BY <2>2
<1>3. QED
  BY <1>1, <1>2

\* The queue starts without jobs and without owners.
LEMMA InitImplements == Init => Lifecycle!Init
<1> SUFFICES ASSUME Init PROVE Lifecycle!Init
  OBVIOUS
<1>1. \A w \in Workers, j \in Jobs : ~Owns(w, j)
  BY DEF Init, Owns
<1>2. owner = [j \in Jobs |-> NoWorker]
  BY <1>1 DEF owner
<1>3. QED
  BY <1>2 DEF Init, Lifecycle!Init

\* The refresh queue, with its leases, locks, crashes and lost writes, is an
\* implementation of the life cycle its users see: the status of a job moves
\* forward, or back to queued by recovery only; every event gets the next
\* number; and only the one owner of a claim records anything for a job.
THEOREM QueueImplementsLifecycle == Spec => LifecycleSpec
<1>1. Init => SeqInv
  BY DEF Init, SeqInv
<1>2. Inv /\ Inv' /\ SeqInv /\ [Next]_vars => [Lifecycle!Next]_Lifecycle!vars
  <2> SUFFICES ASSUME Inv, Inv', SeqInv, [Next]_vars PROVE [Lifecycle!Next]_Lifecycle!vars
    OBVIOUS
  <2>1. CASE UNCHANGED vars
    <3>1. UNCHANGED Lifecycle!vars
      BY <2>1, Stutters DEF vars, rowVars, workVars
    <3>2. QED
      BY <3>1
  <2>2. QED
    BY <2>1, EnqueuerImplements, WorkerImplements, RestImplements DEF Next
<1>3. QED
  BY <1>1, <1>2, InitImplements, SeqStep, Invariance, PTL DEF Spec, LifecycleSpec, Lifecycle!Spec
=============================================================================
