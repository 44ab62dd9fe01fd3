------------------------------ MODULE HotCache ------------------------------
(***************************************************************************)
(* The shared hot-response cache, SharedHotResponseCache of                *)
(* app/services/hot_cache.py, for one logical key: fill_or_get with its    *)
(* two single-flight layers (the in-process _InflightFill and the Redis    *)
(* lock), store, and the invalidation that the after_commit hook of        *)
(* app/services/refresh_state.py runs for a committed data change.         *)
(*                                                                         *)
(* A payload is the number of data changes it was computed from.  Each     *)
(* request makes one call.  An action is one Redis command or MULTI block, *)
(* or the code between two awaits of a request; the processes and the      *)
(* requests of a process interleave between them.                          *)
(***************************************************************************)
EXTENDS Integers, FiniteSets

CONSTANTS
    Procs,        \* backend processes
    Requests,     \* calls of fill_or_get
    ProcOf,       \* the process that serves a request
    None,         \* absent entry, lock, object or value
    Error,        \* a call that raises
    MaxCommits,   \* bound: committed data changes
    MaxFaults,    \* bound: number of faults
    FaultKinds,   \* "redis", "fill", "cancel", "timeout", "stall", "crash"
    RedisOn       \* is Redis configured

ASSUME CacheAssumption ==
    /\ Procs # {} /\ ProcOf \in [Requests -> Procs]
    /\ MaxCommits \in Nat /\ MaxFaults \in Nat
    /\ FaultKinds \subseteq {"redis", "fill", "cancel", "timeout", "stall", "crash"}
    /\ RedisOn \in BOOLEAN
    /\ None \notin Nat \cup Requests \cup {Error} /\ Error \notin Nat

VARIABLES
    db,           \* number of committed data changes
    ipc, iproc,   \* invalidation of each change: where it is, its process
    remote,       \* the record of the key in Redis
    tagged,       \* is the key a member of its Redis tag sets
    lock,         \* value of the Redis single-flight lock: its owner
    local,        \* _local_entries of each process
    connected,    \* does the process have Redis clients
    inflight,     \* _inflight of each process: an object, named by its creator
    event, result, error,  \* fields of the _InflightFill objects
    rpc,          \* where a request is
    obj,          \* the object a request uses
    held,         \* does the request run under the Redis lock it took
    val,          \* what the request computed, found or raised
    faults        \* faults left

dataVars == <<db, ipc, iproc>>
storeVars == <<remote, tagged, local>>
objVars == <<inflight, event, result, error>>
reqVars == <<rpc, obj, held, val>>
vars == <<dataVars, storeVars, lock, connected, objVars, reqVars, faults>>

Commits == 1 .. MaxCommits
Payloads == 0 .. MaxCommits
RequestStates == {"idle", "read1", "join", "wait", "read2", "coord", "read3", "fill", "filled",
                  "store", "poll", "exists", "relock", "rel1", "rel2", "finish", "done", "dead"}
InvalidationStates == {"none", "resolve", "delete", "remote", "local", "lost"}

Init ==
    /\ db = 0
    /\ ipc = [i \in Commits |-> "none"]
    /\ iproc = [i \in Commits |-> CHOOSE p \in Procs : TRUE]
    /\ remote = None /\ tagged = FALSE /\ lock = None
    /\ local = [p \in Procs |-> None]
    /\ connected \in [Procs -> IF "redis" \in FaultKinds /\ RedisOn THEN BOOLEAN ELSE {RedisOn}]
    /\ inflight = [p \in Procs |-> None]
    /\ event = [r \in Requests |-> FALSE]
    /\ result = [r \in Requests |-> None]
    /\ error = [r \in Requests |-> FALSE]
    /\ rpc = [r \in Requests |-> "idle"]
    /\ obj = [r \in Requests |-> None]
    /\ held = [r \in Requests |-> FALSE]
    /\ val = [r \in Requests |-> None]
    /\ faults = MaxFaults

\* One more fault of kind k happens.
Fault(k) == k \in FaultKinds /\ faults > 0 /\ faults' = faults - 1

\* _maybe_reconnect_redis: a process whose start-up connection failed may get
\* its clients now, unless the attempt fails or the backoff is not over.
MaybeReconnect(p) == connected' \in {connected, [connected EXCEPT ![p] = RedisOn]}

Goes(r, pc) == rpc' = [rpc EXCEPT ![r] = pc]
Holding(r, b) == held' = [held EXCEPT ![r] = b]
Value(r, v) == val' = [val EXCEPT ![r] = v]

-----------------------------------------------------------------------------
(* fill_or_get.                                                             *)

Begin(r) ==
    /\ rpc[r] = "idle"
    /\ MaybeReconnect(ProcOf[r])
    /\ Goes(r, "read1")
    /\ UNCHANGED <<dataVars, storeVars, lock, objVars, obj, held, val, faults>>

\* What a request does with what _read_entry found: a hit is returned (from
\* under the lock, after releasing it), a miss leads to the next step.
AfterRead(r, v) ==
    IF v = None
      THEN /\ Goes(r, CASE rpc[r] = "read1" -> "join" [] rpc[r] = "read2" -> "coord"
                        [] rpc[r] = "read3" -> "fill" [] rpc[r] = "poll" -> "exists")
           /\ UNCHANGED val
      ELSE /\ Goes(r, CASE rpc[r] \in {"read1", "read2"} -> "done"
                        [] rpc[r] = "read3" -> "rel1" [] rpc[r] = "poll" -> "finish")
           /\ Value(r, v)

\* _read_entry: Redis, or this process's memory without clients or on an error
Read(r) ==
    /\ rpc[r] \in {"read1", "read2", "read3", "poll"}
    /\ \/ AfterRead(r, IF connected[ProcOf[r]] THEN remote ELSE local[ProcOf[r]])
          /\ UNCHANGED faults
       \/ Fault("redis") /\ connected[ProcOf[r]] /\ AfterRead(r, local[ProcOf[r]])
    /\ UNCHANGED <<dataVars, storeVars, lock, connected, objVars, obj, held>>

\* _acquire_local_inflight: the first becomes the leader, the others wait.
MutAlwaysLeader(p) == TRUE
NoInflight(p) == inflight[p] = None

Join(r) ==
    LET p == ProcOf[r] IN
    /\ rpc[r] = "join"
    /\ \/ /\ NoInflight(p)
          /\ inflight' = [inflight EXCEPT ![p] = r]
          /\ obj' = [obj EXCEPT ![r] = r]
          /\ Goes(r, "coord")
       \/ /\ ~NoInflight(p)
          /\ obj' = [obj EXCEPT ![r] = inflight[p]]
          /\ Goes(r, "wait")
          /\ UNCHANGED inflight
    /\ UNCHANGED <<dataVars, storeVars, lock, connected, event, result, error, held, val, faults>>

\* inflight.event.wait()
MutReady(o) == TRUE
Ready(o) == event[o]

\* The event of the leader is set: its error is raised, else its result returned.
Wake(r) ==
    LET o == obj[r] IN
    /\ rpc[r] = "wait" /\ Ready(o)
    /\ Value(r, IF error[o] THEN Error ELSE result[o])
    /\ Goes(r, "done")
    /\ UNCHANGED <<dataVars, storeVars, lock, connected, objVars, obj, held, faults>>

\* wait_for gives up on a leader that takes too long.
WaitTimeout(r) ==
    /\ Fault("timeout")
    /\ rpc[r] = "wait"
    /\ Goes(r, "read2")
    /\ UNCHANGED <<dataVars, storeVars, lock, connected, objVars, obj, held, val>>

\* _acquire_remote_lock: SET NX; whoever does not get the lock polls.  Without
\* Redis the request fills at once.
TryLock(r) ==
    /\ rpc[r] \in {"coord", "relock"}
    /\ IF connected[ProcOf[r]] /\ lock = None
         THEN lock' = r /\ Holding(r, TRUE) /\ Goes(r, "read3")
         ELSE /\ Goes(r, IF connected[ProcOf[r]] THEN "poll" ELSE "fill")
              /\ UNCHANGED <<lock, held>>
    /\ UNCHANGED <<dataVars, storeVars, connected, objVars, obj, val, faults>>

\* EXISTS on the lock, after a miss in the polling loop
Exists(r) ==
    /\ rpc[r] = "exists"
    /\ Goes(r, IF lock = None THEN "relock" ELSE "poll")
    /\ UNCHANGED <<dataVars, storeVars, lock, connected, objVars, obj, held, val, faults>>

\* A request runs under the lock it took.
LockInUse == lock # None /\ held[lock] /\ rpc[lock] # "dead"

\* The polling deadline passes, with a live owner of the lock only if that one
\* takes too long: the request fills without the lock.
PollDeadline(r) ==
    /\ rpc[r] = "poll"
    /\ IF LockInUse THEN Fault("timeout") ELSE UNCHANGED faults
    /\ Goes(r, "fill")
    /\ UNCHANGED <<dataVars, storeVars, lock, connected, objVars, obj, held, val>>

\* RedisError while coordinating or releasing: the request fills (again),
\* without the lock.
CoordinationError(r) ==
    /\ Fault("redis")
    /\ connected[ProcOf[r]]
    /\ rpc[r] \in {"coord", "exists", "relock", "rel1", "rel2"}
    /\ Holding(r, FALSE)
    /\ Goes(r, "fill")
    /\ UNCHANGED <<dataVars, storeVars, lock, connected, objVars, obj, val>>

\* The fill callback reads the database.
Fill(r) ==
    /\ rpc[r] = "fill"
    /\ Value(r, db)
    /\ Goes(r, "filled")
    /\ UNCHANGED <<dataVars, storeVars, lock, connected, objVars, obj, held, faults>>

\* The way out of the try blocks: release the lock, if held, and finish.
Leaves(r) == Goes(r, IF held[r] THEN "rel1" ELSE "finish")

\* It returns a payload, to be stored or (company missing) not.
FillDone(r) ==
    /\ rpc[r] = "filled"
    /\ Goes(r, "store") \/ Leaves(r)
    /\ UNCHANGED <<dataVars, storeVars, lock, connected, objVars, obj, held, val, faults>>

\* It raises.
FillRaises(r) ==
    /\ Fault("fill")
    /\ rpc[r] = "filled"
    /\ Value(r, Error)
    /\ Leaves(r)
    /\ UNCHANGED <<dataVars, storeVars, lock, connected, objVars, obj, held>>

\* _store_remote: the record, then out of its old tag sets and into the new
\* ones, in one MULTI block
MutTagsAfter == remote = None
TagsAfter == TRUE

StoreRemote(v) == remote' = v /\ tagged' = TagsAfter
StoreLocal(p, v) == local' = [local EXCEPT ![p] = v]

\* store; on a RedisError, which may hide a MULTI block that was executed, the
\* payload goes to local memory.
Store(r) ==
    LET p == ProcOf[r] IN
    /\ rpc[r] = "store"
    /\ MaybeReconnect(p)
    /\ \/ connected'[p] /\ StoreRemote(val[r]) /\ UNCHANGED <<local, faults>>
       \/ ~connected'[p] /\ StoreLocal(p, val[r]) /\ UNCHANGED <<remote, tagged, faults>>
       \/ /\ connected'[p] /\ Fault("redis")
          /\ StoreLocal(p, val[r])
          /\ StoreRemote(val[r]) \/ UNCHANGED <<remote, tagged>>
    /\ Leaves(r)
    /\ UNCHANGED <<dataVars, lock, objVars, obj, held, val>>

\* _release_remote_lock: GET, compare, DELETE
Release(r) ==
    /\ \/ /\ rpc[r] = "rel1"
          /\ IF lock = r THEN Goes(r, "rel2") /\ UNCHANGED held
                         ELSE Goes(r, "finish") /\ Holding(r, FALSE)
          /\ UNCHANGED lock
       \/ /\ rpc[r] = "rel2"
          /\ lock' = None
          /\ Goes(r, "finish") /\ Holding(r, FALSE)
    /\ UNCHANGED <<dataVars, storeVars, connected, objVars, obj, val, faults>>

\* The finally block wakes the waiters whatever happened.
MutWakeOnResult(r) == val[r] # Error
WakesWaiters(r) == TRUE

\* The outcome goes into the object, also by a follower that timed out and did
\* the work itself, and the object leaves _inflight.
Finish(r) ==
    LET o == obj[r] p == ProcOf[r] IN
    /\ rpc[r] = "finish"
    /\ event' = [event EXCEPT ![o] = @ \/ WakesWaiters(r)]
    /\ IF val[r] = Error THEN error' = [error EXCEPT ![o] = TRUE] /\ UNCHANGED result
                         ELSE result' = [result EXCEPT ![o] = val[r]] /\ UNCHANGED error
    /\ inflight' = IF inflight[p] = o THEN [inflight EXCEPT ![p] = None] ELSE inflight
    /\ Goes(r, "done")
    /\ UNCHANGED <<dataVars, storeVars, lock, connected, obj, held, val, faults>>

\* The request is cancelled at an await.  Inside the try blocks the finally
\* blocks run; a cancelled release leaves the lock to its TTL.
Cancel(r) ==
    /\ Fault("cancel")
    /\ rpc[r] \notin {"idle", "finish", "done", "dead"}
    /\ Value(r, Error)
    /\ \/ rpc[r] \in {"read1", "join", "wait", "read2"} /\ Goes(r, "done") /\ UNCHANGED held
       \/ rpc[r] \in {"rel1", "rel2"} /\ Goes(r, "finish") /\ Holding(r, FALSE)
       \/ /\ rpc[r] \notin {"read1", "join", "wait", "read2", "rel1", "rel2"}
          /\ Leaves(r) /\ UNCHANGED held
    /\ UNCHANGED <<dataVars, storeVars, lock, connected, objVars, obj>>

-----------------------------------------------------------------------------
(* A data change and its invalidation: _flush_hot_cache_invalidations.      *)

\* A session commits new data; its process goes on to invalidate the key.
Commit(p) ==
    LET i == db + 1 IN
    /\ db < MaxCommits                   \* bound
    /\ db' = i
    /\ ipc' = [ipc EXCEPT ![i] = "resolve"]
    /\ iproc' = [iproc EXCEPT ![i] = p]
    /\ MaybeReconnect(p)
    /\ UNCHANGED <<storeVars, lock, objVars, reqVars, faults>>

Invalidated(i, s) == ipc' = [ipc EXCEPT ![i] = s]

\* _invalidate_local: the entries of this process only
InvalidateLocal(i) ==
    /\ local' = [local EXCEPT ![iproc[i]] = None]
    /\ Invalidated(i, "local")

\* The members of the tag set; when there are none the invalidation is over.
Resolve(i) ==
    /\ ipc[i] = "resolve"
    /\ IF connected[iproc[i]]
         THEN Invalidated(i, IF tagged THEN "delete" ELSE "remote") /\ UNCHANGED local
         ELSE InvalidateLocal(i)
    /\ UNCHANGED <<db, iproc, remote, tagged, lock, connected, objVars, reqVars, faults>>

\* The MULTI block that deletes the record and takes the key out of the tag
\* sets its metadata named; none, if the record had expired when it was read.
DeleteRemote == remote' = None /\ tagged' \in {FALSE, tagged}

Delete(i) ==
    /\ ipc[i] = "delete"
    /\ DeleteRemote
    /\ Invalidated(i, "remote")
    /\ UNCHANGED <<db, iproc, local, lock, connected, objVars, reqVars, faults>>

\* RedisError, which may hide a block that was executed: the local entries are
\* invalidated instead.
InvalidateError(i) ==
    /\ Fault("redis")
    /\ connected[iproc[i]]
    /\ ipc[i] \in {"resolve", "delete"}
    /\ InvalidateLocal(i)
    /\ \/ UNCHANGED <<remote, tagged>>
       \/ ipc[i] = "delete" /\ DeleteRemote
    /\ UNCHANGED <<db, iproc, lock, connected, objVars, reqVars>>

-----------------------------------------------------------------------------
(* Time and crashes.                                                        *)

\* stale_until passes.  The key stays in its tag sets.
RemoteExpires ==
    /\ remote # None
    /\ remote' = None
    /\ UNCHANGED <<dataVars, tagged, local, lock, connected, objVars, reqVars, faults>>

LocalExpires(p) ==
    /\ local[p] # None
    /\ local' = [local EXCEPT ![p] = None]
    /\ UNCHANGED <<dataVars, remote, tagged, lock, connected, objVars, reqVars, faults>>

\* The TTL of the lock passes, for a live owner only if it stalls.
LockExpires ==
    /\ lock # None
    /\ IF LockInUse THEN Fault("stall") ELSE UNCHANGED faults
    /\ lock' = None
    /\ UNCHANGED <<dataVars, storeVars, connected, objVars, reqVars>>

\* A process dies and is started again: its requests, its memory and the
\* invalidations it had not made are gone.
Crash(p) ==
    /\ Fault("crash")
    /\ rpc' = [r \in Requests |-> IF ProcOf[r] = p /\ rpc[r] \notin {"idle", "done"}
                                    THEN "dead" ELSE rpc[r]]
    /\ ipc' = [i \in Commits |-> IF iproc[i] = p /\ ipc[i] \in {"resolve", "delete"}
                                   THEN "lost" ELSE ipc[i]]
    /\ local' = [local EXCEPT ![p] = None]
    /\ inflight' = [inflight EXCEPT ![p] = None]
    /\ UNCHANGED <<db, iproc, remote, tagged, lock, connected, event, result, error, obj,
                   held, val>>

-----------------------------------------------------------------------------
\* The steps a live request owes its caller.
Proceeds(r) ==
    \/ Read(r) \/ Join(r) \/ Wake(r) \/ TryLock(r) \/ Exists(r)
    \/ Fill(r) \/ FillDone(r) \/ Store(r) \/ Release(r) \/ Finish(r)

RequestNext(r) ==
    \/ Begin(r) \/ Proceeds(r) \/ WaitTimeout(r) \/ PollDeadline(r)
    \/ CoordinationError(r) \/ FillRaises(r) \/ Cancel(r)

Next ==
    \/ \E r \in Requests : RequestNext(r)
    \/ \E i \in Commits : Resolve(i) \/ Delete(i) \/ InvalidateError(i)
    \/ RemoteExpires \/ LockExpires
    \/ \E p \in Procs : Commit(p) \/ LocalExpires(p) \/ Crash(p)

Spec == Init /\ [][Next]_vars

(***************************************************************************)
(* Fairness: the event loop runs the steps of a request, and the TTL of a  *)
(* lock nobody works under passes.                                         *)
(***************************************************************************)
FairSpec ==
    /\ Spec
    /\ \A r \in Requests : WF_vars(Proceeds(r))
    /\ WF_vars(LockExpires /\ UNCHANGED faults)

-----------------------------------------------------------------------------
(* Properties.                                                              *)

\* Type correctness; a call that is over has a payload or an error to give: a
\* woken follower never returns the empty result of an unfinished fill.
TypeOK ==
    /\ db \in Payloads
    /\ ipc \in [Commits -> InvalidationStates]
    /\ iproc \in [Commits -> Procs]
    /\ remote \in Payloads \cup {None}
    /\ tagged \in BOOLEAN
    /\ lock \in Requests \cup {None}
    /\ local \in [Procs -> Payloads \cup {None}]
    /\ connected \in [Procs -> BOOLEAN]
    /\ inflight \in [Procs -> Requests \cup {None}]
    /\ event \in [Requests -> BOOLEAN]
    /\ result \in [Requests -> Payloads \cup {None}]
    /\ error \in [Requests -> BOOLEAN]
    /\ rpc \in [Requests -> RequestStates]
    /\ obj \in [Requests -> Requests \cup {None}]
    /\ held \in [Requests -> BOOLEAN]
    /\ val \in [Requests -> Payloads \cup {None, Error}]
    /\ faults \in 0 .. MaxFaults
    /\ \A r \in Requests : rpc[r] = "done" => val[r] # None

Filling(r) == rpc[r] \in {"fill", "filled", "store"}

\* Single flight: as long as nobody runs out of patience and no lock expires
\* under its owner, two requests of a process never compute the payload at the
\* same time, nor do two requests that run under the Redis lock, whatever
\* fails, is cancelled or crashes.
OneFiller ==
    \A r, s \in Requests : Filling(r) /\ Filling(s) /\ r # s =>
        ProcOf[r] # ProcOf[s] /\ ~(held[r] /\ held[s])

\* When an invalidation is over, the store it worked on holds nothing older
\* than the change it is for: the tag sets never lose a key whose record is
\* there.
InvalidationRemoves ==
    [][\A i \in Commits :
          /\ ipc[i] # "remote" /\ ipc'[i] = "remote" => remote' = None \/ remote' >= i
          /\ ipc[i] # "local" /\ ipc'[i] = "local" => local'[iproc[i]] = None]_vars

\* Every call returns or raises, also when the request it waits for fails, is
\* cancelled or dies with the lock.
EveryCallReturns ==
    \A r \in Requests : rpc[r] = "read1" ~> rpc[r] \in {"done", "dead"}
=============================================================================
