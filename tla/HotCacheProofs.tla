--------------------------- MODULE HotCacheProofs ---------------------------
(***************************************************************************)
(* Proofs about the hot response cache, for any number of processes,       *)
(* requests and faults: its two single-flight layers keep to one filler,   *)
(* its variables keep their types, and an invalidation removes what is     *)
(* older than its change.                                                  *)
(***************************************************************************)
EXTENDS HotCache, TLAPS

\* The steps between _acquire_local_inflight and the finally block that ends it.
Leading == {"coord", "read3", "poll", "exists", "relock", "fill", "filled", "store",
            "rel1", "rel2", "finish"}

\* Only the leader of a process is in its object's try block; whoever runs
\* under the Redis lock owns it, so that the GET, compare, DELETE of the release
\* deletes no other's lock; without timeouts no follower gives up its wait.
LayersTyped ==
    /\ rpc \in [Requests -> RequestStates]
    /\ held \in [Requests -> BOOLEAN]
    /\ obj \in [Requests -> Requests \cup {None}]
    /\ inflight \in [Procs -> Requests \cup {None}]

LeaderIsInflight ==
    \A r \in Requests : rpc[r] \in Leading => inflight[ProcOf[r]] = r /\ obj[r] = r

HolderOwnsLock == \A r \in Requests : held[r] /\ rpc[r] # "dead" => lock = r

ReleasesWhatItHolds == \A r \in Requests : rpc[r] \in {"read3", "rel1", "rel2"} => held[r]

NobodyGivesUp == \A r \in Requests : rpc[r] # "read2"

Layers == LayersTyped /\ LeaderIsInflight /\ HolderOwnsLock /\ ReleasesWhatItHolds /\ NobodyGivesUp

LEMMA InitLayers == Init => Layers
<1>. SUFFICES ASSUME Init PROVE Layers
  OBVIOUS
<1>1. LayersTyped
  BY DEF Init, LayersTyped, RequestStates
<1>2. LeaderIsInflight /\ HolderOwnsLock /\ ReleasesWhatItHolds /\ NobodyGivesUp
  BY DEF Init, LeaderIsInflight, HolderOwnsLock, ReleasesWhatItHolds, NobodyGivesUp, Leading
<1>. QED
  BY <1>1, <1>2 DEF Layers

\* A request that goes on in the try block, or leaves it.
LEMMA StaysLeader ==
    ASSUME Layers, NEW r \in Requests, NEW s \in RequestStates,
           Goes(r, s), UNCHANGED <<inflight, obj, lock, held>>,
           s \in Leading => rpc[r] \in Leading,
           s \in {"read3", "rel1", "rel2"} => held[r],
           s # "read2", rpc[r] # "dead"
    PROVE  Layers'
<1>1. \A q \in Requests : rpc'[q] = IF q = r THEN s ELSE rpc[q]
  BY DEF Goes, Layers, LayersTyped
<1>2. LayersTyped'
  BY DEF Goes, Layers, LayersTyped
<1>3. LeaderIsInflight' /\ HolderOwnsLock' /\ ReleasesWhatItHolds' /\ NobodyGivesUp'
  BY <1>1 DEF Layers, LeaderIsInflight, HolderOwnsLock, ReleasesWhatItHolds, NobodyGivesUp
<1>. QED
  BY <1>2, <1>3 DEF Layers

\* A request that goes on without the lock it had.
LEMMA GivesUpLock ==
    ASSUME Layers, NEW r \in Requests, NEW s \in {"fill", "finish"},
           Goes(r, s), Holding(r, FALSE), UNCHANGED <<inflight, obj>>,
           lock' = lock \/ (lock' = None /\ held[r]),
           rpc[r] \in Leading
    PROVE  Layers'
<1>1. \A q \in Requests : /\ rpc'[q] = IF q = r THEN s ELSE rpc[q]
                          /\ held'[q] = IF q = r THEN FALSE ELSE held[q]
  BY DEF Goes, Holding, Layers, LayersTyped
<1>2. LayersTyped'
  BY DEF Goes, Holding, Layers, LayersTyped, RequestStates
<1>3. LeaderIsInflight' /\ ReleasesWhatItHolds' /\ NobodyGivesUp'
  BY <1>1 DEF Layers, LeaderIsInflight, ReleasesWhatItHolds, NobodyGivesUp
<1>4. HolderOwnsLock'
  BY <1>1 DEF Layers, HolderOwnsLock, Leading
<1>. QED
  BY <1>2, <1>3, <1>4 DEF Layers

LEMMA SimpleSteps ==
    ASSUME Layers, NEW r \in Requests,
           Begin(r) \/ Read(r) \/ Wake(r) \/ Exists(r) \/ PollDeadline(r) \/ Fill(r)
           \/ FillDone(r) \/ FillRaises(r) \/ Store(r)
    PROVE  Layers'
<1>. USE DEF Leading, RequestStates
<1>1. UNCHANGED <<inflight, obj, lock, held>>
  BY DEF Begin, Read, Wake, Exists, PollDeadline, Fill, FillDone, FillRaises, Store, objVars
<1>2. CASE Begin(r) \/ Wake(r) \/ Exists(r) \/ PollDeadline(r) \/ Fill(r)
  BY <1>1, <1>2, StaysLeader DEF Begin, Wake, Exists, PollDeadline, Fill
<1>3. CASE Read(r)
  <2>1. rpc[r] \in {"read1", "read3", "poll"}
    BY <1>3 DEF Read, Layers, NobodyGivesUp
  <2>2. rpc[r] = "read3" => Goes(r, "fill") \/ Goes(r, "rel1")
    BY <1>3 DEF Read, AfterRead
  <2>3. rpc[r] = "read1" => Goes(r, "join") \/ Goes(r, "done")
    BY <1>3 DEF Read, AfterRead
  <2>4. rpc[r] = "poll" => Goes(r, "exists") \/ Goes(r, "finish")
    BY <1>3 DEF Read, AfterRead
  <2>5. rpc[r] = "read3" => held[r]
    BY DEF Layers, ReleasesWhatItHolds
  <2>. QED
    BY <1>1, <2>1, <2>2, <2>3, <2>4, <2>5, StaysLeader
<1>4. CASE FillDone(r) \/ FillRaises(r) \/ Store(r)
  <2>1. rpc[r] \in {"filled", "store"}
        /\ (Goes(r, "store") \/ Goes(r, IF held[r] THEN "rel1" ELSE "finish"))
    BY <1>4 DEF FillDone, FillRaises, Store, Leaves
  <2>. QED
    BY <1>1, <2>1, StaysLeader
<1>. QED
  BY <1>2, <1>3, <1>4

\* The leader is alone in its process.
LEMMA JoinLayers ==
    ASSUME Layers, NEW r \in Requests, Join(r) PROVE Layers'
<1>. DEFINE p == ProcOf[r]
<1>1. UNCHANGED <<lock, held>> /\ rpc[r] = "join"
  BY DEF Join
<1>2. CASE ~NoInflight(p)
  <2>1. UNCHANGED inflight /\ obj' = [obj EXCEPT ![r] = inflight[p]] /\ Goes(r, "wait")
    BY <1>2 DEF Join
  <2>2. p \in Procs
    BY CacheAssumption
  <2>3. \A q \in Requests : /\ rpc'[q] = IF q = r THEN "wait" ELSE rpc[q]
                            /\ q # r => obj'[q] = obj[q]
    BY <2>1 DEF Goes, Layers, LayersTyped
  <2>4. LayersTyped'
    BY <1>1, <2>1, <2>2 DEF Goes, Layers, LayersTyped, RequestStates
  <2>5. LeaderIsInflight' /\ HolderOwnsLock' /\ ReleasesWhatItHolds' /\ NobodyGivesUp'
    BY <1>1, <2>1, <2>3 DEF Layers, LeaderIsInflight, HolderOwnsLock, ReleasesWhatItHolds,
       NobodyGivesUp, Leading
  <2>. QED
    BY <2>4, <2>5 DEF Layers
<1>3. CASE NoInflight(p)
  <2>1. inflight' = [inflight EXCEPT ![p] = r] /\ obj' = [obj EXCEPT ![r] = r] /\ Goes(r, "coord")
    BY <1>3 DEF Join
  <2>2. p \in Procs /\ None \notin Requests
    BY CacheAssumption
  <2>3. \A q \in Requests : /\ rpc'[q] = IF q = r THEN "coord" ELSE rpc[q]
                            /\ obj'[q] = IF q = r THEN r ELSE obj[q]
    BY <2>1 DEF Goes, Layers, LayersTyped
  <2>4. LayersTyped'
    BY <1>1, <2>1, <2>2 DEF Goes, Layers, LayersTyped, RequestStates
  <2>5. LeaderIsInflight'
    <3>. SUFFICES ASSUME NEW q \in Requests, rpc'[q] \in Leading
                  PROVE  inflight'[ProcOf[q]] = q /\ obj'[q] = q
      BY DEF LeaderIsInflight
    <3>1. CASE q = r
      BY <2>1, <2>2, <2>3, <3>1 DEF Layers, LayersTyped
    <3>2. CASE q # r
      <4>1. inflight[ProcOf[q]] = q /\ obj[q] = q
        BY <2>3, <3>2 DEF Layers, LeaderIsInflight
      <4>2. ProcOf[q] # p
        BY <1>3, <2>2, <4>1 DEF NoInflight
      <4>. QED
        BY <2>1, <2>2, <2>3, <3>2, <4>1, <4>2 DEF Layers, LayersTyped
    <3>. QED
      BY <3>1, <3>2
  <2>6. HolderOwnsLock' /\ ReleasesWhatItHolds' /\ NobodyGivesUp'
    BY <1>1, <2>3 DEF Layers, HolderOwnsLock, ReleasesWhatItHolds, NobodyGivesUp
  <2>. QED
    BY <2>4, <2>5, <2>6 DEF Layers
<1>. QED
  BY <1>2, <1>3

LEMMA TryLockLayers ==
    ASSUME Layers, NEW r \in Requests, TryLock(r) PROVE Layers'
<1>. USE DEF Leading, RequestStates
<1>1. rpc[r] \in {"coord", "relock"} /\ UNCHANGED <<inflight, obj>>
  BY DEF TryLock, objVars
<1>2. CASE connected[ProcOf[r]] /\ lock = None
  <2>1. lock' = r /\ Holding(r, TRUE) /\ Goes(r, "read3")
    BY <1>2 DEF TryLock
  <2>2. \A q \in Requests : /\ rpc'[q] = IF q = r THEN "read3" ELSE rpc[q]
                            /\ held'[q] = IF q = r THEN TRUE ELSE held[q]
    BY <2>1 DEF Goes, Holding, Layers, LayersTyped
  <2>3. LayersTyped'
    BY <1>1, <2>1 DEF Goes, Holding, Layers, LayersTyped
  <2>4. HolderOwnsLock'
    BY <1>2, <2>1, <2>2, CacheAssumption DEF Layers, HolderOwnsLock
  <2>5. LeaderIsInflight' /\ ReleasesWhatItHolds' /\ NobodyGivesUp'
    BY <1>1, <2>2 DEF Layers, LeaderIsInflight, ReleasesWhatItHolds, NobodyGivesUp
  <2>. QED
    BY <2>3, <2>4, <2>5 DEF Layers
<1>3. CASE ~(connected[ProcOf[r]] /\ lock = None)
  BY <1>1, <1>3, StaysLeader DEF TryLock
<1>. QED
  BY <1>2, <1>3

LEMMA LosesLock ==
    ASSUME Layers, NEW r \in Requests, Release(r) \/ CoordinationError(r) PROVE Layers'
<1>. USE DEF Leading, RequestStates
<1>1. CASE CoordinationError(r)
  BY <1>1, GivesUpLock DEF CoordinationError, objVars
<1>2. CASE Release(r) /\ rpc[r] = "rel1"
  <2>1. UNCHANGED <<inflight, obj, lock>>
    BY <1>2 DEF Release, objVars
  <2>2. held[r]
    BY <1>2 DEF Layers, ReleasesWhatItHolds
  <2>3. CASE lock = r
    BY <1>2, <2>1, <2>2, <2>3, StaysLeader DEF Release
  <2>4. CASE lock # r
    BY <1>2, <2>1, <2>4, GivesUpLock DEF Release
  <2>. QED
    BY <2>3, <2>4
<1>3. CASE Release(r) /\ rpc[r] = "rel2"
  <2>1. held[r]
    BY <1>3 DEF Layers, ReleasesWhatItHolds
  <2>. QED
    BY <1>3, <2>1, GivesUpLock DEF Release, objVars
<1>. QED
  BY <1>1, <1>2, <1>3 DEF Release

LEMMA FinishLayers ==
    ASSUME Layers, NEW r \in Requests, Finish(r) PROVE Layers'
<1>. DEFINE p == ProcOf[r]
<1>1. rpc[r] = "finish" /\ Goes(r, "done") /\ UNCHANGED <<lock, obj, held>>
  BY DEF Finish
<1>2. obj[r] = r /\ inflight[p] = r /\ p \in Procs
  BY <1>1, CacheAssumption DEF Layers, LeaderIsInflight, Leading
<1>3. inflight' = [inflight EXCEPT ![p] = None]
  BY <1>2 DEF Finish
<1>4. \A q \in Requests : rpc'[q] = IF q = r THEN "done" ELSE rpc[q]
  BY <1>1 DEF Goes, Layers, LayersTyped
<1>5. LayersTyped'
  BY <1>1, <1>3 DEF Goes, Layers, LayersTyped, RequestStates
<1>6. LeaderIsInflight'
  <2>. SUFFICES ASSUME NEW q \in Requests, rpc'[q] \in Leading
                PROVE  inflight'[ProcOf[q]] = q /\ obj'[q] = q
    BY DEF LeaderIsInflight
  <2>1. q # r /\ inflight[ProcOf[q]] = q /\ obj[q] = q
    BY <1>4 DEF Layers, LeaderIsInflight, Leading
  <2>2. ProcOf[q] # p
    BY <1>2, <2>1
  <2>. QED
    BY <1>1, <1>3, <2>1, <2>2, CacheAssumption DEF Layers, LayersTyped
<1>7. HolderOwnsLock' /\ ReleasesWhatItHolds' /\ NobodyGivesUp'
  BY <1>1, <1>4 DEF Layers, HolderOwnsLock, ReleasesWhatItHolds, NobodyGivesUp
<1>. QED
  BY <1>5, <1>6, <1>7 DEF Layers

LEMMA CancelLayers ==
    ASSUME Layers, NEW r \in Requests, Cancel(r) PROVE Layers'
<1>. USE DEF Leading, RequestStates
<1>1. UNCHANGED <<inflight, obj, lock>> /\ rpc[r] \notin {"idle", "finish", "done", "dead"}
  BY DEF Cancel, objVars
<1>2. CASE rpc[r] \in {"read1", "join", "wait", "read2"}
  BY <1>1, <1>2, StaysLeader DEF Cancel
<1>3. CASE rpc[r] \in {"rel1", "rel2"}
  BY <1>1, <1>3, GivesUpLock DEF Cancel
<1>4. CASE rpc[r] \notin {"read1", "join", "wait", "read2", "rel1", "rel2"}
  <2>1. UNCHANGED held /\ Goes(r, IF held[r] THEN "rel1" ELSE "finish")
    BY <1>4 DEF Cancel, Leaves
  <2>2. rpc[r] \in Leading
    BY <1>1, <1>4 DEF Layers, LayersTyped
  <2>. QED
    BY <1>1, <2>1, <2>2, StaysLeader
<1>. QED
  BY <1>2, <1>3, <1>4

LEMMA CrashLayers ==
    ASSUME Layers, NEW p \in Procs, Crash(p) PROVE Layers'
<1>1. /\ rpc' = [r \in Requests |-> IF ProcOf[r] = p /\ rpc[r] \notin {"idle", "done"}
                                      THEN "dead" ELSE rpc[r]]
      /\ inflight' = [inflight EXCEPT ![p] = None]
      /\ UNCHANGED <<lock, obj, held>>
  BY DEF Crash
<1>2. LayersTyped'
  BY <1>1 DEF Layers, LayersTyped, RequestStates
<1>3. LeaderIsInflight'
  <2>. SUFFICES ASSUME NEW q \in Requests, rpc'[q] \in Leading
                PROVE  inflight'[ProcOf[q]] = q /\ obj'[q] = q
    BY DEF LeaderIsInflight
  <2>1. ProcOf[q] # p /\ rpc'[q] = rpc[q]
    BY <1>1 DEF Leading
  <2>2. inflight[ProcOf[q]] = q /\ obj[q] = q
    BY <2>1 DEF Layers, LeaderIsInflight
  <2>. QED
    BY <1>1, <2>1, <2>2, CacheAssumption DEF Layers, LayersTyped
<1>4. HolderOwnsLock' /\ ReleasesWhatItHolds' /\ NobodyGivesUp'
  BY <1>1 DEF Layers, HolderOwnsLock, ReleasesWhatItHolds, NobodyGivesUp
<1>. QED
  BY <1>2, <1>3, <1>4 DEF Layers

\* Without a stall only a lock nobody runs under expires.
LEMMA LockExpiresLayers ==
    ASSUME Layers, LockExpires, "stall" \notin FaultKinds PROVE Layers'
<1>1. lock' = None /\ ~LockInUse /\ lock # None /\ UNCHANGED <<inflight, rpc, obj, held>>
  BY DEF LockExpires, Fault, objVars, reqVars
<1>2. HolderOwnsLock'
  BY <1>1 DEF Layers, HolderOwnsLock, LockInUse
<1>3. LayersTyped' /\ LeaderIsInflight' /\ ReleasesWhatItHolds' /\ NobodyGivesUp'
  BY <1>1 DEF Layers, LayersTyped, LeaderIsInflight, ReleasesWhatItHolds, NobodyGivesUp
<1>. QED
  BY <1>2, <1>3 DEF Layers

LEMMA OtherLayers ==
    ASSUME Layers, UNCHANGED <<inflight, rpc, obj, held, lock>> PROVE Layers'
  BY DEF Layers, LayersTyped, LeaderIsInflight, HolderOwnsLock, ReleasesWhatItHolds, NobodyGivesUp

LEMMA NextLayers ==
    ASSUME {"timeout", "stall"} \cap FaultKinds = {}
    PROVE  Layers /\ [Next]_vars => Layers'
<1>. SUFFICES ASSUME Layers, [Next]_vars PROVE Layers'
  OBVIOUS
<1>1. ASSUME NEW r \in Requests, RequestNext(r) PROVE Layers'
  <2>1. ~WaitTimeout(r)
    BY DEF WaitTimeout, Fault
  <2>. QED
    BY <1>1, <2>1, SimpleSteps, JoinLayers, TryLockLayers, LosesLock, FinishLayers, CancelLayers
       DEF RequestNext, Proceeds
<1>2. ASSUME NEW i \in Commits, Resolve(i) \/ Delete(i) \/ InvalidateError(i) PROVE Layers'
  BY <1>2, OtherLayers DEF Resolve, Delete, InvalidateError, objVars, reqVars
<1>3. CASE RemoteExpires
  BY <1>3, OtherLayers DEF RemoteExpires, objVars, reqVars
<1>4. CASE LockExpires
  BY <1>4, LockExpiresLayers
<1>5. ASSUME NEW p \in Procs, Commit(p) \/ LocalExpires(p) PROVE Layers'
  BY <1>5, OtherLayers DEF Commit, LocalExpires, objVars, reqVars
<1>6. ASSUME NEW p \in Procs, Crash(p) PROVE Layers'
  BY <1>6, CrashLayers
<1>7. CASE UNCHANGED vars
  BY <1>7, OtherLayers DEF vars, objVars, reqVars
<1>. QED
  BY <1>1, <1>2, <1>3, <1>4, <1>5, <1>6, <1>7 DEF Next

LEMMA LayersFill == Layers => OneFiller
<1>. SUFFICES ASSUME Layers, NEW r \in Requests, NEW s \in Requests, Filling(r), Filling(s), r # s
              PROVE  ProcOf[r] # ProcOf[s] /\ ~(held[r] /\ held[s])
  BY DEF OneFiller
<1>1. rpc[r] \in Leading /\ rpc[s] \in Leading /\ rpc[r] # "dead" /\ rpc[s] # "dead"
  BY DEF Filling, Leading
<1>2. ProcOf[r] # ProcOf[s]
  BY <1>1 DEF Layers, LeaderIsInflight
<1>3. ~(held[r] /\ held[s])
  BY <1>1 DEF Layers, HolderOwnsLock
<1>. QED
  BY <1>2, <1>3

\* Single flight of fill_or_get, for any number of backend processes and
\* requests and any number of Redis errors, failing fills, cancelled requests
\* and crashes: as long as no wait times out and no lock expires under its
\* owner, no two requests of a process, and no two requests under the Redis
\* lock, compute the payload at the same time.
THEOREM SingleFlight ==
    ASSUME {"timeout", "stall"} \cap FaultKinds = {}
    PROVE  Spec => []OneFiller
<1>1. Layers /\ [Next]_vars => Layers'
  BY NextLayers
<1>. QED
  BY <1>1, InitLayers, LayersFill, PTL DEF Spec

-----------------------------------------------------------------------------
(* Type correctness.  A call that is over has something to give, because a *)
(* request that leaves its try block has a value, and the object of a      *)
(* leader gets an outcome before its event is set.                         *)

Values == Payloads \cup {None, Error}

DataOK == db \in Payloads /\ ipc \in [Commits -> InvalidationStates] /\ iproc \in [Commits -> Procs]

\* A record in Redis is in its tag sets.
StoreOK ==
    /\ remote \in Payloads \cup {None} /\ tagged \in BOOLEAN
    /\ local \in [Procs -> Payloads \cup {None}]
    /\ remote # None => tagged

RestOK ==
    /\ lock \in Requests \cup {None} /\ connected \in [Procs -> BOOLEAN]
    /\ faults \in 0 .. MaxFaults

ObjOK ==
    /\ inflight \in [Procs -> Requests \cup {None}]
    /\ event \in [Requests -> BOOLEAN] /\ error \in [Requests -> BOOLEAN]
    /\ result \in [Requests -> Payloads \cup {None}]
    /\ \A o \in Requests : event[o] /\ ~error[o] => result[o] # None

\* What a request at pc has computed or found, and the object it uses.
RequestOK(pc, v, o) ==
    /\ pc \in {"filled", "store"} => v \in Payloads
    /\ pc \in {"rel1", "rel2", "finish", "done"} => v # None
    /\ pc \in {"wait", "read2"} \cup Leading => o \in Requests

ReqOK ==
    /\ rpc \in [Requests -> RequestStates] /\ obj \in [Requests -> Requests \cup {None}]
    /\ held \in [Requests -> BOOLEAN] /\ val \in [Requests -> Values]
    /\ \A r \in Requests : RequestOK(rpc[r], val[r], obj[r])

TypeInv == DataOK /\ StoreOK /\ RestOK /\ ObjOK /\ ReqOK

LEMMA TypeInvImplies == TypeInv => TypeOK
  BY DEF TypeInv, TypeOK, DataOK, StoreOK, RestOK, ObjOK, ReqOK, RequestOK, Values

LEMMA Absent == None \notin Payloads /\ None # Error /\ Error \notin Payloads
                /\ \A v \in Payloads : v # None /\ v # Error
  BY CacheAssumption DEF Payloads

LEMMA TypeInit == Init => TypeInv
<1>. SUFFICES ASSUME Init PROVE TypeInv
  OBVIOUS
<1>1. DataOK
  <2>1. (CHOOSE p \in Procs : TRUE) \in Procs
    BY CacheAssumption
  <2>. QED
    BY <2>1, CacheAssumption DEF Init, DataOK, Payloads, InvalidationStates
<1>2. StoreOK
  BY DEF Init, StoreOK
<1>3. RestOK
  <2>1. connected \in [Procs -> BOOLEAN]
    BY CacheAssumption DEF Init
  <2>. QED
    BY <2>1, CacheAssumption DEF Init, RestOK
<1>4. ObjOK
  BY DEF Init, ObjOK
<1>5. ReqOK
  BY DEF Init, ReqOK, RequestOK, RequestStates, Leading, Values
<1>. QED
  BY <1>1, <1>2, <1>3, <1>4, <1>5 DEF TypeInv

\* What a step leaves alone keeps its type.
LEMMA Kept ==
    ASSUME TypeInv
    PROVE  /\ UNCHANGED dataVars => DataOK'
           /\ UNCHANGED storeVars => StoreOK'
           /\ UNCHANGED objVars => ObjOK'
           /\ UNCHANGED reqVars => ReqOK'
           /\ UNCHANGED <<lock, connected, faults>> => RestOK'
<1>1. UNCHANGED dataVars => DataOK'
  BY DEF TypeInv, dataVars, DataOK
<1>2. UNCHANGED storeVars => StoreOK'
  BY DEF TypeInv, storeVars, StoreOK
<1>3. UNCHANGED objVars => ObjOK'
  BY DEF TypeInv, objVars, ObjOK
<1>4. UNCHANGED reqVars => ReqOK'
  BY DEF TypeInv, reqVars, ReqOK
<1>5. UNCHANGED <<lock, connected, faults>> => RestOK'
  BY DEF TypeInv, RestOK
<1>. QED
  BY <1>1, <1>2, <1>3, <1>4, <1>5

LEMMA RestKept ==
    ASSUME TypeInv, lock' \in {lock, None} \cup Requests,
           connected' = connected \/ \E p \in Procs : MaybeReconnect(p),
           faults' = faults \/ \E k \in FaultKinds : Fault(k)
    PROVE  RestOK'
<1>1. connected' \in [Procs -> BOOLEAN]
  BY CacheAssumption DEF TypeInv, RestOK, MaybeReconnect
<1>2. faults' \in 0 .. MaxFaults
  BY CacheAssumption DEF TypeInv, RestOK, Fault
<1>. QED
  BY <1>1, <1>2 DEF TypeInv, RestOK

\* One request goes to s with the value v and the object o.
LEMMA OneRequest ==
    ASSUME TypeInv, NEW r \in Requests, NEW s \in RequestStates, NEW v \in Values,
           NEW o \in Requests \cup {None},
           Goes(r, s),
           (val' = val /\ v = val[r]) \/ Value(r, v),
           (obj' = obj /\ o = obj[r]) \/ obj' = [obj EXCEPT ![r] = o],
           held' = held \/ Holding(r, TRUE) \/ Holding(r, FALSE),
           RequestOK(s, v, o)
    PROVE  ReqOK'
<1>1. /\ rpc \in [Requests -> RequestStates] /\ obj \in [Requests -> Requests \cup {None}]
      /\ held \in [Requests -> BOOLEAN] /\ val \in [Requests -> Values]
      /\ \A q \in Requests : RequestOK(rpc[q], val[q], obj[q])
  BY DEF TypeInv, ReqOK
<1>2. /\ rpc' \in [Requests -> RequestStates]
      /\ \A q \in Requests : rpc'[q] = IF q = r THEN s ELSE rpc[q]
  BY <1>1 DEF Goes
<1>3. /\ val' \in [Requests -> Values]
      /\ \A q \in Requests : val'[q] = IF q = r THEN v ELSE val[q]
  BY <1>1 DEF Value
<1>4. /\ obj' \in [Requests -> Requests \cup {None}]
      /\ \A q \in Requests : obj'[q] = IF q = r THEN o ELSE obj[q]
  BY <1>1
<1>5. held' \in [Requests -> BOOLEAN]
  BY <1>1 DEF Holding
<1>6. ASSUME NEW q \in Requests PROVE RequestOK(rpc'[q], val'[q], obj'[q])
  <2>1. CASE q = r
    BY <1>2, <1>3, <1>4, <2>1
  <2>2. CASE q # r
    BY <1>1, <1>2, <1>3, <1>4, <2>2
  <2>. QED
    BY <2>1, <2>2
<1>. QED
  BY <1>2, <1>3, <1>4, <1>5, <1>6 DEF ReqOK

\* A step of one request that leaves its object and the stores alone.
LEMMA RequestMoves ==
    ASSUME TypeInv, NEW r \in Requests, NEW s \in RequestStates, NEW v \in Values,
           Goes(r, s), (val' = val /\ v = val[r]) \/ Value(r, v), RequestOK(s, v, obj[r]),
           held' = held \/ Holding(r, TRUE) \/ Holding(r, FALSE),
           lock' \in {lock, None, r}, obj' = obj,
           connected' = connected \/ \E p \in Procs : MaybeReconnect(p),
           faults' = faults \/ \E k \in FaultKinds : Fault(k),
           UNCHANGED <<dataVars, storeVars, objVars>>
    PROVE  TypeInv'
<1>1. obj[r] \in Requests \cup {None}
  BY DEF TypeInv, ReqOK
<1>2. ReqOK'
  BY <1>1, OneRequest
<1>3. RestOK'
  BY RestKept
<1>4. DataOK' /\ StoreOK' /\ ObjOK'
  BY Kept
<1>. QED
  BY <1>2, <1>3, <1>4 DEF TypeInv

LEMMA RequestNow ==
    ASSUME TypeInv, NEW r \in Requests
    PROVE  /\ RequestOK(rpc[r], val[r], obj[r]) /\ val[r] \in Values
           /\ obj[r] \in Requests \cup {None} /\ ProcOf[r] \in Procs
  BY CacheAssumption DEF TypeInv, ReqOK

\* Steps that leave the value of the request as it is.
LEMMA MovesTyped ==
    ASSUME TypeInv, NEW r \in Requests,
           Begin(r) \/ WaitTimeout(r) \/ TryLock(r) \/ Exists(r) \/ PollDeadline(r)
           \/ CoordinationError(r) \/ FillDone(r) \/ Release(r)
    PROVE  TypeInv'
<1>. DEFINE OK(s) == s \in RequestStates /\ RequestOK(s, val[r], obj[r])
<1>1. RequestOK(rpc[r], val[r], obj[r]) /\ val[r] \in Values /\ ProcOf[r] \in Procs
  BY RequestNow
<1>2. ASSUME NEW s, OK(s), Goes(r, s), UNCHANGED <<val, obj, dataVars, storeVars, objVars>>,
             held' = held \/ Holding(r, TRUE) \/ Holding(r, FALSE), lock' \in {lock, None, r},
             connected' = connected \/ MaybeReconnect(ProcOf[r]),
             faults' = faults \/ \E k \in FaultKinds : Fault(k)
      PROVE  TypeInv'
  <2>1. connected' = connected \/ \E p \in Procs : MaybeReconnect(p)
    BY <1>1, <1>2
  <2>. QED
    BY <1>1, <1>2, <2>1, RequestMoves
<1>3. ASSUME NEW k, Fault(k) PROVE k \in FaultKinds
  BY <1>3 DEF Fault
<1>4. CASE Begin(r)
  <2>1. OK("read1")
    BY DEF RequestOK, RequestStates, Leading
  <2>. HIDE DEF OK
  <2>. QED
    BY <1>2, <1>4, <2>1 DEF Begin
<1>5. CASE WaitTimeout(r)
  <2>1. OK("read2")
    BY <1>1, <1>5 DEF WaitTimeout, RequestOK, RequestStates, Leading
  <2>. HIDE DEF OK
  <2>. QED
    BY <1>2, <1>3, <1>5, <2>1 DEF WaitTimeout
<1>6. CASE TryLock(r)
  <2>1. OK("read3") /\ OK("poll") /\ OK("fill")
    BY <1>1, <1>6 DEF TryLock, RequestOK, RequestStates, Leading
  <2>. HIDE DEF OK
  <2>. QED
    BY <1>2, <1>6, <2>1 DEF TryLock
<1>7. CASE Exists(r) \/ PollDeadline(r)
  <2>1. OK("relock") /\ OK("poll") /\ OK("fill")
    BY <1>1, <1>7 DEF Exists, PollDeadline, RequestOK, RequestStates, Leading
  <2>. HIDE DEF OK
  <2>. QED
    BY <1>2, <1>3, <1>7, <2>1 DEF Exists, PollDeadline
<1>8. CASE CoordinationError(r)
  <2>1. OK("fill")
    BY <1>1, <1>8 DEF CoordinationError, RequestOK, RequestStates, Leading
  <2>. HIDE DEF OK
  <2>. QED
    BY <1>2, <1>3, <1>8, <2>1 DEF CoordinationError
<1>9. CASE FillDone(r)
  <2>1. val[r] # None
    BY <1>1, <1>9, Absent DEF FillDone, RequestOK
  <2>2. OK("store") /\ OK("rel1") /\ OK("finish")
    BY <1>1, <1>9, <2>1 DEF FillDone, RequestOK, RequestStates, Leading
  <2>. HIDE DEF OK
  <2>. QED
    BY <1>2, <1>9, <2>2 DEF FillDone, Leaves
<1>10. CASE Release(r)
  <2>1. OK("rel2") /\ OK("finish")
    BY <1>1, <1>10 DEF Release, RequestOK, RequestStates, Leading
  <2>. HIDE DEF OK
  <2>. QED
    BY <1>2, <1>10, <2>1 DEF Release
<1>. QED
  BY <1>4, <1>5, <1>6, <1>7, <1>8, <1>9, <1>10

\* Steps that give the request a value: a hit, the outcome of a leader, the
\* payload of the fill, or an error.
LEMMA ReadTyped ==
    ASSUME TypeInv, NEW r \in Requests, Read(r) PROVE TypeInv'
<1>1. PICK w \in Payloads \cup {None} :
         AfterRead(r, w) /\ (faults' = faults \/ \E k \in FaultKinds : Fault(k))
  <2>1. remote \in Payloads \cup {None} /\ local[ProcOf[r]] \in Payloads \cup {None}
    BY RequestNow DEF TypeInv, StoreOK
  <2>2. Fault("redis") => "redis" \in FaultKinds
    BY DEF Fault
  <2>. QED
    BY <2>1, <2>2 DEF Read
<1>2. /\ RequestOK(rpc[r], val[r], obj[r]) /\ val[r] \in Values
      /\ rpc[r] \in {"read1", "read2", "read3", "poll"}
  BY RequestNow DEF Read
<1>3. UNCHANGED <<dataVars, storeVars, objVars, lock, connected, obj, held>>
  BY DEF Read
<1>4. CASE w = None
  <2>1. PICK s \in {"join", "coord", "fill", "exists"} :
           Goes(r, s) /\ (s = "join" \/ rpc[r] # "read1")
    BY <1>1, <1>2, <1>4 DEF AfterRead
  <2>2. val' = val
    BY <1>1, <1>4 DEF AfterRead
  <2>3. s \in RequestStates /\ RequestOK(s, val[r], obj[r])
    BY <1>2, <2>1 DEF RequestOK, RequestStates, Leading
  <2>. QED
    BY <1>1, <1>2, <1>3, <2>1, <2>2, <2>3, RequestMoves
<1>5. CASE w # None
  <2>1. PICK s \in {"done", "rel1", "finish"} : Goes(r, s) /\ (s = "done" \/ rpc[r] \in {"read3", "poll"})
    BY <1>1, <1>2, <1>5 DEF AfterRead
  <2>2. Value(r, w) /\ w \in Values
    BY <1>1, <1>5 DEF AfterRead, Values
  <2>3. s \in RequestStates /\ RequestOK(s, w, obj[r])
    BY <1>2, <1>5, <2>1 DEF RequestOK, RequestStates, Leading
  <2>. QED
    BY <1>1, <1>3, <2>1, <2>2, <2>3, RequestMoves
<1>. QED
  BY <1>4, <1>5

LEMMA ValueTyped ==
    ASSUME TypeInv, NEW r \in Requests, Wake(r) \/ Fill(r) \/ FillRaises(r) \/ Cancel(r)
    PROVE  TypeInv'
<1>1. /\ RequestOK(rpc[r], val[r], obj[r])
      /\ UNCHANGED <<dataVars, storeVars, objVars, lock, connected, obj>>
  BY RequestNow DEF Wake, Fill, FillRaises, Cancel
<1>2. ASSUME NEW k, Fault(k) PROVE k \in FaultKinds
  BY <1>2 DEF Fault
<1>3. ASSUME NEW s \in RequestStates, NEW v \in Values, Goes(r, s), Value(r, v),
             RequestOK(s, v, obj[r]), held' = held \/ Holding(r, FALSE),
             faults' = faults \/ \E k \in FaultKinds : Fault(k)
      PROVE  TypeInv'
  BY <1>1, <1>3, RequestMoves
<1>4. CASE Wake(r)
  <2>. DEFINE o == obj[r]
              v == IF error[o] THEN Error ELSE result[o]
  <2>1. o \in Requests /\ event[o]
    BY <1>1, <1>4 DEF Wake, Ready, RequestOK
  <2>2. v \in Values /\ v # None
    BY <2>1, Absent DEF TypeInv, ObjOK, Values
  <2>3. RequestOK("done", v, o) /\ "done" \in RequestStates
    BY <2>2 DEF RequestOK, RequestStates, Leading
  <2>. HIDE DEF v
  <2>. QED
    BY <1>3, <1>4, <2>2, <2>3 DEF Wake, v
<1>5. CASE Fill(r)
  <2>1. db \in Payloads /\ db \in Values
    BY DEF TypeInv, DataOK, Values
  <2>2. RequestOK("filled", db, obj[r]) /\ "filled" \in RequestStates
    BY <1>1, <1>5, <2>1 DEF Fill, RequestOK, RequestStates, Leading
  <2>. QED
    BY <1>3, <1>5, <2>1, <2>2 DEF Fill
<1>6. CASE FillRaises(r) \/ Cancel(r)
  <2>1. Error \in Values /\ Error # None
    BY Absent DEF Values
  <2>2. Value(r, Error) /\ (held' = held \/ Holding(r, FALSE)) /\ \E k \in FaultKinds : Fault(k)
    BY <1>2, <1>6 DEF FillRaises, Cancel
  <2>3. PICK s \in {"done", "rel1", "finish"} :
           Goes(r, s) /\ (s = "done" \/ rpc[r] \in Leading)
    <3>1. CASE FillRaises(r)
      BY <3>1 DEF FillRaises, Leaves, Leading
    <3>2. CASE Cancel(r)
      BY <3>2 DEF Cancel, Leaves, Leading, TypeInv, ReqOK, RequestStates
    <3>. QED
      BY <1>6, <3>1, <3>2
  <2>4. RequestOK(s, Error, obj[r]) /\ s \in RequestStates
    BY <1>1, <2>1, <2>3 DEF RequestOK, RequestStates, Leading
  <2>. QED
    BY <1>3, <2>1, <2>2, <2>3, <2>4
<1>. QED
  BY <1>4, <1>5, <1>6

LEMMA JoinTyped ==
    ASSUME TypeInv, NEW r \in Requests, Join(r) PROVE TypeInv'
<1>. DEFINE p == ProcOf[r]
<1>1. UNCHANGED <<dataVars, storeVars, lock, connected, event, result, error, held, val, faults>>
  BY DEF Join
<1>2. RequestOK(rpc[r], val[r], obj[r]) /\ val[r] \in Values /\ p \in Procs
  BY RequestNow
<1>3. PICK s \in {"coord", "wait"}, o \in Requests :
         Goes(r, s) /\ obj' = [obj EXCEPT ![r] = o]
  <2>1. ~NoInflight(p) => inflight[p] \in Requests
    BY <1>2 DEF NoInflight, TypeInv, ObjOK
  <2>. QED
    BY <2>1 DEF Join
<1>4. RequestOK(s, val[r], o) /\ s \in RequestStates
  BY <1>3 DEF RequestOK, RequestStates, Leading
<1>5. ReqOK'
  BY <1>1, <1>2, <1>3, <1>4, OneRequest
<1>6. ObjOK'
  <2>1. inflight' \in [Procs -> Requests \cup {None}]
    BY DEF Join, TypeInv, ObjOK
  <2>. QED
    BY <1>1, <2>1 DEF TypeInv, ObjOK
<1>7. DataOK' /\ StoreOK' /\ RestOK'
  BY <1>1, Kept
<1>. QED
  BY <1>5, <1>6, <1>7 DEF TypeInv

\* Only payloads are stored, and a record is stored with its tags.
LEMMA StoreTyped ==
    ASSUME TypeInv, NEW r \in Requests, Store(r) PROVE TypeInv'
<1>1. /\ RequestOK(rpc[r], val[r], obj[r]) /\ rpc[r] = "store" /\ MaybeReconnect(ProcOf[r])
      /\ Leaves(r) /\ UNCHANGED <<dataVars, lock, objVars, obj, held, val>>
  BY RequestNow DEF Store
<1>2. val[r] \in Payloads /\ val[r] # None /\ val[r] \in Values /\ ProcOf[r] \in Procs
      /\ obj[r] \in Requests
  BY <1>1, RequestNow, Absent DEF RequestOK, Leading
<1>3. StoreOK'
  <2>1. local' \in [Procs -> Payloads \cup {None}]
    BY <1>2 DEF Store, StoreLocal, TypeInv, StoreOK
  <2>2. UNCHANGED <<remote, tagged>> \/ (remote' = val[r] /\ tagged' = TRUE)
    BY DEF Store, StoreRemote, TagsAfter
  <2>. QED
    BY <1>2, <2>1, <2>2 DEF TypeInv, StoreOK
<1>4. RestOK'
  <2>1. faults' = faults \/ \E k \in FaultKinds : Fault(k)
    BY DEF Store, Fault
  <2>. QED
    BY <1>1, <1>2, <2>1, RestKept
<1>5. PICK s \in {"rel1", "finish"} : Goes(r, s)
  BY <1>1 DEF Leaves
<1>6. s \in RequestStates /\ RequestOK(s, val[r], obj[r])
  BY <1>2 DEF RequestOK, RequestStates
<1>7. ReqOK'
  BY <1>1, <1>2, <1>5, <1>6, OneRequest
<1>8. DataOK' /\ ObjOK'
  BY <1>1, Kept
<1>. QED
  BY <1>3, <1>4, <1>7, <1>8 DEF TypeInv

\* The object of a finished fill has an outcome.
LEMMA FinishTyped ==
    ASSUME TypeInv, NEW r \in Requests, Finish(r) PROVE TypeInv'
<1>. DEFINE o == obj[r]
            p == ProcOf[r]
<1>1. /\ RequestOK(rpc[r], val[r], obj[r]) /\ rpc[r] = "finish" /\ Goes(r, "done")
      /\ UNCHANGED <<dataVars, storeVars, lock, connected, obj, held, val, faults>>
  BY RequestNow DEF Finish
<1>2. val[r] \in Values /\ val[r] # None /\ o \in Requests /\ p \in Procs
  BY <1>1, RequestNow DEF RequestOK, Leading
<1>3. RequestOK("done", val[r], o) /\ "done" \in RequestStates
  BY <1>2 DEF RequestOK, RequestStates, Leading
<1>4. ReqOK'
  BY <1>1, <1>2, <1>3, OneRequest
<1>5. ObjOK'
  <2>1. inflight' \in [Procs -> Requests \cup {None}]
    BY <1>2 DEF Finish, TypeInv, ObjOK
  <2>2. event' \in [Requests -> BOOLEAN] /\ \A q \in Requests \ {o} : event'[q] = event[q]
    BY <1>2 DEF Finish, WakesWaiters, TypeInv, ObjOK
  <2>3. CASE val[r] = Error
    <3>1. error' = [error EXCEPT ![o] = TRUE] /\ result' = result
      BY <2>3 DEF Finish
    <3>. QED
      BY <1>2, <2>1, <2>2, <3>1 DEF TypeInv, ObjOK
  <2>4. CASE val[r] # Error
    <3>1. result' = [result EXCEPT ![o] = val[r]] /\ error' = error
      BY <2>4 DEF Finish
    <3>2. val[r] \in Payloads
      BY <1>2, <2>4 DEF Values
    <3>. QED
      BY <1>2, <2>1, <2>2, <3>1, <3>2 DEF TypeInv, ObjOK
  <2>. QED
    BY <2>3, <2>4
<1>6. DataOK' /\ StoreOK' /\ RestOK'
  BY <1>1, Kept
<1>. QED
  BY <1>4, <1>5, <1>6 DEF TypeInv

\* What the steps of an invalidation do: it never leaves a record without tags.
LEMMA InvalidationTyped ==
    ASSUME TypeInv, NEW i \in Commits, Resolve(i) \/ Delete(i) \/ InvalidateError(i)
    PROVE  TypeInv'
<1>1. /\ UNCHANGED <<db, iproc, lock, connected, objVars, reqVars>>
      /\ faults' = faults \/ \E k \in FaultKinds : Fault(k)
  BY DEF Resolve, Delete, InvalidateError, Fault
<1>2. \E s \in InvalidationStates : Invalidated(i, s)
  BY DEF Resolve, Delete, InvalidateError, InvalidateLocal, InvalidationStates
<1>3. DataOK'
  BY <1>1, <1>2 DEF Invalidated, TypeInv, DataOK
<1>4. local' = local \/ local' = [local EXCEPT ![iproc[i]] = None]
  BY DEF Resolve, Delete, InvalidateError, InvalidateLocal
<1>5. UNCHANGED <<remote, tagged>> \/ (remote' = None /\ tagged' \in {FALSE, tagged})
  BY DEF Resolve, Delete, InvalidateError, DeleteRemote
<1>6. StoreOK'
  BY <1>4, <1>5 DEF TypeInv, StoreOK
<1>7. RestOK'
  BY <1>1, RestKept
<1>8. ObjOK' /\ ReqOK'
  BY <1>1, Kept
<1>. QED
  BY <1>3, <1>6, <1>7, <1>8 DEF TypeInv

LEMMA WorldTyped ==
    ASSUME TypeInv, RemoteExpires \/ LockExpires \/ \E p \in Procs : Commit(p) \/ LocalExpires(p)
    PROVE  TypeInv'
<1>1. CASE RemoteExpires
  <2>1. StoreOK'
    BY <1>1 DEF RemoteExpires, TypeInv, StoreOK
  <2>. QED
    BY <1>1, <2>1, Kept DEF RemoteExpires, TypeInv
<1>2. CASE LockExpires
  <2>1. faults' = faults \/ \E k \in FaultKinds : Fault(k)
    BY <1>2 DEF LockExpires, Fault
  <2>2. RestOK'
    BY <1>2, <2>1, RestKept DEF LockExpires
  <2>. QED
    BY <1>2, <2>2, Kept DEF LockExpires, TypeInv
<1>3. ASSUME NEW p \in Procs, Commit(p) PROVE TypeInv'
  <2>1. db \in Nat /\ MaxCommits \in Nat /\ db + 1 \in Commits /\ db' \in Payloads
    BY <1>3, CacheAssumption DEF Commit, TypeInv, DataOK, Payloads, Commits
  <2>2. DataOK'
    BY <1>3, <2>1 DEF Commit, TypeInv, DataOK, InvalidationStates
  <2>3. RestOK'
    BY <1>3, RestKept DEF Commit
  <2>. QED
    BY <1>3, <2>2, <2>3, Kept DEF Commit, TypeInv
<1>4. ASSUME NEW p \in Procs, LocalExpires(p) PROVE TypeInv'
  <2>1. StoreOK'
    BY <1>4 DEF LocalExpires, TypeInv, StoreOK
  <2>. QED
    BY <1>4, <2>1, Kept DEF LocalExpires, TypeInv
<1>. QED
  BY <1>1, <1>2, <1>3, <1>4

LEMMA CrashTyped ==
    ASSUME TypeInv, NEW p \in Procs, Crash(p) PROVE TypeInv'
<1>1. /\ UNCHANGED <<db, iproc, remote, tagged, lock, connected, event, result, error, obj,
                     held, val>>
      /\ \E k \in FaultKinds : Fault(k)
  BY DEF Crash, Fault
<1>2. DataOK'
  BY <1>1 DEF Crash, TypeInv, DataOK, InvalidationStates
<1>3. StoreOK' /\ ObjOK'
  BY <1>1 DEF Crash, TypeInv, StoreOK, ObjOK
<1>4. RestOK'
  BY <1>1, RestKept
<1>5. ReqOK'
  <2>1. \A r \in Requests : rpc'[r] = "dead" \/ rpc'[r] = rpc[r]
    BY DEF Crash
  <2>2. rpc' \in [Requests -> RequestStates]
    BY DEF Crash, TypeInv, ReqOK, RequestStates
  <2>3. \A r \in Requests : RequestOK(rpc'[r], val[r], obj[r])
    BY <2>1 DEF TypeInv, ReqOK, RequestOK, Leading
  <2>. QED
    BY <1>1, <2>2, <2>3 DEF TypeInv, ReqOK
<1>. QED
  BY <1>2, <1>3, <1>4, <1>5 DEF TypeInv

LEMMA TypeNext == TypeInv /\ [Next]_vars => TypeInv'
<1>. SUFFICES ASSUME TypeInv, [Next]_vars PROVE TypeInv'
  OBVIOUS
<1>1. ASSUME NEW r \in Requests, RequestNext(r) PROVE TypeInv'
  BY <1>1, MovesTyped, ReadTyped, ValueTyped, JoinTyped, StoreTyped, FinishTyped
     DEF RequestNext, Proceeds
<1>2. ASSUME NEW i \in Commits, Resolve(i) \/ Delete(i) \/ InvalidateError(i) PROVE TypeInv'
  BY <1>2, InvalidationTyped
<1>3. CASE RemoteExpires \/ LockExpires \/ \E p \in Procs : Commit(p) \/ LocalExpires(p)
  BY <1>3, WorldTyped
<1>4. ASSUME NEW p \in Procs, Crash(p) PROVE TypeInv'
  BY <1>4, CrashTyped
<1>5. CASE UNCHANGED vars
  BY <1>5, Kept DEF vars, TypeInv
<1>. QED
  BY <1>1, <1>2, <1>3, <1>4, <1>5 DEF Next

\* An invalidation ends with a delete, or without one when the tag sets are
\* empty, which they are only when there is no record; after a Redis error it
\* ends with the local entry gone.
LEMMA InvalidationEnds ==
    ASSUME TypeInv, [Next]_vars, NEW i \in Commits
    PROVE  /\ ipc[i] # "remote" /\ ipc'[i] = "remote" => remote' = None
           /\ ipc[i] # "local" /\ ipc'[i] = "local" => local'[iproc[i]] = None
<1>. USE DEF InvalidationStates
<1>0. /\ ipc \in [Commits -> InvalidationStates] /\ iproc[i] \in Procs
      /\ local \in [Procs -> Payloads \cup {None}]
  BY DEF TypeInv, DataOK, StoreOK
<1>1. ASSUME NEW j \in Commits, Resolve(j)
      PROVE  /\ ipc[i] # "remote" /\ ipc'[i] = "remote" => remote' = None
             /\ ipc[i] # "local" /\ ipc'[i] = "local" => local'[iproc[i]] = None
  <2>1. CASE connected[iproc[j]]
    <3>1. Invalidated(j, IF tagged THEN "delete" ELSE "remote") /\ remote' = remote
      BY <1>1, <2>1 DEF Resolve
    <3>2. ipc'[i] = ipc[i] \/ (i = j /\ ipc'[i] = IF tagged THEN "delete" ELSE "remote")
      BY <1>0, <3>1 DEF Invalidated
    <3>. QED
      BY <3>1, <3>2 DEF TypeInv, StoreOK
  <2>2. CASE ~connected[iproc[j]]
    BY <1>0, <1>1, <2>2 DEF Resolve, InvalidateLocal, Invalidated
  <2>. QED
    BY <2>1, <2>2
<1>2. ASSUME NEW j \in Commits, Delete(j)
      PROVE  /\ ipc[i] # "remote" /\ ipc'[i] = "remote" => remote' = None
             /\ ipc[i] # "local" /\ ipc'[i] = "local" => local'[iproc[i]] = None
  BY <1>0, <1>2 DEF Delete, DeleteRemote, Invalidated
<1>3. ASSUME NEW j \in Commits, InvalidateError(j)
      PROVE  /\ ipc[i] # "remote" /\ ipc'[i] = "remote" => remote' = None
             /\ ipc[i] # "local" /\ ipc'[i] = "local" => local'[iproc[i]] = None
  BY <1>0, <1>3 DEF InvalidateError, InvalidateLocal, Invalidated
<1>4. ASSUME NEW p \in Procs, Commit(p) \/ Crash(p)
      PROVE  ipc'[i] \in {ipc[i], "resolve", "lost"}
  BY <1>0, <1>4 DEF Commit, Crash
<1>5. CASE UNCHANGED ipc
  BY <1>5
<1>6. \/ \E j \in Commits : Resolve(j) \/ Delete(j) \/ InvalidateError(j)
      \/ \E p \in Procs : Commit(p) \/ Crash(p)
      \/ UNCHANGED ipc
  <2>1. ASSUME NEW r \in Requests, RequestNext(r) PROVE UNCHANGED ipc
    BY <2>1 DEF RequestNext, Proceeds, Begin, Read, Join, Wake, TryLock, Exists, Fill, FillDone,
       Store, Release, Finish, WaitTimeout, PollDeadline, CoordinationError, FillRaises, Cancel,
       dataVars
  <2>2. RemoteExpires \/ LockExpires \/ (\E p \in Procs : LocalExpires(p)) \/ UNCHANGED vars
        => UNCHANGED ipc
    BY DEF RemoteExpires, LockExpires, LocalExpires, vars, dataVars
  <2>. QED
    BY <2>1, <2>2 DEF Next
<1>. QED
  BY <1>1, <1>2, <1>3, <1>4, <1>5, <1>6

\* The variables of HotCache keep their types, and a call that is over has a
\* payload or an error: no follower is woken before its leader's object has an
\* outcome (the finally block of fill_or_get).
THEOREM CacheTypeCorrect == Spec => []TypeOK
<1>1. Spec => []TypeInv
  BY TypeInit, TypeNext, PTL DEF Spec
<1>. QED
  BY <1>1, TypeInvImplies, PTL

\* A finished invalidation leaves nothing older than its data change in the
\* store it worked on: Redis when the tag sets could be read and the delete was
\* made, else the memory of its process (SharedHotResponseCache.invalidate).
THEOREM InvalidationIsThorough == Spec => InvalidationRemoves
<1>1. Spec => []TypeInv
  BY TypeInit, TypeNext, PTL DEF Spec
<1>2. TypeInv /\ [Next]_vars =>
         [\A i \in Commits :
            /\ ipc[i] # "remote" /\ ipc'[i] = "remote" => remote' = None \/ remote' >= i
            /\ ipc[i] # "local" /\ ipc'[i] = "local" => local'[iproc[i]] = None]_vars
  BY InvalidationEnds
<1>. QED
  BY <1>1, <1>2, PTL DEF Spec, InvalidationRemoves
=============================================================================
