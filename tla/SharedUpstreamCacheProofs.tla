--------------------- MODULE SharedUpstreamCacheProofs ---------------------
(***************************************************************************)
(* The shared upstream cache, for every number of processes, threads and   *)
(* keys and all sizes and limits: what its single-flight lock provides     *)
(* (FetchesBounded), and that the memory of a process keeps its limits and *)
(* its count of bytes (WithinLimits).                                      *)
(*                                                                         *)
(* The first argument looks at the locks and Redis only, because a memory  *)
(* may evict a payload at any time.  The second is about one memory and    *)
(* what each operation makes of it, by induction over its entries.         *)
(***************************************************************************)
EXTENDS SharedUpstreamCache, FiniteSetTheorems, SequenceTheorems, TLAPS

Connected == {p \in Procs : connected[p]}

\* How many threads fill a key at a time, each with its lock.
Bound(g) == IF g = "redis" THEN 1 ELSE 1 + Cardinality(Connected)

\* The values of everything but the memories.
SharedOK ==
    /\ connected \in [Procs -> BOOLEAN]
    /\ remote \in [Keys -> Sizes \cup {0}]
    /\ fetches \in [Keys -> [Grants -> Nat]] /\ faults \in 0..MaxFaults /\ overruns \in 0..MaxOverruns
LocksOK ==
    /\ llock \in [Procs -> [Keys -> Threads \cup {NoOne}]]
    /\ rlock \in [Keys -> Threads \cup {NoOne, Leaked}]
ThreadsOK ==
    /\ pc \in [Threads -> Pcs] /\ key \in [Threads -> Keys]
    /\ lock \in [Threads -> {"none", "redis", "local"}]
    /\ got \in [Threads -> Sizes \cup {0}]

\* Only a thread that looks again, fills, stores or releases has been granted a
\* lock, and a thread that stores has a payload.
Stages ==
    \A t \in Threads :
        /\ pc[t] \notin {"recheck", "fill", "store", "release", "delete"} => lock[t] = "none"
        /\ pc[t] = "recheck" => lock[t] # "none"
        /\ pc[t] = "store" => got[t] \in Sizes

\* The threads that go on without the lock they were granted, or never had one,
\* and those whose late DELETE will hit a lock that is not theirs.
Unprotected ==
    {t \in Threads :
        \/ lock[t] = "redis" /\ rlock[key[t]] # t
        \/ lock[t] = "local" /\ llock[Proc(t)][key[t]] # t
        \/ lock[t] = "none" /\ pc[t] \in {"fill", "store"}
        \/ pc[t] = "delete" /\ rlock[key[t]] # t}

\* Each of them has had an overrun of its own.
Paid == IsFiniteSet(Unprotected) /\ Cardinality(Unprotected) <= overruns

\* As long as Redis has no payload, each counted fetch is one that runs or one
\* that a fault lost.
Accounted ==
    \A k \in Keys, g \in Grants :
        /\ fetches[k][g] <= Bound(g) + faults + overruns
        /\ remote[k] = 0 => fetches[k][g] <= Cardinality(Filling(k, g)) + faults

HoldersInv == SharedOK /\ LocksOK /\ ThreadsOK /\ Stages /\ Paid
FetchInv == HoldersInv /\ Accounted

-----------------------------------------------------------------------------
(* How many threads fill a key at a time.                                  *)

\* FS_Injection, for a function that is given with what makes it injective.
LEMMA InjectionCounted ==
    ASSUME NEW C, IsFiniteSet(C),
           NEW L, NEW f \in [L -> C], \A t, u \in L : f[t] = f[u] => t = u
    PROVE  IsFiniteSet(L) /\ Cardinality(L) <= Cardinality(C)
<1>1. f \in Injection(L, C)
  BY DEF Injection, IsInjective
<1>2. IsFiniteSet(L)
  BY <1>1, FS_Injection
<1>3. Cardinality(L) <= Cardinality(C)
  BY <1>1, FS_Injection
<1> QED  BY <1>2, <1>3

\* One thread holds the Redis lock, and one of each process its local lock.
LEMMA HoldersCounted ==
    ASSUME NEW r, NEW R, R \subseteq {r},
           NEW C, IsFiniteSet(C),
           NEW L, \A t \in L : Proc(t) \in C,
           \A t, u \in L : Proc(t) = Proc(u) => t = u
    PROVE  /\ IsFiniteSet(R \cup L)
           /\ Cardinality(R \cup L) <= 1 + Cardinality(C)
<1> DEFINE f == [t \in L |-> Proc(t)]
<1>1. IsFiniteSet({r}) /\ Cardinality({r}) = 1
  BY FS_Singleton
<1>2. IsFiniteSet(R) /\ Cardinality(R) <= 1
  BY <1>1, FS_Subset
<1>3. f \in [L -> C] /\ \A t, u \in L : f[t] = f[u] => t = u
  OBVIOUS
<1>4. IsFiniteSet(L) /\ Cardinality(L) <= Cardinality(C)
  <2> HIDE DEF f
  <2> QED  BY <1>3, InjectionCounted
<1>5. IsFiniteSet(R \cup L)
  BY <1>2, <1>4, FS_Union
<1>6. Cardinality(R \cup L) = Cardinality(R) + Cardinality(L) - Cardinality(R \cap L)
  BY <1>2, <1>4, FS_Union
<1>7. IsFiniteSet(R \cap L)
  BY <1>2, FS_Intersection
<1>8. /\ Cardinality(R) \in Nat /\ Cardinality(L) \in Nat
      /\ Cardinality(R \cap L) \in Nat /\ Cardinality(C) \in Nat
  BY <1>2, <1>4, <1>7, FS_CardinalityType
<1> QED  BY <1>2, <1>4, <1>5, <1>6, <1>8

\* The connected processes can be counted.
LEMMA ConnectedFinite ==
    /\ IsFiniteSet(Connected) /\ Cardinality(Connected) \in Nat
    /\ \A g \in Grants : Bound(g) \in Nat
<1>1. Connected \in SUBSET Procs /\ IsFiniteSet(Procs)
  BY UpstreamAssumption DEF Connected
<1>2. IsFiniteSet(Connected)
  BY <1>1, FS_Subset
<1>3. Cardinality(Connected) \in Nat
  BY <1>2, FS_CardinalityType
<1> QED  BY <1>2, <1>3 DEF Bound

\* The connected processes fill a key once under the Redis lock and once each
\* under the local one at most, and in the threads without a lock.
FillsBounded ==
    \A k \in Keys, g \in Grants :
        /\ IsFiniteSet(Filling(k, g)) /\ Cardinality(Filling(k, g)) \in Nat
        /\ Cardinality(Filling(k, g)) <= Bound(g) + overruns

LEMMA FillingBounded == HoldersInv => FillsBounded
<1> SUFFICES ASSUME HoldersInv, NEW k \in Keys, NEW g \in Grants
             PROVE  /\ IsFiniteSet(Filling(k, g)) /\ Cardinality(Filling(k, g)) \in Nat
                    /\ Cardinality(Filling(k, g)) <= Bound(g) + overruns
  BY DEF FillsBounded
<1> DEFINE R == {t \in Filling(k, g) : lock[t] = "redis" /\ rlock[k] = t}
           L == {t \in Filling(k, g) : lock[t] = "local" /\ llock[Proc(t)][k] = t}
           H == R \cup L
<1>1. R \subseteq {rlock[k]}
  OBVIOUS
<1>2. \A t \in L : Proc(t) \in Connected
  BY UpstreamAssumption DEF Filling, Counts, Online, Connected
<1>3. \A t, u \in L : Proc(t) = Proc(u) => t = u
  OBVIOUS
<1>4. Filling(k, g) \subseteq H \cup Unprotected
  BY DEF HoldersInv, ThreadsOK, Filling, Unprotected
<1>5. IsFiniteSet(H) /\ Cardinality(H) <= Bound(g)
  <2>1. CASE g = "redis"
    <3>1. H \subseteq {rlock[k]}
      BY <2>1 DEF Filling, Counts
    <3>2. IsFiniteSet({rlock[k]}) /\ Cardinality({rlock[k]}) = 1
      BY FS_Singleton
    <3> HIDE DEF H
    <3>3. IsFiniteSet(H) /\ Cardinality(H) <= 1
      BY <3>1, <3>2, FS_Subset
    <3> QED  BY <2>1, <3>3 DEF Bound
  <2>2. CASE g # "redis"
    <3> HIDE DEF R, L
    <3>1. IsFiniteSet(H) /\ Cardinality(H) <= 1 + Cardinality(Connected)
      BY <1>1, <1>2, <1>3, ConnectedFinite, HoldersCounted
    <3> QED  BY <2>2, <3>1 DEF Bound
  <2> QED  BY <2>1, <2>2
<1> HIDE DEF H
<1>6. IsFiniteSet(Unprotected) /\ Cardinality(Unprotected) <= overruns /\ overruns \in Nat
  BY UpstreamAssumption DEF HoldersInv, Paid, SharedOK
<1>7. /\ IsFiniteSet(H \cup Unprotected)
      /\ Cardinality(H \cup Unprotected) = Cardinality(H) + Cardinality(Unprotected) - Cardinality(H \cap Unprotected)
  BY <1>5, <1>6, FS_Union
<1>8. IsFiniteSet(H \cap Unprotected)
  BY <1>5, FS_Intersection
<1>9. IsFiniteSet(Filling(k, g)) /\ Cardinality(Filling(k, g)) <= Cardinality(H \cup Unprotected)
  BY <1>4, <1>7, FS_Subset
<1>10. /\ Cardinality(H) \in Nat /\ Cardinality(Unprotected) \in Nat
       /\ Cardinality(H \cap Unprotected) \in Nat /\ Cardinality(H \cup Unprotected) \in Nat
       /\ Cardinality(Filling(k, g)) \in Nat /\ Bound(g) \in Nat
  BY <1>5, <1>6, <1>7, <1>8, <1>9, ConnectedFinite, FS_CardinalityType
<1> QED  BY <1>5, <1>6, <1>7, <1>9, <1>10

\* The same after a step.
LEMMA FillingBoundedNext == HoldersInv' => FillsBounded'
<1> QED  BY FillingBounded, PTL

-----------------------------------------------------------------------------
(* The threads without a lock, and the overruns that pay for them.         *)

\* None is added.
LEMMA SamePaid ==
    ASSUME Paid, Unprotected' \subseteq Unprotected,
           overruns \in Nat, overruns' \in Nat, overruns <= overruns'
    PROVE  Paid'
<1>1. IsFiniteSet(Unprotected') /\ Cardinality(Unprotected') <= Cardinality(Unprotected)
  BY FS_Subset DEF Paid
<1>2. Cardinality(Unprotected') \in Nat /\ Cardinality(Unprotected) \in Nat
  BY <1>1, FS_CardinalityType DEF Paid
<1> QED  BY <1>1, <1>2 DEF Paid

\* An overrun adds one.
LEMMA OneMorePaid ==
    ASSUME Paid, NEW t, Unprotected' \subseteq Unprotected \cup {t},
           overruns \in Nat, overruns' = overruns + 1
    PROVE  Paid'
<1>1. /\ IsFiniteSet(Unprotected \cup {t})
      /\ \/ Cardinality(Unprotected \cup {t}) = Cardinality(Unprotected)
         \/ Cardinality(Unprotected \cup {t}) = Cardinality(Unprotected) + 1
  BY FS_AddElement DEF Paid
<1>2. IsFiniteSet(Unprotected') /\ Cardinality(Unprotected') <= Cardinality(Unprotected \cup {t})
  BY <1>1, FS_Subset
<1>3. /\ Cardinality(Unprotected') \in Nat /\ Cardinality(Unprotected) \in Nat
      /\ Cardinality(Unprotected \cup {t}) \in Nat
  BY <1>1, <1>2, FS_CardinalityType DEF Paid
<1> QED  BY <1>1, <1>2, <1>3 DEF Paid

\* A late DELETE takes the lock of another thread, and is over.
LEMMA ExchangedPaid ==
    ASSUME Paid, NEW t \in Unprotected, NEW u, Unprotected' \subseteq (Unprotected \ {t}) \cup {u},
           overruns \in Nat, overruns' = overruns
    PROVE  Paid'
<1> DEFINE U == Unprotected \ {t}
<1>1. IsFiniteSet(U) /\ Cardinality(U) = Cardinality(Unprotected) - 1
  BY FS_RemoveElement DEF Paid
<1> HIDE DEF U
<1>2. /\ IsFiniteSet(U \cup {u})
      /\ Cardinality(U \cup {u}) = Cardinality(U) \/ Cardinality(U \cup {u}) = Cardinality(U) + 1
  BY <1>1, FS_AddElement
<1>3. IsFiniteSet(Unprotected') /\ Cardinality(Unprotected') <= Cardinality(U \cup {u})
  BY <1>2, FS_Subset DEF U
<1>4. /\ Cardinality(Unprotected') \in Nat /\ Cardinality(Unprotected) \in Nat
      /\ Cardinality(U) \in Nat /\ Cardinality(U \cup {u}) \in Nat
  BY <1>1, <1>2, <1>3, FS_CardinalityType DEF Paid
<1> QED  BY <1>1, <1>2, <1>3, <1>4 DEF Paid

-----------------------------------------------------------------------------
(* What a step has to show of the counts.                                  *)

\* The same threads fill.
LEMMA SameFills ==
    ASSUME FetchInv, HoldersInv', UNCHANGED <<connected, remote, fetches>>,
           faults' \in 0..MaxFaults, faults <= faults', overruns <= overruns',
           \A k \in Keys, g \in Grants : Filling(k, g)' = Filling(k, g)
    PROVE  Accounted'
<1>1. FillsBounded /\ FillsBounded'
  BY FillingBounded, FillingBoundedNext DEF FetchInv
<1>2. Connected' = Connected /\ \A g : Bound(g)' = Bound(g)
  BY DEF Connected, Bound
<1> SUFFICES ASSUME NEW k \in Keys, NEW g \in Grants
             PROVE  /\ fetches'[k][g] <= Bound(g) + faults' + overruns'
                    /\ remote'[k] = 0 => fetches'[k][g] <= Cardinality(Filling(k, g)) + faults'
  BY <1>2 DEF Accounted
<1>3. Cardinality(Filling(k, g)) \in Nat /\ Bound(g) \in Nat
  BY <1>1, ConnectedFinite DEF FillsBounded
<1>4. /\ fetches[k][g] <= Bound(g) + faults + overruns
      /\ remote[k] = 0 => fetches[k][g] <= Cardinality(Filling(k, g)) + faults
  BY DEF FetchInv, Accounted
<1>5. fetches[k][g] \in Nat /\ faults \in Nat /\ overruns \in Nat /\ overruns' \in Nat
  BY UpstreamAssumption DEF FetchInv, HoldersInv, SharedOK
<1> QED  BY <1>3, <1>4, <1>5

\* A fault ends one fill without an answer in Redis.
LEMMA FaultyFill ==
    ASSUME FetchInv, HoldersInv', UNCHANGED <<connected, remote, overruns>>, faults' = faults + 1,
           \A k \in Keys, g \in Grants : fetches'[k][g] <= fetches[k][g],
           NEW t, \A k \in Keys, g \in Grants : Filling(k, g)' = Filling(k, g) \/ Filling(k, g)' = Filling(k, g) \ {t}
    PROVE  Accounted'
<1>1. FillsBounded /\ FillsBounded'
  BY FillingBounded, FillingBoundedNext DEF FetchInv
<1>2. Connected' = Connected /\ \A g : Bound(g)' = Bound(g)
  BY DEF Connected, Bound
<1> SUFFICES ASSUME NEW k \in Keys, NEW g \in Grants
             PROVE  /\ fetches'[k][g] <= Bound(g) + faults' + overruns'
                    /\ remote'[k] = 0 => fetches'[k][g] <= Cardinality(Filling(k, g)') + faults'
  BY <1>2 DEF Accounted
<1>3. /\ Cardinality(Filling(k, g)) \in Nat /\ Cardinality(Filling(k, g)') \in Nat
      /\ Bound(g) \in Nat /\ IsFiniteSet(Filling(k, g))
  BY <1>1, ConnectedFinite DEF FillsBounded
<1>4. /\ fetches[k][g] <= Bound(g) + faults + overruns
      /\ remote[k] = 0 => fetches[k][g] <= Cardinality(Filling(k, g)) + faults
  BY DEF FetchInv, Accounted
<1>5. /\ fetches[k][g] \in Nat /\ fetches'[k][g] \in Nat /\ faults \in Nat
      /\ overruns \in Nat
  BY UpstreamAssumption DEF FetchInv, HoldersInv, SharedOK
<1>6. Cardinality(Filling(k, g) \ {t}) \in {Cardinality(Filling(k, g)), Cardinality(Filling(k, g)) - 1}
  BY <1>3, FS_RemoveElement
<1>7. Cardinality(Filling(k, g)) <= Cardinality(Filling(k, g)') + 1
  <2>1. CASE Filling(k, g)' = Filling(k, g)
    BY <1>3, <2>1
  <2>2. CASE Filling(k, g)' = Filling(k, g) \ {t}
    <3>1. Cardinality(Filling(k, g)') = Cardinality(Filling(k, g) \ {t})
      BY <2>2
    <3> QED  BY <1>3, <1>6, <3>1
  <2> QED  BY <2>1, <2>2
<1> QED  BY <1>3, <1>4, <1>5, <1>7

\* Where the fetches are counted anew, only those that run count.
LEMMA CountedAnew ==
    ASSUME FetchInv, HoldersInv', NEW k \in Keys, NEW g \in Grants,
           fetches'[k][g] = Cardinality(Filling(k, g)')
    PROVE  /\ fetches'[k][g] <= Bound(g)' + faults' + overruns'
           /\ fetches'[k][g] <= Cardinality(Filling(k, g)') + faults'
<1>1. FillsBounded'
  BY FillingBoundedNext
<1>2. Cardinality(Filling(k, g)') <= Bound(g)' + overruns'
  BY <1>1 DEF FillsBounded
<1>3. Cardinality(Filling(k, g)') \in Nat
  BY <1>1 DEF FillsBounded
<1>4. Bound(g)' \in Nat
  <2>1. Connected' \in SUBSET Procs /\ IsFiniteSet(Procs)
    BY UpstreamAssumption DEF Connected
  <2>2. IsFiniteSet(Connected')
    BY <2>1, FS_Subset
  <2>3. Cardinality(Connected') \in Nat
    BY <2>2, FS_CardinalityType
  <2> QED  BY <2>3 DEF Bound
<1>5. faults' \in 0..MaxFaults /\ overruns' \in 0..MaxOverruns
  BY DEF HoldersInv, SharedOK
<1> QED  BY <1>2, <1>3, <1>4, <1>5, UpstreamAssumption

-----------------------------------------------------------------------------
(* The steps of a thread.                                                  *)

LEMMA FetchInit == Init => FetchInv
<1> SUFFICES ASSUME Init PROVE FetchInv
  OBVIOUS
<1>1. Unprotected = {}
  BY DEF Init, Unprotected
<1>2. Paid
  BY <1>1, FS_EmptySet DEF Paid, Init
<1>3. HoldersInv
  BY <1>2, UpstreamAssumption DEF Init, HoldersInv, SharedOK, LocksOK, ThreadsOK, Stages, Pcs, Grants
<1>4. FillsBounded
  BY <1>3, FillingBounded
<1>5. ASSUME NEW k \in Keys, NEW g \in Grants
      PROVE  /\ fetches[k][g] <= Bound(g) + faults + overruns
             /\ fetches[k][g] <= Cardinality(Filling(k, g)) + faults
  <2>1. fetches[k][g] = 0 /\ faults = 0 /\ overruns = 0
    BY DEF Init
  <2>2. Bound(g) \in Nat /\ Cardinality(Filling(k, g)) \in Nat
    BY <1>4, ConnectedFinite DEF FillsBounded
  <2> QED  BY <2>1, <2>2
<1> QED  BY <1>3, <1>5 DEF FetchInv, Accounted

\* A step that changes neither who fills nor what is counted, of a thread that
\* leaves the others' locks alone.
LEMMA SameFetches ==
    ASSUME FetchInv, SharedOK', LocksOK', ThreadsOK', Stages',
           UNCHANGED <<connected, remote, fetches>>,
           faults <= faults', overruns <= overruns',
           \A k \in Keys, g \in Grants : Filling(k, g)' = Filling(k, g),
           Unprotected' \subseteq Unprotected
    PROVE  FetchInv'
<1>1. overruns \in Nat /\ overruns' \in Nat /\ faults' \in 0..MaxFaults
  BY UpstreamAssumption DEF FetchInv, HoldersInv, SharedOK
<1>2. Paid'
  BY <1>1, SamePaid DEF FetchInv, HoldersInv
<1>3. HoldersInv'
  BY <1>2 DEF HoldersInv
<1> QED  BY <1>1, <1>3, SameFills DEF FetchInv

\* A thread goes on to a step with the locks it has and the fetch it runs.
LEMMA GoesOn ==
    ASSUME FetchInv, NEW t \in Threads, NEW step \in Pcs, GoTo(t, step),
           UNCHANGED <<connected, remote, llock, rlock, key, lock, got, fetches, overruns>>,
           faults' \in 0..MaxFaults, faults <= faults',
           \/ lock[t] = "none" /\ step \notin {"recheck", "fill", "store", "delete"}
              /\ pc[t] \notin {"fill", "store"}
           \/ pc[t] = "recheck" /\ step = "release"
    PROVE  FetchInv'
<1>1. /\ pc' \in [Threads -> Pcs] /\ pc'[t] = step
      /\ \A u \in Threads \ {t} : pc'[u] = pc[u]
  BY DEF GoTo, FetchInv, HoldersInv, ThreadsOK
<1>2. Stages'
  BY <1>1 DEF FetchInv, HoldersInv, Stages
<1>3. SharedOK' /\ LocksOK' /\ ThreadsOK' /\ overruns <= overruns'
  BY <1>1, UpstreamAssumption DEF FetchInv, HoldersInv, SharedOK, LocksOK, ThreadsOK
<1>4. \A k \in Keys, g \in Grants : Filling(k, g)' = Filling(k, g)
  BY <1>1 DEF Filling, Counts, Online
<1>5. Unprotected' \subseteq Unprotected
  BY <1>1 DEF Unprotected, FetchInv, HoldersInv, Stages
<1> QED  BY <1>2, <1>3, <1>4, <1>5, SameFetches

\* The first lookup of a call.
LEMMA CallFetch ==
    ASSUME FetchInv, NEW t \in Threads, NEW k \in Keys, NEW step \in {"idle", "acquire"},
           pc[t] = "idle", GoTo(t, step), key' = [key EXCEPT ![t] = k],
           UNCHANGED <<connected, remote, llock, rlock, lock, got, fetches, overruns>>,
           faults' \in 0..MaxFaults, faults <= faults'
    PROVE  FetchInv'
<1>1. lock[t] = "none"
  BY DEF FetchInv, HoldersInv, Stages
<1>2. /\ pc' \in [Threads -> Pcs] /\ key' \in [Threads -> Keys]
      /\ pc'[t] = step
      /\ \A u \in Threads \ {t} : pc'[u] = pc[u] /\ key'[u] = key[u]
  BY DEF GoTo, FetchInv, HoldersInv, ThreadsOK, Pcs
<1>3. Stages'
  BY <1>1, <1>2 DEF FetchInv, HoldersInv, Stages
<1>4. SharedOK' /\ LocksOK' /\ ThreadsOK' /\ overruns <= overruns'
  BY <1>2, UpstreamAssumption DEF FetchInv, HoldersInv, SharedOK, LocksOK, ThreadsOK
<1>5. \A j \in Keys, g \in Grants : Filling(j, g)' = Filling(j, g)
  BY <1>1, <1>2 DEF Filling, Counts, Online
<1>6. Unprotected' \subseteq Unprotected
  BY <1>1, <1>2 DEF Unprotected
<1> QED  BY <1>3, <1>4, <1>5, <1>6, SameFetches

\* A fill begins: in a key without a payload in Redis, or at the cost of a fault
\* or of an overrun.
LEMMA FillBegins ==
    ASSUME FetchInv, HoldersInv', NEW t \in Threads,
           UNCHANGED <<connected, remote, key, lock>>,
           pc[t] \notin {"fill", "store"}, pc'[t] = "fill",
           \A u \in Threads \ {t} : pc'[u] = pc[u],
           fetches' = FetchCounted(t),
           faults <= faults', overruns <= overruns',
           Online(t) => remote[key[t]] = 0 \/ faults' = faults + 1 \/ overruns' = overruns + 1
    PROVE  FetchInv'
<1> USE DEF HoldersInv
<1>1. key[t] \in Keys
  BY DEF FetchInv, ThreadsOK
<1>2. FillsBounded /\ FillsBounded' /\ \A g : Bound(g)' = Bound(g)
  BY FillingBounded, FillingBoundedNext DEF FetchInv, Connected, Bound
<1>3. ASSUME NEW k \in Keys, NEW g \in Grants
      PROVE  /\ fetches'[k][g] <= Bound(g) + faults' + overruns'
             /\ remote[k] = 0 => fetches'[k][g] <= Cardinality(Filling(k, g)') + faults'
  <2>1. /\ Cardinality(Filling(k, g)) \in Nat /\ IsFiniteSet(Filling(k, g))
        /\ Bound(g) \in Nat /\ fetches[k][g] \in Nat
    BY <1>2, ConnectedFinite DEF FillsBounded, FetchInv, SharedOK
  <2>2. faults \in Nat /\ faults' \in Nat /\ overruns \in Nat /\ overruns' \in Nat
    BY UpstreamAssumption DEF FetchInv, SharedOK
  <2>3. /\ fetches[k][g] <= Bound(g) + faults + overruns
        /\ remote[k] = 0 => fetches[k][g] <= Cardinality(Filling(k, g)) + faults
    BY DEF FetchInv, Accounted
  <2>4. CASE ~(k = key[t] /\ Counts(t, g))
    <3>1. fetches'[k][g] = fetches[k][g]
      BY <2>4 DEF FetchCounted
    <3>2. Filling(k, g)' = Filling(k, g)
      BY <2>4 DEF Filling, Counts, Online
    <3> QED  BY <2>1, <2>2, <2>3, <3>1, <3>2
  <2>5. CASE k = key[t] /\ Counts(t, g)
    <3>1. fetches'[k][g] = fetches[k][g] + 1
      BY <2>5 DEF FetchCounted
    <3>2. t \notin Filling(k, g) /\ Filling(k, g)' = Filling(k, g) \cup {t}
      BY <2>5 DEF Filling, Counts, Online
    <3>3. Cardinality(Filling(k, g) \cup {t}) = Cardinality(Filling(k, g)) + 1
      BY <2>1, <3>2, FS_AddElement
    <3>4. Cardinality(Filling(k, g)') = Cardinality(Filling(k, g)) + 1
      BY <3>2, <3>3
    <3>5. Cardinality(Filling(k, g)') <= Bound(g) + overruns'
      BY <1>2 DEF FillsBounded
    <3>6. remote[k] = 0 \/ faults' = faults + 1 \/ overruns' = overruns + 1
      BY <2>5 DEF Counts
    <3> QED  BY <2>1, <2>2, <2>3, <3>1, <3>4, <3>5, <3>6
  <2> QED  BY <2>4, <2>5
<1>4. Accounted'
  BY <1>2, <1>3 DEF Accounted
<1> QED  BY <1>4 DEF FetchInv

\* A fill that is counted, or not, leaves numbers.
LEMMA CountsAreNumbers ==
    ASSUME FetchInv, NEW t \in Threads
    PROVE  /\ FetchCounted(t) \in [Keys -> [Grants -> Nat]]
           /\ Uncounted(t) \in [Keys -> [Grants -> Nat]]
           /\ \A k \in Keys, g \in Grants : Uncounted(t)[k][g] <= fetches[k][g]
<1>1. \A k \in Keys, g \in Grants : fetches[k][g] \in Nat
  BY DEF FetchInv, HoldersInv, SharedOK
<1>2. FetchCounted(t) \in [Keys -> [Grants -> Nat]]
  BY <1>1 DEF FetchCounted
<1>3. Uncounted(t) \in [Keys -> [Grants -> Nat]]
  BY <1>1 DEF Uncounted
<1>4. \A k \in Keys, g \in Grants : Uncounted(t)[k][g] <= fetches[k][g]
  BY <1>1 DEF Uncounted
<1> QED  BY <1>2, <1>3, <1>4

LEMMA LookupFetch ==
    ASSUME FetchInv, NEW t \in Threads, NEW k \in Keys, NEW redis \in BOOLEAN, Lookup(t, k, redis),
           \/ redis /\ UNCHANGED faults
           \/ Fault
    PROVE  FetchInv'
<1> DEFINE found == Found(t, k, redis)
           step == IF found THEN AfterHit(t) ELSE AfterMiss(t)
<1> USE DEF HoldersInv
<1>0. /\ GoTo(t, step) /\ UNCHANGED <<connected, remote, llock, rlock, lock, got, overruns>>
      /\ pc[t] \in {"idle", "recheck", "wait"} /\ key' = [key EXCEPT ![t] = k]
      /\ pc[t] # "idle" => k = key[t]
      /\ fetches' = IF pc[t] = "recheck" /\ ~found THEN FetchCounted(t) ELSE fetches
  BY DEF Lookup
<1>1. /\ faults \in Nat /\ faults' \in 0..MaxFaults /\ faults <= faults'
      /\ ~redis => faults' = faults + 1
  BY UpstreamAssumption DEF Fault, FetchInv, SharedOK
<1>2. /\ pc[t] = "recheck" /\ found => step = "release"
      /\ pc[t] = "recheck" /\ ~found => step = "fill"
      /\ pc[t] = "idle" => step \in {"idle", "acquire"}
      /\ pc[t] = "wait" => step \in {"idle", "exists"}
  BY <1>0 DEF AfterHit, AfterMiss
<1>3. step \in Pcs
  BY <1>0, <1>2 DEF Pcs
<1>4. pc[t] # "recheck" => lock[t] = "none"
  BY <1>0 DEF FetchInv, Stages
<1>5. ~found /\ redis /\ Online(t) => remote[k] = 0
  <2>1. remote[k] \in Sizes \cup {0}
    BY DEF FetchInv, SharedOK
  <2>2. remote[k] \in Nat
    <3>1. CASE remote[k] \in Sizes
      BY <3>1, UpstreamAssumption
    <3>2. CASE remote[k] = 0
      BY <3>2
    <3> QED  BY <2>1, <3>1, <3>2
  <2> QED  BY <2>2 DEF Found
<1> HIDE DEF found, step
<1>6. CASE pc[t] = "idle"
  BY <1>0, <1>1, <1>2, <1>6, CallFetch
<1>7. CASE pc[t] # "idle" /\ ~(pc[t] = "recheck" /\ ~found)
  <2>1. UNCHANGED fetches /\ UNCHANGED key
    BY <1>0, <1>7 DEF FetchInv, ThreadsOK
  <2>2. \/ /\ lock[t] = "none" /\ step \notin {"recheck", "fill", "store", "delete"}
           /\ pc[t] \notin {"fill", "store"}
        \/ pc[t] = "recheck" /\ step = "release"
    BY <1>0, <1>2, <1>4, <1>7
  <2> QED  BY <1>0, <1>1, <1>3, <2>1, <2>2, GoesOn
<1>8. CASE pc[t] = "recheck" /\ ~found
  <2>1. /\ pc' \in [Threads -> Pcs] /\ pc'[t] = "fill"
        /\ \A u \in Threads \ {t} : pc'[u] = pc[u]
    BY <1>0, <1>2, <1>3, <1>8 DEF GoTo, FetchInv, ThreadsOK
  <2>2. key[t] \in Keys /\ lock[t] # "none" /\ UNCHANGED key /\ k = key[t]
    BY <1>0, <1>8 DEF FetchInv, ThreadsOK, Stages
  <2>3. fetches' \in [Keys -> [Grants -> Nat]] /\ fetches' = FetchCounted(t)
    BY <1>0, <1>8, CountsAreNumbers
  <2>4. SharedOK' /\ LocksOK' /\ ThreadsOK' /\ Stages'
    BY <1>0, <1>1, <2>1, <2>2, <2>3 DEF FetchInv, SharedOK, LocksOK, ThreadsOK, Stages
  <2>5. overruns \in Nat /\ overruns' = overruns
    BY <1>0, UpstreamAssumption DEF FetchInv, SharedOK
  <2>6. Unprotected' \subseteq Unprotected
    BY <1>0, <2>1, <2>2 DEF Unprotected
  <2>7. HoldersInv'
    BY <2>4, <2>5, <2>6, SamePaid DEF FetchInv
  <2>8. Online(t) => remote[key[t]] = 0 \/ faults' = faults + 1
    BY <1>1, <1>5, <1>8, <2>2
  <2>9. UNCHANGED <<connected, remote, key, lock>> /\ overruns <= overruns'
    BY <1>0, <2>2, <2>5
  <2>10. pc[t] \notin {"fill", "store"} /\ faults <= faults'
    BY <1>1, <1>8
  <2> QED  BY <2>1, <2>3, <2>7, <2>8, <2>9, <2>10, FillBegins
<1> QED  BY <1>6, <1>7, <1>8

\* A caller that gives up waiting is one more without a lock.
LEMMA DeadlineFetch ==
    ASSUME FetchInv, NEW t \in Threads, Deadline(t)
    PROVE  FetchInv'
<1> USE DEF HoldersInv
<1>1. /\ pc[t] = "wait" /\ lock[t] = "none" /\ key[t] \in Keys
      /\ UNCHANGED <<connected, remote, llock, rlock, key, lock, got, faults>>
      /\ overruns \in Nat /\ overruns' = overruns + 1 /\ overruns' \in 0..MaxOverruns
  BY UpstreamAssumption DEF Deadline, Overrun, FetchInv, SharedOK, ThreadsOK, Stages
<1>2. /\ pc' \in [Threads -> Pcs] /\ pc'[t] = "fill"
      /\ \A u \in Threads \ {t} : pc'[u] = pc[u]
  BY DEF Deadline, GoTo, FetchInv, ThreadsOK, Pcs
<1>3. fetches' \in [Keys -> [Grants -> Nat]] /\ fetches' = FetchCounted(t)
  BY CountsAreNumbers DEF Deadline
<1>4. SharedOK' /\ LocksOK' /\ ThreadsOK' /\ Stages'
  BY <1>1, <1>2, <1>3 DEF FetchInv, SharedOK, LocksOK, ThreadsOK, Stages
<1>5. Unprotected' \subseteq Unprotected \cup {t}
  BY <1>1, <1>2 DEF Unprotected
<1>6. HoldersInv'
  BY <1>1, <1>4, <1>5, OneMorePaid DEF FetchInv
<1>7. faults' \in 0..MaxFaults /\ faults <= faults' /\ overruns <= overruns'
  BY <1>1, UpstreamAssumption DEF FetchInv, SharedOK
<1> QED  BY <1>1, <1>2, <1>3, <1>6, <1>7, FillBegins

LEMMA AcquireRemoteFetch ==
    ASSUME FetchInv, NEW t \in Threads, AcquireRemote(t)
    PROVE  FetchInv'
<1> USE DEF HoldersInv
<1>1. /\ pc[t] = "acquire" /\ lock[t] = "none" /\ key[t] \in Keys
      /\ UNCHANGED <<connected, remote, llock, key, got, fetches, faults, overruns>>
  BY UpstreamAssumption DEF AcquireRemote, FetchInv, ThreadsOK, Stages
<1>2. faults' \in 0..MaxFaults /\ faults <= faults' /\ overruns <= overruns'
  BY <1>1, UpstreamAssumption DEF FetchInv, SharedOK
<1>3. CASE Online(t) /\ rlock[key[t]] = NoOne
  <2>1. /\ pc' \in [Threads -> Pcs] /\ pc'[t] = "recheck"
        /\ lock' \in [Threads -> {"none", "redis", "local"}] /\ lock'[t] = "redis"
        /\ \A u \in Threads \ {t} : pc'[u] = pc[u] /\ lock'[u] = lock[u]
    BY <1>3 DEF AcquireRemote, GoTo, FetchInv, ThreadsOK, Pcs
  <2>2. /\ rlock' \in [Keys -> Threads \cup {NoOne, Leaked}] /\ rlock'[key[t]] = t
        /\ \A k \in Keys : k # key[t] => rlock'[k] = rlock[k]
    BY <1>1, <1>3 DEF AcquireRemote, FetchInv, LocksOK
  <2>3. SharedOK' /\ LocksOK' /\ ThreadsOK' /\ Stages'
    BY <1>1, <2>1, <2>2 DEF FetchInv, SharedOK, LocksOK, ThreadsOK, Stages
  <2>4. \A k \in Keys, g \in Grants : Filling(k, g)' = Filling(k, g)
    BY <1>1, <2>1 DEF Filling, Counts, Online
  <2>5. Unprotected' \subseteq Unprotected
    <3>1. NoOne \notin Threads /\ \A u \in Threads : key[u] \in Keys
      BY UpstreamAssumption DEF FetchInv, ThreadsOK
    <3> QED  BY <1>1, <1>3, <2>1, <2>2, <3>1 DEF Unprotected
  <2> QED  BY <1>1, <1>2, <2>3, <2>4, <2>5, SameFetches
<1>4. CASE ~(Online(t) /\ rlock[key[t]] = NoOne)
  <2>1. GoTo(t, "acquire_local") /\ UNCHANGED <<rlock, lock>>
    BY <1>4 DEF AcquireRemote
  <2>2. "acquire_local" \in Pcs
    BY DEF Pcs
  <2> QED  BY <1>1, <1>2, <2>1, <2>2, GoesOn
<1> QED  BY <1>3, <1>4

LEMMA AcquireRemoteErrorFetch ==
    ASSUME FetchInv, NEW t \in Threads, AcquireRemoteError(t)
    PROVE  FetchInv'
<1> USE DEF HoldersInv
<1>1. /\ pc[t] = "acquire" /\ lock[t] = "none" /\ key[t] \in Keys
      /\ faults' \in 0..MaxFaults /\ faults <= faults' /\ overruns <= overruns'
      /\ UNCHANGED <<connected, remote, llock, key, lock, got, fetches, overruns>>
  BY UpstreamAssumption DEF AcquireRemoteError, Fault, FetchInv, SharedOK, ThreadsOK, Stages
<1>2. /\ pc' \in [Threads -> Pcs] /\ pc'[t] = "acquire_local"
      /\ \A u \in Threads \ {t} : pc'[u] = pc[u]
  BY DEF AcquireRemoteError, GoTo, FetchInv, ThreadsOK, Pcs
<1>3. /\ rlock' \in [Keys -> Threads \cup {NoOne, Leaked}]
      /\ \A k \in Keys : rlock'[k] # rlock[k] => rlock[k] = NoOne
  BY <1>1 DEF AcquireRemoteError, FetchInv, LocksOK
<1>4. SharedOK' /\ LocksOK' /\ ThreadsOK' /\ Stages'
  BY <1>1, <1>2, <1>3 DEF FetchInv, SharedOK, LocksOK, ThreadsOK, Stages
<1>5. \A k \in Keys, g \in Grants : Filling(k, g)' = Filling(k, g)
  BY <1>1, <1>2 DEF Filling, Counts, Online
<1>6. Unprotected' \subseteq Unprotected
  <2>1. NoOne \notin Threads /\ \A u \in Threads : key[u] \in Keys
    BY UpstreamAssumption DEF FetchInv, ThreadsOK
  <2> QED  BY <1>1, <1>2, <1>3, <2>1 DEF Unprotected
<1> QED  BY <1>1, <1>4, <1>5, <1>6, SameFetches

LEMMA AcquireLocalFetch ==
    ASSUME FetchInv, NEW t \in Threads, AcquireLocal(t)
    PROVE  FetchInv'
<1> USE DEF HoldersInv
<1>1. /\ pc[t] = "acquire_local" /\ lock[t] = "none" /\ key[t] \in Keys /\ Proc(t) \in Procs
      /\ UNCHANGED <<connected, remote, key, got, fetches, faults, overruns>>
  BY UpstreamAssumption DEF AcquireLocal, FetchInv, ThreadsOK, Stages
<1>2. faults' \in 0..MaxFaults /\ faults <= faults' /\ overruns <= overruns'
  BY <1>1, UpstreamAssumption DEF FetchInv, SharedOK
<1>3. /\ NoOne \notin Threads
      /\ \A u \in Threads : key[u] \in Keys /\ Proc(u) \in Procs
  BY UpstreamAssumption DEF FetchInv, ThreadsOK
<1>4. CASE LocalFree(t)
  <2>1. /\ pc' \in [Threads -> Pcs] /\ pc'[t] = "recheck" /\ UNCHANGED rlock
        /\ lock' \in [Threads -> {"none", "redis", "local"}] /\ lock'[t] = "local"
        /\ \A u \in Threads \ {t} : pc'[u] = pc[u] /\ lock'[u] = lock[u]
    BY <1>4 DEF AcquireLocal, GoTo, FetchInv, ThreadsOK, Pcs
  <2>2. /\ llock' \in [Procs -> [Keys -> Threads \cup {NoOne}]]
        /\ llock'[Proc(t)][key[t]] = t
        /\ \A p \in Procs, k \in Keys : llock'[p][k] # llock[p][k] => llock[p][k] = NoOne
    BY <1>1, <1>4 DEF AcquireLocal, LocalFree, FetchInv, LocksOK
  <2>3. SharedOK' /\ LocksOK' /\ ThreadsOK' /\ Stages'
    BY <1>1, <2>1, <2>2 DEF FetchInv, SharedOK, LocksOK, ThreadsOK, Stages
  <2>4. \A k \in Keys, g \in Grants : Filling(k, g)' = Filling(k, g)
    BY <1>1, <2>1 DEF Filling, Counts, Online
  <2>5. Unprotected' \subseteq Unprotected
    <3> SUFFICES ASSUME NEW u \in Unprotected' PROVE u \in Unprotected
      OBVIOUS
    <3>1. u \in Threads /\ key[u] \in Keys /\ Proc(u) \in Procs /\ u # NoOne
      BY <1>3 DEF Unprotected
    <3>2. u # t
      BY <1>1, <2>1, <2>2 DEF Unprotected
    <3>3. llock[Proc(u)][key[u]] = u => llock'[Proc(u)][key[u]] = u
      BY <2>2, <3>1
    <3> QED  BY <1>1, <2>1, <3>1, <3>2, <3>3 DEF Unprotected
  <2> QED  BY <1>1, <1>2, <2>3, <2>4, <2>5, SameFetches
<1>5. CASE ~LocalFree(t)
  <2>1. /\ pc' \in [Threads -> Pcs] /\ pc'[t] = "wait" /\ UNCHANGED <<llock, lock>>
        /\ \A u \in Threads \ {t} : pc'[u] = pc[u]
    BY <1>5 DEF AcquireLocal, GoTo, FetchInv, ThreadsOK, Pcs
  <2>2. /\ rlock' \in [Keys -> Threads \cup {NoOne, Leaked}]
        /\ \A k \in Keys : rlock'[k] # rlock[k] => rlock[k] = t
    BY <1>1, <1>5 DEF AcquireLocal, Abandoned, FetchInv, LocksOK
  <2>3. SharedOK' /\ LocksOK' /\ ThreadsOK' /\ Stages'
    BY <1>1, <2>1, <2>2 DEF FetchInv, SharedOK, LocksOK, ThreadsOK, Stages
  <2>4. \A k \in Keys, g \in Grants : Filling(k, g)' = Filling(k, g)
    BY <1>1, <2>1 DEF Filling, Counts, Online
  <2>5. Unprotected' \subseteq Unprotected
    BY <1>1, <1>3, <2>1, <2>2 DEF Unprotected
  <2> QED  BY <1>1, <1>2, <2>3, <2>4, <2>5, SameFetches
<1> QED  BY <1>4, <1>5

LEMMA LockExistsFetch ==
    ASSUME FetchInv, NEW t \in Threads, LockExists(t) \/ LockExistsRedisError(t)
    PROVE  FetchInv'
<1>1. /\ pc[t] = "exists"
      /\ UNCHANGED <<connected, remote, llock, rlock, key, lock, got, fetches, overruns>>
      /\ GoTo(t, "wait") \/ GoTo(t, "acquire")
      /\ faults' = faults \/ (faults < MaxFaults /\ faults' = faults + 1)
  BY DEF LockExists, LockExistsRedisError, Fault
<1>2. lock[t] = "none" /\ faults' \in 0..MaxFaults /\ faults <= faults'
  BY <1>1, UpstreamAssumption DEF FetchInv, HoldersInv, SharedOK, Stages
<1> QED  BY <1>1, <1>2, GoesOn DEF Pcs

LEMMA StoreInMemoryFetch ==
    ASSUME FetchInv, NEW t \in Threads, StoreInMemory(t)
    PROVE  FetchInv'
<1> USE DEF HoldersInv
<1>1. /\ pc[t] = "fill"
      /\ UNCHANGED <<connected, remote, llock, rlock, key, lock, fetches, faults, overruns>>
  BY DEF StoreInMemory
<1>2. /\ pc' \in [Threads -> Pcs] /\ pc'[t] = "store"
      /\ got' \in [Threads -> Sizes \cup {0}] /\ got'[t] \in Sizes
      /\ \A u \in Threads \ {t} : pc'[u] = pc[u] /\ got'[u] = got[u]
  BY DEF StoreInMemory, GoTo, FetchInv, ThreadsOK, Pcs
<1>3. SharedOK' /\ LocksOK' /\ ThreadsOK' /\ Stages'
  BY <1>1, <1>2 DEF FetchInv, SharedOK, LocksOK, ThreadsOK, Stages
<1>4. \A k \in Keys, g \in Grants : Filling(k, g)' = Filling(k, g)
  BY <1>1, <1>2 DEF Filling, Counts, Online
<1>5. Unprotected' \subseteq Unprotected
  BY <1>1, <1>2 DEF Unprotected
<1>6. faults <= faults' /\ overruns <= overruns'
  BY <1>1, UpstreamAssumption DEF FetchInv, SharedOK
<1> QED  BY <1>1, <1>3, <1>4, <1>5, <1>6, SameFetches

LEMMA FillNotStoredFetch ==
    ASSUME FetchInv, NEW t \in Threads, FillNotStored(t)
    PROVE  FetchInv'
<1> USE DEF HoldersInv
<1>1. /\ pc[t] = "fill" /\ UNCHANGED <<connected, remote, llock, rlock, key, lock, got, overruns>>
      /\ faults \in Nat /\ faults' = faults + 1 /\ faults < MaxFaults
  BY DEF FillNotStored, Fault, FetchInv, SharedOK
<1>2. /\ pc' \in [Threads -> Pcs] /\ pc'[t] = Returned(t)
      /\ \A u \in Threads \ {t} : pc'[u] = pc[u]
  BY DEF FillNotStored, GoTo, Returned, FetchInv, ThreadsOK, Pcs
<1>3. /\ fetches' \in [Keys -> [Grants -> Nat]]
      /\ \A k \in Keys, g \in Grants : fetches'[k][g] <= fetches[k][g]
  BY CountsAreNumbers DEF FillNotStored
<1>4. SharedOK' /\ LocksOK' /\ ThreadsOK' /\ Stages'
  <2>1. SharedOK'
    BY <1>1, <1>3, UpstreamAssumption DEF FetchInv, SharedOK
  <2> QED  BY <1>1, <1>2, <2>1 DEF FetchInv, LocksOK, ThreadsOK, Stages, Returned
<1>5. Unprotected' \subseteq Unprotected
  BY <1>1, <1>2 DEF Unprotected, Returned
<1>6. overruns \in Nat /\ overruns' = overruns
  BY <1>1, UpstreamAssumption DEF FetchInv, SharedOK
<1>7. HoldersInv'
  BY <1>4, <1>5, <1>6, SamePaid DEF FetchInv
<1>8. \A k \in Keys, g \in Grants : Filling(k, g)' = Filling(k, g) \ {t}
  BY <1>1, <1>2 DEF Filling, Counts, Online, Returned
<1> QED  BY <1>1, <1>3, <1>7, <1>8, FaultyFill DEF FetchInv

\* The thread whose fill ends has its payload stored, and it leaves the fills.
LEMMA StoreInRedisFetch ==
    ASSUME FetchInv, NEW t \in Threads, StoreInRedis(t) \/ StoreInRedisError(t)
    PROVE  FetchInv'
<1> USE DEF HoldersInv
<1>1. /\ pc[t] = "store" /\ got[t] \in Sizes /\ key[t] \in Keys
      /\ UNCHANGED <<connected, llock, rlock, key, lock, fetches, overruns>>
      /\ faults \in Nat /\ faults' \in 0..MaxFaults /\ faults <= faults' /\ overruns \in Nat
  BY UpstreamAssumption DEF StoreInRedis, StoreInRedisError, Fault, FetchInv, SharedOK, ThreadsOK, Stages
<1>2. /\ pc' \in [Threads -> Pcs] /\ pc'[t] = Returned(t)
      /\ \A u \in Threads \ {t} : pc'[u] = pc[u] /\ got'[u] = got[u]
      /\ got' \in [Threads -> Sizes \cup {0}]
  BY DEF StoreInRedis, StoreInRedisError, GoTo, Returned, FetchInv, ThreadsOK, Pcs
<1>3. got[t] \in Nat \ {0}
  BY <1>1, UpstreamAssumption
<1>4. remote' \in [Keys -> Sizes \cup {0}]
  BY <1>1, <1>3 DEF StoreInRedis, StoreInRedisError, FetchInv, SharedOK
<1>5. HoldersInv'
  <2>1. SharedOK' /\ LocksOK' /\ ThreadsOK' /\ Stages'
    BY <1>1, <1>2, <1>4 DEF FetchInv, SharedOK, LocksOK, ThreadsOK, Stages, Returned
  <2>2. Unprotected' \subseteq Unprotected
    BY <1>1, <1>2 DEF Unprotected, Returned
  <2> QED  BY <1>1, <2>1, <2>2, SamePaid DEF FetchInv
<1>6. \A k \in Keys, g \in Grants : Filling(k, g)' = Filling(k, g) \ {t}
  BY <1>1, <1>2 DEF Filling, Counts, Online, Returned
<1>7. CASE StoreInRedisError(t)
  <2>1. UNCHANGED remote /\ faults' = faults + 1
    BY <1>7 DEF StoreInRedisError, Fault
  <2>2. \A k \in Keys, g \in Grants : fetches'[k][g] <= fetches[k][g]
    BY <1>1 DEF FetchInv, SharedOK
  <2> QED  BY <1>1, <1>5, <1>6, <2>1, <2>2, FaultyFill DEF FetchInv
<1>8. CASE StoreInRedis(t) /\ ~Online(t)
  <2>1. UNCHANGED remote /\ \A k \in Keys, g \in Grants : t \notin Filling(k, g)
    BY <1>8 DEF StoreInRedis, Filling, Counts
  <2>2. \A k \in Keys, g \in Grants : Filling(k, g)' = Filling(k, g)
    BY <1>6, <2>1
  <2> QED  BY <1>1, <1>5, <2>1, <2>2, SameFills DEF FetchInv
<1>9. CASE StoreInRedis(t) /\ Online(t)
  <2>1. /\ remote'[key[t]] # 0
        /\ \A k \in Keys : k # key[t] => remote'[k] = remote[k]
    BY <1>1, <1>3, <1>9 DEF StoreInRedis, FetchInv, SharedOK
  <2>2. \A k \in Keys, g \in Grants : k # key[t] => Filling(k, g)' = Filling(k, g)
    BY <1>6 DEF Filling
  <2>3. UNCHANGED faults /\ \A g : Bound(g)' = Bound(g)
    BY <1>1, <1>9 DEF Connected, Bound, StoreInRedis
  <2> QED  BY <1>1, <1>5, <2>1, <2>2, <2>3 DEF FetchInv, Accounted
<1> QED  BY <1>7, <1>8, <1>9

\* What a thread that releases does to the locks of others is known from its
\* effect on the Redis lock.
LEMMA LetGoFetch ==
    ASSUME FetchInv, NEW t \in Threads, LetGo(t),
           pc[t] \in {"release", "delete"},
           UNCHANGED <<connected, remote, key, got, fetches, overruns>>,
           faults' \in 0..MaxFaults, faults <= faults',
           rlock' \in [Keys -> Threads \cup {NoOne, Leaked}],
           \/ \A k \in Keys : rlock'[k] # rlock[k] => rlock[k] = t
           \/ pc[t] = "delete" /\ rlock[key[t]] # t
              /\ \A k \in Keys : k # key[t] => rlock'[k] = rlock[k]
    PROVE  FetchInv'
<1> USE DEF HoldersInv
<1>1. key[t] \in Keys /\ Proc(t) \in Procs /\ overruns \in Nat
  BY UpstreamAssumption DEF FetchInv, SharedOK, ThreadsOK
<1>2. /\ pc' \in [Threads -> Pcs] /\ pc'[t] = "idle"
      /\ lock' \in [Threads -> {"none", "redis", "local"}] /\ lock'[t] = "none"
      /\ \A u \in Threads \ {t} : pc'[u] = pc[u] /\ lock'[u] = lock[u]
  BY DEF LetGo, GoTo, FetchInv, ThreadsOK, Pcs
<1>3. /\ llock' \in [Procs -> [Keys -> Threads \cup {NoOne}]]
      /\ \A p \in Procs, k \in Keys : llock'[p][k] # llock[p][k] => llock[p][k] = t
  <2>1. llock' = [llock EXCEPT ![Proc(t)][key[t]] = Unlocked(@, t)]
    BY DEF LetGo
  <2>2. llock[Proc(t)][key[t]] \in Threads \cup {NoOne}
    BY <1>1 DEF FetchInv, LocksOK
  <2>3. Unlocked(llock[Proc(t)][key[t]], t) \in Threads \cup {NoOne}
    BY <2>2 DEF Unlocked
  <2>4. llock' \in [Procs -> [Keys -> Threads \cup {NoOne}]]
    BY <1>1, <2>1, <2>3 DEF FetchInv, LocksOK
  <2>5. ASSUME NEW p \in Procs, NEW k \in Keys, llock'[p][k] # llock[p][k]
        PROVE  llock[p][k] = t
    BY <1>1, <2>1, <2>5 DEF Unlocked, FetchInv, LocksOK
  <2> QED  BY <2>4, <2>5
<1>4. SharedOK' /\ LocksOK' /\ ThreadsOK' /\ Stages'
  BY <1>2, <1>3 DEF FetchInv, SharedOK, LocksOK, ThreadsOK, Stages
<1>5. \A k \in Keys, g \in Grants : Filling(k, g)' = Filling(k, g)
  BY <1>2 DEF Filling, Counts, Online
<1>6. \A u \in Threads : key[u] \in Keys /\ Proc(u) \in Procs
  BY UpstreamAssumption DEF FetchInv, ThreadsOK
<1>7. CASE \A k \in Keys : rlock'[k] # rlock[k] => rlock[k] = t
  <2>1. Unprotected' \subseteq Unprotected
    BY <1>2, <1>3, <1>6, <1>7 DEF Unprotected
  <2>2. overruns <= overruns'
    BY <1>1
  <2> QED  BY <1>4, <1>5, <2>1, <2>2, SameFetches
<1>8. CASE /\ pc[t] = "delete" /\ rlock[key[t]] # t
           /\ \A k \in Keys : k # key[t] => rlock'[k] = rlock[k]
  <2> DEFINE u == rlock[key[t]]
  <2>1. t \in Unprotected
    BY <1>8 DEF Unprotected
  <2>2. Unprotected' \subseteq (Unprotected \ {t}) \cup {u}
    <3> SUFFICES ASSUME NEW v \in Unprotected', v # u PROVE v \in Unprotected \ {t}
      OBVIOUS
    <3>1. v \in Threads /\ v # t
      BY <1>2 DEF Unprotected
    <3>2. /\ pc'[v] = pc[v] /\ lock'[v] = lock[v] /\ key'[v] = key[v]
          /\ key[v] \in Keys /\ Proc(v) \in Procs
      BY <1>2, <1>6, <3>1
    <3>3. rlock[key[v]] = v => rlock'[key[v]] = v
      BY <1>8, <3>2
    <3>4. llock[Proc(v)][key[v]] = v => llock'[Proc(v)][key[v]] = v
      BY <1>3, <3>1, <3>2
    <3> QED  BY <3>1, <3>2, <3>3, <3>4 DEF Unprotected
  <2>3. Paid'
    <3> HIDE DEF u
    <3> QED  BY <1>1, <2>1, <2>2, ExchangedPaid DEF FetchInv
  <2>4. overruns <= overruns'
    BY <1>1
  <2> QED  BY <1>4, <1>5, <2>3, <2>4, SameFills DEF FetchInv
<1> QED  BY <1>7, <1>8

LEMMA ReleaseFetch ==
    ASSUME FetchInv, NEW t \in Threads, Release(t) \/ Delete(t) \/ ReleaseRedisError(t)
    PROVE  FetchInv'
<1> USE DEF HoldersInv
<1>1. /\ UNCHANGED <<connected, remote, key, got, fetches, overruns>>
      /\ faults' \in 0..MaxFaults /\ faults <= faults' /\ overruns <= overruns'
      /\ key[t] \in Keys
  BY UpstreamAssumption
     DEF Release, Delete, ReleaseRedisError, Fault, FetchInv, SharedOK, ThreadsOK
<1>2. CASE Release(t) /\ Online(t) /\ rlock[key[t]] = t
  <2>1. /\ pc' \in [Threads -> Pcs] /\ pc[t] = "release" /\ pc'[t] = "delete"
        /\ \A u \in Threads \ {t} : pc'[u] = pc[u]
        /\ UNCHANGED <<llock, rlock, lock>>
    BY <1>2 DEF Release, GoTo, FetchInv, ThreadsOK, Pcs
  <2>2. SharedOK' /\ LocksOK' /\ ThreadsOK' /\ Stages'
    BY <1>1, <2>1 DEF FetchInv, SharedOK, LocksOK, ThreadsOK, Stages
  <2>3. \A k \in Keys, g \in Grants : Filling(k, g)' = Filling(k, g)
    BY <1>1, <2>1 DEF Filling, Counts, Online
  <2>4. Unprotected' \subseteq Unprotected
    BY <1>1, <1>2, <2>1 DEF Unprotected
  <2> QED  BY <1>1, <2>2, <2>3, <2>4, SameFetches
<1>3. CASE Release(t) /\ ~(Online(t) /\ rlock[key[t]] = t)
  <2>1. pc[t] = "release" /\ LetGo(t) /\ UNCHANGED rlock
    BY <1>3 DEF Release
  <2>2. rlock' \in [Keys -> Threads \cup {NoOne, Leaked}]
    BY <2>1 DEF FetchInv, LocksOK
  <2> QED  BY <1>1, <2>1, <2>2, LetGoFetch
<1>4. CASE Delete(t) \/ ReleaseRedisError(t)
  <2>1. /\ LetGo(t) /\ pc[t] \in {"release", "delete"}
        /\ \/ pc[t] = "delete" /\ rlock' = [rlock EXCEPT ![key[t]] = NoOne]
           \/ rlock' = [rlock EXCEPT ![key[t]] = Abandoned(@, t)]
    BY <1>4 DEF Delete, ReleaseRedisError
  <2>2. rlock' \in [Keys -> Threads \cup {NoOne, Leaked}]
    BY <1>1, <2>1 DEF FetchInv, LocksOK, Abandoned
  <2>3. \/ \A k \in Keys : rlock'[k] # rlock[k] => rlock[k] = t
        \/ /\ pc[t] = "delete" /\ rlock[key[t]] # t
           /\ \A k \in Keys : k # key[t] => rlock'[k] = rlock[k]
    BY <1>1, <2>1 DEF FetchInv, LocksOK, Abandoned
  <2> QED  BY <1>1, <2>1, <2>2, <2>3, LetGoFetch
<1> QED  BY <1>2, <1>3, <1>4

-----------------------------------------------------------------------------
(* Locks and payloads that expire, and crashes.                            *)

\* A lock whose time is over leaves its holder, if it has one, without it.
LEMMA LockExpiresFetch ==
    ASSUME FetchInv, NEW k \in Keys,
           RedisLockExpires(k) \/ \E p \in Procs : LocalLockExpires(p, k)
    PROVE  FetchInv'
<1> USE DEF HoldersInv
<1>1. UNCHANGED <<connected, remote, pc, key, lock, got, fetches, faults>>
  BY DEF RedisLockExpires, LocalLockExpires, threadVars
<1>2. /\ Leaked \notin Threads /\ overruns \in 0..MaxOverruns /\ faults <= faults'
      /\ \A u \in Threads : key[u] \in Keys /\ Proc(u) \in Procs
  BY <1>1, UpstreamAssumption DEF FetchInv, SharedOK, ThreadsOK
<1>3. overruns' \in 0..MaxOverruns /\ overruns <= overruns' /\ overruns \in Nat
  BY <1>2, UpstreamAssumption DEF RedisLockExpires, LocalLockExpires, Overrun
<1>4. \A j \in Keys, g \in Grants : Filling(j, g)' = Filling(j, g)
  BY <1>1 DEF Filling, Counts, Online
<1>5. CASE RedisLockExpires(k)
  <2>1. /\ rlock' \in [Keys -> Threads \cup {NoOne, Leaked}] /\ UNCHANGED llock
        /\ \A j \in Keys : j # k => rlock'[j] = rlock[j]
    BY <1>5 DEF RedisLockExpires, FetchInv, LocksOK
  <2>2. SharedOK' /\ LocksOK' /\ ThreadsOK' /\ Stages'
    BY <1>1, <1>3, <2>1 DEF FetchInv, SharedOK, LocksOK, ThreadsOK, Stages
  <2>3. Unprotected' \subseteq Unprotected \cup {rlock[k]}
    BY <1>1, <1>2, <2>1 DEF Unprotected
  <2>4. CASE rlock[k] = Leaked
    <3>1. Unprotected' \subseteq Unprotected
      BY <1>2, <2>3, <2>4 DEF Unprotected
    <3> QED  BY <1>1, <1>2, <1>3, <1>4, <2>2, <3>1, SameFetches
  <2>5. CASE rlock[k] # Leaked
    <3>1. overruns' = overruns + 1
      BY <1>5, <2>5 DEF RedisLockExpires, Overrun
    <3>2. Paid'
      BY <1>3, <2>3, <3>1, OneMorePaid DEF FetchInv
    <3> QED  BY <1>1, <1>2, <1>3, <1>4, <2>2, <3>2, SameFills DEF FetchInv, SharedOK
  <2> QED  BY <2>4, <2>5
<1>6. CASE \E p \in Procs : LocalLockExpires(p, k)
  <2> PICK p \in Procs : LocalLockExpires(p, k)
    BY <1>6
  <2>1. /\ llock' \in [Procs -> [Keys -> Threads \cup {NoOne}]] /\ UNCHANGED rlock
        /\ \A q \in Procs, j \in Keys : ~(q = p /\ j = k) => llock'[q][j] = llock[q][j]
        /\ overruns' = overruns + 1
    BY DEF LocalLockExpires, Overrun, FetchInv, LocksOK
  <2>2. SharedOK' /\ LocksOK' /\ ThreadsOK' /\ Stages'
    BY <1>1, <1>3, <2>1 DEF FetchInv, SharedOK, LocksOK, ThreadsOK, Stages
  <2>3. Unprotected' \subseteq Unprotected \cup {llock[p][k]}
    BY <1>1, <1>2, <2>1 DEF Unprotected
  <2>4. Paid'
    BY <1>3, <2>1, <2>3, OneMorePaid DEF FetchInv
  <2> QED  BY <1>1, <1>2, <1>3, <1>4, <2>2, <2>4, SameFills DEF FetchInv, SharedOK
<1> QED  BY <1>5, <1>6

\* A step of no thread: the fills are those before, some keys are counted anew,
\* and Redis loses no payload of the others.
LEMMA ExpiryFetch ==
    ASSUME FetchInv,
           UNCHANGED <<connected, llock, rlock, pc, key, lock, got, faults, overruns>>,
           remote' \in [Keys -> Sizes \cup {0}], fetches' \in [Keys -> [Grants -> Nat]],
           \A j \in Keys, g \in Grants :
               \/ fetches'[j][g] = Cardinality(Filling(j, g))
               \/ fetches'[j][g] = fetches[j][g] /\ remote'[j] = remote[j]
    PROVE  FetchInv'
<1> USE DEF HoldersInv
<1>1. HoldersInv'
  <2>1. SharedOK' /\ LocksOK' /\ ThreadsOK' /\ Stages'
    BY DEF FetchInv, SharedOK, LocksOK, ThreadsOK, Stages
  <2>2. Unprotected' = Unprotected
    BY DEF Unprotected
  <2> QED  BY <2>1, <2>2 DEF FetchInv, Paid
<1>2. \A j \in Keys, g \in Grants : Bound(g)' = Bound(g) /\ Filling(j, g)' = Filling(j, g)
  BY DEF Connected, Bound, Filling, Counts, Online
<1>3. ASSUME NEW j \in Keys, NEW g \in Grants
      PROVE  /\ fetches'[j][g] <= Bound(g)' + faults' + overruns'
             /\ remote'[j] = 0 => fetches'[j][g] <= Cardinality(Filling(j, g)') + faults'
  <2>1. CASE fetches'[j][g] = Cardinality(Filling(j, g)')
    BY <1>1, <2>1, CountedAnew
  <2>2. CASE fetches'[j][g] = fetches[j][g] /\ remote'[j] = remote[j]
    BY <1>2, <2>2 DEF FetchInv, Accounted
  <2> QED  BY <1>2, <2>1, <2>2
<1> QED  BY <1>1, <1>3 DEF FetchInv, Accounted

LEMMA LocalExpiresFetch ==
    ASSUME FetchInv, NEW p \in Procs, NEW k \in Keys \cup {Index}, LocalExpires(p, k)
    PROVE  FetchInv'
<1>1. UNCHANGED <<connected, remote, llock, rlock, pc, key, lock, got, faults, overruns>>
  BY DEF LocalExpires, threadVars
<1>2. \A j \in Keys, g \in Grants : Cardinality(Filling(j, g)) \in Nat
  BY FillingBounded DEF FillsBounded, FetchInv
<1>3. fetches' = [j \in Keys |-> IF j = k /\ connected[p] THEN Running(k) ELSE fetches[j]]
  BY DEF LocalExpires
<1>4. \A j \in Keys, g \in Grants : fetches'[j][g] = Cardinality(Filling(j, g)) \/ fetches'[j][g] = fetches[j][g]
  BY <1>3 DEF Running
<1>5. fetches' \in [Keys -> [Grants -> Nat]]
  BY <1>2, <1>3 DEF Running, FetchInv, HoldersInv, SharedOK
<1>6. remote' \in [Keys -> Sizes \cup {0}]
  BY <1>1 DEF FetchInv, HoldersInv, SharedOK
<1> QED  BY <1>1, <1>4, <1>5, <1>6, ExpiryFetch

LEMMA RedisExpiresFetch ==
    ASSUME FetchInv, NEW k \in Keys, RedisExpires(k)
    PROVE  FetchInv'
<1>1. UNCHANGED <<connected, llock, rlock, pc, key, lock, got, faults, overruns>>
  BY DEF RedisExpires, threadVars
<1>2. Running(k) \in [Grants -> Nat]
  BY FillingBounded DEF FillsBounded, FetchInv, Running
<1>3. /\ remote' \in [Keys -> Sizes \cup {0}] /\ fetches' \in [Keys -> [Grants -> Nat]]
      /\ fetches'[k] = Running(k)
      /\ \A j \in Keys : j # k => fetches'[j] = fetches[j] /\ remote'[j] = remote[j]
  BY <1>2 DEF RedisExpires, FetchInv, HoldersInv, SharedOK
<1>4. \A j \in Keys, g \in Grants :
          \/ fetches'[j][g] = Cardinality(Filling(j, g))
          \/ fetches'[j][g] = fetches[j][g] /\ remote'[j] = remote[j]
  BY <1>3 DEF Running
<1> QED  BY <1>1, <1>3, <1>4, ExpiryFetch

LEMMA CrashFetch ==
    ASSUME FetchInv, NEW p \in Procs, Crash(p)
    PROVE  FetchInv'
<1> USE DEF HoldersInv
<1>1. /\ UNCHANGED <<remote, key, overruns>>
      /\ faults \in Nat /\ faults' \in 0..MaxFaults
      /\ connected' \in [Procs -> BOOLEAN]
      /\ \A q \in Procs \ {p} : connected'[q] = connected[q]
  BY UpstreamAssumption DEF Crash, Fault, FetchInv, SharedOK
<1>2. /\ pc' \in [Threads -> Pcs] /\ lock' \in [Threads -> {"none", "redis", "local"}]
      /\ got' \in [Threads -> Sizes \cup {0}]
      /\ \A t \in Threads :
             IF Proc(t) = p THEN pc'[t] = "idle" /\ lock'[t] = "none"
             ELSE pc'[t] = pc[t] /\ lock'[t] = lock[t] /\ got'[t] = got[t]
  BY DEF Crash, FetchInv, ThreadsOK, Pcs
<1>3. /\ llock' \in [Procs -> [Keys -> Threads \cup {NoOne}]]
      /\ \A q \in Procs \ {p} : llock'[q] = llock[q]
  BY DEF Crash, FetchInv, LocksOK
<1>4. /\ rlock' \in [Keys -> Threads \cup {NoOne, Leaked}]
      /\ \A k \in Keys : rlock[k] \in Threads /\ Proc(rlock[k]) # p => rlock'[k] = rlock[k]
  BY DEF Crash, FetchInv, LocksOK
<1>5. Unprotected' \subseteq Unprotected
  <2> SUFFICES ASSUME NEW u \in Unprotected' PROVE u \in Unprotected
    OBVIOUS
  <2>1. u \in Threads /\ key[u] \in Keys /\ Proc(u) \in Procs
    BY UpstreamAssumption DEF Unprotected, FetchInv, ThreadsOK
  <2> QED  BY <1>1, <1>2, <1>3, <1>4, <2>1 DEF Unprotected
<1> DEFINE Left(k, g) == {t \in Filling(k, g) : Proc(t) # p}
<1>6. \A k \in Keys, g \in Grants : Filling(k, g)' = Left(k, g)
  <2>1. \A t \in Threads : Proc(t) \in Procs
    BY UpstreamAssumption
  <2> QED  BY <1>1, <1>2, <2>1 DEF Filling, Counts, Online
<1>7. fetches' = [k \in Keys |-> [g \in Grants |-> Cardinality(Left(k, g))]]
  BY DEF Crash
<1>8. \A k \in Keys, g \in Grants :
          Cardinality(Left(k, g)) \in Nat /\ fetches'[k][g] = Cardinality(Left(k, g))
  <2> SUFFICES ASSUME NEW k \in Keys, NEW g \in Grants
               PROVE  Cardinality(Left(k, g)) \in Nat
    BY <1>7
  <2>1. IsFiniteSet(Filling(k, g))
    BY FillingBounded DEF FillsBounded, FetchInv
  <2>2. IsFiniteSet(Left(k, g))
    BY <2>1, FS_Subset
  <2> QED  BY <2>2, FS_CardinalityType
<1> HIDE DEF Left
<1>9. fetches' \in [Keys -> [Grants -> Nat]]
  BY <1>7, <1>8
<1>10. HoldersInv'
  <2>1. SharedOK' /\ LocksOK' /\ ThreadsOK' /\ Stages'
    BY <1>1, <1>2, <1>3, <1>4, <1>9 DEF FetchInv, SharedOK, LocksOK, ThreadsOK, Stages
  <2>2. overruns \in Nat /\ overruns' = overruns
    BY <1>1, UpstreamAssumption DEF FetchInv, SharedOK
  <2> QED  BY <1>5, <2>1, <2>2, SamePaid DEF FetchInv
<1>11. \A k \in Keys, g \in Grants : fetches'[k][g] = Cardinality(Filling(k, g)')
  BY <1>6, <1>8
<1>12. ASSUME NEW k \in Keys, NEW g \in Grants
       PROVE  /\ fetches'[k][g] <= Bound(g)' + faults' + overruns'
              /\ fetches'[k][g] <= Cardinality(Filling(k, g)') + faults'
  BY <1>10, <1>11, CountedAnew
<1> QED  BY <1>10, <1>12 DEF FetchInv, Accounted

-----------------------------------------------------------------------------
LEMMA FetchNext == FetchInv /\ [Next]_vars => FetchInv'
<1> SUFFICES ASSUME FetchInv, [Next]_vars PROVE FetchInv'
  OBVIOUS
<1>1. ASSUME NEW t \in Threads, Proceed(t) PROVE FetchInv'
  <2>1. ASSUME NEW k \in Keys, GetJson(t, k) PROVE FetchInv'
    <3>1. Lookup(t, k, TRUE) /\ UNCHANGED faults
      BY <2>1 DEF GetJson
    <3> QED  BY <3>1, LookupFetch
  <2> QED  BY <1>1, <2>1, AcquireRemoteFetch, AcquireLocalFetch, LockExistsFetch,
              StoreInMemoryFetch, StoreInRedisFetch, ReleaseFetch DEF Proceed
<1>2. ASSUME NEW t \in Threads, RedisError(t) PROVE FetchInv'
  <2>1. ASSUME NEW k \in Keys, GetJsonRedisError(t, k) PROVE FetchInv'
    <3>1. Lookup(t, k, FALSE) /\ Fault
      BY <2>1 DEF GetJsonRedisError
    <3> QED  BY <3>1, LookupFetch
  <2> QED  BY <1>2, <2>1, AcquireRemoteErrorFetch, LockExistsFetch, StoreInRedisFetch, ReleaseFetch
           DEF RedisError
<1>3. ASSUME NEW p \in Procs, BuildFilingIndex(p) PROVE FetchInv'
  <2>1. UNCHANGED <<connected, remote, llock, rlock, pc, key, lock, got, fetches, faults, overruns>>
    BY <1>3 DEF BuildFilingIndex, threadVars
  <2>2. remote' \in [Keys -> Sizes \cup {0}] /\ fetches' \in [Keys -> [Grants -> Nat]]
    BY <2>1 DEF FetchInv, HoldersInv, SharedOK
  <2> QED  BY <2>1, <2>2, ExpiryFetch
<1>4. CASE UNCHANGED vars
  <2>1. UNCHANGED <<connected, remote, llock, rlock, pc, key, lock, got, fetches, faults, overruns>>
    BY <1>4 DEF vars
  <2>2. remote' \in [Keys -> Sizes \cup {0}] /\ fetches' \in [Keys -> [Grants -> Nat]]
    BY <2>1 DEF FetchInv, HoldersInv, SharedOK
  <2> QED  BY <2>1, <2>2, ExpiryFetch
<1> QED  BY <1>1, <1>2, <1>3, <1>4, DeadlineFetch, FillNotStoredFetch,
            LockExpiresFetch, RedisExpiresFetch, LocalExpiresFetch, CrashFetch DEF Next

\* Single flight of fill_json: as long as a payload is valid, the connected
\* processes ask the upstream for it once under the Redis lock, once each under
\* the local lock, and once more per fault, per lock that ends before its holder
\* and per caller that gives up waiting.  Every fill is counted, also those
\* without a lock and those whose lock the late DELETE of another took.
THEOREM SharedFetchesBounded == Spec => []FetchesBounded
<1>1. FetchInv => FetchesBounded
  <2> SUFFICES ASSUME FetchInv, NEW k \in Keys
               PROVE  /\ fetches[k]["redis"] <= 1 + faults + overruns
                      /\ fetches[k]["any"] <= 1 + Cardinality(Connected) + faults + overruns
    BY DEF FetchesBounded, Connected
  <2>1. "redis" \in Grants /\ "any" \in Grants
    BY DEF Grants
  <2>2. Bound("redis") = 1 /\ Bound("any") = 1 + Cardinality(Connected)
    BY DEF Bound
  <2>3. /\ fetches[k]["redis"] <= Bound("redis") + faults + overruns
        /\ fetches[k]["any"] <= Bound("any") + faults + overruns
    BY <2>1 DEF FetchInv, Accounted
  <2> QED  BY <2>2, <2>3
<1> QED  BY <1>1, FetchInit, FetchNext, PTL DEF Spec

-----------------------------------------------------------------------------
(* Induction over the positions of a sequence, and the recursive functions  *)
(* Sums and Keeping.                                                        *)

\* Natural induction with a set in the place of a predicate.
LEMMA Induction ==
    ASSUME NEW T \in SUBSET Nat, 0 \in T, \A n \in T : n + 1 \in T
    PROVE  T = Nat
<1> SUFFICES ASSUME T # Nat PROVE FALSE
  OBVIOUS
<1> DEFINE C == Nat \ T
           R == OpToRel(<, Nat)
<1>1. IsWellFoundedOn(R, Nat)
  BY NatLessThanWellFounded
<1>2. C \subseteq Nat /\ C # {}
  OBVIOUS
<1>3. PICK x \in C : \A y \in C : ~(<<y, x>> \in R)
  <2> HIDE DEF C, R
  <2> QED  BY <1>1, <1>2, WFMin
<1>4. x # 0 /\ x - 1 \in Nat /\ x - 1 \notin T
  OBVIOUS
<1>5. <<x - 1, x>> \in R
  BY <1>4 DEF OpToRel
<1> QED  BY <1>3, <1>4, <1>5

\* The same up to a bound.
LEMMA InductionTo ==
    ASSUME NEW m \in Nat, NEW T \in SUBSET (0..m), 0 \in T,
           \A n \in T : n < m => n + 1 \in T
    PROVE  T = 0..m
<1> DEFINE U == {n \in Nat : n <= m => n \in T}
<1>1. 0 \in U
  OBVIOUS
<1>2. \A n \in U : n + 1 \in U
  OBVIOUS
<1>3. U = Nat
  <2> HIDE DEF U
  <2>1. U \in SUBSET Nat
    BY DEF U
  <2> QED  BY <1>1, <1>2, <2>1, Induction
<1>4. ASSUME NEW n \in 0..m PROVE n \in T
  <2>1. n \in U
    BY <1>3
  <2> QED  BY <2>1
<1> QED  BY <1>4

\* f is made by recursion from base by step, on 0..m.
IsStep(step, m, S) == step \in [1..m -> [S -> S]]
Recursive(f, m, S, base, step) ==
    /\ f \in [0..m -> S] /\ f[0] = base
    /\ \A n \in 1..m : f[n] = step[n][f[n - 1]]

\* A function can be defined on 0..m by recursion.
LEMMA RecursionTo ==
    ASSUME NEW m \in Nat, NEW S, NEW base \in S, NEW step, IsStep(step, m, S)
    PROVE  \E f : Recursive(f, m, S, base, step)
<1> DEFINE T == {n \in 0..m : \E f : Recursive(f, n, S, base, step)}
<1>1. 0 \in T
  <2>1. Recursive([i \in 0..0 |-> base], 0, S, base, step)
    BY DEF Recursive
  <2>2. 0 \in 0..m
    OBVIOUS
  <2> QED  BY <2>1, <2>2
<1>2. ASSUME NEW n \in T, n < m PROVE n + 1 \in T
  <2>1. PICK f : Recursive(f, n, S, base, step)
    OBVIOUS
  <2> DEFINE g == [i \in 0..(n + 1) |-> IF i = n + 1 THEN step[i][f[n]] ELSE f[i]]
  <2>2. n \in Nat /\ n + 1 \in 1..m /\ f[n] \in S
    BY <1>2, <2>1 DEF Recursive
  <2>3. g \in [0..(n + 1) -> S] /\ g[0] = base
    BY <2>1, <2>2 DEF Recursive, IsStep
  <2>4. ASSUME NEW i \in 1..(n + 1) PROVE g[i] = step[i][g[i - 1]]
    BY <2>1, <2>2 DEF Recursive
  <2>5. Recursive(g, n + 1, S, base, step)
    BY <2>3, <2>4 DEF Recursive
  <2>6. n + 1 \in 0..m
    BY <2>2
  <2> HIDE DEF g
  <2> QED  BY <2>5, <2>6
<1>3. T = 0..m
  <2>1. T \in SUBSET (0..m)
    OBVIOUS
  <2> HIDE DEF T
  <2> QED  BY <1>1, <1>2, <2>1, InductionTo
<1>4. m \in T
  BY <1>3
<1> QED  BY <1>4

Entry == [key : Keys \cup {Index}, size : Sizes \cup {IndexSize}, live : BOOLEAN]

\* Sizes are numbers.
LEMMA EntrySize == \A e \in Entry : e.size \in Nat
BY UpstreamAssumption DEF Entry

\* What the sums of a memory are.
LEMMA SumsAre ==
    ASSUME NEW s \in Seq(Entry)
    PROVE  /\ Sums(s) \in [0..Len(s) -> Nat] /\ Sums(s)[0] = 0
           /\ \A n \in 1..Len(s) : Sums(s)[n] = Sums(s)[n - 1] + s[n].size
<1> DEFINE P(f) == f = [n \in 0..Len(s) |-> IF n = 0 THEN 0 ELSE f[n - 1] + s[n].size]
           step == [n \in 1..Len(s) |-> [x \in Nat |-> x + s[n].size]]
<1>1. Len(s) \in Nat /\ \A n \in 1..Len(s) : s[n].size \in Nat
  BY EntrySize
<1>2. IsStep(step, Len(s), Nat)
  BY <1>1 DEF IsStep
<1>3. PICK f : Recursive(f, Len(s), Nat, 0, step)
  <2> HIDE DEF step
  <2> QED  BY <1>1, <1>2, RecursionTo
<1>4. ASSUME NEW n \in 1..Len(s) PROVE f[n] = f[n - 1] + s[n].size
  <2>1. n - 1 \in 0..Len(s) /\ f[n - 1] \in Nat
    BY <1>1, <1>3 DEF Recursive
  <2>2. f[n] = step[n][f[n - 1]]
    BY <1>3 DEF Recursive
  <2> QED  BY <2>1, <2>2
<1>5. P(f)
  BY <1>1, <1>3, <1>4 DEF Recursive
<1>6. Sums(s) = CHOOSE g : P(g)
  BY DEF Sums
<1>7. P(Sums(s))
  <2> HIDE DEF P
  <2> QED  BY <1>5, <1>6
<1>8. /\ DOMAIN Sums(s) = 0..Len(s) /\ Sums(s)[0] = 0
      /\ \A n \in 1..Len(s) : Sums(s)[n] = Sums(s)[n - 1] + s[n].size
      /\ Sums(s) = [n \in 0..Len(s) |-> Sums(s)[n]]
  BY <1>1, <1>7
<1> DEFINE T == {n \in 0..Len(s) : Sums(s)[n] \in Nat}
<1>9. T = 0..Len(s)
  <2>1. T \in SUBSET (0..Len(s)) /\ 0 \in T
    BY <1>1, <1>8
  <2>2. ASSUME NEW n \in T, n < Len(s) PROVE n + 1 \in T
    <3>1. n \in Nat /\ n + 1 \in 1..Len(s) /\ (n + 1) - 1 = n
      BY <1>1, <2>2
    <3>2. Sums(s)[n + 1] = Sums(s)[n] + s[n + 1].size
      BY <1>8, <3>1
    <3>3. Sums(s)[n] \in Nat /\ s[n + 1].size \in Nat
      BY <1>1, <3>1
    <3> QED  BY <3>1, <3>2, <3>3
  <2> HIDE DEF T
  <2> QED  BY <1>1, <2>1, <2>2, InductionTo
<1> QED  BY <1>8, <1>9

\* What is kept of a memory.
LEMMA KeepingIs ==
    ASSUME NEW s \in Seq(Entry), NEW I
    PROVE  /\ Keeping(s, I) \in [0..Len(s) -> Seq(Entry)] /\ Keeping(s, I)[0] = <<>>
           /\ \A n \in 1..Len(s) :
                  Keeping(s, I)[n] = IF n \in I THEN Append(Keeping(s, I)[n - 1], s[n])
                                     ELSE Keeping(s, I)[n - 1]
<1> DEFINE P(f) == f = [n \in 0..Len(s) |->
                           IF n = 0 THEN <<>>
                           ELSE IF n \in I THEN Append(f[n - 1], s[n]) ELSE f[n - 1]]
           step == [n \in 1..Len(s) |->
                       [x \in Seq(Entry) |-> IF n \in I THEN Append(x, s[n]) ELSE x]]
           empty == <<>>
           f0 == Keeping(s, I)
<1>1. Len(s) \in Nat /\ \A n \in 1..Len(s) : s[n] \in Entry
  OBVIOUS
<1>2. IsStep(step, Len(s), Seq(Entry))
  BY <1>1 DEF IsStep
<1>3. PICK f : Recursive(f, Len(s), Seq(Entry), empty, step)
  <2>1. empty \in Seq(Entry)
    OBVIOUS
  <2> HIDE DEF step, empty
  <2> QED  BY <1>1, <1>2, <2>1, RecursionTo
<1>4. ASSUME NEW n \in 1..Len(s)
      PROVE  f[n] = IF n \in I THEN Append(f[n - 1], s[n]) ELSE f[n - 1]
  <2>1. n - 1 \in 0..Len(s) /\ f[n - 1] \in Seq(Entry)
    BY <1>1, <1>3 DEF Recursive
  <2>2. f[n] = step[n][f[n - 1]]
    BY <1>3 DEF Recursive
  <2> QED  BY <2>1, <2>2
<1>5. P(f)
  <2>1. f = [n \in 0..Len(s) |-> f[n]] /\ f[0] = <<>>
    BY <1>3 DEF Recursive
  <2>2. \A n \in 0..Len(s) :
            f[n] = IF n = 0 THEN <<>>
                   ELSE IF n \in I THEN Append(f[n - 1], s[n]) ELSE f[n - 1]
    BY <1>1, <1>4, <2>1
  <2> QED  BY <2>1, <2>2
<1>6. f0 = CHOOSE g : P(g)
  BY DEF Keeping
<1>7. P(f0)
  <2> HIDE DEF P, f0
  <2> QED  BY <1>5, <1>6
<1> HIDE DEF f0
<1>8. /\ f0[0] = <<>> /\ f0 = [n \in 0..Len(s) |-> f0[n]]
      /\ \A n \in 1..Len(s) : f0[n] = IF n \in I THEN Append(f0[n - 1], s[n]) ELSE f0[n - 1]
  <2>1. DOMAIN f0 = 0..Len(s) /\ 0 \in 0..Len(s) /\ f0 = [n \in 0..Len(s) |-> f0[n]]
    BY <1>1, <1>7
  <2>2. \A n \in 0..Len(s) :
            f0[n] = IF n = 0 THEN <<>>
                    ELSE IF n \in I THEN Append(f0[n - 1], s[n]) ELSE f0[n - 1]
    BY <1>7
  <2>3. \A n \in 1..Len(s) : n \in 0..Len(s) /\ n # 0
    BY <1>1
  <2> HIDE DEF P
  <2> QED  BY <2>1, <2>2, <2>3
<1> DEFINE T == {n \in 0..Len(s) : f0[n] \in Seq(Entry)}
<1>9. T = 0..Len(s)
  <2>1. T \in SUBSET (0..Len(s)) /\ 0 \in T
    BY <1>1, <1>8
  <2>2. ASSUME NEW n \in T, n < Len(s) PROVE n + 1 \in T
    <3>1. n \in Nat /\ n + 1 \in 1..Len(s) /\ (n + 1) - 1 = n
      BY <1>1, <2>2
    <3>2. f0[n + 1] = IF n + 1 \in I THEN Append(f0[n], s[n + 1]) ELSE f0[n]
      BY <1>8, <3>1
    <3>3. f0[n] \in Seq(Entry) /\ s[n + 1] \in Entry
      BY <1>1, <3>1
    <3>4. f0[n + 1] \in Seq(Entry)
      BY <3>2, <3>3
    <3> QED  BY <3>1, <3>4
  <2> HIDE DEF T
  <2> QED  BY <1>1, <2>1, <2>2, InductionTo
<1>10. \A n \in 0..Len(s) : f0[n] \in Seq(Entry)
  BY <1>9
<1>11. f0 \in [0..Len(s) -> Seq(Entry)]
  BY <1>8, <1>10
<1> QED  BY <1>8, <1>11 DEF f0

\* Memories that begin with the same sizes have the same sums there.
LEMMA SumsAgree ==
    ASSUME NEW s \in Seq(Entry), NEW t \in Seq(Entry),
           NEW m \in Nat, m <= Len(s), m <= Len(t),
           \A i \in 1..m : s[i].size = t[i].size
    PROVE  Sums(s)[m] = Sums(t)[m]
<1> DEFINE T == {n \in 0..m : Sums(s)[n] = Sums(t)[n]}
<1>1. T \in SUBSET (0..m) /\ 0 \in T
  BY SumsAre
<1>2. ASSUME NEW n \in T, n < m PROVE n + 1 \in T
  <2>1. n \in Nat /\ n + 1 \in 1..Len(s) /\ n + 1 \in 1..Len(t) /\ n + 1 \in 1..m /\ (n + 1) - 1 = n
    BY <1>2
  <2>2. Sums(s)[n + 1] = Sums(s)[n] + s[n + 1].size
    BY <2>1, SumsAre
  <2>3. Sums(t)[n + 1] = Sums(t)[n] + t[n + 1].size
    BY <2>1, SumsAre
  <2> QED  BY <2>1, <2>2, <2>3
<1>3. T = 0..m
  <2> HIDE DEF T
  <2> QED  BY <1>1, <1>2, InductionTo
<1>4. m \in T
  BY <1>3
<1> QED  BY <1>4

\* The bytes of a memory, of the empty one, and with one more entry.
LEMMA BytesNat ==
    ASSUME NEW s \in Seq(Entry)
    PROVE  Bytes(s) \in Nat
<1>1. Len(s) \in 0..Len(s)
  OBVIOUS
<1> QED  BY <1>1, SumsAre DEF Bytes

LEMMA BytesAre ==
    ASSUME NEW s \in Seq(Entry), NEW e \in Entry
    PROVE  /\ Bytes(s) \in Nat
           /\ Bytes(Append(s, e)) = Bytes(s) + e.size
<1>1. Len(s) \in Nat /\ Bytes(s) \in Nat
  BY SumsAre DEF Bytes
<1> DEFINE t == Append(s, e)
<1>2. t \in Seq(Entry) /\ Len(t) = Len(s) + 1 /\ t[Len(s) + 1] = e /\ \A i \in 1..Len(s) : t[i] = s[i]
  OBVIOUS
<1> HIDE DEF t
<1>3. Sums(t)[Len(s)] = Sums(s)[Len(s)]
  BY <1>1, <1>2, SumsAgree
<1>4. Len(t) \in 1..Len(t) /\ Len(t) - 1 = Len(s)
  BY <1>1, <1>2
<1>5. Sums(t)[Len(t)] = Sums(t)[Len(t) - 1] + t[Len(t)].size
  BY <1>2, <1>4, SumsAre
<1>6. Bytes(t) = Bytes(s) + e.size
  BY <1>2, <1>3, <1>4, <1>5 DEF Bytes
<1> QED  BY <1>1, <1>6 DEF t

LEMMA BytesOfEmpty == Bytes(<<>>) = 0
<1> DEFINE s == <<>>
<1>1. s \in Seq(Entry) /\ Len(s) = 0
  OBVIOUS
<1> HIDE DEF s
<1>2. Bytes(s) = 0
  BY <1>1, SumsAre DEF Bytes
<1> QED  BY <1>2 DEF s

\* One entry per key.
Distinct(s) == \A i, j \in 1..Len(s) : s[i].key = s[j].key => i = j

\* What is kept comes from the positions that are kept.
LEMMA KeptComesFrom ==
    ASSUME NEW s \in Seq(Entry), NEW I
    PROVE  \A n \in 0..Len(s) :
               /\ Len(Keeping(s, I)[n]) <= n
               /\ \A a \in 1..Len(Keeping(s, I)[n]) :
                      \E i \in 1..n : i \in I /\ Keeping(s, I)[n][a] = s[i]
<1> DEFINE k == Keeping(s, I)
           From(n) == /\ Len(k[n]) <= n
                      /\ \A a \in 1..Len(k[n]) : \E i \in 1..n : i \in I /\ k[n][a] = s[i]
           T == {n \in 0..Len(s) : From(n)}
<1>1. /\ k \in [0..Len(s) -> Seq(Entry)] /\ k[0] = <<>>
      /\ \A n \in 1..Len(s) : k[n] = IF n \in I THEN Append(k[n - 1], s[n]) ELSE k[n - 1]
  BY KeepingIs
<1> HIDE DEF k
<1>2. T \in SUBSET (0..Len(s)) /\ 0 \in T
  BY <1>1
<1>3. ASSUME NEW n \in T, n < Len(s) PROVE n + 1 \in T
  <2>1. n \in Nat /\ n \in 0..Len(s) /\ n + 1 \in 1..Len(s) /\ n + 1 \in 0..Len(s) /\ (n + 1) - 1 = n
    BY <1>3
  <2>2. k[n] \in Seq(Entry) /\ s[n + 1] \in Entry /\ Len(k[n]) \in Nat
    BY <1>1, <2>1
  <2>3. From(n)
    BY <1>3
  <2>4. CASE n + 1 \in I
    <3>1. k[n + 1] = Append(k[n], s[n + 1])
      BY <1>1, <2>1, <2>4
    <3>2. /\ Len(k[n + 1]) = Len(k[n]) + 1 /\ k[n + 1][Len(k[n]) + 1] = s[n + 1]
          /\ \A a \in 1..Len(k[n]) : k[n + 1][a] = k[n][a]
      BY <2>2, <3>1
    <3>3. ASSUME NEW a \in 1..Len(k[n + 1])
          PROVE  \E i \in 1..(n + 1) : i \in I /\ k[n + 1][a] = s[i]
      <4>1. CASE a = Len(k[n]) + 1
        BY <2>1, <2>4, <3>2, <4>1
      <4>2. CASE a # Len(k[n]) + 1
        <5>1. a \in 1..Len(k[n])
          BY <2>2, <3>2, <4>2
        <5>2. PICK i \in 1..n : i \in I /\ k[n][a] = s[i]
          BY <2>3, <5>1
        <5>3. i \in 1..(n + 1)
          BY <2>1
        <5> QED  BY <3>2, <5>1, <5>2, <5>3
      <4> QED  BY <4>1, <4>2
    <3>4. Len(k[n + 1]) <= n + 1
      BY <2>1, <2>2, <2>3, <3>2
    <3> QED  BY <2>1, <3>3, <3>4
  <2>5. CASE n + 1 \notin I
    <3>1. k[n + 1] = k[n]
      BY <1>1, <2>1, <2>5
    <3>2. \A i \in 1..n : i \in 1..(n + 1)
      BY <2>1
    <3>3. Len(k[n]) <= n + 1
      BY <2>1, <2>2, <2>3
    <3> QED  BY <2>1, <2>3, <3>1, <3>2, <3>3
  <2> QED  BY <2>4, <2>5
<1>4. T = 0..Len(s)
  <2>1. Len(s) \in Nat
    OBVIOUS
  <2> HIDE DEF T
  <2> QED  BY <1>2, <1>3, <2>1, InductionTo
<1>5. \A n \in 0..Len(s) : From(n)
  BY <1>4
<1> QED  BY <1>5 DEF k

\* Of entries with different keys, those that are kept have different keys.
LEMMA KeptDistinct ==
    ASSUME NEW s \in Seq(Entry), NEW I, Distinct(s)
    PROVE  \A n \in 0..Len(s) : Distinct(Keeping(s, I)[n])
<1> DEFINE k == Keeping(s, I)
           T == {n \in 0..Len(s) : Distinct(k[n])}
<1>1. /\ k \in [0..Len(s) -> Seq(Entry)] /\ k[0] = <<>>
      /\ \A n \in 1..Len(s) : k[n] = IF n \in I THEN Append(k[n - 1], s[n]) ELSE k[n - 1]
  BY KeepingIs
<1>2. \A n \in 0..Len(s) : \A a \in 1..Len(k[n]) : \E i \in 1..n : k[n][a] = s[i]
  BY KeptComesFrom
<1> HIDE DEF k
<1>3. T \in SUBSET (0..Len(s)) /\ 0 \in T
  BY <1>1 DEF Distinct
<1>4. ASSUME NEW n \in T, n < Len(s) PROVE n + 1 \in T
  <2>1. n \in Nat /\ n \in 0..Len(s) /\ n + 1 \in 1..Len(s) /\ n + 1 \in 0..Len(s) /\ (n + 1) - 1 = n
    BY <1>4
  <2>2. k[n] \in Seq(Entry) /\ s[n + 1] \in Entry /\ Len(k[n]) \in Nat
    BY <1>1, <2>1
  <2>3. CASE n + 1 \in I
    <3>1. k[n + 1] = Append(k[n], s[n + 1])
      BY <1>1, <2>1, <2>3
    <3>2. /\ Len(k[n + 1]) = Len(k[n]) + 1 /\ k[n + 1][Len(k[n]) + 1] = s[n + 1]
          /\ \A a \in 1..Len(k[n]) : k[n + 1][a] = k[n][a]
      BY <2>2, <3>1
    <3>3. ASSUME NEW a \in 1..Len(k[n]) PROVE k[n][a].key # s[n + 1].key
      <4>1. PICK i \in 1..n : k[n][a] = s[i]
        BY <1>2, <2>1
      <4>2. i \in 1..Len(s) /\ i # n + 1
        BY <2>1
      <4> QED  BY <2>1, <4>1, <4>2 DEF Distinct
    <3>4. ASSUME NEW a \in 1..Len(k[n + 1]), NEW b \in 1..Len(k[n + 1]),
                 k[n + 1][a].key = k[n + 1][b].key
          PROVE  a = b
      <4>1. \A c \in 1..Len(k[n + 1]) : c = Len(k[n]) + 1 \/ c \in 1..Len(k[n])
        BY <2>2, <3>2
      <4>2. Distinct(k[n])
        BY <1>4
      <4> QED  BY <3>2, <3>3, <3>4, <4>1, <4>2 DEF Distinct
    <3> QED  BY <2>1, <3>4 DEF Distinct
  <2>4. CASE n + 1 \notin I
    <3>1. k[n + 1] = k[n]
      BY <1>1, <2>1, <2>4
    <3> QED  BY <1>4, <2>1, <3>1
  <2> QED  BY <2>3, <2>4
<1>5. T = 0..Len(s)
  <2>1. Len(s) \in Nat
    OBVIOUS
  <2> HIDE DEF T
  <2> QED  BY <1>3, <1>4, <2>1, InductionTo
<1> QED  BY <1>5 DEF k

\* The bytes that are kept and those that go are the bytes there were.
LEMMA BytesSplit ==
    ASSUME NEW s \in Seq(Entry), NEW I
    PROVE  Bytes(Kept(s, I)) + Bytes(Kept(s, DOMAIN s \ I)) = Bytes(s)
<1> DEFINE k == Keeping(s, I)
           g == Keeping(s, DOMAIN s \ I)
           T == {n \in 0..Len(s) : Bytes(k[n]) + Bytes(g[n]) = Sums(s)[n]}
<1>1. /\ k \in [0..Len(s) -> Seq(Entry)] /\ k[0] = <<>>
      /\ \A n \in 1..Len(s) : k[n] = IF n \in I THEN Append(k[n - 1], s[n]) ELSE k[n - 1]
  BY KeepingIs
<1>2. /\ g \in [0..Len(s) -> Seq(Entry)] /\ g[0] = <<>>
      /\ \A n \in 1..Len(s) : g[n] = IF n \in DOMAIN s \ I THEN Append(g[n - 1], s[n]) ELSE g[n - 1]
  BY KeepingIs
<1> HIDE DEF k, g
<1>3. T \in SUBSET (0..Len(s)) /\ 0 \in T
  BY <1>1, <1>2, BytesOfEmpty, SumsAre
<1>4. ASSUME NEW n \in T, n < Len(s) PROVE n + 1 \in T
  <2>1. n \in Nat /\ n \in 0..Len(s) /\ n + 1 \in 1..Len(s) /\ n + 1 \in 0..Len(s) /\ (n + 1) - 1 = n
    BY <1>4
  <2>2. k[n] \in Seq(Entry) /\ g[n] \in Seq(Entry) /\ s[n + 1] \in Entry
    BY <1>1, <1>2, <2>1
  <2>3. /\ Bytes(k[n]) \in Nat /\ Bytes(Append(k[n], s[n + 1])) = Bytes(k[n]) + s[n + 1].size
        /\ Bytes(g[n]) \in Nat /\ Bytes(Append(g[n], s[n + 1])) = Bytes(g[n]) + s[n + 1].size
    BY <2>2, BytesAre
  <2>4. s[n + 1].size \in Nat /\ n + 1 \in DOMAIN s
    BY <2>1, <2>2, EntrySize
  <2>5. Sums(s)[n + 1] = Sums(s)[n] + s[n + 1].size
    BY <2>1, SumsAre
  <2>6. \/ k[n + 1] = Append(k[n], s[n + 1]) /\ g[n + 1] = g[n]
        \/ k[n + 1] = k[n] /\ g[n + 1] = Append(g[n], s[n + 1])
    BY <1>1, <1>2, <2>1, <2>4
  <2>7. Bytes(k[n + 1]) + Bytes(g[n + 1]) = Bytes(k[n]) + Bytes(g[n]) + s[n + 1].size
    <3>1. CASE k[n + 1] = Append(k[n], s[n + 1]) /\ g[n + 1] = g[n]
      <4>1. Bytes(k[n + 1]) = Bytes(k[n]) + s[n + 1].size /\ Bytes(g[n + 1]) = Bytes(g[n])
        BY <2>3, <3>1
      <4> QED  BY <2>3, <2>4, <4>1
    <3>2. CASE k[n + 1] = k[n] /\ g[n + 1] = Append(g[n], s[n + 1])
      <4>1. Bytes(k[n + 1]) = Bytes(k[n]) /\ Bytes(g[n + 1]) = Bytes(g[n]) + s[n + 1].size
        BY <2>3, <3>2
      <4> QED  BY <2>3, <2>4, <4>1
    <3> QED  BY <2>6, <3>1, <3>2
  <2>8. Bytes(k[n]) + Bytes(g[n]) = Sums(s)[n]
    BY <1>4
  <2> QED  BY <2>1, <2>5, <2>7, <2>8
<1>5. T = 0..Len(s)
  <2>1. Len(s) \in Nat
    OBVIOUS
  <2> HIDE DEF T
  <2> QED  BY <1>3, <1>4, <2>1, InductionTo
<1>6. Len(s) \in T
  BY <1>5
<1> QED  BY <1>6 DEF Kept, Bytes, k, g

\* All but one.
LEMMA KeptAllBut ==
    ASSUME NEW s \in Seq(Entry), NEW i \in 1..Len(s)
    PROVE  LET kept == Kept(s, DOMAIN s \ {i})
           IN  Len(kept) = Len(s) - 1 /\ Bytes(kept) = Bytes(s) - s[i].size
<1> DEFINE I == DOMAIN s \ {i}
           k == Keeping(s, I)
           Without(n) == /\ Len(k[n]) = IF n < i THEN n ELSE n - 1
                         /\ Bytes(k[n]) = Sums(s)[n] - (IF n < i THEN 0 ELSE s[i].size)
           T == {n \in 0..Len(s) : Without(n)}
<1>1. /\ k \in [0..Len(s) -> Seq(Entry)] /\ k[0] = <<>>
      /\ \A n \in 1..Len(s) : k[n] = IF n \in I THEN Append(k[n - 1], s[n]) ELSE k[n - 1]
  BY KeepingIs
<1> HIDE DEF k
<1>2. Len(s) \in Nat /\ s[i].size \in Nat /\ Sums(s)[0] = 0
  BY EntrySize, SumsAre
<1>3. T \in SUBSET (0..Len(s)) /\ 0 \in T
  BY <1>1, <1>2, BytesOfEmpty
<1>4. ASSUME NEW n \in T, n < Len(s) PROVE n + 1 \in T
  <2>1. n \in Nat /\ n \in 0..Len(s) /\ n + 1 \in 1..Len(s) /\ n + 1 \in 0..Len(s) /\ (n + 1) - 1 = n
    BY <1>4
  <2>2. k[n] \in Seq(Entry) /\ s[n + 1] \in Entry /\ Len(k[n]) \in Nat
    BY <1>1, <2>1
  <2>3. Bytes(k[n]) \in Nat /\ Bytes(Append(k[n], s[n + 1])) = Bytes(k[n]) + s[n + 1].size
    BY <2>2, BytesAre
  <2>4. s[n + 1].size \in Nat /\ Sums(s)[n] \in Nat
    BY <2>1, <2>2, EntrySize, SumsAre
  <2>5. Sums(s)[n + 1] = Sums(s)[n] + s[n + 1].size
    BY <2>1, SumsAre
  <2>6. Without(n)
    BY <1>4
  <2>7. CASE n + 1 = i
    <3>1. k[n + 1] = k[n]
      BY <1>1, <2>1, <2>7
    <3> QED  BY <2>1, <2>2, <2>3, <2>4, <2>5, <2>6, <2>7, <3>1
  <2>8. CASE n + 1 # i
    <3>1. k[n + 1] = Append(k[n], s[n + 1])
      <4>1. n + 1 \in I
        BY <2>1, <2>8
      <4> QED  BY <1>1, <2>1, <4>1
    <3>2. Len(k[n + 1]) = Len(k[n]) + 1 /\ Bytes(k[n + 1]) = Bytes(k[n]) + s[n + 1].size
      BY <2>2, <2>3, <3>1
    <3> QED  BY <1>2, <2>1, <2>2, <2>3, <2>4, <2>5, <2>6, <2>8, <3>2
  <2> QED  BY <2>7, <2>8
<1>5. T = 0..Len(s)
  <2> HIDE DEF T
  <2> QED  BY <1>2, <1>3, <1>4, InductionTo
<1>6. Without(Len(s)) /\ ~(Len(s) < i)
  BY <1>2, <1>5
<1> QED  BY <1>6 DEF Kept, Bytes, k

\* The bytes of the first entries and of the others.
LEMMA BytesOfPart ==
    ASSUME NEW s \in Seq(Entry), NEW n \in 0..Len(s)
    PROVE  LET first == SubSeq(s, 1, n)
               last == SubSeq(s, n + 1, Len(s))
           IN  /\ last \in Seq(Entry) /\ Len(last) = Len(s) - n
               /\ Bytes(last) = Bytes(s) - Bytes(first)
<1> DEFINE first == SubSeq(s, 1, n)
           last == SubSeq(s, n + 1, Len(s))
           T == {m \in 0..(Len(s) - n) : Sums(last)[m] = Sums(s)[n + m] - Sums(s)[n]}
<1>1. Len(s) \in Nat /\ n \in Nat /\ n <= Len(s) /\ Sums(s) \in [0..Len(s) -> Nat]
  BY SumsAre
<1>2. first \in Seq(Entry) /\ Len(first) = n /\ \A i \in 1..n : first[i] = s[i]
  BY <1>1
<1>3. last \in Seq(Entry) /\ Len(last) = Len(s) - n /\ \A i \in 1..(Len(s) - n) : last[i] = s[n + i]
  BY <1>1
<1> HIDE DEF first, last
<1>4. Bytes(first) = Sums(s)[n]
  BY <1>1, <1>2, SumsAgree DEF Bytes
<1>5. T \in SUBSET (0..(Len(s) - n)) /\ 0 \in T
  <2>1. Sums(last)[0] = 0
    BY <1>3, SumsAre
  <2>2. Sums(s)[n] \in Nat /\ n + 0 = n /\ 0 \in 0..(Len(s) - n)
    BY <1>1
  <2> QED  BY <2>1, <2>2
<1>6. ASSUME NEW m \in T, m < Len(s) - n PROVE m + 1 \in T
  <2>1. /\ m \in Nat /\ m + 1 \in 1..Len(last) /\ n + (m + 1) \in 1..Len(s) /\ m + 1 \in 0..(Len(s) - n)
        /\ (m + 1) - 1 = m /\ (n + (m + 1)) - 1 = n + m /\ n + m \in 0..Len(s)
    BY <1>1, <1>3, <1>6
  <2>2. Sums(last)[m + 1] = Sums(last)[m] + last[m + 1].size
    BY <1>3, <2>1, SumsAre
  <2>3. Sums(s)[n + (m + 1)] = Sums(s)[n + m] + s[n + (m + 1)].size
    BY <2>1, SumsAre
  <2>4. last[m + 1] = s[n + (m + 1)] /\ s[n + (m + 1)].size \in Nat
    BY <1>3, <2>1, EntrySize
  <2>5. Sums(s)[n + m] \in Nat /\ Sums(s)[n] \in Nat
    BY <1>1, <2>1
  <2>6. Sums(last)[m] = Sums(s)[n + m] - Sums(s)[n]
    BY <1>6
  <2> QED  BY <2>1, <2>2, <2>3, <2>4, <2>5, <2>6
<1>7. T = 0..(Len(s) - n)
  <2>1. Len(s) - n \in Nat
    BY <1>1
  <2> HIDE DEF T
  <2> QED  BY <1>5, <1>6, <2>1, InductionTo
<1>8. Sums(last)[Len(s) - n] = Sums(s)[Len(s)] - Sums(s)[n]
  <2>1. Len(s) - n \in T /\ n + (Len(s) - n) = Len(s)
    BY <1>1, <1>7
  <2> QED  BY <2>1
<1>9. Bytes(last) = Bytes(s) - Bytes(first)
  BY <1>3, <1>4, <1>8 DEF Bytes
<1> QED  BY <1>3, <1>9 DEF first, last

-----------------------------------------------------------------------------
(* What each operation leaves of a memory that is within its limits.        *)

Memory == [lru : Seq(Entry), bytes : Nat]

\* The byte count is that of the entries, and there is one entry per key.
Counted(c) == c \in Memory /\ c.bytes = Bytes(c.lru) /\ Distinct(c.lru)
Within(c) == Counted(c) /\ Len(c.lru) <= MaxEntries /\ c.bytes <= MaxBytes

\* What is kept is a memory again, with entries from the positions kept.
LEMMA KeptIs ==
    ASSUME NEW s \in Seq(Entry), NEW I
    PROVE  /\ Kept(s, I) \in Seq(Entry) /\ Len(Kept(s, I)) <= Len(s)
           /\ \A a \in 1..Len(Kept(s, I)) : \E i \in I \cap DOMAIN s : Kept(s, I)[a] = s[i]
           /\ Distinct(s) => Distinct(Kept(s, I))
<1>1. Len(s) \in 0..Len(s) /\ DOMAIN s = 1..Len(s)
  OBVIOUS
<1>2. Kept(s, I) \in Seq(Entry)
  BY <1>1, KeepingIs DEF Kept
<1>3. /\ Len(Kept(s, I)) <= Len(s)
      /\ \A a \in 1..Len(Kept(s, I)) : \E i \in 1..Len(s) : i \in I /\ Kept(s, I)[a] = s[i]
  BY <1>1, KeptComesFrom DEF Kept
<1>4. Distinct(s) => Distinct(Kept(s, I))
  BY <1>1, KeptDistinct DEF Kept
<1> QED  BY <1>1, <1>2, <1>3, <1>4

\* The entry of a key is at one position only.
LEMMA EntryAt ==
    ASSUME NEW c, Counted(c), NEW i \in 1..Len(c.lru)
    PROVE  /\ EntryOf(c, c.lru[i].key) = c.lru[i]
           /\ Others(c.lru, c.lru[i].key) = DOMAIN c.lru \ {i}
<1>1. c.lru \in Seq(Entry) /\ DOMAIN c.lru = 1..Len(c.lru) /\ Distinct(c.lru)
  BY DEF Counted, Memory
<1>2. Others(c.lru, c.lru[i].key) = DOMAIN c.lru \ {i}
  BY <1>1 DEF Others, Distinct
<1> DEFINE E == {c.lru[j] : j \in DOMAIN c.lru}
           k == c.lru[i].key
<1>3. c.lru[i] \in E /\ c.lru[i].key = k
  BY <1>1
<1>4. \A e \in E : e.key = k => e = c.lru[i]
  BY <1>1 DEF Distinct
<1>5. (CHOOSE e \in E : e.key = k) = c.lru[i]
  <2> HIDE DEF E, k
  <2> QED  BY <1>3, <1>4
<1> QED  BY <1>2, <1>5 DEF EntryOf

\* What is left without the entry of a key.
LEMMA OthersKept ==
    ASSUME NEW c, Counted(c), NEW i \in 1..Len(c.lru)
    PROVE  LET rest == Kept(c.lru, Others(c.lru, c.lru[i].key))
           IN  /\ rest \in Seq(Entry) /\ Len(rest) = Len(c.lru) - 1 /\ Distinct(rest)
               /\ Bytes(rest) = c.bytes - c.lru[i].size
               /\ \A a \in 1..Len(rest) : rest[a].key # c.lru[i].key
<1> DEFINE s == c.lru
           k == c.lru[i].key
           rest == Kept(s, Others(s, k))
<1>1. s \in Seq(Entry) /\ Distinct(s) /\ c.bytes = Bytes(s)
  BY DEF Counted, Memory
<1>2. Others(s, k) = DOMAIN s \ {i}
  BY EntryAt
<1>3. Len(rest) = Len(s) - 1 /\ Bytes(rest) = Bytes(s) - s[i].size
  BY <1>1, <1>2, KeptAllBut
<1>4. /\ rest \in Seq(Entry) /\ Distinct(rest)
      /\ \A a \in 1..Len(rest) : \E j \in Others(s, k) : rest[a] = s[j]
  BY <1>1, KeptIs
<1>5. \A j \in Others(s, k) : s[j].key # k
  BY DEF Others
<1> HIDE DEF rest
<1>6. \A a \in 1..Len(rest) : rest[a].key # k
  BY <1>4, <1>5
<1> QED  BY <1>1, <1>3, <1>4, <1>6 DEF rest

\* An entry of a new key at the end.
LEMMA Appended ==
    ASSUME NEW s \in Seq(Entry), Distinct(s), NEW e \in Entry,
           \A a \in 1..Len(s) : s[a].key # e.key
    PROVE  /\ Append(s, e) \in Seq(Entry) /\ Len(Append(s, e)) = Len(s) + 1
           /\ Distinct(Append(s, e)) /\ Bytes(Append(s, e)) = Bytes(s) + e.size
<1> DEFINE t == Append(s, e)
<1>1. /\ t \in Seq(Entry) /\ Len(t) = Len(s) + 1 /\ t[Len(s) + 1] = e
      /\ \A a \in 1..Len(s) : t[a] = s[a]
      /\ \A a \in 1..Len(t) : a = Len(s) + 1 \/ a \in 1..Len(s)
  OBVIOUS
<1>2. Bytes(t) = Bytes(s) + e.size
  BY BytesAre
<1> HIDE DEF t
<1>3. Distinct(t)
  BY <1>1 DEF Distinct
<1> QED  BY <1>1, <1>2, <1>3 DEF t

LEMMA DeleteWithin ==
    ASSUME NEW c, Within(c), NEW k
    PROVE  /\ Within(DeleteLocal(c, k))
           /\ \A a \in 1..Len(DeleteLocal(c, k).lru) : DeleteLocal(c, k).lru[a].key # k
<1>1. c \in Memory /\ c.lru \in Seq(Entry) /\ DOMAIN c.lru = 1..Len(c.lru) /\ Counted(c)
  BY DEF Within, Counted, Memory
<1>2. CASE ~Has(c, k)
  BY <1>1, <1>2 DEF DeleteLocal, Has
<1>3. CASE Has(c, k)
  <2>1. PICK i \in 1..Len(c.lru) : c.lru[i].key = k
    BY <1>1, <1>3 DEF Has
  <2> DEFINE rest == Kept(c.lru, Others(c.lru, k))
             d == [lru |-> rest, bytes |-> c.bytes - c.lru[i].size]
  <2>2. DeleteLocal(c, k) = d
    BY <1>1, <1>3, <2>1, EntryAt DEF DeleteLocal
  <2>3. /\ rest \in Seq(Entry) /\ Len(rest) = Len(c.lru) - 1 /\ Distinct(rest)
        /\ Bytes(rest) = c.bytes - c.lru[i].size
        /\ \A a \in 1..Len(rest) : rest[a].key # k
    BY <1>1, <2>1, OthersKept
  <2>4. Bytes(rest) \in Nat /\ c.lru[i].size \in Nat
    BY <1>1, <2>3, SumsAre, EntrySize DEF Bytes
  <2> HIDE DEF rest
  <2>5. c.bytes \in Nat /\ MaxEntries \in Nat /\ MaxBytes \in Nat /\ Len(c.lru) \in Nat
    BY <1>1, UpstreamAssumption DEF Memory
  <2>6. d.bytes <= MaxBytes /\ Len(d.lru) <= MaxEntries
    BY <2>3, <2>4, <2>5 DEF Within
  <2>7. d \in Memory /\ d.bytes = Bytes(d.lru) /\ Distinct(d.lru)
    BY <2>3, <2>4 DEF Memory
  <2> QED  BY <2>2, <2>3, <2>6, <2>7 DEF Within, Counted
<1> QED  BY <1>2, <1>3

\* There is a least number that has a property, here of numbers up to m.
LEMMA Least ==
    ASSUME NEW m \in Nat, NEW F \in SUBSET (0..m), F # {}
    PROVE  \E n \in F : \A j \in 0..(n - 1) : j \notin F
<1> DEFINE T == {n \in 0..m : \A j \in 0..n : j \notin F}
<1> SUFFICES ASSUME \A n \in F : \E j \in 0..(n - 1) : j \in F PROVE FALSE
  OBVIOUS
<1>1. T \in SUBSET (0..m)
  OBVIOUS
<1>2. 0 \in T
  <2>1. 0 \notin F
    OBVIOUS
  <2> QED  BY <2>1
<1>3. ASSUME NEW n \in T, n < m PROVE n + 1 \in T
  <2>1. n \in Nat /\ n + 1 \in 0..m /\ \A j \in 0..n : j \notin F
    BY <1>3
  <2>2. n + 1 \notin F
    BY <2>1
  <2>3. \A j \in 0..(n + 1) : j \in 0..n \/ j = n + 1
    BY <2>1
  <2> QED  BY <2>1, <2>2, <2>3
<1>4. T = 0..m
  <2> HIDE DEF T
  <2> QED  BY <1>1, <1>2, <1>3, InductionTo
<1>5. \A n \in 0..m : n \in 0..n /\ n \notin F
  BY <1>4
<1> QED  BY <1>5

\* Expired entries go, and as many of the oldest ones as it takes.
LEMMA PruneWithin ==
    ASSUME NEW c, Counted(c)
    PROVE  Within(PruneLocal(c))
<1> DEFINE live == Kept(c.lru, Live(c.lru))
           dead == Kept(c.lru, DOMAIN c.lru \ Live(c.lru))
           bytes == c.bytes - Bytes(dead)
           After(n) == [lru |-> SubSeq(live, n + 1, Len(live)),
                        bytes |-> bytes - Bytes(SubSeq(live, 1, n))]
           Fits(n) == n = Len(live) \/ (Len(live) - n <= MaxEntries /\ After(n).bytes <= MaxBytes)
           N == CHOOSE n \in 0..Len(live) : Fits(n) /\ \A m \in 0..(n - 1) : ~Fits(m)
<1>1. c.lru \in Seq(Entry) /\ Distinct(c.lru) /\ c.bytes = Bytes(c.lru)
  BY DEF Counted, Memory
<1>2. live \in Seq(Entry) /\ Distinct(live) /\ dead \in Seq(Entry)
  BY <1>1, KeptIs
<1>3. bytes = Bytes(live)
  <2>1. Bytes(live) + Bytes(dead) = Bytes(c.lru)
    BY <1>1, BytesSplit
  <2>2. Bytes(live) \in Nat /\ Bytes(dead) \in Nat
    BY <1>2, BytesNat
  <2> QED  BY <1>1, <2>1, <2>2
<1>4. PruneLocal(c) = After(N)
  BY DEF PruneLocal
<1> HIDE DEF live, dead, bytes
<1>5. N \in 0..Len(live) /\ Fits(N)
  <2> DEFINE F == {n \in 0..Len(live) : Fits(n)}
  <2>1. Len(live) \in Nat /\ Len(live) \in 0..Len(live)
    BY <1>2
  <2>2. Len(live) \in F
    BY <2>1
  <2> HIDE DEF Fits
  <2>3. F \in SUBSET (0..Len(live)) /\ F # {}
    BY <2>2
  <2>4. \E n \in F : \A j \in 0..(n - 1) : j \notin F
    <3> HIDE DEF F
    <3> QED  BY <2>1, <2>3, Least
  <2>5. \E n \in 0..Len(live) : Fits(n) /\ \A m \in 0..(n - 1) : ~Fits(m)
    <3>1. PICK n \in F : \A j \in 0..(n - 1) : j \notin F
      BY <2>4
    <3>2. \A j \in 0..(n - 1) : j \in 0..Len(live)
      BY <2>1
    <3> QED  BY <3>1, <3>2
  <2> QED  BY <2>5
<1> HIDE DEF N
<1> DEFINE last == SubSeq(live, N + 1, Len(live))
           first == SubSeq(live, 1, N)
<1>6. /\ last \in Seq(Entry) /\ Len(last) = Len(live) - N
      /\ Bytes(last) = Bytes(live) - Bytes(first)
  BY <1>2, <1>5, BytesOfPart
<1>7. \A a \in 1..Len(last) : last[a] = live[N + a] /\ N + a \in 1..Len(live)
  BY <1>2, <1>5
<1>8. Distinct(last)
  BY <1>2, <1>5, <1>7 DEF Distinct
<1>9. Bytes(last) \in Nat /\ bytes - Bytes(first) = Bytes(last)
  <2>1. first \in Seq(Entry)
    BY <1>2, <1>5
  <2> HIDE DEF last, first
  <2>2. Bytes(last) \in Nat /\ Bytes(first) \in Nat /\ Bytes(live) \in Nat
    BY <1>2, <1>6, <2>1, BytesNat
  <2> QED  BY <1>3, <1>6, <2>2
<1>10. After(N).lru = last /\ After(N).bytes = Bytes(last) /\ After(N) \in Memory
  BY <1>6, <1>9 DEF Memory
<1>11. Len(last) <= MaxEntries /\ Bytes(last) <= MaxBytes
  <2>1. CASE N = Len(live)
    <3> HIDE DEF last, first
    <3>1. Len(last) = 0
      BY <1>2, <1>6, <2>1
    <3>2. Bytes(last) = 0
      BY <1>6, <3>1, SumsAre DEF Bytes
    <3> QED  BY <3>1, <3>2, UpstreamAssumption
  <2>2. CASE N # Len(live)
    BY <1>5, <1>6, <1>9, <2>2
  <2> QED  BY <2>1, <2>2
<1> HIDE DEF last, first, After
<1> QED  BY <1>4, <1>8, <1>10, <1>11 DEF Within, Counted

LEMMA StoreWithin ==
    ASSUME NEW c, Within(c), NEW k \in Keys \cup {Index}, NEW size \in Sizes \cup {IndexSize}
    PROVE  Within(StoreLocal(c, k, size))
<1>1. CASE size > MaxBytes \/ MaxEntries = 0
  BY <1>1 DEF StoreLocal
<1>2. CASE ~(size > MaxBytes \/ MaxEntries = 0)
  <2> DEFINE d == DeleteLocal(c, k)
             e == [key |-> k, size |-> size, live |-> TRUE]
             f == [lru |-> Append(d.lru, e), bytes |-> d.bytes + size]
  <2>1. StoreLocal(c, k, size) = PruneLocal(f)
    BY <1>2 DEF StoreLocal
  <2>2. /\ d.lru \in Seq(Entry) /\ Distinct(d.lru) /\ d.bytes = Bytes(d.lru) /\ d.bytes \in Nat
        /\ \A a \in 1..Len(d.lru) : d.lru[a].key # k
    BY DeleteWithin DEF Within, Counted, Memory
  <2>3. e \in Entry /\ e.key = k /\ e.size = size /\ size \in Nat
    BY UpstreamAssumption DEF Entry
  <2> HIDE DEF d, e
  <2>4. /\ Append(d.lru, e) \in Seq(Entry) /\ Distinct(Append(d.lru, e))
        /\ Bytes(Append(d.lru, e)) = Bytes(d.lru) + size
    BY <2>2, <2>3, Appended
  <2>5. Counted(f)
    BY <2>2, <2>3, <2>4 DEF Counted, Memory
  <2> QED  BY <2>1, <2>5, PruneWithin
<1> QED  BY <1>1, <1>2

LEMMA TouchWithin ==
    ASSUME NEW c, Within(c), NEW k
    PROVE  Within(TouchLocal(c, k))
<1>1. CASE ~HasLive(c, k)
  BY <1>1, DeleteWithin DEF TouchLocal
<1>2. CASE HasLive(c, k)
  <2>1. Counted(c) /\ c \in Memory /\ c.lru \in Seq(Entry) /\ DOMAIN c.lru = 1..Len(c.lru)
    BY DEF Within, Counted, Memory
  <2>2. PICK i \in 1..Len(c.lru) : c.lru[i].key = k
    BY <1>2, <2>1 DEF HasLive, Live
  <2> DEFINE rest == Kept(c.lru, Others(c.lru, k))
             d == [c EXCEPT !.lru = Append(rest, c.lru[i])]
  <2>3. TouchLocal(c, k) = d
    BY <1>2, <2>1, <2>2, EntryAt DEF TouchLocal
  <2>4. /\ rest \in Seq(Entry) /\ Len(rest) = Len(c.lru) - 1 /\ Distinct(rest)
        /\ Bytes(rest) = c.bytes - c.lru[i].size
        /\ \A a \in 1..Len(rest) : rest[a].key # k
    BY <2>1, <2>2, OthersKept
  <2>5. c.lru[i] \in Entry /\ c.lru[i].size \in Nat /\ c.bytes \in Nat /\ Len(c.lru) \in Nat
    BY <2>1, EntrySize DEF Memory
  <2> HIDE DEF rest
  <2>6. /\ Append(rest, c.lru[i]) \in Seq(Entry) /\ Len(Append(rest, c.lru[i])) = Len(rest) + 1
        /\ Distinct(Append(rest, c.lru[i]))
        /\ Bytes(Append(rest, c.lru[i])) = Bytes(rest) + c.lru[i].size
    BY <2>2, <2>4, <2>5, Appended
  <2>7. /\ Len(Append(rest, c.lru[i])) = Len(c.lru)
        /\ Bytes(Append(rest, c.lru[i])) = c.bytes
    BY <2>4, <2>5, <2>6
  <2>8. d \in Memory /\ d.lru = Append(rest, c.lru[i]) /\ d.bytes = c.bytes
    BY <2>1, <2>6 DEF Memory
  <2> HIDE DEF d
  <2> QED  BY <2>3, <2>6, <2>7, <2>8 DEF Within, Counted
<1> QED  BY <1>1, <1>2

LEMMA ExpireWithin ==
    ASSUME NEW c, Within(c), NEW k
    PROVE  Within([c EXCEPT !.lru =
               [i \in DOMAIN @ |-> IF @[i].key = k THEN [@[i] EXCEPT !.live = FALSE] ELSE @[i]]])
<1> DEFINE t == [i \in DOMAIN c.lru |->
                     IF c.lru[i].key = k THEN [c.lru[i] EXCEPT !.live = FALSE] ELSE c.lru[i]]
           d == [c EXCEPT !.lru = t]
<1>1. c \in Memory /\ c.lru \in Seq(Entry) /\ DOMAIN c.lru = 1..Len(c.lru) /\ Len(c.lru) \in Nat
  BY DEF Within, Counted, Memory
<1>2. ASSUME NEW i \in 1..Len(c.lru)
      PROVE  t[i] \in Entry /\ t[i].key = c.lru[i].key /\ t[i].size = c.lru[i].size
  <2>1. c.lru[i] \in Entry
    BY <1>1
  <2> QED  BY <1>1, <2>1 DEF Entry
<1>3. t \in Seq(Entry) /\ Len(t) = Len(c.lru)
  <2>1. t \in [1..Len(c.lru) -> Entry]
    BY <1>1, <1>2
  <2> HIDE DEF t
  <2> QED  BY <1>1, <2>1
<1> HIDE DEF t
<1>4. Bytes(t) = Bytes(c.lru)
  BY <1>1, <1>2, <1>3, SumsAgree DEF Bytes
<1>5. Distinct(t)
  BY <1>2, <1>3 DEF Within, Counted, Distinct
<1>6. d \in Memory /\ d.lru = t /\ d.bytes = c.bytes
  BY <1>1, <1>3 DEF Memory
<1>7. Within(d)
  BY <1>3, <1>4, <1>5, <1>6 DEF Within, Counted
<1> QED  BY <1>7 DEF t

-----------------------------------------------------------------------------
(* The memories of the processes.                                          *)

\* Every memory is within its limits, and so is what is stored next.
MemInv == local \in [Procs -> Memory] /\ \A p \in Procs : Within(local[p])

LEMMA MemInit == Init => MemInv
<1> SUFFICES ASSUME Init PROVE MemInv
  OBVIOUS
<1>1. Empty \in Memory /\ Empty.lru = <<>> /\ Empty.bytes = 0
  BY DEF Empty, Memory
<1>2. Within(Empty)
  BY <1>1, BytesOfEmpty, UpstreamAssumption DEF Within, Counted, Distinct
<1> HIDE DEF Empty
<1> QED  BY <1>1, <1>2 DEF Init, MemInv

\* A step that gives one process a memory within its limits.
LEMMA MemStep ==
    ASSUME MemInv, NEW p \in Procs, NEW c, Within(c), local' = [local EXCEPT ![p] = c]
    PROVE  MemInv'
BY DEF MemInv, Within, Counted

LEMMA MemNext == FetchInv /\ MemInv /\ [Next]_vars => MemInv'
<1> SUFFICES ASSUME FetchInv, MemInv, [Next]_vars PROVE MemInv'
  OBVIOUS
<1>1. \A p \in Procs : Within(local[p])
  BY DEF MemInv
<1>2. ASSUME UNCHANGED local PROVE MemInv'
  BY <1>2 DEF MemInv
<1>3. ASSUME NEW t \in Threads, NEW k \in Keys, NEW redis \in BOOLEAN, Lookup(t, k, redis)
      PROVE  MemInv'
  <2> DEFINE p == Proc(t)
             c == TouchLocal(local[p], k)
  <2>1. p \in Procs /\ remote[k] \in Sizes \cup {0}
    BY UpstreamAssumption DEF FetchInv, HoldersInv, SharedOK
  <2>2. Within(c)
    BY <1>1, <2>1, TouchWithin
  <2>3. CASE ~HasLive(local[p], k) /\ Found(t, k, redis)
    <3>1. remote[k] \in Sizes
      BY <2>1, <2>3 DEF Found
    <3>2. Within(StoreLocal(c, k, remote[k]))
      BY <2>1, <2>2, <3>1, StoreWithin
    <3>3. local' = [local EXCEPT ![p] = StoreLocal(c, k, remote[k])]
      BY <1>3, <2>3 DEF Lookup, LookedUp
    <3> QED  BY <2>1, <3>2, <3>3, MemStep
  <2>4. CASE ~(~HasLive(local[p], k) /\ Found(t, k, redis))
    <3>1. local' = [local EXCEPT ![p] = c]
      BY <1>3, <2>4 DEF Lookup, LookedUp
    <3> QED  BY <2>1, <2>2, <3>1, MemStep
  <2> QED  BY <2>3, <2>4
<1>4. ASSUME NEW t \in Threads, StoreInMemory(t) PROVE MemInv'
  <2>1. Proc(t) \in Procs /\ key[t] \in Keys
    BY UpstreamAssumption DEF FetchInv, HoldersInv, ThreadsOK
  <2>2. PICK n \in Sizes : local' = [local EXCEPT ![Proc(t)] = StoreLocal(local[Proc(t)], key[t], n)]
    BY <1>4 DEF StoreInMemory
  <2>3. Within(StoreLocal(local[Proc(t)], key[t], n))
    BY <1>1, <2>1, StoreWithin
  <2> QED  BY <2>1, <2>2, <2>3, MemStep
<1>5. ASSUME NEW p \in Procs, BuildFilingIndex(p) PROVE MemInv'
  <2> DEFINE c == TouchLocal(local[p], Index)
  <2>1. Within(c)
    BY <1>1, TouchWithin
  <2>2. Within(StoreLocal(c, Index, IndexSize))
    BY <2>1, StoreWithin
  <2>3. \/ local' = [local EXCEPT ![p] = c]
        \/ local' = [local EXCEPT ![p] = StoreLocal(c, Index, IndexSize)]
    BY <1>5 DEF BuildFilingIndex
  <2> HIDE DEF c
  <2> QED  BY <2>1, <2>2, <2>3, MemStep
<1>6. ASSUME NEW p \in Procs, NEW k \in Keys \cup {Index}, LocalExpires(p, k) PROVE MemInv'
  <2> DEFINE c == [local[p] EXCEPT !.lru =
                      [i \in DOMAIN @ |-> IF @[i].key = k THEN [@[i] EXCEPT !.live = FALSE] ELSE @[i]]]
  <2>1. Within(c)
    BY <1>1, ExpireWithin
  <2>2. local' = [local EXCEPT ![p] = c]
    BY <1>6 DEF LocalExpires
  <2> HIDE DEF c
  <2> QED  BY <2>1, <2>2, MemStep
<1>7. ASSUME NEW p \in Procs, Crash(p) PROVE MemInv'
  <2>1. Empty \in Memory /\ Empty.lru = <<>> /\ Empty.bytes = 0
    BY DEF Empty, Memory
  <2>2. Within(Empty)
    BY <2>1, BytesOfEmpty, UpstreamAssumption DEF Within, Counted, Distinct
  <2>3. local' = [local EXCEPT ![p] = Empty]
    BY <1>7 DEF Crash
  <2> HIDE DEF Empty
  <2> QED  BY <2>2, <2>3, MemStep
<1>8. ASSUME NEW t \in Threads, Proceed(t) PROVE MemInv'
  <2>1. ASSUME NEW k \in Keys, GetJson(t, k) PROVE MemInv'
    <3>1. Lookup(t, k, TRUE)
      BY <2>1 DEF GetJson
    <3> QED  BY <1>3, <3>1
  <2>2. CASE StoreInMemory(t)
    BY <1>4, <2>2
  <2>3. CASE ~(\E k \in Keys : GetJson(t, k)) /\ ~StoreInMemory(t)
    <3>1. UNCHANGED local
      BY <1>8, <2>3
         DEF Proceed, AcquireRemote, AcquireLocal, LockExists, StoreInRedis,
             Release, Delete, LetGo
    <3> QED  BY <1>2, <3>1
  <2> QED  BY <2>1, <2>2, <2>3
<1>9. ASSUME NEW t \in Threads, RedisError(t) PROVE MemInv'
  <2>1. ASSUME NEW k \in Keys, GetJsonRedisError(t, k) PROVE MemInv'
    <3>1. Lookup(t, k, FALSE)
      BY <2>1 DEF GetJsonRedisError
    <3> QED  BY <1>3, <3>1
  <2>2. CASE ~\E k \in Keys : GetJsonRedisError(t, k)
    <3>1. UNCHANGED local
      BY <1>9, <2>2
         DEF RedisError, AcquireRemoteError, LockExistsRedisError, StoreInRedisError,
             ReleaseRedisError, LetGo
    <3> QED  BY <1>2, <3>1
  <2> QED  BY <2>1, <2>2
<1>10. ASSUME NEW t \in Threads, Deadline(t) \/ FillNotStored(t) PROVE MemInv'
  BY <1>2, <1>10 DEF Deadline, FillNotStored
<1>11. ASSUME NEW k \in Keys,
              \/ RedisLockExpires(k) \/ RedisExpires(k)
              \/ \E p \in Procs : LocalLockExpires(p, k)
       PROVE  MemInv'
  BY <1>2, <1>11 DEF RedisLockExpires, LocalLockExpires, RedisExpires
<1>12. CASE UNCHANGED vars
  BY <1>2, <1>12 DEF vars
<1> QED  BY <1>5, <1>6, <1>7, <1>8, <1>9, <1>10, <1>11, <1>12 DEF Next

LEMMA SharedInvariance == Spec => [](FetchInv /\ MemInv)
<1>1. Init => FetchInv /\ MemInv
  BY FetchInit, MemInit
<1>2. FetchInv /\ MemInv /\ [Next]_vars => (FetchInv /\ MemInv)'
  BY FetchNext, MemNext
<1> QED  BY <1>1, <1>2, PTL DEF Spec

\* The memory of every process keeps both limits, one entry per key, and a byte
\* count that is that of its entries, through replacements, expiry, evictions
\* and copies from Redis, whatever the sizes and the limits are.
THEOREM MemoriesWithinLimits == Spec => []WithinLimits
<1>1. MemInv => WithinLimits
  <2> SUFFICES ASSUME MemInv, NEW p \in Procs
               PROVE  /\ local[p].bytes = Bytes(local[p].lru)
                      /\ Len(local[p].lru) <= MaxEntries /\ local[p].bytes <= MaxBytes
                      /\ \A i, j \in DOMAIN local[p].lru :
                             local[p].lru[i].key = local[p].lru[j].key => i = j
    BY DEF WithinLimits
  <2>1. Within(local[p]) /\ DOMAIN local[p].lru = 1..Len(local[p].lru)
    BY DEF MemInv, Memory
  <2> QED  BY <2>1 DEF Within, Counted, Distinct
<1> QED  BY <1>1, SharedInvariance, PTL

\* Type correctness of the shared upstream cache; that the byte count of a
\* memory is a natural number rests on its being that of the entries.
THEOREM SharedCacheTypeCorrect == Spec => []TypeOK
<1>1. FetchInv /\ MemInv => TypeOK
  <2> SUFFICES ASSUME FetchInv, MemInv PROVE TypeOK
    OBVIOUS
  <2>1. ASSUME NEW p \in Procs
        PROVE  /\ \A i \in DOMAIN local[p].lru : local[p].lru[i] \in Entry
               /\ local[p].bytes \in Nat
    BY DEF MemInv, Memory
  <2> QED  BY <2>1 DEF TypeOK, FetchInv, HoldersInv, SharedOK, LocksOK, ThreadsOK, Entry
<1> QED  BY <1>1, SharedInvariance, PTL
============================================================================
