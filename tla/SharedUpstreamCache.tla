------------------------ MODULE SharedUpstreamCache ------------------------
(***************************************************************************)
(* The cache of upstream responses that the processes share                *)
(* (shared_upstream_cache.py): an LRU of payloads with an entry and a byte *)
(* limit in the memory of each process, the same payloads in Redis, and a  *)
(* single-flight lock per key, in Redis or else in the process.            *)
(*                                                                         *)
(* Both locks have a time limit, 30 s by default, and a fill of several    *)
(* attempts and Retry-After sleeps may take longer: any lock may end while *)
(* its holder works, and whoever waits for it may give up and fill without *)
(* a lock.  overruns counts these events.                                  *)
(***************************************************************************)
EXTENDS Naturals, FiniteSets, Sequences

CONSTANTS
    Procs,         \* processes
    Threads,       \* threads that call the cache, one call at a time
    Proc(_),       \* the process of a thread
    Keys,          \* logical keys of fill_json
    Index,         \* a key that build_filing_index reads and stores without a lock
    Sizes,         \* sizes of payloads in bytes
    IndexSize,     \* the size of that index
    MaxEntries,    \* _local_max_entries
    MaxBytes,      \* _local_max_bytes
    NoOne, Leaked, \* no lock; a lock whose holder is gone
    MaxFaults,     \* bound: Redis errors, failing fills and crashes
    MaxOverruns    \* bound: locks that end under their holder, and callers
                   \* that give up waiting

ASSUME UpstreamAssumption ==
    /\ IsFiniteSet(Procs) /\ \A t \in Threads : Proc(t) \in Procs
    /\ Index \notin Keys
    /\ Sizes \subseteq Nat \ {0} /\ IndexSize \in Nat \ {0}
    /\ MaxEntries \in Nat /\ MaxBytes \in Nat
    /\ MaxFaults \in Nat /\ MaxOverruns \in Nat
    /\ NoOne # Leaked /\ {NoOne, Leaked} \cap Threads = {}

VARIABLES
    connected, \* connected[p]: Redis answered when p started; p does not try again
    local,     \* local[p]: the LRU of p, oldest first, and its _local_total_bytes
    remote,    \* remote[k]: the size of the payload in Redis, 0 when there is none
    llock,     \* llock[p][k]: the thread whose token the lock of k in p has
    rlock,     \* rlock[k]: the thread whose token the Redis lock of k has
    pc, key, lock, got,   \* per thread: step, key, lock it was granted, payload it fetched
    fetches,   \* fetches[k]: fills by connected processes that run, or are stored
               \* and not expired: "any", and those of them under the Redis lock
    faults, overruns

vars == <<connected, local, remote, llock, rlock, pc, key, lock, got, fetches, faults, overruns>>

threadVars == <<pc, key, lock, got>>

-----------------------------------------------------------------------------
(* The memory of a process.                                                *)

Empty == [lru |-> <<>>, bytes |-> 0]

\* The bytes of the first n entries, for every n.
Sums(lru) ==
    LET sum[n \in 0..Len(lru)] == IF n = 0 THEN 0 ELSE sum[n - 1] + lru[n].size
    IN  sum
Bytes(lru) == Sums(lru)[Len(lru)]

\* What is left of the first n entries when those at the positions I are kept.
Keeping(lru, I) ==
    LET kept[n \in 0..Len(lru)] ==
            IF n = 0 THEN <<>>
            ELSE IF n \in I THEN Append(kept[n - 1], lru[n]) ELSE kept[n - 1]
    IN  kept
Kept(lru, I) == Keeping(lru, I)[Len(lru)]

Others(lru, k) == {i \in DOMAIN lru : lru[i].key # k}
Live(lru) == {i \in DOMAIN lru : lru[i].live}

Has(c, k) == \E i \in DOMAIN c.lru : c.lru[i].key = k
HasLive(c, k) == \E i \in Live(c.lru) : c.lru[i].key = k

EntryOf(c, k) == CHOOSE e \in {c.lru[i] : i \in DOMAIN c.lru} : e.key = k

MutDelete(c, k) == [c EXCEPT !.lru = Kept(@, Others(@, k))]

\* _delete_local_entry_locked
DeleteLocal(c, k) ==
    IF Has(c, k)
    THEN [lru |-> Kept(c.lru, Others(c.lru, k)), bytes |-> c.bytes - EntryOf(c, k).size]
    ELSE c

\* _prune_local_locked: expired entries go, then the oldest ones until both
\* limits hold for the count that is kept of the bytes.
PruneLocal(c) ==
    LET live == Kept(c.lru, Live(c.lru))
        bytes == c.bytes - Bytes(Kept(c.lru, DOMAIN c.lru \ Live(c.lru)))
        After(n) == [lru |-> SubSeq(live, n + 1, Len(live)),
                     bytes |-> bytes - Bytes(SubSeq(live, 1, n))]
        Fits(n) == n = Len(live) \/ (Len(live) - n <= MaxEntries /\ After(n).bytes <= MaxBytes)
    IN  After(CHOOSE n \in 0..Len(live) : Fits(n) /\ \A m \in 0..(n - 1) : ~Fits(m))

\* _store_local_bytes
StoreLocal(c, k, size) ==
    IF size > MaxBytes \/ MaxEntries = 0 THEN c
    ELSE LET d == DeleteLocal(c, k)
         IN  PruneLocal([lru |-> Append(d.lru, [key |-> k, size |-> size, live |-> TRUE]),
                         bytes |-> d.bytes + size])

\* _get_local_bytes: a hit becomes the newest entry, an expired one is deleted.
TouchLocal(c, k) ==
    IF HasLive(c, k)
    THEN [c EXCEPT !.lru = Append(Kept(@, Others(@, k)), EntryOf(c, k))]
    ELSE DeleteLocal(c, k)

-----------------------------------------------------------------------------
Grants == {"any", "redis"}

Init ==
    /\ connected \in [Procs -> BOOLEAN]
    /\ local = [p \in Procs |-> Empty]
    /\ remote = [k \in Keys |-> 0]
    /\ llock = [p \in Procs |-> [k \in Keys |-> NoOne]]
    /\ rlock = [k \in Keys |-> NoOne]
    /\ pc = [t \in Threads |-> "idle"]
    /\ key \in [Threads -> Keys]
    /\ \A t, u \in Threads : key[t] = key[u]
    /\ lock = [t \in Threads |-> "none"]
    /\ got = [t \in Threads |-> 0]
    /\ fetches = [k \in Keys |-> [g \in Grants |-> 0]]
    /\ faults = 0 /\ overruns = 0

Online(t) == connected[Proc(t)]
GoTo(t, step) == pc' = [pc EXCEPT ![t] = step]
Fault == faults < MaxFaults /\ faults' = faults + 1
Overrun == overruns < MaxOverruns /\ overruns' = overruns + 1

\* Whether a fill of t is one of the fetches g; it begins, or is taken back.
Counts(t, g) == Online(t) /\ (g = "redis" => lock[t] = "redis")

FetchCounted(t) ==
    [k \in Keys |-> [g \in Grants |->
        IF k = key[t] /\ Counts(t, g) THEN fetches[k][g] + 1 ELSE fetches[k][g]]]
Uncounted(t) ==
    [k \in Keys |-> [g \in Grants |->
        IF k = key[t] /\ Counts(t, g) /\ fetches[k][g] > 0 THEN fetches[k][g] - 1 ELSE fetches[k][g]]]

MutFound(t, k, redis) == HasLive(local[Proc(t)], k)

\* get_json: what t finds, and what that does to the memory of its process.
Found(t, k, redis) ==
    \/ HasLive(local[Proc(t)], k)
    \/ redis /\ Online(t) /\ remote[k] > 0

LookedUp(t, k, redis) ==
    LET p == Proc(t)
        c == TouchLocal(local[p], k)
    IN  local' = [local EXCEPT ![p] =
            IF ~HasLive(local[p], k) /\ Found(t, k, redis) THEN StoreLocal(c, k, remote[k]) ELSE c]

\* A lookup when fill_json is called (it looks twice), with the lock, or while
\* another holds it.
AfterHit(t) == CASE pc[t] = "recheck" -> "release" [] OTHER -> "idle"
AfterMiss(t) == CASE pc[t] = "idle" -> "acquire" [] pc[t] = "recheck" -> "fill" [] pc[t] = "wait" -> "exists"

Lookup(t, k, redis) ==
    /\ pc[t] \in {"idle", "recheck", "wait"} /\ (pc[t] # "idle" => k = key[t])
    /\ key' = [key EXCEPT ![t] = k]
    /\ LookedUp(t, k, redis)
    /\ GoTo(t, IF Found(t, k, redis) THEN AfterHit(t) ELSE AfterMiss(t))
    /\ fetches' = IF pc[t] = "recheck" /\ ~Found(t, k, redis) THEN FetchCounted(t) ELSE fetches
    /\ UNCHANGED <<connected, remote, llock, rlock, lock, got, overruns>>

GetJson(t, k) == Lookup(t, k, TRUE) /\ UNCHANGED faults
GetJsonRedisError(t, k) == Online(t) /\ Fault /\ Lookup(t, k, FALSE)

\* _acquire_lock: SET NX; whoever does not get it goes on to the local lock.
AcquireRemote(t) ==
    /\ pc[t] = "acquire"
    /\ IF Online(t) /\ rlock[key[t]] = NoOne
       THEN /\ rlock' = [rlock EXCEPT ![key[t]] = t]
            /\ lock' = [lock EXCEPT ![t] = "redis"]
            /\ GoTo(t, "recheck")
       ELSE GoTo(t, "acquire_local") /\ UNCHANGED <<rlock, lock>>
    /\ UNCHANGED <<connected, local, remote, llock, key, got, fetches, faults, overruns>>

\* An error may hide that the lock was set.  The local lock gets the same token,
\* with which both are released; without it the Redis lock is left behind.
AcquireRemoteError(t) ==
    /\ pc[t] = "acquire" /\ Online(t) /\ Fault
    /\ \/ rlock[key[t]] = NoOne /\ rlock' = [rlock EXCEPT ![key[t]] = t]
       \/ UNCHANGED rlock
    /\ GoTo(t, "acquire_local")
    /\ UNCHANGED <<connected, local, remote, llock, key, lock, got, fetches, overruns>>

Abandoned(l, t) == IF l = t THEN Leaked ELSE l

LocalFree(t) == llock[Proc(t)][key[t]] = NoOne

AcquireLocal(t) ==
    /\ pc[t] = "acquire_local"
    /\ IF LocalFree(t)
       THEN /\ llock' = [llock EXCEPT ![Proc(t)][key[t]] = t]
            /\ lock' = [lock EXCEPT ![t] = "local"]
            /\ GoTo(t, "recheck") /\ UNCHANGED rlock
       ELSE /\ rlock' = [rlock EXCEPT ![key[t]] = Abandoned(@, t)]
            /\ GoTo(t, "wait") /\ UNCHANGED <<llock, lock>>
    /\ UNCHANGED <<connected, local, remote, key, got, fetches, faults, overruns>>

\* _lock_exists; the thread that finds no lock asks for it, the others sleep.
LockExists(t) ==
    /\ pc[t] = "exists"
    /\ LET held == IF Online(t) THEN rlock[key[t]] # NoOne ELSE ~LocalFree(t)
       IN  GoTo(t, IF held THEN "wait" ELSE "acquire")
    /\ UNCHANGED <<connected, local, remote, llock, rlock, key, lock, got, fetches, faults, overruns>>

LockExistsRedisError(t) ==
    /\ pc[t] = "exists" /\ Online(t) /\ Fault
    /\ GoTo(t, IF LocalFree(t) THEN "acquire" ELSE "wait")
    /\ UNCHANGED <<connected, local, remote, llock, rlock, key, lock, got, fetches, overruns>>

\* A caller that has waited long enough fills without a lock.
Deadline(t) ==
    /\ pc[t] = "wait" /\ Overrun
    /\ fetches' = FetchCounted(t)
    /\ GoTo(t, "fill")
    /\ UNCHANGED <<connected, local, remote, llock, rlock, key, lock, got, faults>>

Returned(t) == IF lock[t] = "none" THEN "idle" ELSE "release"

\* The request fails, or its answer may not be cached.
FillNotStored(t) ==
    /\ pc[t] = "fill" /\ Fault
    /\ fetches' = Uncounted(t)
    /\ GoTo(t, Returned(t))
    /\ UNCHANGED <<connected, local, remote, llock, rlock, key, lock, got, overruns>>

\* store_json: memory first, then Redis.
StoreInMemory(t) ==
    /\ pc[t] = "fill"
    /\ \E n \in Sizes : /\ got' = [got EXCEPT ![t] = n]
                        /\ local' = [local EXCEPT ![Proc(t)] = StoreLocal(@, key[t], n)]
    /\ GoTo(t, "store")
    /\ UNCHANGED <<connected, remote, llock, rlock, key, lock, fetches, faults, overruns>>

StoreInRedis(t) ==
    /\ pc[t] = "store"
    /\ remote' = IF Online(t) THEN [remote EXCEPT ![key[t]] = got[t]] ELSE remote
    /\ got' = [got EXCEPT ![t] = 0]
    /\ GoTo(t, Returned(t))
    /\ UNCHANGED <<connected, local, llock, rlock, key, lock, fetches, faults, overruns>>

StoreInRedisError(t) ==
    /\ pc[t] = "store" /\ Online(t) /\ Fault
    /\ got' = [got EXCEPT ![t] = 0]
    /\ GoTo(t, Returned(t))
    /\ UNCHANGED <<connected, local, remote, llock, rlock, key, lock, fetches, overruns>>

\* _release_lock deletes each lock that has the caller's token.  In Redis it
\* compares first and deletes then, whosever the lock is by that time.
MutUnlocked(l, t) == IF l = t THEN Leaked ELSE l

Unlocked(l, t) == IF l = t THEN NoOne ELSE l

LetGo(t) ==
    /\ llock' = [llock EXCEPT ![Proc(t)][key[t]] = Unlocked(@, t)]
    /\ lock' = [lock EXCEPT ![t] = "none"]
    /\ GoTo(t, "idle")

Release(t) ==
    /\ pc[t] = "release"
    /\ IF Online(t) /\ rlock[key[t]] = t THEN GoTo(t, "delete") /\ UNCHANGED <<llock, lock>>
       ELSE LetGo(t)
    /\ UNCHANGED <<connected, local, remote, rlock, key, got, fetches, faults, overruns>>

Delete(t) ==
    /\ pc[t] = "delete"
    /\ rlock' = [rlock EXCEPT ![key[t]] = NoOne]
    /\ LetGo(t)
    /\ UNCHANGED <<connected, local, remote, key, got, fetches, faults, overruns>>

\* An error keeps the lock, or hides that it was deleted.
ReleaseRedisError(t) ==
    /\ pc[t] \in {"release", "delete"} /\ Online(t) /\ Fault
    /\ \/ pc[t] = "delete" /\ rlock' = [rlock EXCEPT ![key[t]] = NoOne]
       \/ rlock' = [rlock EXCEPT ![key[t]] = Abandoned(@, t)]
    /\ LetGo(t)
    /\ UNCHANGED <<connected, local, remote, key, got, fetches, overruns>>

\* build_filing_index: an index that is not in memory comes from Redis or is
\* built, and is stored.
BuildFilingIndex(p) ==
    /\ local' = [local EXCEPT ![p] =
           IF HasLive(@, Index) THEN TouchLocal(@, Index)
           ELSE StoreLocal(TouchLocal(@, Index), Index, IndexSize)]
    /\ UNCHANGED <<connected, remote, llock, rlock, threadVars, fetches, faults, overruns>>

-----------------------------------------------------------------------------
(* Time.                                                                   *)

\* The lock's time is over, be its holder gone or still at work.
RedisLockExpires(k) ==
    /\ rlock[k] # NoOne
    /\ IF rlock[k] = Leaked THEN UNCHANGED overruns ELSE Overrun
    /\ rlock' = [rlock EXCEPT ![k] = NoOne]
    /\ UNCHANGED <<connected, local, remote, llock, threadVars, fetches, faults>>

\* An expired lock of a process is as good as none: the next caller replaces it.
LocalLockExpires(p, k) ==
    /\ llock[p][k] # NoOne /\ Overrun
    /\ llock' = [llock EXCEPT ![p][k] = NoOne]
    /\ UNCHANGED <<connected, local, remote, rlock, threadVars, fetches, faults>>

\* The fills of k that have not stored everywhere yet.
Filling(k, g) ==
    {t \in Threads : key[t] = k /\ Counts(t, g) /\ pc[t] \in {"fill", "store"}}
Running(k) == [g \in Grants |-> Cardinality(Filling(k, g))]

\* The payload's time is over, in a process or in Redis: from here on the
\* fetches of k are counted anew.
LocalExpires(p, k) ==
    /\ HasLive(local[p], k)
    /\ local' = [local EXCEPT ![p].lru =
           [i \in DOMAIN @ |-> IF @[i].key = k THEN [@[i] EXCEPT !.live = FALSE] ELSE @[i]]]
    /\ fetches' = [j \in Keys |-> IF j = k /\ connected[p] THEN Running(k) ELSE fetches[j]]
    /\ UNCHANGED <<connected, remote, llock, rlock, threadVars, faults, overruns>>

RedisExpires(k) ==
    /\ remote[k] > 0
    /\ remote' = [remote EXCEPT ![k] = 0]
    /\ fetches' = [fetches EXCEPT ![k] = Running(k)]
    /\ UNCHANGED <<connected, local, llock, rlock, threadVars, faults, overruns>>

\* A process dies and starts again with an empty memory, with or without Redis.
Crash(p) ==
    /\ Fault
    /\ \E b \in BOOLEAN : connected' = [connected EXCEPT ![p] = b]
    /\ local' = [local EXCEPT ![p] = Empty]
    /\ llock' = [llock EXCEPT ![p] = [k \in Keys |-> NoOne]]
    /\ rlock' = [k \in Keys |-> IF rlock[k] \in Threads /\ Proc(rlock[k]) = p THEN Leaked ELSE rlock[k]]
    /\ pc' = [t \in Threads |-> IF Proc(t) = p THEN "idle" ELSE pc[t]]
    /\ lock' = [t \in Threads |-> IF Proc(t) = p THEN "none" ELSE lock[t]]
    /\ got' = [t \in Threads |-> IF Proc(t) = p THEN 0 ELSE got[t]]
    /\ fetches' = [k \in Keys |-> [g \in Grants |-> Cardinality({t \in Filling(k, g) : Proc(t) # p})]]
    /\ UNCHANGED <<remote, key, overruns>>

Proceed(t) ==
    \/ \E k \in Keys : GetJson(t, k)
    \/ AcquireRemote(t) \/ AcquireLocal(t) \/ LockExists(t)
    \/ StoreInMemory(t) \/ StoreInRedis(t) \/ Release(t) \/ Delete(t)

RedisError(t) ==
    \/ \E k \in Keys : GetJsonRedisError(t, k)
    \/ AcquireRemoteError(t) \/ LockExistsRedisError(t)
    \/ StoreInRedisError(t) \/ ReleaseRedisError(t)

Next ==
    \/ \E t \in Threads : Proceed(t) \/ Deadline(t) \/ FillNotStored(t) \/ RedisError(t)
    \/ \E k \in Keys : RedisLockExpires(k) \/ RedisExpires(k)
    \/ \E p \in Procs : \/ BuildFilingIndex(p) \/ Crash(p)
                        \/ \E k \in Keys : LocalLockExpires(p, k)
                        \/ \E k \in Keys \cup {Index} : LocalExpires(p, k)

Spec == Init /\ [][Next]_vars

-----------------------------------------------------------------------------
(* Properties.                                                             *)

Pcs == {"idle", "acquire", "acquire_local", "recheck", "wait", "exists",
        "fill", "store", "release", "delete"}

\* The values of the variables.
TypeOK ==
    /\ \A p \in Procs : \A i \in DOMAIN local[p].lru :
           local[p].lru[i] \in [key : Keys \cup {Index}, size : Sizes \cup {IndexSize}, live : BOOLEAN]
    /\ connected \in [Procs -> BOOLEAN] /\ \A p \in Procs : local[p].bytes \in Nat
    /\ remote \in [Keys -> Sizes \cup {0}]
    /\ llock \in [Procs -> [Keys -> Threads \cup {NoOne}]]
    /\ rlock \in [Keys -> Threads \cup {NoOne, Leaked}]
    /\ pc \in [Threads -> Pcs] /\ key \in [Threads -> Keys]
    /\ lock \in [Threads -> {"none", "redis", "local"}]
    /\ got \in [Threads -> Sizes \cup {0}]
    /\ fetches \in [Keys -> [Grants -> Nat]] /\ faults \in 0..MaxFaults
    /\ overruns \in 0..MaxOverruns

\* The memory of a process stays within both limits, one entry per key, and
\* its byte count is that of the entries, through replacements, expired
\* entries, evictions and copies from Redis.
WithinLimits ==
    \A p \in Procs :
        /\ local[p].bytes = Bytes(local[p].lru)
        /\ Len(local[p].lru) <= MaxEntries /\ local[p].bytes <= MaxBytes
        /\ \A i, j \in DOMAIN local[p].lru : local[p].lru[i].key = local[p].lru[j].key => i = j

\* Single flight, as far as the code provides it.  While a payload is valid,
\* the Redis lock lets one connected process fetch it, and callers who find
\* that lock taken fetch it once in each process under the local one.  Each
\* fault, each lock that ends before its holder and each caller that gives up
\* waiting adds one fetch at most, a late DELETE of the lock that another has
\* by then included.  A process without Redis is not counted: it fetches again
\* what it had to evict or could not keep.
FetchesBounded ==
    \A k \in Keys :
        /\ fetches[k]["redis"] <= 1 + faults + overruns
        /\ fetches[k]["any"] <= 1 + Cardinality({p \in Procs : connected[p]}) + faults + overruns
============================================================================
