---------------------------- MODULE JobLifecycle ----------------------------
(***************************************************************************)
(* What the durable refresh queue promises to everything that watches a    *)
(* job (the SSE stream, the enqueuing route, the operator): one row per    *)
(* job whose status follows queued -> running -> completed/failed, back to *)
(* queued only when the lease of its claimant ran out, with an event       *)
(* number that grows by one per recorded event, and with at most one       *)
(* worker, the owner of the current claim, able to record anything for a   *)
(* running job.  RefreshQueue implements this specification.               *)
(***************************************************************************)
EXTENDS Naturals

CONSTANTS Jobs,       \* job identifiers
          Workers,    \* queue consumers
          NoWorker    \* "nobody owns the job"

VARIABLES status,     \* refresh_jobs.status, "none" before the row exists
          owner,      \* the worker that holds the current claim token
          sequence    \* refresh_jobs.event_sequence

vars == <<status, owner, sequence>>

ACTIVE_JOB_STATES == {"queued", "running"}
TERMINAL_JOB_STATES == {"completed", "failed"}
JobState == ACTIVE_JOB_STATES \cup TERMINAL_JOB_STATES \cup {"none"}

Init ==
    /\ status = [j \in Jobs |-> "none"]
    /\ owner = [j \in Jobs |-> NoWorker]
    /\ sequence = [j \in Jobs |-> 0]

\* A row is inserted together with its first event.
Create(j) ==
    /\ status[j] = "none"
    /\ status' = [status EXCEPT ![j] = "queued"]
    /\ sequence' = [sequence EXCEPT ![j] = 1]
    /\ UNCHANGED owner

\* A queued job gets exactly one owner.
Claim(j, w) ==
    /\ status[j] = "queued"
    /\ status' = [status EXCEPT ![j] = "running"]
    /\ owner' = [owner EXCEPT ![j] = w]
    /\ sequence' = [sequence EXCEPT ![j] = @ + 1]

\* Only the owner reports progress.
Progress(j, w) ==
    /\ owner[j] = w
    /\ sequence' = [sequence EXCEPT ![j] = @ + 1]
    /\ UNCHANGED <<status, owner>>

\* Only the owner finishes the job, and once.
Finish(j, w) ==
    /\ status[j] = "running" /\ owner[j] = w
    /\ \E s \in TERMINAL_JOB_STATES : status' = [status EXCEPT ![j] = s]
    /\ owner' = [owner EXCEPT ![j] = NoWorker]
    /\ sequence' = [sequence EXCEPT ![j] = @ + 1]

\* A worker that dies, or whose last write was lost, leaves its job running
\* without an owner.
Abandon(w) ==
    /\ owner' = [j \in Jobs |-> IF owner[j] = w THEN NoWorker ELSE owner[j]]
    /\ UNCHANGED <<status, sequence>>

\* Recovery returns running jobs to the queue and takes them from their owners.
Requeue(S) ==
    /\ \A j \in S : status[j] = "running"
    /\ status' = [j \in Jobs |-> IF j \in S THEN "queued" ELSE status[j]]
    /\ owner' = [j \in Jobs |-> IF j \in S THEN NoWorker ELSE owner[j]]
    /\ sequence' = [j \in Jobs |-> IF j \in S THEN sequence[j] + 1 ELSE sequence[j]]

Next ==
    \/ \E j \in Jobs : Create(j)
    \/ \E j \in Jobs, w \in Workers : Claim(j, w) \/ Progress(j, w) \/ Finish(j, w)
    \/ \E w \in Workers : Abandon(w)
    \/ \E S \in SUBSET Jobs : Requeue(S)

Spec == Init /\ [][Next]_vars
=============================================================================
