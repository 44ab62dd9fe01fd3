--------------------------- MODULE JobEventStream ---------------------------
(***************************************************************************)
(* How one browser follows one refresh job: the events the broker persists *)
(* and publishes (_record_event, _publish_realtime_event), the subscriber  *)
(* task of SharedStatusBroker.async_subscribe, the SSE handler             *)
(* stream_job_events and the EventSource of frontend/hooks/use-job-stream. *)
(*                                                                         *)
(* An event is its sequence number; the log gives the status it carries.   *)
(* A job's statuses follow JobLifecycle.  Every await of the task is a     *)
(* point where the others may run; between two awaits it runs alone.       *)
(***************************************************************************)
EXTENDS Integers, Sequences

CONSTANTS
    MaxEvents,    \* bound: events of the job
    QueueSize,    \* subscriber_queue_size
    RedisOn,      \* is an async Redis client configured
    FaultKinds,   \* "publish", "subscribe", "message", "database", "disconnect"
    MaxFaults     \* bound: number of faults

ASSUME StreamAssumption ==
    /\ MaxEvents \in Nat /\ QueueSize \in Nat \ {0} /\ MaxFaults \in Nat
    /\ RedisOn \in BOOLEAN
    /\ FaultKinds \subseteq {"publish", "subscribe", "message", "database", "disconnect"}

VARIABLES
    log,            \* refresh_job_events of the job: the status of each event
    unpublished,    \* events committed whose PUBLISH is still to come
    mailbox,        \* events Redis delivered to the task's pubsub connection
    task,           \* where the subscriber task is
    snapshot,       \* what _async_job_snapshot returned: status and event_sequence
    last_sequence,  \* last event the task has handled
    queue,          \* asyncio.Queue between the task and the handler
    backlog,        \* backlog events the handler has not sent yet
    source,         \* EventSource of the page
    events,         \* events the page has collected
    faults          \* faults left

serverVars == <<log, unpublished>>
taskVars == <<mailbox, task, snapshot, last_sequence>>
pageVars == <<source, events>>
vars == <<serverVars, taskVars, queue, backlog, pageVars, faults>>

Statuses == {"queued", "running", "completed", "failed"}
TERMINAL_JOB_STATES == {"completed", "failed"}
TaskStates == {"none", "subscribe", "wait", "fill", "recover", "poll", "emit", "over", "dead"}
Subscribed == {"wait", "fill", "recover"}

Numbers(m, n) == [i \in 1 .. n - m |-> m + i]       \* m+1, ..., n
Upto(n) == Numbers(0, n)
Terminal(i) == log[i] \in TERMINAL_JOB_STATES
Ended == log # <<>> /\ Terminal(Len(log))

Init ==
    /\ log = <<"queued">>
    /\ unpublished = IF RedisOn THEN {1} ELSE {}
    /\ mailbox = <<>>
    /\ task = "none"
    /\ snapshot = [status |-> "queued", sequence |-> 0]
    /\ last_sequence = 0
    /\ queue = <<>>
    /\ backlog = <<>>
    /\ source = "connecting"
    /\ events = <<>>
    /\ faults = MaxFaults

Fault(k) == k \in FaultKinds /\ faults > 0 /\ faults' = faults - 1

-----------------------------------------------------------------------------
(* The broker: claim, progress, requeue and the terminal event append to   *)
(* the log in a transaction; each publishes after its commit.              *)

NextStatuses(s) == IF s = "queued" THEN {"running"} ELSE Statuses

AppendEvent(s) ==
    /\ ~Ended
    /\ Len(log) < MaxEvents              \* bound
    /\ s \in NextStatuses(log[Len(log)])
    /\ log' = Append(log, s)
    /\ unpublished' = IF RedisOn THEN unpublished \cup {Len(log) + 1} ELSE unpublished
    /\ UNCHANGED <<taskVars, queue, backlog, pageVars, faults>>

\* Publishers are different processes, so publications may overtake each
\* other; only a connection that is subscribed gets the message.
Publish(i) ==
    /\ unpublished' = unpublished \ {i}
    /\ mailbox' = IF task \in Subscribed THEN Append(mailbox, i) ELSE mailbox
    /\ UNCHANGED <<log, task, snapshot, last_sequence, queue, backlog, pageVars, faults>>

\* The publisher dies before, or PUBLISH raises RedisError, which is swallowed.
PublishLost(i) ==
    /\ Fault("publish")
    /\ unpublished' = unpublished \ {i}
    /\ UNCHANGED <<log, taskVars, queue, backlog, pageVars>>

-----------------------------------------------------------------------------
(* The subscriber task.                                                     *)

\* put_nowait of each event; a full queue drops it silently.
MutCutOffByOne(ids) == IF Len(ids) < QueueSize THEN ids ELSE SubSeq(ids, 1, QueueSize - 1)
CutToQueueSize(ids) == IF Len(ids) <= QueueSize THEN ids ELSE SubSeq(ids, 1, QueueSize)

Offer(ids) == queue' = CutToQueueSize(queue \o ids)

\* async_list_events: the events with a sequence above n, in order
MutEventsFrom(n) == Numbers(n - 1, Len(log))
EventsAfter(n) == Numbers(n, Len(log))

\* async_subscribe: the backlog is read before the task subscribes.
Connect ==
    /\ source = "connecting"
    /\ source' = "open"
    /\ backlog' = EventsAfter(0)
    /\ last_sequence' = Len(log)
    /\ queue' = <<>>
    /\ mailbox' = <<>>
    /\ task' = "subscribe"
    /\ UNCHANGED <<serverVars, snapshot, events, faults>>

Subscribe ==
    /\ task = "subscribe"
    /\ task' = IF RedisOn THEN "wait" ELSE "poll"
    /\ UNCHANGED <<serverVars, mailbox, snapshot, last_sequence, queue, backlog, pageVars, faults>>

\* event.sequence > last_sequence + 1
MutNoGap(i) == FALSE
IsGap(i) == i > last_sequence + 1

\* A message: the next event is passed on, an old one ignored, and a gap is
\* filled from the database.
Receive ==
    LET i == Head(mailbox) IN
    /\ task = "wait" /\ mailbox # <<>>
    /\ mailbox' = Tail(mailbox)
    /\ \/ /\ IsGap(i)
          /\ task' = "fill"
          /\ UNCHANGED <<queue, last_sequence>>
       \/ /\ ~IsGap(i) /\ i > last_sequence
          /\ Offer(<<i>>)
          /\ last_sequence' = i
          /\ task' = IF Terminal(i) THEN "over" ELSE "wait"
       \/ /\ ~IsGap(i) /\ i <= last_sequence
          /\ UNCHANGED <<task, queue, last_sequence>>
    /\ UNCHANGED <<serverVars, snapshot, backlog, pageVars, faults>>

\* _emit_async_events_since: every event after last_sequence is passed on.
EmitSince ==
    /\ Offer(EventsAfter(last_sequence))
    /\ last_sequence' = Len(log)

\* The event that showed the gap is in the log, so it is passed on as well.
FillGap ==
    /\ task = "fill"
    /\ EmitSince
    /\ task' = IF Ended THEN "over" ELSE "wait"
    /\ UNCHANGED <<serverVars, mailbox, snapshot, backlog, pageVars, faults>>

\* Nothing was received and the recovery interval is over.
MutNoRecovery == FALSE
RecoveryDue == task = "wait" /\ mailbox = <<>>

\* _async_job_snapshot, when no message came for the recovery interval, or on
\* every poll without Redis
TakeSnapshot ==
    /\ \/ RecoveryDue /\ task' = "recover"
       \/ task = "poll" /\ task' = "emit"
    /\ snapshot' = [status |-> log[Len(log)], sequence |-> Len(log)]
    /\ UNCHANGED <<serverVars, mailbox, last_sequence, queue, backlog, pageVars, faults>>

\* Nothing new in the snapshot, or the events since; done when a terminal
\* status was in the snapshot and everything up to it is passed on.  Recovery
\* also stops at a terminal event it met after the snapshot.
UseSnapshot ==
    /\ task \in {"recover", "emit"}
    /\ IF snapshot.sequence > last_sequence THEN EmitSince
                                            ELSE UNCHANGED <<queue, last_sequence>>
    /\ task' = IF \/ snapshot.status \in TERMINAL_JOB_STATES
                  \/ task = "recover" /\ snapshot.sequence > last_sequence /\ Ended
                 THEN "over"
               ELSE IF task = "recover" THEN "wait" ELSE "poll"
    /\ UNCHANGED <<serverVars, mailbox, snapshot, backlog, pageVars, faults>>

\* get_message raises RedisError: the task goes on by polling.
MessageError ==
    /\ Fault("message")
    /\ task = "wait"
    /\ task' = "poll"
    /\ mailbox' = <<>>
    /\ UNCHANGED <<serverVars, snapshot, last_sequence, queue, backlog, pageVars>>

\* pubsub.subscribe raises: no handler catches it and the task is gone.
SubscribeError ==
    /\ Fault("subscribe")
    /\ RedisOn /\ task = "subscribe"
    /\ task' = "dead"
    /\ UNCHANGED <<serverVars, mailbox, snapshot, last_sequence, queue, backlog, pageVars>>

\* The database fails under the task: a failed snapshot reads as "no such job"
\* and ends it, a failed list of events escapes from it.
DatabaseError ==
    /\ Fault("database")
    /\ task \in {"fill", "recover", "poll", "emit"} \/ RecoveryDue
    /\ task' = "dead"
    /\ UNCHANGED <<serverVars, mailbox, snapshot, last_sequence, queue, backlog, pageVars>>

\* The database fails under async_subscribe: has_job reads it as "no such job"
\* and the handler answers 404, a failed list of events gives 500; a browser
\* does not retry either, and onerror leaves the page in state "error".
ConnectError ==
    /\ Fault("database")
    /\ source = "connecting"
    /\ source' = "error"
    /\ UNCHANGED <<serverVars, taskVars, queue, backlog, events>>

-----------------------------------------------------------------------------
(* The SSE handler and the page.                                            *)

\* unsubscribe and the end of the response
Close ==
    /\ task' = "none"
    /\ mailbox' = <<>>
    /\ queue' = <<>>
    /\ backlog' = <<>>

\* appendEvent: an event the page has already is dropped.
Collect(i) == events' = IF \E n \in DOMAIN events : events[n] = i THEN events
                                                                  ELSE Append(events, i)

\* The handler sends one event, the page collects it; a terminal one closes
\* the response and the EventSource.  An event lost on a broken connection is
\* a Disconnect before its Send: the next connection starts over.
Send ==
    /\ source = "open"
    /\ backlog \o queue # <<>>
    /\ LET i == Head(backlog \o queue) IN
         /\ Collect(i)
         /\ IF Terminal(i)
              THEN source' = "closed" /\ Close
              ELSE /\ backlog' = IF backlog # <<>> THEN Tail(backlog) ELSE backlog
                   /\ queue' = IF backlog # <<>> THEN queue ELSE Tail(queue)
                   /\ UNCHANGED <<source, task, mailbox>>
    /\ UNCHANGED <<serverVars, snapshot, last_sequence, faults>>

\* The connection breaks; the browser's EventSource connects again.
Disconnect ==
    /\ Fault("disconnect")
    /\ source = "open"
    /\ source' = "connecting"
    /\ Close
    /\ UNCHANGED <<serverVars, snapshot, last_sequence, events>>

-----------------------------------------------------------------------------
TaskProceeds == Subscribe \/ Receive \/ FillGap \/ TakeSnapshot \/ UseSnapshot

Next ==
    \/ \E s \in Statuses : AppendEvent(s)
    \/ \E i \in unpublished : Publish(i) \/ PublishLost(i)
    \/ Connect \/ TaskProceeds \/ Send
    \/ MessageError \/ SubscribeError \/ DatabaseError \/ ConnectError \/ Disconnect

Spec == Init /\ [][Next]_vars

(***************************************************************************)
(* Fairness: the event loop runs the task and the handler, timers fire,    *)
(* and the browser reconnects.  Nothing is assumed of the publishers.      *)
(***************************************************************************)
FairSpec == Spec /\ WF_vars(Connect) /\ WF_vars(TaskProceeds) /\ WF_vars(Send)

-----------------------------------------------------------------------------
(* Properties.                                                              *)

\* Type correctness; whatever is published, queued or shown is an event of the
\* log, and the subscriber queue keeps its bound.
TypeOK ==
    /\ log \in Seq(Statuses)
    /\ unpublished \subseteq 1 .. Len(log)
    /\ mailbox \in Seq(1 .. Len(log))
    /\ task \in TaskStates
    /\ snapshot \in [status : Statuses, sequence : 0 .. Len(log)]
    /\ last_sequence \in 0 .. Len(log)
    /\ queue \in Seq(1 .. Len(log)) /\ Len(queue) <= QueueSize
    /\ backlog \in Seq(1 .. Len(log))
    /\ source \in {"connecting", "open", "closed", "error"}
    /\ events \in Seq(1 .. Len(log))
    /\ faults \in 0 .. MaxFaults

\* The page has the events in order, each once and without a gap, whatever was
\* lost, delayed or reordered by pub/sub, filled from the database or sent
\* again after a reconnect.
PageSeesPrefix == events = Upto(Len(events))

\* The task ends by itself only when the terminal event is on its way.
TaskEndsWithTerminal ==
    task = "over" => Ended /\ \E n \in DOMAIN (backlog \o queue) : (backlog \o queue)[n] = Len(log)

\* A page that follows a job learns that it ended, or that it cannot be
\* followed, unless a subscribe or a database error took its task away: lost
\* publications and messages, and reconnects, only delay it.
TerminalDelivered == Ended ~> source \in {"closed", "error"} \/ task = "dead"

=============================================================================
