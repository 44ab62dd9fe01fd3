------------------------ MODULE JobEventStreamProofs ------------------------
(***************************************************************************)
(* Proofs that a page collects the events of a job in order and without a  *)
(* gap, and that a subscriber task ends with the terminal event only, for  *)
(* every number of events the subscriber queue can hold and every number   *)
(* of faults.                                                              *)
(***************************************************************************)
EXTENDS JobEventStream, SequenceTheorems, TLAPS

-----------------------------------------------------------------------------
(* Runs of sequence numbers.                                               *)

LEMMA NumbersAre ==
    ASSUME NEW m \in Nat, NEW n \in Nat, m <= n
    PROVE  /\ Numbers(m, n) \in Seq(Nat) /\ Len(Numbers(m, n)) = n - m
           /\ \A i \in 1 .. n - m : Numbers(m, n)[i] = m + i
           /\ \A l \in Nat : n <= l => Numbers(m, n) \in Seq(1 .. l)
<1>1. n - m \in Nat /\ \A i \in 1 .. n - m : m + i \in Nat
  OBVIOUS
<1>2. Numbers(m, n) = [i \in 1 .. n - m |-> m + i]
  BY DEF Numbers
<1>3. ASSUME NEW l \in Nat, n <= l PROVE Numbers(m, n) \in Seq(1 .. l)
  BY <1>1, <1>2, <1>3
<1>. QED
  BY <1>1, <1>2, <1>3

LEMMA NumbersNone ==
    ASSUME NEW m \in Nat PROVE Numbers(m, m) = <<>>
<1>1. Numbers(m, m) \in Seq(Nat) /\ Len(Numbers(m, m)) = 0
  BY NumbersAre
<1>. QED
  BY <1>1

LEMMA NumbersFirst ==
    ASSUME NEW m \in Nat, NEW n \in Nat, m < n
    PROVE  /\ Numbers(m, n) # <<>> /\ Head(Numbers(m, n)) = m + 1
           /\ Tail(Numbers(m, n)) = Numbers(m + 1, n)
<1>1. /\ Numbers(m, n) \in Seq(Nat) /\ Len(Numbers(m, n)) = n - m
      /\ \A i \in 1 .. n - m : Numbers(m, n)[i] = m + i
  BY NumbersAre
<1>2. /\ Numbers(m + 1, n) \in Seq(Nat) /\ Len(Numbers(m + 1, n)) = n - m - 1
      /\ \A i \in 1 .. n - m - 1 : Numbers(m + 1, n)[i] = m + 1 + i
  BY NumbersAre
<1>3. Numbers(m, n) # <<>> /\ Head(Numbers(m, n)) = m + 1
  BY <1>1
<1>4. /\ Tail(Numbers(m, n)) \in Seq(Nat) /\ Len(Tail(Numbers(m, n))) = n - m - 1
      /\ \A i \in 1 .. n - m - 1 : Tail(Numbers(m, n))[i] = m + 1 + i
  BY <1>1, <1>3
<1>5. Tail(Numbers(m, n)) = Numbers(m + 1, n)
  BY <1>2, <1>4, SeqEqual
<1>. QED
  BY <1>3, <1>5

LEMMA NumbersJoin ==
    ASSUME NEW m \in Nat, NEW n \in Nat, NEW q \in Nat, m <= n, n <= q
    PROVE  Numbers(m, n) \o Numbers(n, q) = Numbers(m, q)
<1>. DEFINE J == Numbers(m, n) \o Numbers(n, q)
<1>1. /\ Numbers(m, n) \in Seq(Nat) /\ Len(Numbers(m, n)) = n - m
      /\ \A i \in 1 .. n - m : Numbers(m, n)[i] = m + i
  BY NumbersAre
<1>2. /\ Numbers(n, q) \in Seq(Nat) /\ Len(Numbers(n, q)) = q - n
      /\ \A i \in 1 .. q - n : Numbers(n, q)[i] = n + i
  BY NumbersAre
<1>3. /\ Numbers(m, q) \in Seq(Nat) /\ Len(Numbers(m, q)) = q - m
      /\ \A i \in 1 .. q - m : Numbers(m, q)[i] = m + i
  BY NumbersAre
<1>4. J \in Seq(Nat) /\ Len(J) = q - m
  <2>1. J \in Seq(Nat) /\ Len(J) = Len(Numbers(m, n)) + Len(Numbers(n, q))
    BY <1>1, <1>2, ConcatProperties
  <2>. QED
    BY <1>1, <1>2, <2>1
<1>5. \A i \in 1 .. q - m : J[i] = IF i <= n - m THEN Numbers(m, n)[i] ELSE Numbers(n, q)[i - (n - m)]
  BY <1>1, <1>2, ConcatProperties
<1>6. ASSUME NEW i \in 1 .. q - m PROVE J[i] = m + i
  <2>1. CASE i <= n - m
    BY <1>1, <1>5, <2>1
  <2>2. CASE ~(i <= n - m)
    <3>1. i - (n - m) \in 1 .. q - n /\ n + (i - (n - m)) = m + i
      BY <2>2
    <3>2. Numbers(n, q)[i - (n - m)] = n + (i - (n - m))
      BY <1>2, <3>1
    <3>. QED
      BY <1>5, <2>2, <3>1, <3>2
  <2>. QED
    BY <2>1, <2>2
<1>. HIDE DEF J
<1>7. J = Numbers(m, q)
  BY <1>3, <1>4, <1>6, SeqEqual
<1>. QED
  BY <1>7 DEF J

LEMMA NumbersOne ==
    ASSUME NEW n \in Nat PROVE <<n + 1>> = Numbers(n, n + 1)
<1>1. /\ Numbers(n, n + 1) \in Seq(Nat) /\ Len(Numbers(n, n + 1)) = 1
      /\ Numbers(n, n + 1)[1] = n + 1
  <2>1. n + 1 \in Nat /\ n <= n + 1 /\ (n + 1) - n = 1 /\ 1 \in 1 .. 1
    OBVIOUS
  <2>2. /\ Numbers(n, n + 1) \in Seq(Nat) /\ Len(Numbers(n, n + 1)) = (n + 1) - n
        /\ \A i \in 1 .. (n + 1) - n : Numbers(n, n + 1)[i] = n + i
    BY <2>1, NumbersAre
  <2>. QED
    BY <2>1, <2>2
<1>2. <<n + 1>> \in Seq(Nat) /\ Len(<<n + 1>>) = 1 /\ <<n + 1>>[1] = n + 1
  OBVIOUS
<1>3. \A i \in 1 .. Len(<<n + 1>>) : <<n + 1>>[i] = Numbers(n, n + 1)[i]
  BY <1>1, <1>2
<1>. QED
  BY <1>1, <1>2, <1>3, SeqEqual

LEMMA NumbersNext ==
    ASSUME NEW m \in Nat, NEW n \in Nat, m <= n
    PROVE  /\ Numbers(m, n) \o <<n + 1>> = Numbers(m, n + 1)
           /\ Append(Numbers(m, n), n + 1) = Numbers(m, n + 1)
<1>1. Numbers(n, n + 1) = <<n + 1>>
  BY NumbersOne
<1>2. Numbers(m, n) \o Numbers(n, n + 1) = Numbers(m, n + 1)
  <2>1. n + 1 \in Nat /\ n <= n + 1
    OBVIOUS
  <2>. QED
    BY <2>1, NumbersJoin
<1>3. Append(Numbers(m, n), n + 1) = Numbers(m, n) \o <<n + 1>>
  <2>1. Numbers(m, n) \in Seq(Nat) /\ n + 1 \in Nat
    BY NumbersAre
  <2>. QED
    BY <2>1, AppendIsConcat
<1>. QED
  BY <1>1, <1>2, <1>3

-----------------------------------------------------------------------------
(* The inductive invariant: what the handler has not sent yet, the backlog *)
(* and then the queue, is a run of sequence numbers that ends with the     *)
(* last event the task has handled and starts where the page can go on.    *)

Pending(k, m) ==
    /\ k <= m /\ m <= last_sequence /\ k <= Len(events)
    /\ backlog = Numbers(k, m) /\ queue = Numbers(m, last_sequence)

StreamTyped ==
    /\ log \in Seq(Statuses) /\ log # <<>> /\ Len(log) <= MaxEvents
    /\ unpublished \subseteq 1 .. Len(log)
    /\ mailbox \in Seq(1 .. Len(log))
    /\ task \in TaskStates
    /\ snapshot \in [status : Statuses, sequence : 0 .. Len(log)]
    /\ last_sequence \in 0 .. Len(log)
    /\ source \in {"connecting", "open", "closed", "error"}
    /\ faults \in 0 .. MaxFaults

PageInOrder ==
    /\ events \in Seq(Nat) /\ Len(events) <= Len(log)
    /\ events = Upto(Len(events))

InOrder ==
    /\ source = "open" => \E k, m \in Nat : Pending(k, m)
    /\ source # "open" => task = "none" /\ backlog = <<>> /\ queue = <<>>

StreamInv == StreamTyped /\ PageInOrder /\ InOrder

LEMMA InitStream ==
    ASSUME MaxEvents \in 1 .. QueueSize PROVE Init => StreamInv
<1>. SUFFICES ASSUME Init PROVE StreamInv
  OBVIOUS
<1>1. log \in Seq(Statuses) /\ Len(log) = 1 /\ log # <<>>
  BY DEF Init, Statuses
<1>2. mailbox \in Seq(1 .. Len(log)) /\ events \in Seq(Nat) /\ Len(events) = 0
  BY DEF Init
<1>3. unpublished \subseteq 1 .. Len(log)
  BY <1>1 DEF Init
<1>4. snapshot \in [status : Statuses, sequence : 0 .. Len(log)]
  BY <1>1 DEF Init, Statuses
<1>5. StreamTyped
  BY <1>1, <1>2, <1>3, <1>4, StreamAssumption DEF Init, StreamTyped, TaskStates
<1>6. events = Upto(Len(events))
  BY <1>2, NumbersNone DEF Init, Upto
<1>7. PageInOrder
  BY <1>1, <1>2, <1>6 DEF PageInOrder
<1>8. InOrder
  BY DEF Init, InOrder
<1>. QED
  BY <1>5, <1>7, <1>8 DEF StreamInv

\* The queue is long enough for every event of the job.
LEMMA QueueHolds ==
    ASSUME MaxEvents \in 1 .. QueueSize, StreamInv, NEW m \in Nat, NEW n \in Nat, m <= n, n <= Len(log)
    PROVE  CutToQueueSize(Numbers(m, n)) = Numbers(m, n)
<1>1. Len(Numbers(m, n)) = n - m
  BY NumbersAre
<1>2. n - m <= QueueSize
  <2>1. Len(log) \in Nat /\ Len(log) <= MaxEvents
    BY DEF StreamInv, StreamTyped
  <2>. QED
    BY <2>1, StreamAssumption
<1>. QED
  BY <1>1, <1>2 DEF CutToQueueSize

\* The task hands on the events up to n.
LEMMA HandsOn ==
    ASSUME MaxEvents \in 1 .. QueueSize, StreamInv, source = "open",
           NEW n \in Nat, last_sequence <= n, n <= Len(log),
           Offer(Numbers(last_sequence, n)), last_sequence' = n,
           UNCHANGED <<log, backlog, source, events>>
    PROVE  InOrder'
<1>1. PICK k \in Nat, m \in Nat : Pending(k, m)
  BY DEF StreamInv, InOrder
<1>2. last_sequence \in Nat
  BY DEF StreamInv, StreamTyped
<1>3. queue \o Numbers(last_sequence, n) = Numbers(m, n)
  BY <1>1, <1>2, NumbersJoin DEF Pending
<1>4. m <= n
  BY <1>1, <1>2 DEF Pending
<1>5. queue' = Numbers(m, n)
  BY <1>3, <1>4, QueueHolds DEF Offer
<1>6. Pending(k, m)'
  BY <1>1, <1>4, <1>5 DEF Pending
<1>. QED
  BY <1>6 DEF InOrder

LEMMA TaskIsOpen ==
    ASSUME StreamInv, task # "none" PROVE source = "open"
  BY DEF StreamInv, InOrder

\* The log does not change.
LEMMA SameLog ==
    ASSUME StreamInv, UNCHANGED <<log, events>> PROVE PageInOrder'
  BY DEF StreamInv, PageInOrder

LEMMA SamePending ==
    ASSUME StreamInv, UNCHANGED <<queue, backlog, source, events, last_sequence>>,
           source # "open" => task' = "none"
    PROVE  InOrder'
<1>1. source = "open" => \E k, m \in Nat : Pending(k, m)'
  BY DEF StreamInv, InOrder, Pending
<1>. QED
  BY <1>1 DEF StreamInv, InOrder

\* What is needed of a step that leaves the log alone.
LEMMA TypedStep ==
    ASSUME StreamInv, UNCHANGED log,
           unpublished' \subseteq unpublished,
           mailbox' \in Seq(1 .. Len(log)),
           task' \in TaskStates,
           snapshot' \in [status : Statuses, sequence : 0 .. Len(log)],
           last_sequence' \in 0 .. Len(log),
           source' \in {"connecting", "open", "closed", "error"},
           faults' \in 0 .. MaxFaults
    PROVE  StreamTyped'
  BY DEF StreamInv, StreamTyped

LEMMA FaultTyped ==
    ASSUME StreamInv, NEW k, Fault(k) PROVE faults' \in 0 .. MaxFaults
  BY StreamAssumption DEF StreamInv, StreamTyped, Fault

LEMMA LogTyped ==
    ASSUME StreamInv
    PROVE  /\ Len(log) \in Nat /\ 1 <= Len(log) /\ log[Len(log)] \in Statuses
           /\ last_sequence \in Nat /\ last_sequence <= Len(log)
           /\ <<>> \in Seq(1 .. Len(log))
<1>1. log \in Seq(Statuses) /\ log # <<>>
  BY DEF StreamInv, StreamTyped
<1>2. Len(log) \in Nat /\ 1 <= Len(log)
  BY <1>1
<1>3. log[Len(log)] \in Statuses
  BY <1>1, <1>2
<1>4. last_sequence \in Nat /\ last_sequence <= Len(log)
  BY DEF StreamInv, StreamTyped
<1>. QED
  BY <1>2, <1>3, <1>4

LEMMA AppendEventInv ==
    ASSUME StreamInv, NEW s \in Statuses, AppendEvent(s) PROVE StreamInv'
<1>1. log' = Append(log, s) /\ Len(log) < MaxEvents
      /\ UNCHANGED <<mailbox, task, snapshot, last_sequence, queue, backlog, source, events, faults>>
  BY DEF AppendEvent, taskVars, pageVars
<1>2. log' \in Seq(Statuses) /\ log' # <<>> /\ Len(log') = Len(log) + 1
  BY <1>1 DEF StreamInv, StreamTyped
<1>3. Len(log) \in Nat /\ 1 .. Len(log) \subseteq 1 .. Len(log') /\ 0 .. Len(log) \subseteq 0 .. Len(log')
  BY <1>2, LogTyped
<1>4. unpublished' \subseteq 1 .. Len(log')
  <2>1. unpublished' \subseteq unpublished \cup {Len(log) + 1}
    BY DEF AppendEvent
  <2>2. Len(log) + 1 \in 1 .. Len(log')
    BY <1>2, <1>3
  <2>3. unpublished \subseteq 1 .. Len(log)
    BY DEF StreamInv, StreamTyped
  <2>. QED
    BY <1>3, <2>1, <2>2, <2>3
<1>5. mailbox' \in Seq(1 .. Len(log'))
  BY <1>1, <1>3 DEF StreamInv, StreamTyped
<1>6. snapshot' \in [status : Statuses, sequence : 0 .. Len(log')]
      /\ last_sequence' \in 0 .. Len(log') /\ Len(log') <= MaxEvents
  BY <1>1, <1>2, <1>3, StreamAssumption DEF StreamInv, StreamTyped
<1>7. StreamTyped'
  BY <1>1, <1>2, <1>4, <1>5, <1>6 DEF StreamInv, StreamTyped
<1>8. PageInOrder'
  BY <1>1, <1>2, <1>3 DEF StreamInv, PageInOrder
<1>9. InOrder'
  BY <1>1, SamePending DEF StreamInv, InOrder
<1>. QED
  BY <1>7, <1>8, <1>9 DEF StreamInv

LEMMA PublishInv ==
    ASSUME StreamInv, NEW i \in unpublished, Publish(i) \/ PublishLost(i) PROVE StreamInv'
<1>1. UNCHANGED <<log, task, snapshot, last_sequence, queue, backlog, source, events>>
      /\ unpublished' = unpublished \ {i}
  BY DEF Publish, PublishLost, taskVars, pageVars
<1>2. mailbox' \in Seq(1 .. Len(log))
  <2>1. i \in 1 .. Len(log) /\ mailbox \in Seq(1 .. Len(log))
    BY DEF StreamInv, StreamTyped
  <2>2. mailbox' = mailbox \/ mailbox' = Append(mailbox, i)
    BY DEF Publish, PublishLost, taskVars
  <2>. QED
    BY <2>1, <2>2
<1>3. faults' \in 0 .. MaxFaults
  BY FaultTyped DEF Publish, PublishLost, StreamInv, StreamTyped
<1>4. StreamTyped'
  BY <1>1, <1>2, <1>3, TypedStep DEF StreamInv, StreamTyped
<1>5. PageInOrder' /\ InOrder'
  BY <1>1, SameLog, SamePending DEF StreamInv, InOrder
<1>. QED
  BY <1>4, <1>5 DEF StreamInv

LEMMA ConnectInv ==
    ASSUME StreamInv, Connect PROVE StreamInv'
<1>1. /\ source' = "open" /\ backlog' = Numbers(0, Len(log)) /\ last_sequence' = Len(log)
      /\ queue' = <<>> /\ mailbox' = <<>> /\ task' = "subscribe"
      /\ UNCHANGED <<log, unpublished, snapshot, events, faults>>
  BY DEF Connect, EventsAfter, serverVars
<1>2. StreamTyped'
  BY <1>1, LogTyped, TypedStep DEF StreamInv, StreamTyped, TaskStates
<1>3. PageInOrder'
  BY <1>1, SameLog
<1>4. Numbers(Len(log), Len(log)) = <<>>
  BY LogTyped, NumbersNone
<1>5. Pending(0, Len(log))'
  BY <1>1, <1>4, LogTyped DEF Pending, StreamInv, PageInOrder
<1>6. InOrder'
  <2>1. \E k, m \in Nat : Pending(k, m)'
    BY <1>1, <1>5, LogTyped DEF Pending
  <2>. QED
    BY <1>1, <2>1 DEF InOrder
<1>. QED
  BY <1>2, <1>3, <1>6 DEF StreamInv

\* Steps of the task that pass nothing on.
LEMMA QuietTaskInv ==
    ASSUME StreamInv,
           Subscribe \/ TakeSnapshot \/ MessageError \/ SubscribeError \/ DatabaseError
    PROVE  StreamInv'
<1>1. UNCHANGED <<log, unpublished, last_sequence, queue, backlog, source, events>>
  BY DEF Subscribe, TakeSnapshot, MessageError, SubscribeError, DatabaseError, serverVars, pageVars
<1>2. task # "none" /\ task' \in TaskStates
  BY DEF Subscribe, TakeSnapshot, MessageError, SubscribeError, DatabaseError, TaskStates, RecoveryDue
<1>3. mailbox' \in Seq(1 .. Len(log))
  BY LogTyped DEF Subscribe, TakeSnapshot, MessageError, SubscribeError, DatabaseError, StreamInv,
     StreamTyped
<1>4. snapshot' \in [status : Statuses, sequence : 0 .. Len(log)]
  BY LogTyped DEF Subscribe, TakeSnapshot, MessageError, SubscribeError, DatabaseError, StreamInv,
     StreamTyped
<1>5. faults' \in 0 .. MaxFaults
  BY FaultTyped DEF Subscribe, TakeSnapshot, MessageError, SubscribeError, DatabaseError, StreamInv,
     StreamTyped
<1>6. StreamTyped'
  BY <1>1, <1>2, <1>3, <1>4, <1>5, TypedStep DEF StreamInv, StreamTyped
<1>7. PageInOrder' /\ InOrder'
  BY <1>1, <1>2, TaskIsOpen, SameLog, SamePending
<1>. QED
  BY <1>6, <1>7 DEF StreamInv

LEMMA ReceiveInv ==
    ASSUME MaxEvents \in 1 .. QueueSize, StreamInv, Receive PROVE StreamInv'
<1>. DEFINE i == Head(mailbox)
<1>1. task = "wait" /\ mailbox # <<>> /\ mailbox' = Tail(mailbox) /\ source = "open"
      /\ UNCHANGED <<log, unpublished, snapshot, backlog, source, events, faults>>
  BY TaskIsOpen DEF Receive, serverVars, pageVars
<1>2. i \in 1 .. Len(log) /\ mailbox' \in Seq(1 .. Len(log))
  BY <1>1 DEF StreamInv, StreamTyped
<1>3. task' \in TaskStates
  BY DEF Receive, TaskStates
<1>. HIDE DEF i
<1>4. CASE UNCHANGED <<queue, last_sequence>>
  <2>1. StreamTyped'
    BY <1>1, <1>2, <1>3, <1>4, TypedStep DEF StreamInv, StreamTyped
  <2>. QED
    BY <1>1, <1>4, <2>1, SameLog, SamePending DEF StreamInv
<1>5. CASE ~IsGap(i) /\ i > last_sequence /\ Offer(<<i>>) /\ last_sequence' = i
  <2>1. i = last_sequence + 1 /\ i \in Nat /\ i <= Len(log) /\ last_sequence \in Nat /\ last_sequence <= i
    BY <1>2, <1>5, LogTyped DEF IsGap
  <2>2. <<i>> = Numbers(last_sequence, i)
    BY <2>1, NumbersOne
  <2>3. InOrder'
    BY <1>1, <1>5, <2>1, <2>2, HandsOn
  <2>4. StreamTyped'
    BY <1>1, <1>2, <1>3, <1>5, <2>1, TypedStep DEF StreamInv, StreamTyped
  <2>. QED
    BY <1>1, <2>3, <2>4, SameLog DEF StreamInv
<1>. QED
  BY <1>4, <1>5 DEF Receive, i

\* _emit_async_events_since.
LEMMA EmitInv ==
    ASSUME MaxEvents \in 1 .. QueueSize, StreamInv, source = "open", EmitSince,
           task' \in TaskStates,
           UNCHANGED <<log, unpublished, mailbox, snapshot, backlog, source, events, faults>>
    PROVE  StreamInv'
<1>1. InOrder'
  BY LogTyped, HandsOn DEF EmitSince, EventsAfter
<1>2. StreamTyped'
  BY LogTyped, TypedStep DEF EmitSince, StreamInv, StreamTyped
<1>. QED
  BY <1>1, <1>2, SameLog DEF StreamInv

LEMMA FillGapInv ==
    ASSUME MaxEvents \in 1 .. QueueSize, StreamInv, FillGap PROVE StreamInv'
<1>1. task' \in TaskStates /\ source = "open"
  BY TaskIsOpen DEF FillGap, TaskStates
<1>. QED
  BY <1>1, EmitInv DEF FillGap, serverVars, pageVars

LEMMA UseSnapshotInv ==
    ASSUME MaxEvents \in 1 .. QueueSize, StreamInv, UseSnapshot PROVE StreamInv'
<1>1. task' \in TaskStates /\ source = "open"
      /\ UNCHANGED <<log, unpublished, mailbox, snapshot, backlog, source, events, faults>>
  BY TaskIsOpen DEF UseSnapshot, TaskStates, serverVars, pageVars
<1>2. CASE EmitSince
  BY <1>1, <1>2, EmitInv
<1>3. CASE UNCHANGED <<queue, last_sequence>>
  <2>1. StreamTyped'
    BY <1>1, <1>3, TypedStep DEF StreamInv, StreamTyped
  <2>. QED
    BY <1>1, <1>3, <2>1, SameLog, SamePending DEF StreamInv
<1>. QED
  BY <1>2, <1>3 DEF UseSnapshot

\* The response ends and nothing is pending any more.
LEMMA CloseInv ==
    ASSUME StreamInv, Close, source' \in {"connecting", "closed"}, faults' \in 0 .. MaxFaults,
           UNCHANGED <<log, unpublished, snapshot, last_sequence>>
    PROVE  StreamTyped' /\ InOrder'
<1>1. StreamTyped'
  BY LogTyped, TypedStep DEF Close, StreamInv, StreamTyped, TaskStates
<1>2. InOrder'
  BY DEF Close, InOrder
<1>. QED
  BY <1>1, <1>2

LEMMA DisconnectInv ==
    ASSUME StreamInv, Disconnect \/ ConnectError PROVE StreamInv'
<1>1. CASE Disconnect
  <2>1. faults' \in 0 .. MaxFaults
    BY <1>1, FaultTyped DEF Disconnect
  <2>. QED
    BY <1>1, <2>1, CloseInv, SameLog DEF Disconnect, serverVars, StreamInv
<1>2. CASE ConnectError
  <2>1. faults' \in 0 .. MaxFaults
    BY <1>2, FaultTyped DEF ConnectError
  <2>2. UNCHANGED <<log, unpublished, mailbox, task, snapshot, last_sequence, queue, backlog, events>>
        /\ source = "connecting" /\ source' = "error"
    BY <1>2 DEF ConnectError, serverVars, taskVars
  <2>3. StreamTyped'
    BY <2>1, <2>2, TypedStep DEF StreamInv, StreamTyped
  <2>4. InOrder'
    BY <2>2 DEF StreamInv, InOrder
  <2>. QED
    BY <2>2, <2>3, <2>4, SameLog DEF StreamInv
<1>. QED
  BY <1>1, <1>2

\* The next event is one the page has, or the one after those.
LEMMA CollectInOrder ==
    ASSUME StreamInv, NEW k \in Nat, NEW n \in Nat, n = Len(events), k <= n, k + 1 <= Len(log),
           Collect(k + 1), UNCHANGED log
    PROVE  PageInOrder' /\ k + 1 <= Len(events')
<1>1. events = Numbers(0, n) /\ events \in Seq(Nat) /\ n <= Len(log) /\ 0 <= n
  BY DEF StreamInv, PageInOrder, Upto
<1>2. \A i \in 1 .. n : events[i] = i
  <2>1. \A i \in 1 .. n - 0 : Numbers(0, n)[i] = 0 + i
    BY <1>1, NumbersAre
  <2>. QED
    BY <1>1, <2>1
<1>3. DOMAIN events = 1 .. n
  BY <1>1
<1>4. CASE k < n
  <2>1. k + 1 \in DOMAIN events /\ events[k + 1] = k + 1
    BY <1>2, <1>3, <1>4
  <2>2. events' = events
    BY <2>1 DEF Collect
  <2>3. PageInOrder'
    BY <2>2, SameLog
  <2>. QED
    BY <1>4, <2>2, <2>3
<1>5. CASE k = n
  <2>1. events' = Append(events, n + 1)
    BY <1>2, <1>3, <1>5 DEF Collect
  <2>2. Append(Numbers(0, n), n + 1) = Numbers(0, n + 1)
    BY <1>1, NumbersNext
  <2>3. events' \in Seq(Nat) /\ Len(events') = n + 1
    BY <1>1, <2>1
  <2>4. PageInOrder'
    BY <1>1, <1>5, <2>1, <2>2, <2>3 DEF PageInOrder, Upto
  <2>. QED
    BY <1>5, <2>3, <2>4
<1>. QED
  BY <1>4, <1>5

LEMMA SendInv ==
    ASSUME MaxEvents \in 1 .. QueueSize, StreamInv, Send PROVE StreamInv'
<1>. DEFINE i == Head(backlog \o queue)
<1>1. source = "open" /\ backlog \o queue # <<>> /\ Collect(i)
      /\ UNCHANGED <<log, unpublished, snapshot, last_sequence, faults>>
  BY DEF Send, serverVars
<1>2. PICK k \in Nat, m \in Nat : Pending(k, m)
  BY <1>1 DEF StreamInv, InOrder
<1>3. last_sequence \in Nat /\ last_sequence <= Len(log) /\ Len(log) \in Nat
  BY LogTyped
<1>4. backlog \o queue = Numbers(k, last_sequence)
  BY <1>2, <1>3, NumbersJoin DEF Pending
<1>5. k < last_sequence
  <2>1. k <= last_sequence
    BY <1>2, <1>3 DEF Pending
  <2>2. k # last_sequence
    BY <1>1, <1>4, NumbersNone
  <2>. QED
    BY <1>3, <2>1, <2>2
<1>6. i = k + 1
  BY <1>3, <1>4, <1>5, NumbersFirst
<1>7. PageInOrder' /\ k + 1 <= Len(events')
  <2>1. Len(events) \in Nat /\ k <= Len(events) /\ k + 1 <= Len(log)
    BY <1>2, <1>3, <1>5 DEF Pending, StreamInv, PageInOrder
  <2>. QED
    BY <1>1, <1>6, <2>1, CollectInOrder
<1>8. CASE Terminal(i)
  <2>1. source' = "closed" /\ Close
    BY <1>8 DEF Send
  <2>2. StreamTyped' /\ InOrder'
    BY <1>1, <2>1, CloseInv DEF StreamInv, StreamTyped
  <2>. QED
    BY <1>7, <2>2 DEF StreamInv
<1>9. CASE ~Terminal(i)
  <2>1. /\ backlog' = IF backlog # <<>> THEN Tail(backlog) ELSE backlog
        /\ queue' = IF backlog # <<>> THEN queue ELSE Tail(queue)
        /\ UNCHANGED <<source, task, mailbox>>
    BY <1>9 DEF Send
  <2>2. StreamTyped'
    BY <1>1, <2>1, TypedStep DEF StreamInv, StreamTyped
  <2>3. CASE k < m
    <3>1. backlog # <<>> /\ Tail(backlog) = Numbers(k + 1, m)
      BY <1>2, <2>3, NumbersFirst DEF Pending
    <3>2. Pending(k + 1, m)'
      BY <1>1, <1>2, <1>7, <2>1, <2>3, <3>1 DEF Pending
    <3>. QED
      BY <1>1, <1>7, <2>1, <2>2, <3>2 DEF StreamInv, InOrder
  <2>4. CASE k = m
    <3>1. backlog = <<>> /\ Tail(queue) = Numbers(k + 1, last_sequence)
      BY <1>2, <1>3, <1>5, <2>4, NumbersNone, NumbersFirst DEF Pending
    <3>2. Numbers(k + 1, k + 1) = <<>>
      BY NumbersNone
    <3>3. Pending(k + 1, k + 1)'
      BY <1>1, <1>3, <1>5, <1>7, <2>1, <3>1, <3>2 DEF Pending
    <3>. QED
      BY <1>1, <1>7, <2>1, <2>2, <3>3 DEF StreamInv, InOrder
  <2>. QED
    BY <1>2, <2>3, <2>4 DEF Pending
<1>. QED
  BY <1>8, <1>9

LEMMA NextStream ==
    ASSUME MaxEvents \in 1 .. QueueSize PROVE StreamInv /\ [Next]_vars => StreamInv'
<1>. SUFFICES ASSUME StreamInv, [Next]_vars PROVE StreamInv'
  OBVIOUS
<1>1. CASE UNCHANGED vars
  BY <1>1, SamePending, SameLog, TypedStep DEF vars, serverVars, taskVars, pageVars, StreamInv,
     StreamTyped, InOrder
<1>. QED
  BY <1>1, AppendEventInv, PublishInv, ConnectInv, QuietTaskInv, ReceiveInv, FillGapInv, UseSnapshotInv,
     SendInv, DisconnectInv DEF Next, TaskProceeds

\* A page has the events of its job in order, each once and without a gap, for
\* every number of lost, delayed and reordered publications, Redis and database
\* errors and reconnects, as long as the subscriber queue (put_nowait, which
\* drops what does not fit) can hold the events of the job.
THEOREM PageIsInOrder ==
    ASSUME MaxEvents \in 1 .. QueueSize
    PROVE  Spec => []PageSeesPrefix
<1>1. Init => StreamInv
  BY InitStream
<1>2. StreamInv /\ [Next]_vars => StreamInv'
  BY NextStream
<1>3. StreamInv => PageSeesPrefix
  BY DEF StreamInv, PageInOrder, PageSeesPrefix
<1>. QED
  BY <1>1, <1>2, <1>3, PTL DEF Spec

LEMMA StreamTypes ==
    ASSUME MaxEvents \in 1 .. QueueSize PROVE StreamInv => TypeOK
<1>. SUFFICES ASSUME StreamInv PROVE TypeOK
  OBVIOUS
<1>1. Len(log) \in Nat /\ last_sequence \in Nat /\ last_sequence <= Len(log) /\ <<>> \in Seq(1 .. Len(log))
  BY LogTyped
<1>2. events \in Seq(1 .. Len(log))
  <2>1. Len(events) \in Nat /\ Len(events) <= Len(log) /\ events = Numbers(0, Len(events)) /\ 0 <= Len(events)
    BY DEF StreamInv, PageInOrder, Upto
  <2>2. Numbers(0, Len(events)) \in Seq(1 .. Len(log))
    BY <1>1, <2>1, NumbersAre
  <2>. QED
    BY <2>1, <2>2
<1>3. backlog \in Seq(1 .. Len(log)) /\ queue \in Seq(1 .. Len(log)) /\ Len(queue) <= QueueSize
  <2>1. CASE source # "open"
    BY <1>1, <2>1, StreamAssumption DEF StreamInv, InOrder
  <2>2. CASE source = "open"
    <3>1. PICK k \in Nat, m \in Nat : Pending(k, m)
      BY <2>2 DEF StreamInv, InOrder
    <3>2. k <= m /\ m <= last_sequence /\ m <= Len(log)
      BY <1>1, <3>1 DEF Pending
    <3>3. backlog \in Seq(1 .. Len(log)) /\ queue \in Seq(1 .. Len(log))
          /\ Len(queue) = last_sequence - m
      BY <1>1, <3>1, <3>2, NumbersAre DEF Pending
    <3>4. last_sequence - m <= QueueSize
      BY <1>1, <3>2, StreamAssumption DEF StreamInv, StreamTyped
    <3>. QED
      BY <3>3, <3>4
  <2>. QED
    BY <2>1, <2>2
<1>. QED
  BY <1>2, <1>3 DEF TypeOK, StreamInv, StreamTyped

\* The variables of the event stream keep their types, and whatever is
\* published, queued or shown is an event of the log.
THEOREM StreamTypeCorrect ==
    ASSUME MaxEvents \in 1 .. QueueSize
    PROVE  Spec => []TypeOK
<1>1. Init => StreamInv
  BY InitStream
<1>2. StreamInv /\ [Next]_vars => StreamInv'
  BY NextStream
<1>3. StreamInv => TypeOK
  BY StreamTypes
<1>. QED
  BY <1>1, <1>2, <1>3, PTL DEF Spec

-----------------------------------------------------------------------------
(* The end of the stream.  TaskEndsWithTerminal is not inductive: the task  *)
(* ends on what a snapshot said before the events were read, and the        *)
(* handler sends while the task goes on.                                    *)

\* Nothing follows a terminal event.
LastIsTerminal == \A i \in 1 .. Len(log) : Terminal(i) => i = Len(log)

\* A terminal snapshot cannot be out of date.
SnapshotIsFinal ==
    task \in {"recover", "emit"} /\ snapshot.status \in TERMINAL_JOB_STATES =>
        Ended /\ snapshot.sequence = Len(log)

\* A terminal event the task has handled is still to be sent: sending it
\* closes the stream.
TerminalIsPending ==
    source = "open" /\ last_sequence >= 1 /\ Terminal(last_sequence) => backlog # <<>> \/ queue # <<>>

OverAtTheEnd == task = "over" => Ended /\ last_sequence = Len(log)

EndInv == LastIsTerminal /\ SnapshotIsFinal /\ TerminalIsPending /\ OverAtTheEnd

LEMMA InitEnd == Init => EndInv
<1>. SUFFICES ASSUME Init PROVE EndInv
  OBVIOUS
<1>1. log = <<"queued">> /\ task = "none" /\ source = "connecting"
  BY DEF Init
<1>2. Len(log) = 1 /\ log[1] = "queued"
  BY <1>1
<1>3. LastIsTerminal
  BY <1>2 DEF LastIsTerminal, Terminal, TERMINAL_JOB_STATES
<1>. QED
  BY <1>1, <1>3 DEF EndInv, SnapshotIsFinal, TerminalIsPending, OverAtTheEnd

\* An event is appended to a job that has not ended, so nothing the task knows is terminal.
LEMMA AppendEventEnd ==
    ASSUME StreamInv, EndInv, NEW s \in Statuses, AppendEvent(s) PROVE EndInv'
<1>1. /\ ~Ended /\ log' = Append(log, s)
      /\ UNCHANGED <<mailbox, task, snapshot, last_sequence, queue, backlog, source>>
  BY DEF AppendEvent, taskVars, pageVars
<1>2. log \in Seq(Statuses) /\ Len(log) \in Nat /\ log # <<>> /\ last_sequence \in Nat /\ last_sequence <= Len(log)
  BY LogTyped DEF StreamInv, StreamTyped
<1>3. Len(log') = Len(log) + 1 /\ \A i \in 1 .. Len(log) : log'[i] = log[i]
  BY <1>1, <1>2
<1>4. \A i \in 1 .. Len(log) : ~Terminal(i) /\ ~Terminal(i)'
  BY <1>1, <1>2, <1>3 DEF EndInv, LastIsTerminal, Ended, Terminal
<1>5. LastIsTerminal'
  <2>1. \A i \in 1 .. Len(log) + 1 : i \in 1 .. Len(log) \/ i = Len(log) + 1
    BY <1>2
  <2>. QED
    BY <1>3, <1>4, <2>1 DEF LastIsTerminal
<1>6. TerminalIsPending'
  <2>1. last_sequence >= 1 => last_sequence \in 1 .. Len(log)
    BY <1>2
  <2>. QED
    BY <1>1, <1>4, <2>1 DEF TerminalIsPending
<1>. QED
  BY <1>1, <1>5, <1>6 DEF EndInv, SnapshotIsFinal, OverAtTheEnd

\* Steps that leave the log alone keep the terminal event the last one.
LEMMA SameEnd ==
    ASSUME EndInv, UNCHANGED log PROVE LastIsTerminal' /\ (Ended' = Ended)
  BY DEF EndInv, LastIsTerminal, Terminal, Ended

\* Steps that neither hand on nor send, and do not end the task.
LEMMA QuietEnd ==
    ASSUME EndInv, UNCHANGED <<log, last_sequence, queue, backlog>>,
           source' = "open" => source = "open",
           task' = "over" => task = "over",
           task' \in {"recover", "emit"} => task \in {"recover", "emit"} /\ UNCHANGED snapshot
    PROVE  EndInv'
<1>1. LastIsTerminal' /\ (Ended' = Ended)
  BY SameEnd
<1>2. TerminalIsPending'
  BY DEF EndInv, TerminalIsPending, Terminal
<1>3. SnapshotIsFinal' /\ OverAtTheEnd'
  BY <1>1 DEF EndInv, SnapshotIsFinal, OverAtTheEnd
<1>. QED
  BY <1>1, <1>2, <1>3 DEF EndInv

LEMMA TakeSnapshotEnd ==
    ASSUME StreamInv, EndInv, TakeSnapshot PROVE EndInv'
<1>1. /\ task' \in {"recover", "emit"} /\ snapshot' = [status |-> log[Len(log)], sequence |-> Len(log)]
      /\ UNCHANGED <<log, last_sequence, queue, backlog, source>>
  BY DEF TakeSnapshot, serverVars, pageVars
<1>2. LastIsTerminal' /\ (Ended' = Ended)
  BY <1>1, SameEnd
<1>3. SnapshotIsFinal'
  <2>1. snapshot'.status = log[Len(log)] /\ snapshot'.sequence = Len(log)
    BY <1>1
  <2>2. log[Len(log)] \in TERMINAL_JOB_STATES => Ended
    BY DEF Ended, Terminal, StreamInv, StreamTyped
  <2>. QED
    BY <1>1, <1>2, <2>1, <2>2 DEF SnapshotIsFinal
<1>4. TerminalIsPending'
  BY <1>1 DEF EndInv, TerminalIsPending, Terminal
<1>5. OverAtTheEnd'
  BY <1>1 DEF OverAtTheEnd
<1>. QED
  BY <1>2, <1>3, <1>4, <1>5 DEF EndInv

LEMMA ConnectEnd ==
    ASSUME StreamInv, EndInv, Connect PROVE EndInv'
<1>1. backlog' = Numbers(0, Len(log)) /\ task' = "subscribe" /\ UNCHANGED log
  BY DEF Connect, EventsAfter, serverVars
<1>2. backlog' # <<>>
  BY <1>1, LogTyped, NumbersFirst
<1>. QED
  BY <1>1, <1>2, SameEnd DEF EndInv, SnapshotIsFinal, TerminalIsPending, OverAtTheEnd

\* What the task hands on is pending, as the queue has room for it.
LEMMA HandedOnIsPending ==
    ASSUME MaxEvents \in 1 .. QueueSize, StreamInv, source = "open",
           NEW n \in Nat, last_sequence <= n, n <= Len(log), Offer(Numbers(last_sequence, n))
    PROVE  (last_sequence < n => queue' # <<>>) /\ (last_sequence = n => queue' = queue)
<1>1. PICK k \in Nat, m \in Nat : Pending(k, m)
  BY DEF StreamInv, InOrder
<1>2. last_sequence \in Nat
  BY DEF StreamInv, StreamTyped
<1>3. m <= n /\ m <= last_sequence
  BY <1>1, <1>2 DEF Pending
<1>4. queue' = Numbers(m, n)
  <2>1. queue \o Numbers(last_sequence, n) = Numbers(m, n)
    BY <1>1, <1>2, NumbersJoin DEF Pending
  <2>. QED
    BY <1>3, <2>1, QueueHolds DEF Offer
<1>5. last_sequence < n => queue' # <<>>
  BY <1>2, <1>3, <1>4, NumbersFirst
<1>6. last_sequence = n => queue' = queue
  BY <1>1, <1>4 DEF Pending
<1>. QED
  BY <1>5, <1>6

\* A task that hands on the events up to n ends only if n is the last event
\* and terminal.
LEMMA HandOnEnd ==
    ASSUME MaxEvents \in 1 .. QueueSize, StreamInv, EndInv, source = "open",
           NEW n \in Nat, last_sequence <= n, n <= Len(log),
           Offer(Numbers(last_sequence, n)), last_sequence' = n, UNCHANGED <<log, backlog, source>>,
           task' \in {"wait", "poll", "over"}, task' = "over" => Ended /\ n = Len(log)
    PROVE  EndInv'
<1>1. LastIsTerminal' /\ (Ended' = Ended)
  BY SameEnd
<1>2. last_sequence \in Nat
  BY LogTyped
<1>3. TerminalIsPending'
  <2>1. CASE last_sequence < n
    BY <2>1, HandedOnIsPending DEF TerminalIsPending
  <2>2. CASE last_sequence = n
    BY <2>2, HandedOnIsPending DEF EndInv, TerminalIsPending, Terminal
  <2>. QED
    BY <1>2, <2>1, <2>2
<1>4. SnapshotIsFinal' /\ OverAtTheEnd'
  BY <1>1 DEF SnapshotIsFinal, OverAtTheEnd
<1>. QED
  BY <1>1, <1>3, <1>4 DEF EndInv

LEMMA ReceiveEnd ==
    ASSUME MaxEvents \in 1 .. QueueSize, StreamInv, EndInv, Receive PROVE EndInv'
<1>. DEFINE i == Head(mailbox)
<1>1. task = "wait" /\ mailbox # <<>> /\ source = "open" /\ UNCHANGED <<log, snapshot, backlog, source>>
  BY TaskIsOpen DEF Receive, serverVars, pageVars
<1>2. i \in 1 .. Len(log)
  BY <1>1 DEF StreamInv, StreamTyped
<1>. HIDE DEF i
<1>3. CASE UNCHANGED <<queue, last_sequence>> /\ task' \in {"fill", "wait"}
  BY <1>1, <1>3, QuietEnd
<1>4. CASE ~IsGap(i) /\ i > last_sequence /\ Offer(<<i>>) /\ last_sequence' = i
           /\ task' = (IF Terminal(i) THEN "over" ELSE "wait")
  <2>1. i = last_sequence + 1 /\ i \in Nat /\ i <= Len(log) /\ last_sequence \in Nat /\ last_sequence <= i
    BY <1>2, <1>4, LogTyped DEF IsGap
  <2>2. <<i>> = Numbers(last_sequence, i)
    BY <2>1, NumbersOne
  <2>3. Terminal(i) => Ended /\ i = Len(log)
    BY <1>2 DEF EndInv, LastIsTerminal, Ended, StreamInv, StreamTyped
  <2>. QED
    BY <1>1, <1>4, <2>1, <2>2, <2>3, HandOnEnd
<1>. QED
  BY <1>1, <1>3, <1>4 DEF Receive, i

LEMMA FillGapEnd ==
    ASSUME MaxEvents \in 1 .. QueueSize, StreamInv, EndInv, FillGap PROVE EndInv'
<1>1. source = "open" /\ UNCHANGED <<log, backlog, source>> /\ EmitSince
      /\ task' \in {"wait", "over"} /\ (task' = "over" => Ended)
  BY TaskIsOpen DEF FillGap, serverVars, pageVars
<1>. QED
  BY <1>1, LogTyped, HandOnEnd DEF EmitSince, EventsAfter

LEMMA UseSnapshotEnd ==
    ASSUME MaxEvents \in 1 .. QueueSize, StreamInv, EndInv, UseSnapshot PROVE EndInv'
<1>1. source = "open" /\ UNCHANGED <<log, backlog, source>> /\ task \in {"recover", "emit"}
      /\ task' \in {"wait", "poll", "over"}
  BY TaskIsOpen DEF UseSnapshot, serverVars, pageVars
<1>2. snapshot.status \in TERMINAL_JOB_STATES => Ended /\ snapshot.sequence = Len(log)
  BY <1>1 DEF EndInv, SnapshotIsFinal
<1>3. task' = "over" => Ended
  BY <1>2 DEF UseSnapshot
<1>4. CASE snapshot.sequence > last_sequence
  <2>1. EmitSince
    BY <1>4 DEF UseSnapshot
  <2>. QED
    BY <1>1, <1>3, <2>1, LogTyped, HandOnEnd DEF EmitSince, EventsAfter
<1>5. CASE ~(snapshot.sequence > last_sequence)
  <2>1. UNCHANGED <<queue, last_sequence>>
    BY <1>5 DEF UseSnapshot
  <2>2. task' = "over" => last_sequence = Len(log)
    <3>1. task' = "over" => snapshot.status \in TERMINAL_JOB_STATES
      BY <1>5 DEF UseSnapshot
    <3>. QED
      BY <1>2, <1>5, <3>1, LogTyped
  <2>3. LastIsTerminal' /\ (Ended' = Ended)
    BY <1>1, SameEnd
  <2>4. TerminalIsPending'
    BY <1>1, <2>1 DEF EndInv, TerminalIsPending, Terminal
  <2>. QED
    BY <1>1, <1>3, <2>1, <2>2, <2>3, <2>4 DEF EndInv, SnapshotIsFinal, OverAtTheEnd
<1>. QED
  BY <1>4, <1>5

\* What is pending is a run of sequence numbers up to last_sequence.
LEMMA PendingIsRun ==
    ASSUME StreamInv, source = "open", backlog # <<>> \/ queue # <<>>
    PROVE  \E k \in Nat : k < last_sequence /\ backlog \o queue = Numbers(k, last_sequence)
<1>1. PICK k \in Nat, m \in Nat : Pending(k, m)
  BY DEF StreamInv, InOrder
<1>2. last_sequence \in Nat
  BY LogTyped
<1>3. backlog \o queue = Numbers(k, last_sequence)
  BY <1>1, <1>2, NumbersJoin DEF Pending
<1>4. k < last_sequence
  <2>1. k = last_sequence => m = k
    BY <1>1, <1>2 DEF Pending
  <2>2. k # last_sequence
    BY <1>1, <2>1, NumbersNone DEF Pending
  <2>. QED
    BY <1>1, <1>2, <2>2 DEF Pending
<1>. QED
  BY <1>3, <1>4

LEMMA SendEnd ==
    ASSUME MaxEvents \in 1 .. QueueSize, StreamInv, EndInv, Send PROVE EndInv'
<1>. DEFINE i == Head(backlog \o queue)
<1>1. source = "open" /\ backlog \o queue # <<>> /\ UNCHANGED <<log, snapshot, last_sequence>>
  BY DEF Send, serverVars
<1>2. LastIsTerminal' /\ (Ended' = Ended)
  BY <1>1, SameEnd
<1>3. CASE Terminal(i)
  <2>1. source' = "closed" /\ task' = "none"
    BY <1>3 DEF Send, Close
  <2>. QED
    BY <1>2, <2>1 DEF EndInv, SnapshotIsFinal, TerminalIsPending, OverAtTheEnd
<1>4. CASE ~Terminal(i)
  <2>1. /\ backlog' = IF backlog # <<>> THEN Tail(backlog) ELSE backlog
        /\ queue' = IF backlog # <<>> THEN queue ELSE Tail(queue)
        /\ UNCHANGED <<source, task>>
    BY <1>4 DEF Send
  <2>2. PICK k \in Nat, m \in Nat : Pending(k, m)
    BY <1>1 DEF StreamInv, InOrder
  <2>3. last_sequence \in Nat
    BY LogTyped
  <2>4. backlog \o queue = Numbers(k, last_sequence) /\ k <= m /\ m <= last_sequence
    BY <2>2, <2>3, NumbersJoin DEF Pending
  <2>5. k < last_sequence
    BY <1>1, <2>3, <2>4, NumbersNone
  <2>6. i = k + 1
    BY <2>3, <2>4, <2>5, NumbersFirst
  <2>7. TerminalIsPending'
    <3>. SUFFICES ASSUME Terminal(last_sequence)' PROVE backlog' # <<>> \/ queue' # <<>>
      BY DEF TerminalIsPending
    <3>1. k + 1 # last_sequence
      BY <1>1, <1>4, <2>6 DEF Terminal
    <3>2. k + 1 < last_sequence
      BY <2>3, <2>5, <3>1
    <3>3. CASE m = last_sequence
      <4>1. backlog # <<>> /\ Tail(backlog) = Numbers(k + 1, m)
        BY <2>2, <2>3, <2>5, <3>3, NumbersFirst DEF Pending
      <4>2. Numbers(k + 1, m) # <<>>
        BY <2>2, <3>2, <3>3, NumbersFirst
      <4>. QED
        BY <2>1, <4>1, <4>2
    <3>4. CASE m < last_sequence
      <4>1. queue # <<>> /\ Tail(queue) = Numbers(m + 1, last_sequence)
        BY <2>2, <2>3, <3>4, NumbersFirst DEF Pending
      <4>2. CASE backlog # <<>>
        BY <2>1, <4>1, <4>2
      <4>3. CASE backlog = <<>>
        <5>1. k = m
          <6>1. k < m => backlog # <<>>
            BY <2>2, NumbersFirst DEF Pending
          <6>. QED
            BY <2>4, <4>3, <6>1
        <5>2. Numbers(m + 1, last_sequence) # <<>>
          BY <2>3, <3>2, <5>1, NumbersFirst
        <5>. QED
          BY <2>1, <4>1, <4>3, <5>2
      <4>. QED
        BY <4>2, <4>3
    <3>. QED
      BY <2>3, <2>4, <3>3, <3>4
  <2>. QED
    BY <1>1, <1>2, <2>1, <2>7 DEF EndInv, SnapshotIsFinal, OverAtTheEnd
<1>. QED
  BY <1>3, <1>4

LEMMA NextEnd ==
    ASSUME MaxEvents \in 1 .. QueueSize PROVE StreamInv /\ EndInv /\ [Next]_vars => EndInv'
<1>. SUFFICES ASSUME StreamInv, EndInv, [Next]_vars PROVE EndInv'
  OBVIOUS
<1>1. CASE UNCHANGED vars
  BY <1>1, QuietEnd DEF vars, serverVars, taskVars, pageVars
<1>2. ASSUME NEW i \in unpublished, Publish(i) \/ PublishLost(i) PROVE EndInv'
  BY <1>2, QuietEnd DEF Publish, PublishLost, taskVars, pageVars
<1>3. CASE Subscribe \/ MessageError \/ SubscribeError \/ DatabaseError \/ ConnectError
  BY <1>3, QuietEnd DEF Subscribe, MessageError, SubscribeError, DatabaseError, ConnectError,
     serverVars, taskVars, pageVars
<1>4. CASE Disconnect
  <2>1. source' = "connecting" /\ task' = "none" /\ UNCHANGED log
    BY <1>4 DEF Disconnect, Close, serverVars
  <2>. QED
    BY <2>1, SameEnd DEF EndInv, SnapshotIsFinal, TerminalIsPending, OverAtTheEnd
<1>. QED
  BY <1>1, <1>2, <1>3, <1>4, AppendEventEnd, ConnectEnd, TakeSnapshotEnd, ReceiveEnd, FillGapEnd,
     UseSnapshotEnd, SendEnd DEF Next, TaskProceeds

\* A subscriber task ends by itself only with the terminal event of the job on
\* its way to the page, in the backlog or in the queue: no snapshot, filled gap
\* or out-of-order message ends it early, and the handler does not stop short.
THEOREM TaskEndsOnlyWithTerminal ==
    ASSUME MaxEvents \in 1 .. QueueSize
    PROVE  Spec => []TaskEndsWithTerminal
<1>1. Init => StreamInv /\ EndInv
  BY InitStream, InitEnd
<1>2. StreamInv /\ EndInv /\ [Next]_vars => (StreamInv /\ EndInv)'
  BY NextStream, NextEnd
<1>3. StreamInv /\ EndInv => TaskEndsWithTerminal
  <2>. SUFFICES ASSUME StreamInv, EndInv, task = "over" PROVE TaskEndsWithTerminal
    BY DEF TaskEndsWithTerminal
  <2>1. source = "open" /\ Ended /\ last_sequence = Len(log)
    BY TaskIsOpen DEF EndInv, OverAtTheEnd
  <2>2. backlog # <<>> \/ queue # <<>>
    BY <2>1, LogTyped DEF EndInv, TerminalIsPending, Ended
  <2>3. PICK k \in Nat : k < last_sequence /\ backlog \o queue = Numbers(k, last_sequence)
    BY <2>1, <2>2, PendingIsRun
  <2>4. last_sequence \in Nat /\ k <= last_sequence
    BY <2>3, LogTyped
  <2>5. /\ Numbers(k, last_sequence) \in Seq(Nat) /\ Len(Numbers(k, last_sequence)) = last_sequence - k
        /\ \A i \in 1 .. last_sequence - k : Numbers(k, last_sequence)[i] = k + i
    BY <2>3, <2>4, NumbersAre
  <2>6. last_sequence - k \in 1 .. last_sequence - k /\ k + (last_sequence - k) = last_sequence
    BY <2>3, <2>4
  <2>7. DOMAIN (backlog \o queue) = 1 .. last_sequence - k
    BY <2>3, <2>5
  <2>8. (backlog \o queue)[last_sequence - k] = Len(log)
    BY <2>1, <2>3, <2>5, <2>6
  <2>. QED
    BY <2>1, <2>6, <2>7, <2>8 DEF TaskEndsWithTerminal
<1>. QED
  BY <1>1, <1>2, <1>3, PTL DEF Spec
=============================================================================
