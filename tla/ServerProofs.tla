---------------------------- MODULE ServerProofs ----------------------------
(***************************************************************************)
(* Proofs about the stub server, for every set of queries, every layout of *)
(* the reply queue, every limit and every number of signals.  What the     *)
(* queue does is taken from MessageQueueProofs, theorem by theorem.        *)
(***************************************************************************)
EXTENDS Server, SequenceTheorems, TLAPS

QP == INSTANCE MessageQueueProofs WITH Message <- Query, RecordSize <- ReplySize

-----------------------------------------------------------------------------
(* The reply queue, as the server uses it.                                 *)

\* Server's instance of the queue and the one the theorems are about are one
\* queue: their invariants are the same formula, in a state and in the next.
LEMMA SameInvariant == (Q!IInv <=> QP!IInv) /\ (Q!IInv' <=> QP!IInv')
BY DEF Q!IInv, QP!IInv, Q!TypeOK, QP!TypeOK, Q!EmptyWhenDrained, QP!EmptyWhenDrained,
       Q!Chain, QP!Chain, Q!Regions, QP!Regions, Q!Ordered, QP!Ordered,
       Q!RecordsIntact, QP!RecordsIntact, Q!IsEmpty, QP!IsEmpty, Q!Link, QP!Link,
       Q!End, QP!End, Q!High, QP!High, Q!Low, QP!Low, Q!Bytes, QP!Bytes,
       Q!Addr, QP!Addr, Q!Cell, QP!Cell

LEMMA SameSteps ==
  /\ Q!Get <=> QP!Get
  /\ \A q : /\ Q!PushAtTail(q) <=> QP!PushAtTail(q)
            /\ Q!PushWrapped(q) <=> QP!PushWrapped(q)
            /\ Q!PushRefused(q) <=> QP!PushRefused(q)
BY DEF Q!Get, QP!Get, Q!PushAtTail, QP!PushAtTail, Q!PushWrapped, QP!PushWrapped,
       Q!PushRefused, QP!PushRefused, Q!IsEmpty, QP!IsEmpty, Q!HeadMessage, QP!HeadMessage,
       Q!NewHead, QP!NewHead, Q!ReadFrom, QP!ReadFrom, Q!FitsAtTail, QP!FitsAtTail,
       Q!Fits, QP!Fits, Q!TailLimit, QP!TailLimit, Q!WriteRecord, QP!WriteRecord,
       Q!Accept, QP!Accept, Q!MayWrap, QP!MayWrap, Q!CanPush, QP!CanPush, Q!Addr, QP!Addr

LEMMA SameContents == Q!Queued = QP!Queued /\ Q!Queued' = QP!Queued'
BY DEF Q!Queued, QP!Queued

\* The queue's invariant types its contents, and says when it is empty.
LEMMA QueueContents ==
  ASSUME Q!IInv
  PROVE  /\ Q!TypeOK
         /\ Q!Queued \in Seq(Query)
         /\ Q!IsEmpty <=> Q!Queued = << >>
<1>1. QP!TypeOK /\ QP!EmptyWhenDrained
  BY SameInvariant DEF QP!IInv
<1>2. QP!Queued \in Seq(Query) /\ Len(QP!Queued) = Len(log)
  BY <1>1, QP!QueuedType, QueueAssumption DEF QP!Cell
<1>3. log \in Seq([at : QP!Addr, msg : Query])
  BY <1>1 DEF QP!TypeOK
<1>4. QP!IsEmpty <=> QP!Queued = << >>
  BY <1>1, <1>2, <1>3, EmptySeq DEF QP!EmptyWhenDrained
<1>5. Q!IsEmpty <=> QP!IsEmpty
  BY DEF Q!IsEmpty, QP!IsEmpty
<1>6. Q!TypeOK
  BY DEF Q!IInv
<1> QED
  BY <1>2, <1>4, <1>5, <1>6, SameContents

LEMMA QueueInit ==
  ASSUME Q!Init
  PROVE  Q!IInv /\ Q!Queued = << >>
<1>1. QP!Init
  BY DEF Q!Init, QP!Init, Q!Addr, QP!Addr
<1>2. Q!IInv
  BY <1>1, SameInvariant, QP!InitInvariant, QueueAssumption DEF QP!Cell
<1>3. Q!Queued = << >>
  BY DEF Q!Init, Q!Queued
<1> QED
  BY <1>2, <1>3

\* A reply that is queued goes to the end, whether the buffer wraps or not.
LEMMA QueueAccepts ==
  ASSUME Q!IInv, NEW q \in Query, Q!PushAtTail(q) \/ Q!PushWrapped(q)
  PROVE  Q!IInv' /\ Q!Queued' = Append(Q!Queued, q)
<1>1. QP!IInv /\ QP!TypeOK /\ (QP!PushAtTail(q) \/ QP!PushWrapped(q))
  BY SameInvariant, SameSteps DEF QP!IInv
<1>2. QP!IInv'
  BY <1>1, QP!PushAtTailInvariant, QP!PushWrappedInvariant, QueueAssumption DEF QP!Cell
<1>3. PICK at \in QP!Addr : QP!Accept(q, at)
  <2>1. 0 \in QP!Addr /\ tail \in QP!Addr
    BY <1>1, QueueAssumption DEF QP!Addr, QP!TypeOK
  <2> QED
    BY <1>1, <2>1 DEF QP!PushAtTail, QP!PushWrapped
<1>4. QP!F!Put(q)
  BY <1>1, <1>3, QP!AcceptIsPut, QueueAssumption DEF QP!Cell
<1> QED
  BY <1>2, <1>4, SameInvariant, SameContents DEF QP!F!Put

\* A reply that is refused changes nothing in the queue.
LEMMA QueueRefuses ==
  ASSUME Q!IInv, NEW q \in Query, Q!PushRefused(q)
  PROVE  Q!IInv' /\ Q!Queued' = Q!Queued
<1>1. QP!IInv /\ QP!PushRefused(q)
  BY SameInvariant, SameSteps
<1>2. QP!IInv'
  BY <1>1, QP!PushRefusedInvariant, QueueAssumption DEF QP!Cell
<1>3. Q!Queued' = Q!Queued
  BY DEF Q!PushRefused, Q!Queued
<1> QED
  BY <1>2, <1>3, SameInvariant

\* The reply that is read is the oldest one queued.
LEMMA QueueGives ==
  ASSUME Q!IInv, Q!Get
  PROVE  /\ Q!IInv'
         /\ Q!Queued # << >> /\ out' = Head(Q!Queued) /\ Q!Queued' = Tail(Q!Queued)
<1>1. QP!IInv /\ QP!Get
  BY SameInvariant, SameSteps
<1>2. QP!IInv'
  BY <1>1, QP!GetInvariant, QueueAssumption DEF QP!Cell
<1>3. QP!F!Take
  BY <1>1, QP!GetIsTake, QueueAssumption DEF QP!Cell
<1> QED
  BY <1>2, <1>3, SameInvariant, SameContents DEF QP!F!Take

LEMMA QueueRests ==
  ASSUME Q!IInv, UNCHANGED queueVars
  PROVE  Q!IInv' /\ Q!Queued' = Q!Queued
<1>1. mem' = mem /\ head' = head /\ tail' = tail /\ log' = log /\ out' = out
  BY DEF queueVars
<1>2. Q!Queued' = Q!Queued
  BY <1>1 DEF Q!Queued
<1>3. Q!IInv'
  BY <1>1 DEF Q!IInv, Q!TypeOK, Q!EmptyWhenDrained, Q!Chain, Q!Regions, Q!Ordered,
       Q!RecordsIntact, Q!IsEmpty, Q!Link, Q!End, Q!High, Q!Low, Q!Bytes, Q!Addr, Q!Cell
<1> QED
  BY <1>2, <1>3
-----------------------------------------------------------------------------
(* The inductive invariant.                                                *)

\* The parts of TypeOK, the queue's own apart, by the provers that see to them.
ControlOK ==
  /\ eof \in BOOLEAN /\ do_dump_timestamps \in BOOLEAN
  /\ pc \in {"top", "dump", "select", "recv", "stdin", "send", "stopped", "failed"}
  /\ errno \in {"EAGAIN", "other"}
  /\ pwritefds \in BOOLEAN /\ writefds \in BOOLEAN

DataOK ==
  /\ inbox \in Seq(Query) /\ sending \in 0..SocketBuffer
  /\ input \subseteq {"s", "other"} /\ signals \in 0..MaxSignals
  /\ readfds \subseteq {"socket", "stdin"}
  /\ messages_received \in Nat /\ reported \in Nat
  /\ receives \in Seq(Query) /\ Len(receives) <= MaxTimestamps
  /\ sends \in Seq(Query) /\ Len(sends) <= MaxTimestamps
  /\ file \in {None} \cup [receives : Seq(Query), sends : Seq(Query)]
  /\ accepted \in Seq(Query) /\ replied \in Seq(Query)
  /\ mark \in [accepted : Nat, replied : Nat]

\* A dump has seen no more than what has happened.
MarkPast == mark.accepted <= Len(accepted) /\ mark.replied <= Len(replied)

\* What pselect cleared in readfds is set again before the next pselect:
\* recv_all restores the socket, check_int_code stdin (server.c:348, 425).
Restored ==
  /\ pc \in {"top", "dump", "select", "send"} => readfds = {"socket", "stdin"}
  /\ pc = "stdin" => "socket" \in readfds

Inv ==
  /\ Q!IInv /\ ControlOK /\ DataOK /\ MarkPast
  /\ Restored /\ NothingSleptThrough
  /\ RepliesInOrder
  /\ TimestampsSinceDump /\ ReportsAddUp

LEMMA InvTypes == Inv => TypeOK
BY QueueContents DEF Inv, ControlOK, DataOK, TypeOK

LEMMA InitInv == Init => Inv
<1> SUFFICES ASSUME Init PROVE Inv
  OBVIOUS
<1>1. Q!IInv /\ Q!Queued = << >>
  BY QueueInit DEF Init
<1>2. ControlOK
  BY DEF Init, ControlOK
<1>3. DataOK /\ MarkPast
  BY LimitsAssumption, EmptySeq DEF Init, DataOK, MarkPast
<1>4. Restored /\ NothingSleptThrough
  BY DEF Init, Restored, NothingSleptThrough
<1>5. RepliesInOrder
  BY <1>1, ConcatEmptySeq DEF Init, RepliesInOrder
<1>6. TimestampsSinceDump
  <2>1. Window(<< >>, 0) = << >>
    BY LimitsAssumption, SubSeqEmpty DEF Window
  <2> QED
    BY <2>1 DEF Init, TimestampsSinceDump
<1>7. ReportsAddUp
  BY DEF Init, ReportsAddUp
<1> QED
  BY <1>1, <1>2, <1>3, <1>4, <1>5, <1>6, <1>7 DEF Inv
-----------------------------------------------------------------------------
(* The replies.                                                            *)

\* Only three steps touch the queue or its history.
LEMMA QueueSteps ==
  ASSUME [Next]_vars
  PROVE  ReceiveOne \/ SendOne \/ ReceiveUnqueued \/ UNCHANGED <<queueVars, accepted, replied>>
<1>1. CASE Step
  BY <1>1 DEF Step, SkipDump, BeginDump, Dump, SelectReady, SelectTimeout, Idle, SkipReceive,
     ReceiveMalformed, ReceiveDone, SkipStdin, Stop, ReadStdin, StdinEnds, SkipSend, SendBlocked,
     SendDone, Fail
<1>2. CASE SystemFails \/ SelectInterrupted \/ Signal \/ World
  BY <1>2 DEF SystemFails, DumpFails, SelectFails, ReceiveFails, SendFails, Fail,
     SelectInterrupted, Idle, Signal, World
<1>3. CASE UNCHANGED vars
  BY <1>3 DEF vars
<1> QED
  BY <1>1, <1>2, <1>3 DEF Next

LEMMA ReceiveFacts ==
  ASSUME Inv, Receiving, inbox # << >>
  PROVE  Head(inbox) \in Query /\ Tail(inbox) \in Seq(Query)
BY HeadTailProperties DEF Inv, DataOK

LEMMA SendFacts ==
  ASSUME Inv, SendOne
  PROVE  /\ Q!IInv' /\ Q!Queued # << >> /\ Q!Queued \in Seq(Query)
         /\ out' = Head(Q!Queued) /\ Q!Queued' = Tail(Q!Queued)
         /\ out' \in Query
<1>1. Q!IInv /\ Q!Get
  BY DEF Inv, SendOne
<1>2. Q!Queued \in Seq(Query)
  BY <1>1, QueueContents
<1> QED
  BY <1>1, <1>2, QueueGives, HeadTailProperties

LEMMA QueueInv == Inv /\ [Next]_vars => Q!IInv'
<1> SUFFICES ASSUME Inv, [Next]_vars PROVE Q!IInv'
  OBVIOUS
<1>1. Q!IInv
  BY DEF Inv
<1>2. CASE ReceiveOne
  BY <1>1, <1>2, ReceiveFacts, QueueAccepts DEF ReceiveOne
<1>3. CASE SendOne
  BY <1>3, SendFacts
<1>4. CASE ReceiveUnqueued
  BY <1>1, <1>4, ReceiveFacts, QueueRefuses DEF ReceiveUnqueued
<1>5. CASE UNCHANGED <<queueVars, accepted, replied>>
  BY <1>1, <1>5, QueueRests
<1> QED
  BY <1>2, <1>3, <1>4, <1>5, QueueSteps

LEMMA RepliesInv == Inv /\ [Next]_vars => RepliesInOrder'
<1> SUFFICES ASSUME Inv, [Next]_vars PROVE replied' \o Q!Queued' = accepted'
  BY DEF RepliesInOrder
<1> DEFINE queued == Q!Queued
<1>1. /\ Q!IInv /\ queued \in Seq(Query) /\ replied \in Seq(Query) /\ accepted \in Seq(Query)
      /\ replied \o queued = accepted
  BY QueueContents DEF Inv, DataOK, RepliesInOrder
<1>2. CASE ReceiveOne
  <2>1. PICK q \in Query : Q!Queued' = Append(Q!Queued, q) /\ accepted' = Append(accepted, q)
    BY <1>1, <1>2, ReceiveFacts, QueueAccepts DEF ReceiveOne
  <2>2. replied' = replied
    BY <1>2 DEF ReceiveOne
  <2>3. <<q>> \in Seq(Query)
    OBVIOUS
  <2>4. Append(queued, q) = queued \o <<q>> /\ Append(accepted, q) = accepted \o <<q>>
    BY <1>1, AppendIsConcat
  <2>5. replied \o (queued \o <<q>>) = (replied \o queued) \o <<q>>
    BY <1>1, <2>3, ConcatAssociative
  <2> QED
    BY <1>1, <2>1, <2>2, <2>4, <2>5
<1>3. CASE SendOne
  <2>1. PICK q \in Query : /\ q = Head(queued) /\ Q!Queued' = Tail(queued) /\ queued # << >>
                           /\ replied' = Append(replied, q)
    BY <1>3, SendFacts DEF SendOne
  <2>2. accepted' = accepted
    BY <1>3 DEF SendOne
  <2>3. <<q>> \in Seq(Query) /\ Tail(queued) \in Seq(Query)
    BY <1>1, <2>1, HeadTailProperties
  <2>4. queued = <<q>> \o Tail(queued)
    <3> HIDE DEF queued
    <3>1. /\ <<q>> \o Tail(queued) \in Seq(Query)
          /\ Len(<<q>> \o Tail(queued)) = Len(<<q>>) + Len(Tail(queued))
          /\ \A i \in 1..(Len(<<q>>) + Len(Tail(queued))) :
               (<<q>> \o Tail(queued))[i] = IF i <= Len(<<q>>) THEN <<q>>[i]
                                            ELSE Tail(queued)[i - Len(<<q>>)]
      BY <2>3, ConcatProperties
    <3>2. Len(<<q>>) = 1 /\ <<q>>[1] = queued[1]
      BY <1>1, <2>1
    <3>3. /\ Len(queued) \in Nat /\ Len(Tail(queued)) = Len(queued) - 1
          /\ \A i \in 1..(Len(queued) - 1) : Tail(queued)[i] = queued[i + 1]
      BY <1>1, <2>1, HeadTailProperties, LenProperties
    <3>4. \A i \in 1..Len(queued) : queued[i] = (<<q>> \o Tail(queued))[i]
      BY <3>1, <3>2, <3>3
    <3>5. Len(queued) = Len(<<q>> \o Tail(queued))
      BY <3>1, <3>2, <3>3
    <3> QED
      BY <1>1, <3>1, <3>4, <3>5, SeqEqual
  <2>5. Append(replied, q) = replied \o <<q>>
    BY <1>1, AppendIsConcat
  <2>6. (replied \o <<q>>) \o Tail(queued) = replied \o (<<q>> \o Tail(queued))
    BY <1>1, <2>3, ConcatAssociative
  <2> QED
    BY <1>1, <2>1, <2>2, <2>4, <2>5, <2>6
<1>4. CASE ReceiveUnqueued
  <2>1. Q!Queued' = queued
    BY <1>1, <1>4, ReceiveFacts, QueueRefuses DEF ReceiveUnqueued
  <2>2. replied' = replied /\ accepted' = accepted
    BY <1>4 DEF ReceiveUnqueued, Fail
  <2> QED
    BY <1>1, <2>1, <2>2
<1>5. CASE UNCHANGED <<queueVars, accepted, replied>>
  BY <1>1, <1>5, QueueRests
<1> QED
  BY <1>2, <1>3, <1>4, <1>5, QueueSteps
-----------------------------------------------------------------------------
(* The control of serve().                                                 *)

LEMMA ControlInv == Inv /\ [Next]_vars => ControlOK'
<1> SUFFICES ASSUME ControlOK, [Next]_vars PROVE ControlOK'
  BY DEF Inv
<1>1. CASE SkipDump \/ BeginDump \/ Dump \/ DumpFails
  <2>1. (pwritefds \/ ~Q!IsEmpty) \in BOOLEAN /\ (writefds \/ ~Q!IsEmpty) \in BOOLEAN
    OBVIOUS
  <2>2. CASE SkipDump
    BY <2>1, <2>2 DEF ControlOK, SkipDump, Watch, worldVars
  <2>3. CASE BeginDump
    BY <2>3 DEF ControlOK, BeginDump, worldVars, waitVars
  <2>4. CASE Dump
    BY <2>1, <2>4 DEF ControlOK, Dump, Watch, MayTouchErrno, worldVars
  <2>5. CASE DumpFails
    BY <2>5 DEF ControlOK, DumpFails, Fail, waitVars
  <2> QED
    BY <1>1, <2>2, <2>3, <2>4, <2>5
<1>2. CASE SelectReady \/ SelectFails
  <2>1. Writable \in BOOLEAN
    BY DEF Writable
  <2> QED
    BY <1>2, <2>1 DEF ControlOK, SelectReady, SelectFails, Fail, worldVars, waitVars
<1>3. CASE SelectTimeout \/ SelectInterrupted
  <2>1. (pwritefds \/ writefds) \in BOOLEAN
    OBVIOUS
  <2> QED
    BY <1>3, <2>1 DEF ControlOK, SelectTimeout, SelectInterrupted, Idle, WatchWrite, MayTouchErrno
<1>4. CASE \/ SkipReceive \/ ReceiveOne \/ ReceiveUnqueued \/ ReceiveMalformed \/ ReceiveFails
           \/ ReceiveDone
  BY <1>4 DEF ControlOK, SkipReceive, ReceiveOne, ReceiveUnqueued, ReceiveMalformed, ReceiveFails,
     ReceiveDone, Fail, waitVars, worldVars
<1>5. CASE SkipStdin \/ Stop \/ ReadStdin \/ StdinEnds
  BY <1>5 DEF ControlOK, SkipStdin, Stop, ReadStdin, StdinEnds, Fail, waitVars, worldVars
<1>6. CASE SkipSend \/ SendOne \/ SendBlocked \/ SendFails \/ SendDone
  BY <1>6 DEF ControlOK, SkipSend, SendOne, SendBlocked, SendFails, SendDone, Fail, waitVars,
     worldVars
<1>7. CASE Signal \/ World
  BY <1>7 DEF ControlOK, Signal, World, Transmit, CloseStdin, Arrive, Type, waitVars
<1>8. CASE UNCHANGED vars
  BY <1>8 DEF ControlOK, vars, waitVars, worldVars
<1> QED
  BY <1>1, <1>2, <1>3, <1>4, <1>5, <1>6, <1>7, <1>8 DEF Next, Step, SystemFails

LEMMA RestoredInv == Inv /\ [Next]_vars => Restored'
<1> SUFFICES ASSUME Restored, DataOK, [Next]_vars PROVE Restored'
  BY DEF Inv
<1>1. CASE Step
  BY <1>1 DEF Restored, DataOK, Step, SkipDump, BeginDump, Dump, Watch, SelectReady, SelectTimeout,
     Idle, SkipReceive, ReceiveOne, ReceiveUnqueued, ReceiveMalformed, Receiving, ReceiveDone,
     SkipStdin, Stop, ReadStdin, StdinEnds, SkipSend, SendOne, SendBlocked, SendDone, Sending, Fail,
     waitVars
<1>2. CASE SystemFails \/ SelectInterrupted \/ Signal \/ World
  BY <1>2 DEF Restored, SystemFails, DumpFails, SelectFails, ReceiveFails, SendFails, Fail,
     SelectInterrupted, Idle, Signal, World, waitVars
<1>3. CASE UNCHANGED vars
  BY <1>3 DEF Restored, vars, waitVars
<1> QED
  BY <1>1, <1>2, <1>3 DEF Next

\* The loop enters pselect by way of Watch, and nothing between Watch and the
\* end of pselect queues a reply or clears a set.
LEMMA WaitsInv == Inv /\ [Next]_vars => NothingSleptThrough'
<1> SUFFICES ASSUME Inv, [Next]_vars, pc' = "select"
             PROVE  readfds' = {"socket", "stdin"} /\ (~Q!IsEmpty' => pwritefds' /\ writefds')
  BY DEF NothingSleptThrough
<1>1. readfds' = {"socket", "stdin"}
  BY RestoredInv DEF Restored
<1>2. CASE SkipDump \/ Dump
  <2>1. UNCHANGED queueVars /\ Watch
    BY <1>2 DEF SkipDump, Dump
  <2>2. Q!IsEmpty' <=> Q!IsEmpty
    BY <2>1 DEF queueVars, Q!IsEmpty
  <2> QED
    BY <1>1, <2>1, <2>2 DEF Watch
<1>3. CASE pc = "select" /\ UNCHANGED <<queueVars, pwritefds, writefds>>
  <2>1. Q!IsEmpty' <=> Q!IsEmpty
    BY <1>3 DEF queueVars, Q!IsEmpty
  <2> QED
    BY <1>1, <1>3, <2>1 DEF Inv, NothingSleptThrough
<1>4. \/ SkipDump \/ Dump
      \/ pc = "select" /\ UNCHANGED <<queueVars, pwritefds, writefds>>
  <2>1. CASE Step
    BY <2>1 DEF Step, SkipDump, BeginDump, Dump, SelectReady, SelectTimeout, Idle, SkipReceive,
       ReceiveOne, ReceiveUnqueued, ReceiveMalformed, Receiving, ReceiveDone, SkipStdin, Stop,
       ReadStdin, StdinEnds, SkipSend, SendOne, SendBlocked, SendDone, Sending, Fail
  <2>2. CASE SystemFails \/ SelectInterrupted \/ Signal \/ World
    BY <2>2 DEF SystemFails, DumpFails, SelectFails, ReceiveFails, SendFails, Fail,
       SelectInterrupted, Idle, Signal, World, waitVars
  <2>3. CASE UNCHANGED vars
    BY <2>3 DEF vars, waitVars
  <2> QED
    BY <2>1, <2>2, <2>3 DEF Next
<1> QED
  BY <1>2, <1>3, <1>4
-----------------------------------------------------------------------------
(* The timestamps and the reports.                                         *)

\* A window that starts at the end of what happened is empty.
LEMMA WindowStarts ==
  ASSUME NEW events \in Seq(Query)
  PROVE  Window(events, Len(events)) = << >>
<1>1. Len(events) \in Nat
  BY LenProperties
<1>2. PICK n \in Int : n < Len(events) + 1 /\ Window(events, Len(events)) = SubSeq(events, Len(events) + 1, n)
  BY <1>1, LimitsAssumption DEF Window
<1> QED
  BY <1>1, <1>2, SubSeqEmpty

\* A window is as long as the array allows; the event that follows is stamped
\* if there is room, and otherwise lost with all that come after it.
LEMMA WindowGrows ==
  ASSUME NEW events \in Seq(Query), NEW from \in Nat, from <= Len(events), NEW q \in Query
  PROVE  Stamp(Window(events, from), q) = Window(Append(events, q), from)
<1> DEFINE n == Len(events)
           more == Append(events, q)
           seen == Window(events, from)
           upto == IF n - from < MaxTimestamps THEN n ELSE from + MaxTimestamps
<1>1. /\ n \in Nat /\ MaxTimestamps \in Nat /\ upto \in from..n
  BY LenProperties, LimitsAssumption
<1>2. /\ more \in Seq(Query) /\ Len(more) = n + 1
      /\ \A i \in 1..n : more[i] = events[i]
      /\ more[n + 1] = q
  BY AppendProperties
<1>3. /\ seen = SubSeq(events, from + 1, upto)
  BY DEF Window
<1>4. \A i \in (from + 1)..upto : i \in 1..n /\ events[i] \in Query
  BY <1>1, ElementOfSeq
<1> HIDE DEF n, upto, more, seen
<1>5. /\ seen \in Seq(Query)
      /\ Len(seen) = upto - from
      /\ \A i \in 1..(upto - from) : seen[i] = events[from + i]
  <2>1. \A i \in 1..(upto - (from + 1) + 1) : seen[i] = events[from + 1 + i - 1]
    BY <1>1, <1>3, <1>4, SubSeqProperties
  <2>2. seen \in Seq(Query) /\ Len(seen) = IF from + 1 <= upto THEN upto - (from + 1) + 1 ELSE 0
    BY <1>1, <1>3, <1>4, SubSeqProperties
  <2> QED
    BY <1>1, <2>1, <2>2
<1>6. CASE n - from < MaxTimestamps
  <2>1. upto = n /\ Stamp(seen, q) = Append(seen, q)
    BY <1>1, <1>5, <1>6 DEF Stamp, upto, n
  <2>2. Window(more, from) = SubSeq(more, from + 1, n + 1)
    <3>1. n + 1 - from < MaxTimestamps \/ from + MaxTimestamps = n + 1
      BY <1>1, <1>6
    <3> QED
      BY <1>1, <1>2, <3>1 DEF Window
  <2>3. \A i \in (from + 1)..(n + 1) : more[i] \in Query
    BY <1>1, <1>2, ElementOfSeq DEF n
  <2>4. /\ SubSeq(more, from + 1, n + 1) \in Seq(Query)
        /\ Len(SubSeq(more, from + 1, n + 1)) = n + 1 - from
        /\ \A i \in 1..(n + 1 - from) : SubSeq(more, from + 1, n + 1)[i] = more[from + i]
    <3>1. from + 1 <= n + 1 /\ (n + 1) - (from + 1) + 1 = n + 1 - from
      BY <1>1
    <3>2. /\ SubSeq(more, from + 1, n + 1) \in Seq(Query)
          /\ Len(SubSeq(more, from + 1, n + 1)) = n + 1 - from
          /\ \A i \in 1..(n + 1 - from) :
               SubSeq(more, from + 1, n + 1)[i] = more[from + 1 + i - 1]
      BY <1>1, <2>3, <3>1, SubSeqProperties
    <3>3. \A i \in 1..(n + 1 - from) : from + 1 + i - 1 = from + i
      BY <1>1
    <3> QED
      BY <3>2, <3>3
  <2>5. /\ Append(seen, q) \in Seq(Query) /\ Len(Append(seen, q)) = n - from + 1
        /\ \A i \in 1..(n - from) : Append(seen, q)[i] = seen[i]
        /\ Append(seen, q)[n - from + 1] = q
    BY <1>5, <2>1, AppendProperties
  <2>6. \A i \in 1..(n + 1 - from) : Append(seen, q)[i] = SubSeq(more, from + 1, n + 1)[i]
    <3> TAKE i \in 1..(n + 1 - from)
    <3>1. CASE i = n + 1 - from
      BY <1>1, <1>2, <2>4, <2>5, <3>1
    <3>2. CASE i # n + 1 - from
      <4>1. i \in 1..(n - from) /\ from + i \in 1..n
        BY <1>1, <3>2
      <4>2. Append(seen, q)[i] = events[from + i]
        BY <1>5, <2>1, <2>5, <4>1
      <4> QED
        BY <1>2, <2>4, <4>1, <4>2
    <3> QED
      BY <3>1, <3>2
  <2>7. Append(seen, q) = SubSeq(more, from + 1, n + 1)
    <3>1. Len(Append(seen, q)) = n + 1 - from
      BY <1>1, <2>5
    <3> QED
      BY <2>4, <2>5, <2>6, <3>1, SeqEqual
  <2> QED
    BY <2>1, <2>2, <2>7 DEF more, seen
<1>7. CASE ~(n - from < MaxTimestamps)
  <2>1. upto = from + MaxTimestamps /\ Stamp(seen, q) = seen
    BY <1>1, <1>5, <1>7 DEF Stamp, upto, n
  <2>2. Window(more, from) = SubSeq(more, from + 1, upto)
    BY <1>1, <1>2, <1>7, <2>1 DEF Window
  <2>3. SubSeq(more, from + 1, upto) = SubSeq(events, from + 1, upto)
    <3> DEFINE f == SubSeq(more, from + 1, upto)
    <3>1. \A i \in (from + 1)..upto : more[i] = events[i] /\ more[i] \in Query
      BY <1>2, <1>4
    <3>2. /\ f \in Seq(Query) /\ Len(f) = upto - from
          /\ \A i \in 1..(upto - from) : f[i] = more[from + i]
      <4>1. \A i \in 1..(upto - (from + 1) + 1) : f[i] = more[from + 1 + i - 1]
        BY <1>1, <3>1, SubSeqProperties
      <4>2. f \in Seq(Query) /\ Len(f) = IF from + 1 <= upto THEN upto - (from + 1) + 1 ELSE 0
        BY <1>1, <3>1, SubSeqProperties
      <4> QED
        BY <1>1, <4>1, <4>2
    <3> HIDE DEF f
    <3>3. \A i \in 1..Len(f) : f[i] = seen[i]
      <4> TAKE i \in 1..Len(f)
      <4>1. i \in 1..(upto - from) /\ from + i \in (from + 1)..upto
        BY <1>1, <3>2
      <4> QED
        BY <1>5, <3>1, <3>2, <4>1
    <3>4. f = seen
      BY <1>5, <3>2, <3>3, SeqEqual
    <3> QED
      BY <1>3, <3>4 DEF f
  <2> QED
    BY <1>3, <2>1, <2>2, <2>3 DEF more, seen
<1> QED
  BY <1>6, <1>7

LEMMA StampType ==
  ASSUME NEW stamps \in Seq(Query), Len(stamps) <= MaxTimestamps, NEW q \in Query
  PROVE  Stamp(stamps, q) \in Seq(Query) /\ Len(Stamp(stamps, q)) <= MaxTimestamps
BY LimitsAssumption, LenProperties, AppendProperties DEF Stamp

\* Only these steps touch what is counted and stamped.
LEMMA TrafficSteps ==
  ASSUME [Next]_vars
  PROVE  \/ ReceiveOne \/ SendOne \/ Dump \/ SelectTimeout \/ SelectInterrupted
         \/ UNCHANGED <<countVars, stampVars, accepted, replied>>
<1>1. CASE Step
  BY <1>1 DEF Step, SkipDump, BeginDump, SelectReady, SkipReceive, ReceiveUnqueued,
     ReceiveMalformed, ReceiveDone, SkipStdin, Stop, ReadStdin, StdinEnds, SkipSend, SendBlocked,
     SendDone, Fail
<1>2. CASE SystemFails \/ SelectInterrupted \/ Signal \/ World
  BY <1>2 DEF SystemFails, DumpFails, SelectFails, ReceiveFails, SendFails, Fail, Signal, World
<1>3. CASE UNCHANGED vars
  BY <1>3 DEF vars
<1> QED
  BY <1>1, <1>2, <1>3 DEF Next

LEMMA ReportsInv == Inv /\ [Next]_vars => ReportsAddUp'
<1> SUFFICES ASSUME Inv, [Next]_vars PROVE reported' + messages_received' = Len(accepted')
  BY DEF ReportsAddUp
<1>1. /\ reported \in Nat /\ messages_received \in Nat /\ accepted \in Seq(Query)
      /\ reported + messages_received = Len(accepted)
  BY DEF Inv, DataOK, ReportsAddUp
<1>2. CASE ReceiveOne
  <2>1. PICK q \in Query : accepted' = Append(accepted, q)
    BY <1>2, ReceiveFacts DEF ReceiveOne
  <2>2. messages_received' = messages_received + 1 /\ reported' = reported
    BY <1>2 DEF ReceiveOne
  <2>3. Len(accepted') = Len(accepted) + 1
    BY <1>1, <2>1, AppendProperties
  <2> QED
    BY <1>1, <2>2, <2>3
<1>3. CASE SendOne \/ Dump
  BY <1>1, <1>3 DEF SendOne, Dump, countVars
<1>4. CASE SelectTimeout \/ SelectInterrupted
  BY <1>1, <1>4 DEF SelectTimeout, SelectInterrupted, Idle, Report
<1>5. CASE UNCHANGED <<countVars, stampVars, accepted, replied>>
  BY <1>1, <1>5 DEF countVars
<1> QED
  BY <1>2, <1>3, <1>4, <1>5, TrafficSteps

LEMMA StampsInv == Inv /\ [Next]_vars => TimestampsSinceDump' /\ MarkPast'
<1> SUFFICES ASSUME Inv, [Next]_vars
             PROVE  /\ receives' = Window(accepted', mark'.accepted)
                    /\ sends' = Window(replied', mark'.replied)
                    /\ mark'.accepted <= Len(accepted') /\ mark'.replied <= Len(replied')
  BY DEF TimestampsSinceDump, MarkPast, Window
<1>1. /\ accepted \in Seq(Query) /\ replied \in Seq(Query)
      /\ mark.accepted \in Nat /\ mark.replied \in Nat
      /\ mark.accepted <= Len(accepted) /\ mark.replied <= Len(replied)
      /\ receives = Window(accepted, mark.accepted) /\ sends = Window(replied, mark.replied)
      /\ Len(accepted) \in Nat /\ Len(replied) \in Nat
  BY LenProperties DEF Inv, DataOK, MarkPast, TimestampsSinceDump
<1>2. CASE ReceiveOne
  <2>1. PICK q \in Query : accepted' = Append(accepted, q) /\ receives' = Stamp(receives, q)
    BY <1>2, ReceiveFacts DEF ReceiveOne
  <2>2. mark' = mark /\ replied' = replied /\ sends' = sends
    BY <1>2 DEF ReceiveOne
  <2>3. receives' = Window(accepted', mark.accepted)
    BY <1>1, <2>1, WindowGrows
  <2>4. Len(accepted') = Len(accepted) + 1
    BY <1>1, <2>1, AppendProperties
  <2>5. mark.accepted <= Len(accepted')
    BY <1>1, <2>4
  <2> QED
    BY <1>1, <2>2, <2>3, <2>5
<1>3. CASE SendOne
  <2>1. PICK q \in Query : replied' = Append(replied, q) /\ sends' = Stamp(sends, q)
    BY <1>3, SendFacts DEF SendOne
  <2>2. mark' = mark /\ accepted' = accepted /\ receives' = receives
    BY <1>3 DEF SendOne
  <2>3. sends' = Window(replied', mark.replied)
    BY <1>1, <2>1, WindowGrows
  <2>4. Len(replied') = Len(replied) + 1
    BY <1>1, <2>1, AppendProperties
  <2>5. mark.replied <= Len(replied')
    BY <1>1, <2>4
  <2> QED
    BY <1>1, <2>2, <2>3, <2>5
<1>4. CASE Dump
  <2>1. /\ mark'.accepted = Len(accepted) /\ mark'.replied = Len(replied)
        /\ receives' = << >> /\ sends' = << >> /\ accepted' = accepted /\ replied' = replied
    BY <1>4 DEF Dump, ResetPositions
  <2> QED
    BY <1>1, <2>1, WindowStarts
<1>5. CASE SelectTimeout \/ SelectInterrupted
  BY <1>1, <1>5 DEF SelectTimeout, SelectInterrupted, Idle, stampVars
<1>6. CASE UNCHANGED <<countVars, stampVars, accepted, replied>>
  BY <1>1, <1>6 DEF stampVars
<1> QED
  BY <1>2, <1>3, <1>4, <1>5, <1>6, TrafficSteps
-----------------------------------------------------------------------------
(* The types of the rest.                                                  *)

LEMMA TrafficTypes ==
  ASSUME Inv, [Next]_vars
  PROVE  /\ messages_received' \in Nat /\ reported' \in Nat
         /\ receives' \in Seq(Query) /\ Len(receives') <= MaxTimestamps
         /\ sends' \in Seq(Query) /\ Len(sends') <= MaxTimestamps
         /\ file' \in {None} \cup [receives : Seq(Query), sends : Seq(Query)]
         /\ accepted' \in Seq(Query) /\ replied' \in Seq(Query)
         /\ mark' \in [accepted : Nat, replied : Nat]
<1>1. /\ messages_received \in Nat /\ reported \in Nat
      /\ receives \in Seq(Query) /\ Len(receives) <= MaxTimestamps
      /\ sends \in Seq(Query) /\ Len(sends) <= MaxTimestamps
      /\ file \in {None} \cup [receives : Seq(Query), sends : Seq(Query)]
      /\ accepted \in Seq(Query) /\ replied \in Seq(Query)
      /\ mark \in [accepted : Nat, replied : Nat]
  BY DEF Inv, DataOK
<1>2. CASE ReceiveOne
  <2>1. PICK q \in Query : accepted' = Append(accepted, q) /\ receives' = Stamp(receives, q)
    BY <1>2, ReceiveFacts DEF ReceiveOne
  <2>2. /\ messages_received' = messages_received + 1
        /\ UNCHANGED <<reported, sends, file, mark, replied>>
    BY <1>2 DEF ReceiveOne
  <2>3. accepted' \in Seq(Query) /\ receives' \in Seq(Query) /\ Len(receives') <= MaxTimestamps
    BY <1>1, <2>1, StampType, AppendProperties
  <2> QED
    BY <1>1, <2>2, <2>3
<1>3. CASE SendOne
  <2>1. PICK q \in Query : replied' = Append(replied, q) /\ sends' = Stamp(sends, q)
    BY <1>3, SendFacts DEF SendOne
  <2>2. UNCHANGED <<messages_received, reported, receives, file, mark, accepted>>
    BY <1>3 DEF SendOne, countVars
  <2>3. replied' \in Seq(Query) /\ sends' \in Seq(Query) /\ Len(sends') <= MaxTimestamps
    BY <1>1, <2>1, StampType, AppendProperties
  <2> QED
    BY <1>1, <2>2, <2>3
<1>4. CASE Dump
  <2>1. /\ file' = [receives |-> receives, sends |-> sends]
        /\ mark' = [accepted |-> Len(accepted), replied |-> Len(replied)]
        /\ receives' = << >> /\ sends' = << >>
        /\ UNCHANGED <<messages_received, reported, accepted, replied>>
    BY <1>4 DEF Dump, ResetPositions, countVars
  <2>2. Len(accepted) \in Nat /\ Len(replied) \in Nat
    BY <1>1, LenProperties
  <2>3. << >> \in Seq(Query) /\ Len(<< >>) = 0
    BY EmptySeq
  <2> QED
    BY <1>1, <2>1, <2>2, <2>3, LimitsAssumption
<1>5. CASE SelectTimeout \/ SelectInterrupted
  BY <1>1, <1>5 DEF SelectTimeout, SelectInterrupted, Idle, Report, stampVars
<1>6. CASE UNCHANGED <<countVars, stampVars, accepted, replied>>
  BY <1>1, <1>6 DEF countVars, stampVars
<1> QED
  BY <1>2, <1>3, <1>4, <1>5, <1>6, TrafficSteps

LEMMA WorldTypes ==
  ASSUME Inv, [Next]_vars
  PROVE  /\ inbox' \in Seq(Query) /\ sending' \in 0..SocketBuffer
         /\ input' \subseteq {"s", "other"} /\ signals' \in 0..MaxSignals
         /\ readfds' \subseteq {"socket", "stdin"}
<1>1. /\ inbox \in Seq(Query) /\ sending \in 0..SocketBuffer
      /\ input \subseteq {"s", "other"} /\ signals \in 0..MaxSignals
      /\ readfds \subseteq {"socket", "stdin"}
  BY DEF Inv, DataOK
<1>2. CASE ReceiveOne \/ ReceiveUnqueued \/ ReceiveMalformed
  <2>1. inbox' \in Seq(Query)
    BY <1>2, ReceiveFacts DEF ReceiveOne, ReceiveUnqueued, ReceiveMalformed
  <2> QED
    BY <1>1, <1>2, <2>1 DEF ReceiveOne, ReceiveUnqueued, ReceiveMalformed, Fail, waitVars
<1>3. CASE World
  <2>1. CASE \E q \in Query : Arrive(q)
    BY <1>1, <1>3, <2>1, AppendProperties DEF World, Arrive, waitVars
  <2>2. CASE Transmit
    <3>1. UNCHANGED <<inbox, input, signals, readfds>> /\ sending' = sending - 1 /\ sending > 0
      BY <1>3, <2>2 DEF World, Transmit, waitVars
    <3> QED
      BY <1>1, <3>1, LimitsAssumption
  <2>3. CASE CloseStdin
    <3>1. UNCHANGED <<inbox, input, signals, readfds, sending>>
      BY <1>3, <2>3 DEF World, CloseStdin, waitVars
    <3> QED
      BY <1>1, <3>1
  <2>4. CASE \E c \in {"s", "other"} : Type(c)
    <3>1. PICK c \in {"s", "other"} :
            UNCHANGED <<inbox, signals, readfds, sending>> /\ input' = input \cup {c}
      BY <1>3, <2>4 DEF World, Type, waitVars
    <3> QED
      BY <1>1, <3>1
  <2> QED
    BY <1>3, <2>1, <2>2, <2>3, <2>4 DEF World
<1>4. CASE Signal \/ SelectInterrupted
  <2>1. /\ UNCHANGED <<inbox, input, sending>> /\ readfds' \in {readfds, {"socket", "stdin"}}
        /\ signals < MaxSignals /\ signals' = signals + 1
    BY <1>4 DEF Signal, SelectInterrupted, Idle, waitVars
  <2> QED
    BY <1>1, <2>1, LimitsAssumption
<1>5. CASE SendOne
  BY <1>1, <1>5, LimitsAssumption DEF SendOne, waitVars
<1>6. CASE SkipDump \/ BeginDump \/ Dump \/ SelectReady \/ SelectTimeout
  BY <1>1, <1>6 DEF SkipDump, BeginDump, Dump, Watch, SelectReady, SelectTimeout, Idle, waitVars,
     worldVars
<1>7. CASE SkipReceive \/ ReceiveDone \/ SkipStdin \/ Stop \/ ReadStdin \/ StdinEnds
  BY <1>1, <1>7 DEF SkipReceive, ReceiveDone, SkipStdin, Stop, ReadStdin, StdinEnds, Fail,
     waitVars, worldVars
<1>8. CASE SkipSend \/ SendBlocked \/ SendDone \/ SystemFails
  BY <1>1, <1>8 DEF SkipSend, SendBlocked, SendDone, SystemFails, DumpFails, SelectFails,
     ReceiveFails, SendFails, Fail, waitVars, worldVars
<1>9. CASE UNCHANGED vars
  BY <1>1, <1>9 DEF vars, waitVars, worldVars
<1> QED
  BY <1>2, <1>3, <1>4, <1>5, <1>6, <1>7, <1>8, <1>9 DEF Next, Step

LEMMA NextInv == Inv /\ [Next]_vars => Inv'
<1> SUFFICES ASSUME Inv, [Next]_vars PROVE Inv'
  OBVIOUS
<1>1. DataOK'
  BY TrafficTypes, WorldTypes DEF DataOK
<1> QED
  BY <1>1, QueueInv, ControlInv, StampsInv, RestoredInv, WaitsInv, RepliesInv, ReportsInv DEF Inv
-----------------------------------------------------------------------------
(* The theorems.                                                           *)

\* The invariant that the others follow from: the queue's, the types, and how
\* the sets of pselect, the replies, the timestamps and the counts relate.
THEOREM Invariant == Spec => []Inv
BY InitInv, NextInv, PTL DEF Spec

\* Every variable of the server, those of the queue's buffer included, keeps to
\* the values the code can give it; the arrays of timestamps never overflow
\* (server.c:319-328, 366-375).
THEOREM TypeCorrect == Spec => []TypeOK
BY Invariant, InvTypes, PTL

\* Every query accepted is answered once and in order, whatever wraps, refusals
\* and EAGAINs come between (server.c:290-379).
THEOREM AnswersInOrder == Spec => []RepliesInOrder
<1>1. Inv => RepliesInOrder
  BY DEF Inv
<1> QED
  BY <1>1, Invariant, PTL

\* pselect always watches every event there is to wait for (server.c:477-537).
THEOREM SleepsThroughNothing == Spec => []NothingSleptThrough
<1>1. Inv => NothingSleptThrough
  BY DEF Inv
<1> QED
  BY <1>1, Invariant, PTL

\* Dumps and reports account for every event once (server.c:319-375, 468-537).
THEOREM AccountsForEvents == Spec => []EventsAccounted
<1>1. Inv => EventsAccounted
  BY DEF Inv, EventsAccounted
<1> QED
  BY <1>1, Invariant, PTL
-----------------------------------------------------------------------------
(* Every query is answered at most once: an invariant of its own, which    *)
(* those who run the server with a client count with.                      *)

Once ==
  /\ \A j, k \in 1..Len(accepted) : accepted[j] = accepted[k] => j = k
  /\ \A j, k \in 1..Len(inbox) : inbox[j] = inbox[k] => j = k
  /\ \A j \in 1..Len(accepted), k \in 1..Len(inbox) : accepted[j] # inbox[k]

\* The server's own steps take queries out of the inbox, the oldest first, and
\* accept them or lose them.
LEMMA TakeSteps ==
  ASSUME Step \/ SystemFails \/ SelectInterrupted \/ Signal
  PROVE  \/ inbox' = inbox /\ accepted' = accepted
         \/ /\ inbox # << >> /\ inbox' = Tail(inbox)
            /\ accepted' = accepted \/ accepted' = Append(accepted, Head(inbox))
<1>1. CASE Step
  BY <1>1 DEF Step, SkipDump, BeginDump, Dump, SelectReady, SelectTimeout, Idle, SkipReceive,
     ReceiveOne, ReceiveUnqueued, ReceiveMalformed, ReceiveDone, SkipStdin, Stop, ReadStdin,
     StdinEnds, SkipSend, SendOne, SendBlocked, SendDone, Fail, worldVars
<1>2. CASE SystemFails \/ SelectInterrupted \/ Signal
  BY <1>2 DEF SystemFails, DumpFails, SelectFails, ReceiveFails, SendFails, Fail,
     SelectInterrupted, Idle, Signal
<1> QED
  BY <1>1, <1>2

\* No query is seen again, or for the first time, by a step of the server.
LEMMA SeenShrinks ==
  ASSUME Inv, Step \/ SystemFails \/ SelectInterrupted \/ Signal
  PROVE  Seen' \subseteq Seen
<1>1. /\ accepted \in Seq(Query) /\ inbox \in Seq(Query)
      /\ Len(accepted) \in Nat /\ Len(inbox) \in Nat
  BY LenProperties DEF Inv, DataOK
<1>2. CASE inbox' = inbox /\ accepted' = accepted
  BY <1>2 DEF Seen
<1>3. CASE inbox # << >> /\ inbox' = Tail(inbox)
  <2>1. /\ \A k \in 1..Len(inbox') : k + 1 \in 1..Len(inbox) /\ inbox'[k] = inbox[k + 1]
        /\ Head(inbox) = inbox[1] /\ Head(inbox) \in Query /\ 1 \in 1..Len(inbox)
    BY <1>1, <1>3, HeadTailProperties, EmptySeq
  <2>2. \A k \in 1..Len(inbox') : inbox'[k] \in Seen
    BY <2>1 DEF Seen
  <2>3. \A j \in 1..Len(accepted') : accepted'[j] \in Seen
    <3>1. CASE accepted' = accepted
      BY <3>1 DEF Seen
    <3>2. CASE accepted' = Append(accepted, Head(inbox))
      <4>1. /\ Len(accepted') = Len(accepted) + 1
            /\ \A j \in 1..Len(accepted) : accepted'[j] = accepted[j]
            /\ accepted'[Len(accepted) + 1] = inbox[1]
        BY <1>1, <2>1, <3>2, AppendProperties
      <4>2. \A j \in 1..Len(accepted') : j \in 1..Len(accepted) \/ j = Len(accepted) + 1
        BY <1>1, <4>1
      <4> QED
        BY <2>1, <4>1, <4>2 DEF Seen
    <3> QED
      BY <3>1, <3>2, TakeSteps
  <2> QED
    BY <2>2, <2>3 DEF Seen
<1> QED
  BY <1>2, <1>3, TakeSteps

\* What one step does to the queries seen: the oldest of the inbox is accepted or
\* lost, or one arrives that has not been seen.
LEMMA SeenSteps ==
  ASSUME [Next]_vars
  PROVE  \/ inbox' = inbox /\ accepted' = accepted
         \/ /\ inbox # << >> /\ inbox' = Tail(inbox)
            /\ accepted' = accepted \/ accepted' = Append(accepted, Head(inbox))
         \/ /\ accepted' = accepted
            /\ \E q \in Query : inbox' = Append(inbox, q) /\ q \notin Seen
<1>1. CASE World
  <2>1. accepted' = accepted
    BY <1>1 DEF World
  <2> QED
    BY <1>1, <2>1 DEF World, Transmit, CloseStdin, Arrive, Type
<1>2. CASE UNCHANGED vars
  BY <1>2 DEF vars, worldVars
<1> QED
  BY <1>1, <1>2, TakeSteps DEF Next

LEMMA OnceInv == Inv /\ Once /\ [Next]_vars => Once'
<1> SUFFICES ASSUME Inv, Once, [Next]_vars PROVE Once'
  OBVIOUS
<1> DEFINE n == Len(accepted)
           m == Len(inbox)
<1>1. accepted \in Seq(Query) /\ inbox \in Seq(Query) /\ n \in Nat /\ m \in Nat
  BY LenProperties DEF Inv, DataOK
<1>2. CASE inbox' = inbox /\ accepted' = accepted
  BY <1>2 DEF Once
<1>3. ASSUME NEW q \in Query, inbox' = Append(inbox, q), q \notin Seen, accepted' = accepted
      PROVE  Once'
  <2>1. /\ Len(inbox') = m + 1
        /\ \A k \in 1..m : inbox'[k] = inbox[k]
        /\ inbox'[m + 1] = q
    BY <1>1, <1>3, AppendProperties
  <2>2. \A k \in 1..Len(inbox') : k \in 1..m \/ k = m + 1
    BY <1>1, <2>1
  <2>3. (\A k \in 1..m : inbox[k] # q) /\ (\A j \in 1..n : accepted[j] # q)
    BY <1>3 DEF Seen
  <2>4. \A j, k \in 1..Len(inbox') : inbox'[j] = inbox'[k] => j = k
    <3> TAKE j, k \in 1..Len(inbox')
    <3> QED
      BY <2>1, <2>2, <2>3 DEF Once
  <2>5. \A j \in 1..Len(accepted'), k \in 1..Len(inbox') : accepted'[j] # inbox'[k]
    <3> TAKE j \in 1..Len(accepted'), k \in 1..Len(inbox')
    <3> QED
      BY <1>3, <2>1, <2>2, <2>3 DEF Once
  <2> QED
    BY <1>3, <2>4, <2>5 DEF Once
<1>4. CASE inbox # << >> /\ inbox' = Tail(inbox)
  <2>1. /\ Len(inbox') = m - 1 /\ m > 0
        /\ \A k \in 1..Len(inbox') : k + 1 \in 1..m /\ inbox'[k] = inbox[k + 1]
        /\ Head(inbox) = inbox[1] /\ Head(inbox) \in Query /\ 1 \in 1..m
    BY <1>1, <1>4, HeadTailProperties, EmptySeq
  <2>2. \A j, k \in 1..Len(inbox') : inbox'[j] = inbox'[k] => j = k
    <3> TAKE j, k \in 1..Len(inbox')
    <3> HAVE inbox'[j] = inbox'[k]
    <3>1. j + 1 = k + 1
      BY <2>1 DEF Once
    <3> QED
      BY <1>1, <2>1, <3>1
  <2>3. CASE accepted' = accepted
    BY <2>1, <2>2, <2>3 DEF Once
  <2>4. CASE accepted' = Append(accepted, Head(inbox))
    <3>1. /\ Len(accepted') = n + 1
          /\ \A j \in 1..n : accepted'[j] = accepted[j]
          /\ accepted'[n + 1] = inbox[1]
      BY <1>1, <2>1, <2>4, AppendProperties
    <3>2. \A j \in 1..Len(accepted') : j \in 1..n \/ j = n + 1
      BY <1>1, <3>1
    <3>3. \A j \in 1..n : accepted[j] # inbox[1]
      BY <2>1 DEF Once
    <3>4. \A k \in 1..Len(inbox') : inbox'[k] # inbox[1]
      <4> TAKE k \in 1..Len(inbox')
      <4>1. k + 1 # 1
        BY <1>1, <2>1
      <4> QED
        BY <2>1, <4>1 DEF Once
    <3>5. \A j, k \in 1..Len(accepted') : accepted'[j] = accepted'[k] => j = k
      <4> TAKE j, k \in 1..Len(accepted')
      <4> QED
        BY <3>1, <3>2, <3>3 DEF Once
    <3>6. \A j \in 1..Len(accepted'), k \in 1..Len(inbox') : accepted'[j] # inbox'[k]
      <4> TAKE j \in 1..Len(accepted'), k \in 1..Len(inbox')
      <4> QED
        BY <2>1, <3>1, <3>2, <3>4 DEF Once
    <3> QED
      BY <2>2, <3>5, <3>6 DEF Once
  <2> QED
    BY <1>2, <1>3, <2>3, <2>4, SeenSteps
<1> QED
  BY <1>2, <1>3, <1>4, SeenSteps

LEMMA InitOnce == Init => Once
BY DEF Init, Once

\* No query is accepted, and none answered, twice.
THEOREM AcceptsOnce == Spec => []Once
BY Invariant, InitOnce, OnceInv, PTL DEF Spec

\* A reply that has been sent stays sent.
LEMMA RepliedGrows == ASSUME Inv, [Next]_vars PROVE Values(replied) \subseteq Values(replied')
<1>1. replied \in Seq(Query)
  BY DEF Inv, DataOK
<1>2. CASE SendOne
  <2>1. PICK q \in Query : replied' = Append(replied, q)
    BY <1>2, SendFacts DEF SendOne
  <2>2. /\ Len(replied') = Len(replied) + 1 /\ Len(replied) \in Nat
        /\ \A k \in 1..Len(replied) : replied'[k] = replied[k]
    BY <1>1, <2>1, AppendProperties, LenProperties
  <2>3. \A k \in 1..Len(replied) : k \in 1..Len(replied')
    BY <2>2
  <2> QED
    BY <2>2, <2>3 DEF Values
<1>3. CASE UNCHANGED replied
  BY <1>3
<1>4. SendOne \/ UNCHANGED replied
  BY QueueSteps DEF ReceiveOne, ReceiveUnqueued, Fail
<1> QED
  BY <1>2, <1>3, <1>4

\* A server that has ended does not run again.
LEMMA EndIsFinal == ASSUME Ended, [Next]_vars PROVE Ended'
BY DEF Ended, Next, vars, Step, SystemFails, SkipDump, BeginDump, Dump, DumpFails, SelectReady,
   SelectTimeout, SelectInterrupted, SelectFails, Idle, SkipReceive, ReceiveOne, ReceiveUnqueued,
   ReceiveMalformed, ReceiveFails, Receiving, ReceiveDone, SkipStdin, Stop, ReadStdin, StdinEnds,
   SkipSend, SendOne, SendBlocked, SendFails, SendDone, Sending, Fail

\* A server that sees nothing to do in pselect, with an empty send buffer, has
\* answered every query that has arrived.
LEMMA IdleHasAnswered ==
  ASSUME Inv, pc = "select", ~Ready, sending = 0
  PROVE  inbox = << >> /\ replied = accepted
<1>1. readfds = {"socket", "stdin"} /\ (~Q!IsEmpty => pwritefds /\ writefds)
  BY DEF Inv, NothingSleptThrough
<1>2. inbox = << >>
  BY <1>1 DEF Ready, Readable
<1>3. Q!IsEmpty
  BY <1>1, LimitsAssumption DEF Ready, Writable
<1>4. Q!Queued = << >>
  BY <1>3, QueueContents DEF Inv
<1>5. replied \o << >> = replied
  BY ConcatEmptySeq DEF Inv, DataOK
<1> QED
  BY <1>2, <1>4, <1>5 DEF Inv, RepliesInOrder
=============================================================================
