------------------------------ MODULE MigProofs ------------------------------
(***************************************************************************)
(* Proofs about the DNS client, for every number of queries and every      *)
(* network: what holds of every run, then what holds when no two queries   *)
(* share a transaction id.                                                 *)
(***************************************************************************)
EXTENDS Mig, SequenceTheorems, FiniteSetTheorems, TLAPS

Message == [id : Nat, of : Query \cup {None}]

\* The two parts of the type invariant.
ControlOK ==
  /\ pc \in {"select", "recv", "write", "wait", "drain", "done", "failed"}
  /\ readfds \in BOOLEAN /\ writefds \in BOOLEAN
  /\ attempts \in 0..RecvTimeout

DataOK ==
  /\ messages_sent \in 0..Count /\ messages_received \in 0..Count
  /\ last_sent \in Nat /\ clock \in Nat
  /\ sends \in [Query -> Nat] /\ receives \in [Query -> Nat]
  /\ sent \in [Query -> Nat] /\ answer \in [Query -> {0, 1}] /\ received \in [Query -> Nat]
  /\ sending \in 0..SocketBuffer /\ strays \in 0..MaxStrays
  /\ inbox \in Seq(Message)
  /\ replies \in [Query -> 0..MaxReplies]
  /\ credit \in [Query -> Query \cup {None}] /\ read \subseteq Query

\* Where main() is says how many queries it has sent and what select found.
Stages ==
  /\ pc \in {"select", "recv", "write"} => messages_sent < Count
  /\ pc \in {"wait", "drain", "done"} => messages_sent = Count
  /\ pc \notin {"done", "failed"} => attempts > 0
  /\ pc \in {"recv", "write"} /\ writefds => sending < SocketBuffer

\* Each reply counted has been credited to a pair of its own.
Counted == messages_received = Cardinality(Answered)

\* Queries sent have their times, in order and spaced, and last_sent is the last.
Spaced ==
  /\ clock > 0
  /\ \A i \in 0..(messages_sent - 1) : sends[i] > 0 /\ sent[i] = sends[i]
  /\ \A i \in 1..(messages_sent - 1) : sends[i] - sends[i - 1] >= WriteInterval
  /\ \A i \in 0..(messages_sent - 1) : \A j \in 0..i : sends[j] <= sends[i]
  /\ messages_sent > 0 => /\ sends[messages_sent - 1] <= clock
                          /\ WriteInterval > 0 => last_sent = sends[messages_sent - 1]

RunInv == ControlOK /\ DataOK /\ Stages /\ Counted /\ Spaced
-----------------------------------------------------------------------------
(* Facts about the operators.                                              *)

LEMMA TypeParts == TypeOK <=> ControlOK /\ DataOK
BY Zenon DEF TypeOK, ControlOK, DataOK, Message

\* The interval between queries is a whole number of ticks.
LEMMA IntervalType == WriteInterval \in Nat
<1>1. CASE QueryLimit = 0
  BY <1>1 DEF WriteInterval
<1>2. CASE QueryLimit # 0
  <2>1. Nanoseconds \div QueryLimit \in Nat
    BY <1>2, LimitAssumption
  <2> QED
    BY <1>2, <2>1 DEF WriteInterval
<1> QED
  BY <1>1, <1>2

\* There are Count queries, and sets of them are finite.
LEMMA QueriesFinite ==
  /\ IsFiniteSet(Query) /\ Cardinality(Query) = Count
  /\ \A S \in SUBSET Query : IsFiniteSet(S) /\ Cardinality(S) \in 0..Count
<1>1. IsFiniteSet(Query) /\ Cardinality(Query) = Count
  BY CountAssumption, FS_Interval DEF Query
<1>2. ASSUME NEW S \in SUBSET Query
      PROVE  IsFiniteSet(S) /\ Cardinality(S) \in 0..Count
  <2>1. IsFiniteSet(S) /\ Cardinality(S) <= Count
    BY <1>1, FS_Subset
  <2>2. Cardinality(S) \in Nat
    BY <2>1, FS_CardinalityType
  <2> QED
    BY <2>1, <2>2, CountAssumption
<1> QED
  BY <1>1, <1>2

\* The oldest message and the rest of the inbox.
LEMMA OldestMessage ==
  ASSUME DataOK, inbox # << >>
  PROVE  /\ Head(inbox) = inbox[1] /\ Head(inbox) \in Message
         /\ DOMAIN inbox = 1..Len(inbox) /\ 1 \in DOMAIN inbox
         /\ Tail(inbox) \in Seq(Message)
         /\ \A k \in DOMAIN Tail(inbox) : k + 1 \in DOMAIN inbox /\ Tail(inbox)[k] = inbox[k + 1]
<1>1. inbox \in Seq(Message)
  BY DEF DataOK
<1>2. Len(inbox) \in Nat \ {0} /\ DOMAIN inbox = 1..Len(inbox)
  BY <1>1, EmptySeq, LenProperties
<1>3. Head(inbox) = inbox[1] /\ inbox[1] \in Message
  BY <1>1, <1>2, ElementOfSeq
<1>4. /\ Tail(inbox) \in Seq(Message) /\ Len(Tail(inbox)) = Len(inbox) - 1
      /\ \A k \in 1..Len(Tail(inbox)) : Tail(inbox)[k] = inbox[k + 1]
  BY <1>1, HeadTailProperties
<1>5. DOMAIN Tail(inbox) = 1..Len(Tail(inbox))
  BY <1>4, LenProperties
<1> QED
  BY <1>2, <1>3, <1>4, <1>5
-----------------------------------------------------------------------------
(* Every run.                                                              *)

LEMMA InitRun == Init => RunInv
<1> SUFFICES ASSUME Init PROVE RunInv
  OBVIOUS
<1>1. ControlOK
  BY LimitAssumption DEF Init, ControlOK
<1>2. DataOK
  BY CountAssumption, BoundAssumption, InputAssumption, EmptySeq DEF Init, DataOK, Query
<1>3. Stages
  BY CountAssumption, LimitAssumption, BoundAssumption DEF Init, Stages
<1>4. Answered = {}
  BY DEF Init, Answered
<1>5. Counted
  BY <1>4, FS_EmptySet DEF Init, Counted
<1>6. Spaced
  BY DEF Init, Spaced
<1> QED
  BY <1>1, <1>2, <1>3, <1>5, <1>6 DEF RunInv

\* Steps that neither send a query nor credit a reply keep the counts and times.
LEMMA CountsStay ==
  ASSUME RunInv, UNCHANGED <<sendVars, messages_received, answer>>, clock' \in Nat, clock <= clock'
  PROVE  Counted' /\ Spaced'
<1>1. UNCHANGED <<messages_sent, last_sent, sends, sent, messages_received, answer>>
  BY DEF sendVars
<1>2. Answered' = Answered
  BY <1>1 DEF Answered
<1>3. Counted'
  BY <1>1, <1>2 DEF RunInv, Counted
<1>4. messages_sent > 0 => sends[messages_sent - 1] \in Nat
  <2>1. messages_sent \in 0..Count /\ Count \in Nat /\ sends \in [Query -> Nat]
    BY CountAssumption DEF RunInv, DataOK
  <2>2. messages_sent > 0 => messages_sent - 1 \in Query
    BY <2>1 DEF Query
  <2> QED
    BY <2>1, <2>2
<1>5. Spaced'
  BY <1>1, <1>4 DEF RunInv, Spaced, DataOK
<1> QED
  BY <1>3, <1>5

LEMMA WorldRun == ASSUME RunInv, World PROVE RunInv'
<1>1. UNCHANGED <<pc, readfds, writefds, messages_sent, last_sent, sends, sent, messages_received,
                  receives, answer, received, credit, read, attempts>>
  BY DEF World, fdVars, sendVars, receiveVars
<1>2. /\ sending' \in 0..SocketBuffer /\ sending' <= sending
      /\ strays' \in 0..MaxStrays /\ replies' \in [Query -> 0..MaxReplies]
      /\ clock' \in Nat /\ clock <= clock'
      /\ inbox' \in Seq(Message)
  <2>1. /\ sending \in 0..SocketBuffer /\ strays \in 0..MaxStrays /\ replies \in [Query -> 0..MaxReplies]
        /\ clock \in Nat /\ inbox \in Seq(Message)
    BY DEF RunInv, DataOK
  <2>2. CASE Transmit
    BY <2>1, <2>2, BoundAssumption DEF Transmit
  <2>3. CASE Tick
    BY <2>1, <2>3, BoundAssumption DEF Tick, netVars
  <2>4. ASSUME NEW i \in Query, Reply(i)
        PROVE  <1>2
    <3>1. [id |-> TransactionId(i), of |-> i] \in Message
      BY CountAssumption DEF TransactionId, Message, Query
    <3>2. inbox' \in Seq(Message)
      BY <2>1, <2>4, <3>1, AppendProperties DEF Reply
    <3>3. replies' \in [Query -> 0..MaxReplies]
      BY <2>1, <2>4, BoundAssumption DEF Reply
    <3> QED
      BY <2>1, <2>4, <3>2, <3>3, BoundAssumption DEF Reply
  <2>5. ASSUME NEW id \in StrayId, Stray(id)
        PROVE  <1>2
    <3>1. [id |-> id, of |-> None] \in Message
      BY InputAssumption DEF Message
    <3>2. inbox' \in Seq(Message)
      BY <2>1, <2>5, <3>1, AppendProperties DEF Stray
    <3> QED
      BY <2>1, <2>5, <3>2, BoundAssumption DEF Stray
  <2> QED
    BY <2>2, <2>3, <2>4, <2>5 DEF World
<1>3. ControlOK'
  BY <1>1, Zenon DEF RunInv, ControlOK
<1>4. DataOK'
  BY <1>1, <1>2 DEF RunInv, DataOK
<1>5. Stages'
  BY <1>1, <1>2, BoundAssumption DEF RunInv, Stages, DataOK
<1>6. Counted' /\ Spaced'
  BY <1>1, <1>2, CountsStay DEF sendVars
<1> QED
  BY <1>3, <1>4, <1>5, <1>6 DEF RunInv

\* The run is given up: only what the socket holds may differ.
LEMMA FailRun ==
  ASSUME RunInv, RejectReply \/ ReceiveFails \/ SelectFails \/ SendFails
  PROVE  RunInv'
<1>1. /\ Fail /\ UNCHANGED <<sending, replies, strays>>
      /\ inbox' \in Seq(Message)
  <2>1. CASE RejectReply
    BY <2>1, OldestMessage DEF RejectReply, Reading, RunInv
  <2>2. CASE ReceiveFails \/ SelectFails \/ SendFails
    BY <2>2 DEF ReceiveFails, SelectFails, SendFails, netVars, RunInv, DataOK
  <2> QED
    BY <2>1, <2>2
<1>2. /\ pc' = "failed"
      /\ UNCHANGED <<readfds, writefds, messages_sent, last_sent, sends, sent, messages_received,
                     receives, answer, received, credit, read, attempts, clock>>
  BY <1>1 DEF Fail, fdVars, sendVars, receiveVars
<1>3. ControlOK'
  BY <1>2, Zenon DEF RunInv, ControlOK
<1>4. DataOK'
  BY <1>1, <1>2 DEF RunInv, DataOK
<1>5. Stages'
  BY <1>2 DEF Stages
<1>6. Counted' /\ Spaced'
  BY <1>2, CountsStay DEF sendVars, RunInv, DataOK
<1> QED
  BY <1>3, <1>4, <1>5, <1>6 DEF RunInv

\* Steps of the two loops that neither send nor read.
LoopStep ==
  \/ SkipReceive \/ ReceiveDone \/ DrainDone \/ SelectReady \/ SelectTimeout \/ SkipWrite
  \/ WaitReady \/ WaitTimeout

LEMMA LoopRun == ASSUME RunInv, LoopStep PROVE RunInv'
<1>1. UNCHANGED <<messages_sent, last_sent, sends, sent, messages_received, receives, answer, received,
                  credit, read, clock, sending, inbox, replies, strays>>
  BY DEF LoopStep, SkipReceive, ReceiveDone, DrainDone, SelectReady, SelectTimeout, SkipWrite, WaitReady,
         WaitTimeout, sendVars, receiveVars, netVars
<1>2. ControlOK' /\ Stages'
  <2>1. ControlOK /\ Stages
    BY DEF RunInv
  <2>2. messages_sent \in 0..Count /\ sending \in 0..SocketBuffer
    BY DEF RunInv, DataOK
  <2>3. CASE SkipReceive
    <3>1. /\ pc = "recv" /\ pc' = "write" /\ readfds' = TRUE
          /\ UNCHANGED <<writefds, attempts, messages_sent, sending>>
      BY <1>1, <2>3 DEF SkipReceive
    <3>2. ControlOK'
      BY <2>1, <3>1, Zenon DEF ControlOK
    <3> QED
      BY <2>1, <3>1, <3>2 DEF Stages
  <2>4. CASE ReceiveDone
    <3>1. pc = "recv" /\ pc' = "write" /\ UNCHANGED <<readfds, writefds, attempts, messages_sent, sending>>
      BY <1>1, <2>4 DEF ReceiveDone, fdVars
    <3>2. ControlOK'
      BY <2>1, <3>1, Zenon DEF ControlOK
    <3> QED
      BY <2>1, <3>1, <3>2 DEF Stages
  <2>5. CASE DrainDone
    <3>1. /\ pc = "drain" /\ pc' \in {"wait", "done"} /\ attempts' = RecvTimeout
          /\ UNCHANGED <<readfds, writefds, messages_sent>>
      BY <1>1, <2>5 DEF DrainDone, fdVars, StartWaiting
    <3>2. RecvTimeout \in 0..RecvTimeout /\ RecvTimeout > 0
      BY LimitAssumption
    <3>3. ControlOK'
      BY <2>1, <3>1, <3>2, Zenon DEF ControlOK
    <3> QED
      BY <2>1, <3>1, <3>2, <3>3 DEF Stages
  <2>6. CASE SelectReady
    <3>1. /\ pc = "select" /\ pc' = "recv" /\ UNCHANGED <<attempts, messages_sent, sending>>
          /\ (writefds' => sending < SocketBuffer)
      BY <1>1, <2>6 DEF SelectReady, Writable
    <3>2. readfds' \in BOOLEAN /\ writefds' \in BOOLEAN
      BY <2>6, Zenon DEF SelectReady, Readable, Writable
    <3>3. ControlOK'
      BY <2>1, <3>1, <3>2, Zenon DEF ControlOK
    <3> QED
      BY <2>1, <3>1, <3>3 DEF Stages
  <2>7. CASE SelectTimeout
    <3>1. /\ pc = "select" /\ pc' = pc /\ readfds' = TRUE /\ writefds' = TRUE
          /\ UNCHANGED <<attempts, messages_sent>>
      BY <1>1, <2>7 DEF SelectTimeout
    <3>2. ControlOK'
      BY <2>1, <3>1, Zenon DEF ControlOK
    <3> QED
      BY <2>1, <3>1, <3>2 DEF Stages
  <2>8. CASE SkipWrite
    <3>1. /\ pc = "write" /\ pc' = "select" /\ writefds' = TRUE
          /\ UNCHANGED <<readfds, attempts, messages_sent>>
      BY <1>1, <2>8 DEF SkipWrite
    <3>2. ControlOK'
      BY <2>1, <3>1, Zenon DEF ControlOK
    <3> QED
      BY <2>1, <3>1, <3>2 DEF Stages
  <2>9. CASE WaitReady
    <3>1. pc = "wait" /\ pc' = "drain" /\ UNCHANGED <<readfds, writefds, attempts, messages_sent>>
      BY <1>1, <2>9 DEF WaitReady, fdVars
    <3>2. ControlOK'
      BY <2>1, <3>1, Zenon DEF ControlOK
    <3> QED
      BY <2>1, <3>1, <3>2 DEF Stages
  <2>10. CASE WaitTimeout
    <3>1. /\ pc = "wait" /\ attempts' = attempts - 1 /\ readfds' = TRUE
          /\ pc' \in {"wait", "done"} /\ (pc' = "wait" => attempts' > 0)
          /\ UNCHANGED <<writefds, messages_sent>>
      BY <1>1, <2>10 DEF WaitTimeout
    <3>2. attempts' \in 0..RecvTimeout
      BY <2>1, <3>1, LimitAssumption DEF ControlOK, Stages
    <3>3. ControlOK'
      BY <2>1, <3>1, <3>2, Zenon DEF ControlOK
    <3> QED
      BY <2>1, <3>1, <3>3 DEF Stages
  <2> QED
    BY <2>3, <2>4, <2>5, <2>6, <2>7, <2>8, <2>9, <2>10 DEF LoopStep
<1>3. DataOK'
  BY <1>1 DEF RunInv, DataOK
<1>4. Counted' /\ Spaced'
  BY <1>1, CountsStay DEF sendVars, RunInv, DataOK
<1> QED
  BY <1>2, <1>3, <1>4 DEF RunInv

LEMMA DiscardRun == ASSUME RunInv, DiscardReply PROVE RunInv'
<1>1. /\ inbox # << >> /\ inbox' = Tail(inbox)
      /\ read' \in {read, read \cup {Head(inbox).of}} /\ (read' # read => Head(inbox).of # None)
      /\ UNCHANGED <<pc, readfds, writefds, messages_sent, last_sent, sends, sent, messages_received,
                     receives, answer, received, credit, attempts, clock, sending, replies, strays>>
  BY DEF DiscardReply, Reading, NoteRead, fdVars, sendVars
<1>2. inbox' \in Seq(Message) /\ Head(inbox).of \in Query \cup {None}
  BY <1>1, OldestMessage DEF RunInv, Message
<1>3. read' \subseteq Query
  BY <1>1, <1>2 DEF RunInv, DataOK
<1>4. ControlOK'
  BY <1>1, Zenon DEF RunInv, ControlOK
<1>5. DataOK'
  BY <1>1, <1>2, <1>3 DEF RunInv, DataOK
<1>6. Stages'
  BY <1>1 DEF RunInv, Stages
<1>7. Counted' /\ Spaced'
  BY <1>1, CountsStay DEF sendVars, RunInv, DataOK
<1> QED
  BY <1>4, <1>5, <1>6, <1>7 DEF RunInv

\* A pair is credited once: what CreditReply changes.
LEMMA CreditEffect ==
  ASSUME RunInv, CreditReply
  PROVE  \E i \in Query :
           /\ i \in Matches(Head(inbox).id) /\ answer[i] = 0 /\ sent[i] < clock
           /\ Record(i, Head(inbox).of) /\ NoteRead(Head(inbox).of)
           /\ i \notin Answered /\ Answered' = Answered \cup {i}
           /\ messages_received < Count /\ messages_received \in Query
<1>1. PICK i \in Matches(Head(inbox).id) : Record(i, Head(inbox).of) /\ NoteRead(Head(inbox).of)
  BY DEF CreditReply
<1>2. i \in Query /\ answer[i] = 0 /\ sent[i] < clock
  BY DEF Matches
<1>3. answer \in [Query -> {0, 1}] /\ answer' = [answer EXCEPT ![i] = @ + 1]
  BY <1>1 DEF RunInv, DataOK, Record
<1>4. answer'[i] = 1 /\ \A j \in Query \ {i} : answer'[j] = answer[j]
  BY <1>2, <1>3
<1>5. i \notin Answered /\ Answered' = Answered \cup {i}
  BY <1>2, <1>4 DEF Answered
<1>6. messages_received < Count
  <2>1. IsFiniteSet(Answered) /\ Cardinality(Answered) \in 0..Count
    BY QueriesFinite DEF Answered
  <2>2. Cardinality(Answered \cup {i}) = Cardinality(Answered) + 1
    BY <1>5, <2>1, FS_AddElement
  <2>3. Cardinality(Answered \cup {i}) \in 0..Count
    BY <1>2, QueriesFinite DEF Answered
  <2> QED
    BY <2>1, <2>2, <2>3, CountAssumption DEF RunInv, Counted
<1>7. messages_received \in Query
  BY <1>6, CountAssumption DEF RunInv, DataOK, Query
<1> QED
  BY <1>1, <1>2, <1>5, <1>6, <1>7

LEMMA CreditRun == ASSUME RunInv, CreditReply PROVE RunInv'
<1>1. /\ inbox # << >> /\ inbox' = Tail(inbox)
      /\ UNCHANGED <<pc, readfds, writefds, messages_sent, last_sent, sends, sent, attempts, clock,
                     sending, replies, strays>>
  BY DEF CreditReply, Reading, fdVars, sendVars
<1>2. PICK i \in Query :
        /\ answer[i] = 0
        /\ Record(i, Head(inbox).of) /\ NoteRead(Head(inbox).of)
        /\ i \notin Answered /\ Answered' = Answered \cup {i}
        /\ messages_received < Count /\ messages_received \in Query
  BY CreditEffect
<1>3. inbox' \in Seq(Message) /\ Head(inbox).of \in Query \cup {None}
  BY <1>1, OldestMessage DEF RunInv, Message
<1>4. answer' \in [Query -> {0, 1}]
  BY <1>2 DEF RunInv, DataOK, Record
<1>5. /\ receives' \in [Query -> Nat] /\ received' \in [Query -> Nat]
      /\ credit' \in [Query -> Query \cup {None}] /\ read' \subseteq Query
  BY <1>2, <1>3 DEF RunInv, DataOK, Record, NoteRead
<1>6. messages_received' \in 0..Count /\ messages_received' = messages_received + 1
  BY <1>2, CountAssumption DEF RunInv, DataOK, Record
<1>7. ControlOK'
  BY <1>1, Zenon DEF RunInv, ControlOK
<1>8. DataOK'
  BY <1>1, <1>3, <1>4, <1>5, <1>6 DEF RunInv, DataOK
<1>9. Stages'
  BY <1>1 DEF RunInv, Stages
<1>10. Counted'
  <2>1. IsFiniteSet(Answered)
    BY QueriesFinite DEF Answered
  <2>2. Cardinality(Answered') = Cardinality(Answered) + 1
    BY <1>2, <2>1, FS_AddElement
  <2> QED
    BY <1>6, <2>2 DEF RunInv, Counted
<1>11. Spaced'
  BY <1>1 DEF RunInv, Spaced
<1> QED
  BY <1>7, <1>8, <1>9, <1>10, <1>11 DEF RunInv

LEMMA SendRun == ASSUME RunInv, SendQuery PROVE RunInv'
<1> DEFINE n == messages_sent
<1>1. /\ pc = "write" /\ writefds /\ Due
      /\ sending' = sending + 1
      /\ sends' = [sends EXCEPT ![n] = clock] /\ sent' = [sent EXCEPT ![n] = clock]
      /\ messages_sent' = n + 1
      /\ last_sent' = (IF WriteInterval > 0 THEN clock ELSE last_sent)
      /\ pc' = (IF messages_sent' < Count THEN "select" ELSE StartWaiting)
      /\ UNCHANGED <<readfds, writefds, messages_received, receives, answer, received, credit, read,
                     attempts, clock, inbox, replies, strays>>
  BY DEF SendQuery, fdVars, receiveVars
<1>2. /\ n \in Nat /\ n < Count /\ n \in Query /\ attempts > 0 /\ clock \in Nat
      /\ sending \in Nat /\ sending < SocketBuffer
  BY <1>1, CountAssumption, BoundAssumption DEF RunInv, Stages, DataOK, Query
<1>3. /\ sends' \in [Query -> Nat] /\ sent' \in [Query -> Nat]
      /\ sends'[n] = clock /\ sent'[n] = clock
      /\ \A i \in 0..(n - 1) : sends'[i] = sends[i] /\ sent'[i] = sent[i]
  <2>1. sends \in [Query -> Nat] /\ sent \in [Query -> Nat]
    BY DEF RunInv, DataOK
  <2>2. \A i \in 0..(n - 1) : i \in Query /\ i # n
    BY <1>2, CountAssumption DEF Query
  <2>3. /\ sends' \in [Query -> Nat] /\ sent' \in [Query -> Nat]
        /\ \A i \in Query : sends'[i] = IF i = n THEN clock ELSE sends[i]
        /\ \A i \in Query : sent'[i] = IF i = n THEN clock ELSE sent[i]
    BY <1>1, <1>2, <2>1
  <2> QED
    BY <1>2, <2>2, <2>3
<1>4. pc' \in {"select", "wait", "done"} /\ (pc' = "select" <=> n + 1 < Count)
  BY <1>1 DEF StartWaiting
<1>5. ControlOK'
  BY <1>1, <1>4, Zenon DEF RunInv, ControlOK
<1>6. DataOK'
  <2>1. messages_sent' \in 0..Count /\ sending' \in 0..SocketBuffer /\ last_sent' \in Nat
    BY <1>1, <1>2, CountAssumption, BoundAssumption DEF RunInv, DataOK
  <2> QED
    BY <1>1, <1>3, <2>1 DEF RunInv, DataOK
<1>7. Stages'
  BY <1>1, <1>2, <1>4, CountAssumption DEF RunInv, Stages
<1>8. Answered' = Answered
  BY <1>1 DEF Answered
<1>9. Counted'
  BY <1>1, <1>8 DEF RunInv, Counted
<1>10. Spaced'
  <2>1. \A i \in 0..n : sends'[i] > 0 /\ sent'[i] = sends'[i]
    BY <1>2, <1>3 DEF RunInv, Spaced
  <2>2. n > 0 => sends'[n] - sends'[n - 1] >= WriteInterval
    <3>1. ASSUME n > 0
          PROVE  sends[n - 1] \in Nat /\ sends[n - 1] <= clock
      BY <1>2, <3>1, CountAssumption DEF RunInv, Spaced, DataOK, Query
    <3>2. ASSUME n > 0, WriteInterval > 0
          PROVE  clock - sends[n - 1] >= WriteInterval
      BY <1>1, <1>2, <3>2 DEF Due, RunInv, Spaced
    <3> QED
      BY <1>2, <1>3, <3>1, <3>2, IntervalType
  <2>3. \A i \in 1..n : sends'[i] - sends'[i - 1] >= WriteInterval
    <3>1. ASSUME NEW i \in 1..(n - 1)
          PROVE  sends'[i] - sends'[i - 1] >= WriteInterval
      BY <1>2, <1>3 DEF RunInv, Spaced
    <3> QED
      BY <1>2, <2>2, <3>1
  <2>4. WriteInterval > 0 => last_sent' = sends'[n]
    BY <1>1, <1>3
  <2>5. ASSUME NEW i \in 0..n, NEW j \in 0..i
        PROVE  sends'[j] <= sends'[i]
    <3>1. CASE i < n
      BY <1>2, <1>3, <3>1 DEF RunInv, Spaced
    <3>2. CASE i = n /\ j = n
      BY <1>2, <1>3, <3>2
    <3>3. CASE i = n /\ j < n
      <4>1. j \in 0..(n - 1) /\ n - 1 \in 0..(n - 1) /\ j \in 0..(n - 1) /\ n > 0
        BY <1>2, <3>3
      <4>2. sends[j] <= sends[n - 1] /\ sends[n - 1] <= clock
        BY <4>1 DEF RunInv, Spaced
      <4>3. sends[j] \in Nat /\ sends[n - 1] \in Nat
        <5>1. sends \in [Query -> Nat]
          BY DEF RunInv, DataOK
        <5>2. j \in Query /\ n - 1 \in Query
          BY <1>2, <4>1, CountAssumption DEF Query
        <5> QED
          BY <5>1, <5>2
      <4> QED
        BY <1>2, <1>3, <3>3, <4>1, <4>2, <4>3
    <3> QED
      BY <1>2, <3>1, <3>2, <3>3
  <2> QED
    BY <1>1, <1>2, <1>3, <2>1, <2>3, <2>4, <2>5 DEF RunInv, Spaced
<1> QED
  BY <1>5, <1>6, <1>7, <1>9, <1>10 DEF RunInv

LEMMA RunInductive == ASSUME RunInv, [Next]_vars PROVE RunInv'
<1>1. CASE UNCHANGED vars
  <2>1. UNCHANGED <<pc, readfds, writefds, messages_sent, last_sent, sends, sent, messages_received,
                    receives, answer, received, credit, read, attempts, clock, sending, inbox, replies,
                    strays>>
    BY <1>1 DEF vars, fdVars, sendVars, receiveVars, netVars
  <2>2. ControlOK'
    BY <2>1, Zenon DEF RunInv, ControlOK
  <2>3. DataOK' /\ Stages'
    BY <2>1 DEF RunInv, DataOK, Stages
  <2>4. Counted' /\ Spaced'
    BY <2>1, CountsStay DEF sendVars, RunInv, DataOK
  <2> QED
    BY <2>2, <2>3, <2>4 DEF RunInv
<1>2. CASE Step
  BY <1>2, LoopRun, CreditRun, DiscardRun, FailRun, SendRun DEF Step, LoopStep
<1>3. CASE SystemFails
  BY <1>3, FailRun DEF SystemFails
<1>4. CASE World
  BY <1>4, WorldRun
<1> QED
  BY <1>1, <1>2, <1>3, <1>4 DEF Next

\* The counts and the times of every run, whatever the transaction ids.
THEOREM RunInvariant == Spec => []RunInv
<1>1. RunInv /\ [Next]_vars => RunInv'
  BY RunInductive
<1> QED
  BY <1>1, InitRun, PTL DEF Spec

\* The client's state is well typed, and its counts stay within Count.
THEOREM TypeCorrect == Spec => []TypeOK
<1>1. RunInv => TypeOK
  BY TypeParts DEF RunInv
<1> QED
  BY <1>1, RunInvariant, PTL

\* The limit on the rate of queries is kept, whatever delays the loop.
THEOREM RateKept == Spec => []RateLimited
<1>1. RunInv => RateLimited
  BY DEF RunInv, Spaced, RateLimited
<1> QED
  BY <1>1, RunInvariant, PTL
-----------------------------------------------------------------------------
(* The arrays of the report.                                               *)

\* receives is filled from its start in the order of time, and holds each time
\* as often as the pairs that have a reply do.
Receipts ==
  /\ \A k \in Query : IF k < messages_received THEN receives[k] > 0 /\ receives[k] <= clock
                                               ELSE receives[k] = 0
  /\ \A j, k \in Query : j <= k /\ k < messages_received => receives[j] <= receives[k]
  /\ \A t \in Nat \ {0} : Cardinality({k \in Query : receives[k] = t})
                        = Cardinality({i \in Answered : received[i] = t})

LEMMA CreditReceipts == ASSUME RunInv, Receipts, CreditReply PROVE Receipts'
<1> DEFINE n == messages_received
           R(t) == {k \in Query : receives[k] = t}
           P(t) == {j \in Answered : received[j] = t}
<1>1. PICK i \in Query :
        /\ Record(i, Head(inbox).of)
        /\ i \notin Answered /\ Answered' = Answered \cup {i}
        /\ n < Count /\ n \in Query
  BY CreditEffect
<1>2. /\ clock' = clock /\ n' = n + 1 /\ clock \in Nat /\ clock > 0 /\ n \in Nat
      /\ receives' = [receives EXCEPT ![n] = clock] /\ received' = [received EXCEPT ![i] = clock]
      /\ receives \in [Query -> Nat] /\ received \in [Query -> Nat]
  <2>1. /\ clock \in Nat /\ clock > 0 /\ n \in Nat
        /\ receives \in [Query -> Nat] /\ received \in [Query -> Nat]
    BY CountAssumption DEF RunInv, DataOK, Spaced
  <2> QED
    BY <1>1, <2>1 DEF CreditReply, Record
<1>3. /\ receives'[n] = clock /\ \A k \in Query \ {n} : receives'[k] = receives[k]
      /\ received'[i] = clock /\ \A j \in Query \ {i} : received'[j] = received[j]
  BY <1>1, <1>2
<1>4. receives[n] = 0
  BY <1>1, <1>2 DEF Receipts
<1>5. \A k \in Query : k \in Nat
  BY CountAssumption DEF Query
<1>6. \A k \in Query : IF k < n' THEN receives'[k] > 0 /\ receives'[k] <= clock' ELSE receives'[k] = 0
  BY <1>1, <1>2, <1>3, <1>5 DEF Receipts
<1>7. \A j, k \in Query : j <= k /\ k < n' => receives'[j] <= receives'[k]
  <2> SUFFICES ASSUME NEW j \in Query, NEW k \in Query, j <= k, k < n'
               PROVE  receives'[j] <= receives'[k]
    OBVIOUS
  <2>1. CASE k = n
    BY <1>2, <1>3, <1>5, <1>6, <2>1
  <2>2. CASE k # n
    BY <1>2, <1>3, <1>5, <2>2 DEF Receipts
  <2> QED
    BY <2>1, <2>2
<1>8. ASSUME NEW t \in Nat \ {0}
      PROVE  Cardinality(R(t)') = Cardinality(P(t)')
  <2>1. IsFiniteSet(R(t)) /\ IsFiniteSet(P(t)) /\ Cardinality(R(t)) = Cardinality(P(t))
    BY QueriesFinite DEF Answered, Receipts
  <2>2. CASE t = clock
    <3>1. R(t)' = R(t) \cup {n} /\ n \notin R(t)
      BY <1>1, <1>2, <1>3, <1>4, <2>2
    <3>2. P(t)' = P(t) \cup {i} /\ i \notin P(t)
      BY <1>1, <1>2, <1>3, <2>2 DEF Answered
    <3> HIDE DEF R, P
    <3>3. /\ Cardinality(R(t) \cup {n}) = Cardinality(R(t)) + 1
          /\ Cardinality(P(t) \cup {i}) = Cardinality(P(t)) + 1
      BY <2>1, <3>1, <3>2, FS_AddElement
    <3> QED
      BY <2>1, <3>1, <3>2, <3>3
  <2>3. CASE t # clock
    <3>1. R(t)' = R(t)
      BY <1>1, <1>2, <1>3, <1>4, <2>3
    <3>2. P(t)' = P(t)
      BY <1>1, <1>2, <1>3, <2>3 DEF Answered
    <3> QED
      BY <2>1, <3>1, <3>2
  <2> QED
    BY <2>2, <2>3
<1> QED
  BY <1>6, <1>7, <1>8 DEF Receipts

\* Steps that credit no reply leave the arrays alone.
LEMMA OtherReceipts ==
  ASSUME RunInv, Receipts, [Next]_vars, ~CreditReply
  PROVE  /\ UNCHANGED <<messages_received, receives, answer, received, credit>>
         /\ clock' \in Nat /\ clock <= clock' /\ Receipts'
<1>1. UNCHANGED <<messages_received, receives, answer, received, credit>>
  BY DEF Next, vars, Step, SystemFails, World, SkipReceive, DiscardReply, RejectReply, ReceiveDone,
         DrainDone, SelectReady, SelectTimeout, SendQuery, SkipWrite, WaitReady, WaitTimeout,
         ReceiveFails, SelectFails, SendFails, Fail, receiveVars
<1>2. clock' = clock \/ (clock' = clock + 1)
  BY DEF Next, vars, Step, SystemFails, World, SkipReceive, DiscardReply, RejectReply, ReceiveDone,
         DrainDone, SelectReady, SelectTimeout, SendQuery, SkipWrite, WaitReady, WaitTimeout,
         ReceiveFails, SelectFails, SendFails, Fail, Transmit, Tick, Reply, Stray
<1>3. clock' \in Nat /\ clock <= clock'
  BY <1>2 DEF RunInv, DataOK
<1>4. Answered' = Answered
  BY <1>1 DEF Answered
<1>5. Receipts'
  <2>1. \A k \in Query : IF k < messages_received THEN receives[k] > 0 /\ receives[k] <= clock'
                                                   ELSE receives[k] = 0
    BY <1>3 DEF RunInv, DataOK, Receipts
  <2>2. \A t \in Nat \ {0} : /\ {k \in Query : receives'[k] = t} = {k \in Query : receives[k] = t}
                             /\ {i \in Answered' : received'[i] = t} = {i \in Answered : received[i] = t}
    BY <1>1, <1>4
  <2>3. \A t \in Nat \ {0} : Cardinality({k \in Query : receives'[k] = t})
                           = Cardinality({i \in Answered' : received'[i] = t})
    BY <2>2 DEF Receipts
  <2> QED
    BY <1>1, <2>1, <2>3 DEF Receipts
<1> QED
  BY <1>1, <1>3, <1>5

\* The arrays stay in order and agree.
THEOREM ReceiptsKept == Spec => []Receipts
<1>1. Init => Receipts
  <2> SUFFICES ASSUME Init PROVE Receipts
    OBVIOUS
  <2>1. Answered = {} /\ \A k \in Query : receives[k] = 0
    BY DEF Init, Answered
  <2>2. \A t \in Nat \ {0} : /\ {k \in Query : receives[k] = t} = {}
                             /\ {i \in Answered : received[i] = t} = {}
    BY <2>1
  <2>3. messages_received = 0 /\ \A k \in Query : k \in Nat
    BY CountAssumption DEF Init, Query
  <2> QED
    BY <2>1, <2>2, <2>3 DEF Receipts
<1>2. RunInv /\ Receipts /\ [Next]_vars => Receipts'
  BY CreditReceipts, OtherReceipts
<1> QED
  BY <1>1, <1>2, RunInvariant, PTL DEF Spec
-----------------------------------------------------------------------------
(* Runs in which a transaction id names one query: no more queries than    *)
(* ids, and no message from elsewhere with the id of a query.              *)

NoWrap == Count <= IdSpace /\ StrayId \cap Query = {}

\* A reply carries the number of its query, which has been sent.
Genuine == \A k \in DOMAIN inbox :
  \/ inbox[k].of = None /\ inbox[k].id \in StrayId
  \/ inbox[k].of \in Query /\ inbox[k].id = inbox[k].of /\ inbox[k].of < messages_sent

PairInv == Genuine /\ PairsMatch /\ LostOnlyUnread

\* A query's id is its number.
LEMMA IdIsNumber == ASSUME NoWrap, NEW i \in Query PROVE TransactionId(i) = i
BY CountAssumption DEF NoWrap, TransactionId, Query

\* A reply matches its own query or none.
LEMMA MatchesOwn ==
  ASSUME NoWrap, DataOK, Genuine, NEW k \in DOMAIN inbox
  PROVE  /\ Matches(inbox[k].id) \subseteq {inbox[k].of} \ {None}
         /\ inbox[k].of # None /\ sent[inbox[k].of] < clock /\ answer[inbox[k].of] = 0 =>
              inbox[k].of \in Matches(inbox[k].id)
<1> DEFINE id == inbox[k].id
           q == inbox[k].of
<1>1. \A i \in Query : i \in Nat /\ i < Count /\ i # None
  BY CountAssumption, InputAssumption DEF Query
<1>2. CASE q = None /\ id \in StrayId
  <2>1. id \in Nat /\ id >= Count
    <3>1. id \in Nat /\ id \notin Query
      BY <1>2, InputAssumption DEF NoWrap
    <3> QED
      BY <3>1, CountAssumption DEF Query
  <2>2. Matches(id) = {}
    BY <1>1, <2>1, CountAssumption DEF Matches
  <2> QED
    BY <1>2, <2>2
<1>3. CASE q \in Query /\ id = q
  <2>1. ASSUME NEW i \in Matches(id)
        PROVE  i = q
    <3>1. i \in Query /\ i >= q /\ (i - q) % IdSpace = 0
      BY <1>3 DEF Matches
    <3>2. i - q \in 0..(IdSpace - 1)
      BY <1>1, <1>3, <3>1, CountAssumption DEF NoWrap
    <3>3. (i - q) % IdSpace = i - q
      BY <3>2, CountAssumption
    <3> QED
      BY <1>1, <1>3, <3>1, <3>3
  <2>2. ASSUME sent[q] < clock, answer[q] = 0
        PROVE  q \in Matches(id)
    <3>1. q - q = 0 /\ 0 % IdSpace = 0 /\ q >= q
      BY <1>1, <1>3, CountAssumption
    <3> QED
      BY <1>3, <2>2, <3>1 DEF Matches
  <2> QED
    BY <1>1, <1>3, <2>1, <2>2
<1> QED
  BY <1>2, <1>3 DEF Genuine

\* Reading a message leaves the others as they are.
LEMMA ReadingGenuine ==
  ASSUME RunInv, Genuine, Reading, UNCHANGED messages_sent
  PROVE  Genuine'
<1>1. inbox # << >> /\ inbox' = Tail(inbox)
  BY DEF Reading
<1>2. \A k \in DOMAIN inbox' : k + 1 \in DOMAIN inbox /\ inbox'[k] = inbox[k + 1]
  BY <1>1, OldestMessage DEF RunInv
<1> QED
  BY <1>2 DEF Genuine

LEMMA CreditPairs == ASSUME NoWrap, RunInv, PairInv, CreditReply PROVE PairInv'
<1> DEFINE q == Head(inbox).of
<1>1. PICK i \in Query :
        /\ i \in Matches(Head(inbox).id) /\ sent[i] < clock
        /\ Record(i, q) /\ NoteRead(q)
        /\ i \notin Answered /\ Answered' = Answered \cup {i}
  BY CreditEffect
<1>2. Head(inbox) = inbox[1] /\ 1 \in DOMAIN inbox
  BY OldestMessage DEF CreditReply, Reading, RunInv
<1>3. i = q /\ q # None
  BY <1>1, <1>2, MatchesOwn DEF RunInv, PairInv
<1>4. i < messages_sent
  BY <1>2, <1>3 DEF PairInv, Genuine
<1>5. UNCHANGED <<messages_sent, sent>> /\ Genuine'
  BY ReadingGenuine DEF CreditReply, sendVars, PairInv
<1>6. /\ credit'[i] = i /\ received'[i] = clock
      /\ \A j \in Query \ {i} : credit'[j] = credit[j] /\ received'[j] = received[j]
  BY <1>1, <1>3 DEF Record, RunInv, DataOK
<1>7. PairsMatch'
  BY <1>1, <1>4, <1>5, <1>6 DEF PairInv, PairsMatch, Answered
<1>8. LostOnlyUnread'
  BY <1>1, <1>3 DEF NoteRead, PairInv, LostOnlyUnread
<1> QED
  BY <1>5, <1>7, <1>8 DEF PairInv

LEMMA DiscardPairs == ASSUME NoWrap, RunInv, PairInv, DiscardReply PROVE PairInv'
<1> DEFINE q == Head(inbox).of
<1>1. /\ Matches(Head(inbox).id) = {} /\ NoteRead(q)
      /\ UNCHANGED <<messages_sent, sent, answer, received, credit>>
  BY DEF DiscardReply, sendVars
<1>2. Head(inbox) = inbox[1] /\ 1 \in DOMAIN inbox
  BY OldestMessage DEF DiscardReply, Reading, RunInv
<1>3. Genuine'
  BY <1>1, ReadingGenuine DEF DiscardReply, PairInv
<1>4. Answered' = Answered
  BY <1>1 DEF Answered
<1>5. q # None /\ sent[q] < clock => q \in Answered
  <2>1. q # None => q \in Query
    BY <1>2 DEF PairInv, Genuine
  <2>2. q # None /\ sent[q] < clock => answer[q] # 0
    BY <1>1, <1>2, MatchesOwn DEF RunInv, PairInv
  <2> QED
    BY <2>1, <2>2 DEF Answered, RunInv, DataOK
<1>6. LostOnlyUnread'
  BY <1>1, <1>4, <1>5 DEF NoteRead, PairInv, LostOnlyUnread
<1>7. PairsMatch'
  BY <1>1, <1>4 DEF PairInv, PairsMatch
<1> QED
  BY <1>3, <1>6, <1>7 DEF PairInv

LEMMA SendPairs == ASSUME NoWrap, RunInv, PairInv, SendQuery PROVE PairInv'
<1> DEFINE n == messages_sent
<1>1. /\ n' = n + 1 /\ sent' = [sent EXCEPT ![n] = clock]
      /\ UNCHANGED <<answer, received, credit, read, inbox>>
  BY DEF SendQuery, receiveVars
<1>2. n \in Nat /\ \A i \in Query : i \in Nat
  BY CountAssumption DEF RunInv, DataOK, Query
<1>3. Genuine'
  BY <1>1, <1>2 DEF PairInv, Genuine
<1>4. Answered' = Answered
  BY <1>1 DEF Answered
<1>5. \A i \in Answered : i \in Query /\ i < n /\ sent'[i] = sent[i]
  BY <1>1, <1>2 DEF PairInv, PairsMatch, Answered, RunInv, DataOK
<1>6. PairsMatch'
  BY <1>1, <1>2, <1>4, <1>5 DEF PairInv, PairsMatch
<1>7. LostOnlyUnread'
  BY <1>1, <1>4 DEF PairInv, LostOnlyUnread
<1> QED
  BY <1>3, <1>6, <1>7 DEF PairInv

LEMMA WorldPairs == ASSUME NoWrap, RunInv, PairInv, World PROVE PairInv'
<1>1. UNCHANGED <<messages_sent, sent, answer, received, credit, read>>
  BY DEF World, sendVars, receiveVars
<1>2. Genuine'
  <2>1. inbox \in Seq(Message) /\ messages_sent \in Nat /\ sending \in Nat
    BY CountAssumption, BoundAssumption DEF RunInv, DataOK
  <2>2. CASE Transmit \/ Tick
    BY <1>1, <2>2 DEF Transmit, Tick, netVars, PairInv, Genuine
  <2>3. ASSUME NEW m \in Message, inbox' = Append(inbox, m),
               \/ m.of = None /\ m.id \in StrayId
               \/ m.of \in Query /\ m.id = m.of /\ m.of < messages_sent
        PROVE  Genuine'
    <3>1. /\ Len(inbox) \in Nat /\ DOMAIN inbox = 1..Len(inbox) /\ DOMAIN inbox' = 1..Len(inbox')
          /\ Len(inbox') = Len(inbox) + 1 /\ inbox'[Len(inbox) + 1] = m
          /\ \A k \in 1..Len(inbox) : inbox'[k] = inbox[k]
      BY <2>1, <2>3, AppendProperties, LenProperties
    <3>2. ASSUME NEW k \in 1..(Len(inbox) + 1)
          PROVE  inbox'[k] = m \/ (k \in DOMAIN inbox /\ inbox'[k] = inbox[k])
      BY <3>1
    <3> QED
      BY <1>1, <2>3, <3>1, <3>2 DEF PairInv, Genuine
  <2>4. ASSUME NEW i \in Query, Reply(i)
        PROVE  Genuine'
    <3> DEFINE m == [id |-> TransactionId(i), of |-> i]
    <3>1. i < messages_sent /\ inbox' = Append(inbox, m)
      BY <2>1, <2>4, CountAssumption DEF Reply, Query
    <3>2. m \in Message /\ m.of = i /\ m.id = i
      BY IdIsNumber, CountAssumption DEF Message, Query
    <3> QED
      BY <2>3, <3>1, <3>2
  <2>5. ASSUME NEW id \in StrayId, Stray(id)
        PROVE  Genuine'
    <3> DEFINE m == [id |-> id, of |-> None]
    <3>1. m \in Message /\ m.of = None /\ m.id = id /\ inbox' = Append(inbox, m)
      BY <2>5, InputAssumption DEF Message, Stray
    <3> QED
      BY <2>3, <3>1
  <2> QED
    BY <2>2, <2>4, <2>5 DEF World
<1>3. PairsMatch' /\ LostOnlyUnread'
  BY <1>1 DEF PairInv, PairsMatch, LostOnlyUnread, Answered
<1> QED
  BY <1>2, <1>3 DEF PairInv

\* Steps that change no pair and add no message.
LEMMA OtherPairs ==
  ASSUME NoWrap, RunInv, PairInv, LoopStep \/ RejectReply \/ SystemFails \/ UNCHANGED vars
  PROVE  PairInv'
<1>1. UNCHANGED <<messages_sent, sent, answer, received, credit, read>>
  BY DEF LoopStep, SkipReceive, ReceiveDone, DrainDone, SelectReady, SelectTimeout, SkipWrite, WaitReady,
         WaitTimeout, RejectReply, SystemFails, ReceiveFails, SelectFails, SendFails, Fail, vars,
         sendVars, receiveVars
<1>2. Genuine'
  <2>1. CASE RejectReply
    BY <1>1, <2>1, ReadingGenuine DEF RejectReply, PairInv
  <2>2. CASE LoopStep \/ SystemFails \/ UNCHANGED vars
    <3>1. inbox' = inbox
      BY <2>2 DEF LoopStep, SkipReceive, ReceiveDone, DrainDone, SelectReady, SelectTimeout, SkipWrite,
             WaitReady, WaitTimeout, SystemFails, ReceiveFails, SelectFails, SendFails, vars, netVars
    <3> QED
      BY <1>1, <3>1 DEF PairInv, Genuine
  <2> QED
    BY <2>1, <2>2
<1>3. PairsMatch' /\ LostOnlyUnread'
  BY <1>1 DEF PairInv, PairsMatch, LostOnlyUnread, Answered
<1> QED
  BY <1>2, <1>3 DEF PairInv

LEMMA PairsInductive == ASSUME NoWrap, RunInv, PairInv, [Next]_vars PROVE PairInv'
BY CreditPairs, DiscardPairs, SendPairs, WorldPairs, OtherPairs DEF Next, Step, LoopStep

LEMMA InitPairs == Init => PairInv
BY DEF Init, PairInv, Genuine, PairsMatch, LostOnlyUnread, Answered

\* While no id is used twice, replies are credited to their queries.
THEOREM PairInvariant == ASSUME NoWrap PROVE Spec => []PairInv
<1>1. Init => PairInv
  BY InitPairs
<1>2. RunInv /\ PairInv /\ [Next]_vars => PairInv'
  BY PairsInductive
<1> QED
  BY <1>1, <1>2, RunInvariant, PTL DEF Spec

\* Every reply is credited to the very query that it answers, and is younger.
THEOREM PairsCorrect == ASSUME NoWrap PROVE Spec => []PairsMatch
<1>1. PairInv => PairsMatch
  BY DEF PairInv
<1> QED
  BY <1>1, PairInvariant, PTL

\* No query whose reply was read counts as lost.
THEOREM LossHonest == ASSUME NoWrap PROVE Spec => []LostOnlyUnread
<1>1. PairInv => LostOnlyUnread
  BY DEF PairInv
<1> QED
  BY <1>1, PairInvariant, PTL
-----------------------------------------------------------------------------
(* The report of a run that ends.                                          *)

ReportSorted == pc = "done" => IsReport(Written)

\* A report has an item for each query.
LEMMA WrittenShape ==
  ASSUME RunInv
  PROVE  /\ Len(Written.sends) = Count /\ DOMAIN Written.sends = 1..Count
         /\ Len(Written.receives) = Count /\ DOMAIN Written.receives = 1..Count
         /\ Len(Written.pairs) = Count /\ DOMAIN Written.pairs = 1..Count
         /\ \A k \in 1..Count :
              /\ k - 1 \in Query
              /\ Written.sends[k] = sends[k - 1] /\ Written.receives[k] = receives[k - 1]
              /\ Written.pairs[k] =
                   PairOf(sent[k - 1], IF answer[k - 1] > 0 THEN received[k - 1] ELSE 0)
<1>2. ASSUME NEW f, NEW S, f \in [1..Count -> S]
      PROVE  Len(f) = Count /\ DOMAIN f = 1..Count
  <2>1. f \in Seq(S)
    BY <1>2, CountAssumption, SeqDef
  <2>2. DOMAIN f = 1..Count /\ DOMAIN f = 1..Len(f) /\ Len(f) \in Nat
    BY <1>2, <2>1, LenProperties
  <2> QED
    BY <2>2, CountAssumption
<1>3. \A k \in 1..Count : k - 1 \in Query
  BY CountAssumption DEF Query
<1> DEFINE pair(k) == PairOf(sent[k - 1], IF answer[k - 1] > 0 THEN received[k - 1] ELSE 0)
<1>4. /\ Written.sends = [k \in 1..Count |-> sends[k - 1]]
      /\ Written.receives = [k \in 1..Count |-> receives[k - 1]]
      /\ Written.pairs = [k \in 1..Count |-> pair(k)]
  BY DEF Written
<1>5. /\ Written.sends \in [1..Count -> {sends[k - 1] : k \in 1..Count}]
      /\ Written.receives \in [1..Count -> {receives[k - 1] : k \in 1..Count}]
      /\ Written.pairs \in [1..Count -> {pair(k) : k \in 1..Count}]
  BY <1>4
<1>6. \A k \in 1..Count : /\ Written.sends[k] = sends[k - 1] /\ Written.receives[k] = receives[k - 1]
                          /\ Written.pairs[k] = pair(k)
  BY <1>4
<1> QED
  BY <1>2, <1>3, <1>5, <1>6

\* A pair has three items if it is answered, and its times are those of its query.
LEMMA WrittenPairs ==
  ASSUME RunInv, PairsMatch, messages_sent = Count, NEW k \in 1..Count
  PROVE  /\ IsAnswered(Written.pairs[k]) <=> k - 1 \in Answered
         /\ IsAnswered(Written.pairs[k]) =>
              /\ Written.pairs[k] = <<sends[k - 1], received[k - 1], received[k - 1] - sends[k - 1]>>
              /\ received[k - 1] \in Nat \ {0} /\ received[k - 1] - sends[k - 1] > 0
         /\ ~IsAnswered(Written.pairs[k]) => Written.pairs[k] = <<sends[k - 1]>>
<1> DEFINE q == k - 1
<1>1. q \in Query /\ q \in 0..(messages_sent - 1)
  BY CountAssumption DEF Query
<1>2. Written.pairs[k] = PairOf(sent[q], IF answer[q] > 0 THEN received[q] ELSE 0)
  BY WrittenShape
<1>3. sent[q] = sends[q] /\ sends[q] \in Nat /\ received[q] \in Nat /\ answer[q] \in {0, 1}
  BY <1>1 DEF RunInv, Spaced, DataOK
<1>4. CASE answer[q] > 0
  <2>1. q \in Answered
    BY <1>1, <1>4 DEF Answered
  <2>2. sends[q] < received[q] /\ received[q] # 0
    BY <1>3, <2>1 DEF PairsMatch
  <2>3. Written.pairs[k] = <<sends[q], received[q], received[q] - sends[q]>>
    BY <1>2, <1>3, <1>4, <2>2 DEF PairOf
  <2> QED
    BY <1>3, <2>1, <2>2, <2>3 DEF IsAnswered
<1>5. CASE ~(answer[q] > 0)
  <2>1. q \notin Answered
    BY <1>5 DEF Answered
  <2>2. Written.pairs[k] = <<sends[q]>>
    BY <1>2, <1>3, <1>5 DEF PairOf
  <2> QED
    BY <2>1, <2>2 DEF IsAnswered
<1> QED
  BY <1>4, <1>5

\* A time is in receives as often as in pairs.
LEMMA WrittenCounts ==
  ASSUME RunInv, PairsMatch, Receipts, messages_sent = Count, NEW t \in Nat \ {0}
  PROVE  ReceivedAt(Written, t) = PairedAt(Written, t)
<1> DEFINE A == {k \in 1..Count : Written.receives[k] = t}
           B == {k \in Query : receives[k] = t}
           C == {k \in 1..Count : IsAnswered(Written.pairs[k]) /\ Written.pairs[k][2] = t}
           D == {i \in Answered : received[i] = t}
           f == [k \in B |-> k + 1]
           g == [k \in D |-> k + 1]
<1>1. IsFiniteSet(B) /\ IsFiniteSet(D) /\ Cardinality(B) = Cardinality(D)
  BY QueriesFinite DEF Receipts, Answered
<1>2. \A k \in Query : k \in Nat /\ k + 1 \in 1..Count /\ (k + 1) - 1 = k
  BY CountAssumption DEF Query
<1>3. \A k \in 1..Count : k - 1 \in Query /\ (k - 1) + 1 = k
  BY CountAssumption DEF Query
<1>4. Cardinality(A) = Cardinality(B)
  <2>1. \A k \in B : k + 1 \in A
    BY <1>2, WrittenShape
  <2>2. \A k \in A : k - 1 \in B /\ f[k - 1] = k
    BY <1>3, WrittenShape
  <2>3. f \in Surjection(B, A) /\ f \in Injection(B, A)
    BY <1>2, <2>1, <2>2 DEF Surjection, Injection, IsInjective
  <2> QED
    BY <1>1, <2>3, FS_Surjection
<1>5. Cardinality(C) = Cardinality(D)
  <2>1. ASSUME NEW k \in D
        PROVE  k + 1 \in C
    <3>1. k \in Query /\ k \in Answered /\ received[k] = t
      BY DEF Answered
    <3>2. k + 1 \in 1..Count /\ (k + 1) - 1 = k
      BY <1>2, <3>1
    <3>3. IsAnswered(Written.pairs[k + 1]) /\ Written.pairs[k + 1][2] = received[k]
      BY <3>1, <3>2, WrittenPairs
    <3> QED
      BY <3>1, <3>2, <3>3
  <2>2. ASSUME NEW k \in C
        PROVE  k - 1 \in D /\ g[k - 1] = k
    <3>1. k - 1 \in Answered /\ Written.pairs[k][2] = received[k - 1]
      BY WrittenPairs
    <3>2. k - 1 \in D
      BY <3>1
    <3> QED
      BY <1>3, <3>2
  <2>3. \A k \in D : k \in Query
    BY DEF Answered
  <2>4. g \in Surjection(D, C) /\ g \in Injection(D, C)
    BY <1>2, <2>1, <2>2, <2>3 DEF Surjection, Injection, IsInjective
  <2> QED
    BY <1>1, <2>4, FS_Surjection
<1> QED
  BY <1>1, <1>4, <1>5, WrittenShape DEF ReceivedAt, PairedAt

\* A run that ends as it should writes a report whose arrays are sorted and agree.
THEOREM ReportsSorted == ASSUME NoWrap PROVE Spec => []ReportSorted
<1>1. RunInv /\ Receipts /\ PairInv => ReportSorted
  <2> SUFFICES ASSUME RunInv, Receipts, PairsMatch, pc = "done" PROVE IsReport(Written)
    BY DEF PairInv, ReportSorted
  <2>1. messages_sent = Count
    BY DEF RunInv, Stages
  <2>2. \A k \in 1..Count : k - 1 \in 0..(messages_sent - 1) /\ k - 1 \in Query
    BY <2>1, CountAssumption DEF Query
  <2>3. ASSUME NEW k \in 1..Count
        PROVE  /\ Written.sends[k] > 0
               /\ \A j \in 1..k : Written.sends[j] <= Written.sends[k]
    <3>1. \A j \in 1..k : j \in 1..Count /\ j - 1 \in 0..(k - 1)
      BY CountAssumption
    <3> QED
      BY <2>2, <3>1, WrittenShape DEF RunInv, Spaced
  <2>4. ASSUME NEW k \in 1..Count
        PROVE  LET pair == Written.pairs[k] IN
                 /\ pair = PairOf(Written.sends[k], IF IsAnswered(pair) THEN pair[2] ELSE 0)
                 /\ IsAnswered(pair) => pair[3] > 0
    <3>1. Written.sends[k] = sends[k - 1]
      BY WrittenShape
    <3>2. CASE IsAnswered(Written.pairs[k])
      BY <2>1, <3>1, <3>2, WrittenPairs DEF PairOf
    <3>3. CASE ~IsAnswered(Written.pairs[k])
      BY <2>1, <3>1, <3>3, WrittenPairs DEF PairOf
    <3> QED
      BY <3>2, <3>3
  <2>5. ASSUME NEW k \in 1..Count, NEW j \in 1..k, Written.receives[k] # 0
        PROVE  0 < Written.receives[j] /\ Written.receives[j] <= Written.receives[k]
    <3>1. j \in 1..Count /\ j - 1 \in Query /\ k - 1 \in Query /\ j - 1 <= k - 1
          /\ messages_received \in Nat
      BY <2>2, CountAssumption DEF RunInv, DataOK
    <3>2. Written.receives[k] = receives[k - 1] /\ Written.receives[j] = receives[j - 1]
      BY <3>1, WrittenShape
    <3>3. k - 1 < messages_received /\ j - 1 < messages_received
      BY <2>5, <3>1, <3>2 DEF Receipts
    <3> QED
      BY <3>1, <3>2, <3>3 DEF Receipts
  <2>6. \A k \in 1..Count : Written.receives[k] # 0 =>
          ReceivedAt(Written, Written.receives[k]) = PairedAt(Written, Written.receives[k])
    <3>1. \A k \in 1..Count : Written.receives[k] \in Nat
      BY <2>2, WrittenShape DEF RunInv, DataOK
    <3> QED
      BY <2>1, <3>1, WrittenCounts
  <2>7. ASSUME NEW k \in 1..Count, IsAnswered(Written.pairs[k])
        PROVE  ReceivedAt(Written, Written.pairs[k][2]) = PairedAt(Written, Written.pairs[k][2])
    <3>1. Written.pairs[k][2] \in Nat \ {0}
      BY <2>1, <2>7, WrittenPairs
    <3> QED
      BY <2>1, <3>1, WrittenCounts
  <2> QED
    BY <2>3, <2>4, <2>5, <2>6, <2>7, WrittenShape DEF IsReport
<1> QED
  BY <1>1, RunInvariant, ReceiptsKept, PairInvariant, PTL

\* The zeroes of a report are as many as the queries that no reply was credited to.
LEMMA LossCounted ==
  ASSUME RunInv, Receipts
  PROVE  Lost(JLoad(Written)) = Count - messages_received
<1> DEFINE P == {k \in 1..Count : Written.receives[k] > 0}
           loaded == [k \in 1..Cardinality(P) |-> Written.receives[Nth(P, k - 1)]]
<1>1. messages_received \in 0..Count
  BY CountAssumption DEF RunInv, DataOK
<1>2. \A k \in 1..Count : Written.receives[k] > 0 <=> k <= messages_received
  <2>1. \A k \in 1..Count : k - 1 \in Query /\ Written.receives[k] = receives[k - 1]
    BY WrittenShape
  <2>2. \A k \in 1..Count : k - 1 < messages_received <=> k <= messages_received
    BY <1>1, CountAssumption
  <2>3. \A q \in Query : receives[q] > 0 <=> q < messages_received
    BY DEF Receipts
  <2> QED
    BY <2>1, <2>2, <2>3
<1>3. P = 1..messages_received
  BY <1>1, <1>2, CountAssumption
<1>4. Cardinality(P) = messages_received
  <2> HIDE DEF P
  <2>1. 1 \in Int /\ messages_received \in Int /\ messages_received >= 0
    BY <1>1, CountAssumption
  <2>2. Cardinality(1..messages_received) = IF 1 > messages_received THEN 0 ELSE messages_received - 1 + 1
    BY <2>1, FS_Interval
  <2> QED
    BY <1>3, <2>1, <2>2
<1>5. JLoad(Written) = [Written EXCEPT !.receives = loaded]
  BY WrittenShape DEF JLoad, Kept
<1>6. JLoad(Written).receives = loaded /\ JLoad(Written).sends = Written.sends
  BY <1>5 DEF Written
<1>7. Len(loaded) = messages_received
  <2>1. loaded \in [1..messages_received -> {loaded[k] : k \in 1..messages_received}]
    BY <1>4
  <2> DEFINE S == {loaded[k] : k \in 1..messages_received}
  <2>2. messages_received \in Nat
    BY <1>1, CountAssumption
  <2>3. DOMAIN loaded = 1..messages_received
    BY <2>1
  <2> HIDE DEF loaded, S, P
  <2>4. loaded \in Seq(S)
    BY <2>1, <2>2, SeqDef DEF S
  <2>5. Len(loaded) \in Nat /\ DOMAIN loaded = 1..Len(loaded)
    BY <2>4, LenProperties
  <2> QED
    BY <2>2, <2>3, <2>5
<1> HIDE DEF loaded
<1> QED
  BY <1>6, <1>7, WrittenShape DEF Lost

\* A run that ends as it should writes a report as the analyser expects it, of
\* which it reads as many losses as the client counted.
THEOREM ReportsWritten == ASSUME NoWrap PROVE Spec => []WritesReport
<1>1. RunInv /\ Receipts /\ ReportSorted => WritesReport
  BY LossCounted DEF ReportSorted, WritesReport
<1> QED
  BY <1>1, RunInvariant, ReceiptsKept, ReportsSorted, PTL
-----------------------------------------------------------------------------
(* The client implements the abstract measurement.                         *)

\* The step that each step of the client is, or that it changes nothing abstract.
LEMMA FinishOrStutter ==
  ASSUME UNCHANGED <<messages_sent, answer>>, ~Ended
  PROVE  [M!Next]_<<messages_sent, Answered, Ended>>
<1>1. Answered' = Answered
  BY DEF Answered
<1>2. CASE Ended'
  <2>1. M!Finish
    BY <1>1, <1>2, Zenon DEF M!Finish
  <2> QED
    BY <2>1 DEF M!Next
<1>3. CASE ~Ended'
  <2>1. Ended' = Ended
    BY <1>3 DEF Ended
  <2> QED
    BY <1>1, <2>1
<1> QED
  BY <1>2, <1>3

LEMMA CreditRefines ==
  ASSUME RunInv, PairInv', CreditReply
  PROVE  [M!Next]_<<messages_sent, Answered, Ended>>
<1>1. PICK i \in Query : i \notin Answered /\ Answered' = Answered \cup {i}
  BY CreditEffect
<1>2. UNCHANGED <<messages_sent, pc>> /\ pc \in {"recv", "drain"}
  BY DEF CreditReply, Reading, Receiving, sendVars
<1>3. i < messages_sent
  BY <1>1, <1>2 DEF PairInv, PairsMatch
<1>4. ~Ended /\ Ended' = Ended
  BY <1>2 DEF Ended
<1>5. M!Credit(i)
  BY <1>1, <1>2, <1>3, <1>4 DEF M!Credit
<1>6. i \in M!Query
  BY DEF M!Query, Query
<1> QED
  BY <1>5, <1>6 DEF M!Next

LEMMA SendRefines ==
  ASSUME RunInv, PairInv, SendQuery
  PROVE  [M!Next]_<<messages_sent, Answered, Ended>>
<1>1. /\ pc = "write" /\ messages_sent' = messages_sent + 1 /\ UNCHANGED <<answer, messages_received>>
      /\ pc' = (IF messages_sent' < Count THEN "select" ELSE StartWaiting)
  BY DEF SendQuery, receiveVars
<1>2. messages_sent \in Nat /\ messages_sent < Count
  BY <1>1, CountAssumption DEF RunInv, Stages, DataOK
<1>3. messages_received < Count
  <2>1. Answered \subseteq 0..(messages_sent - 1)
    BY <1>2, CountAssumption DEF PairInv, PairsMatch, Answered, Query
  <2>2. IsFiniteSet(0..(messages_sent - 1)) /\ Cardinality(0..(messages_sent - 1)) = messages_sent
    BY <1>2, FS_Interval
  <2>3. Cardinality(Answered) <= messages_sent
    BY <2>1, <2>2, FS_Subset
  <2>4. Cardinality(Answered) \in 0..Count
    BY QueriesFinite DEF Answered
  <2> QED
    BY <1>2, <2>3, <2>4, CountAssumption DEF RunInv, Counted
<1>4. pc' \in {"select", "wait"}
  BY <1>1, <1>3 DEF StartWaiting
<1>5. ~Ended /\ ~Ended'
  BY <1>1, <1>4 DEF Ended
<1>6. Ended' = Ended
  BY <1>5 DEF Ended
<1>7. Answered' = Answered
  BY <1>1 DEF Answered
<1>8. M!Send
  BY <1>1, <1>2, <1>5, <1>6, <1>7 DEF M!Send
<1> QED
  BY <1>8 DEF M!Next

LEMMA StepRefines ==
  ASSUME RunInv, PairInv, PairInv', [Next]_vars
  PROVE  [M!Next]_<<messages_sent, Answered, Ended>>
<1>1. CASE UNCHANGED vars \/ World \/ DiscardReply
  <2>1. UNCHANGED <<pc, messages_sent, answer>>
    BY <1>1 DEF vars, World, DiscardReply, sendVars, receiveVars
  <2> QED
    BY <2>1 DEF Answered, Ended
<1>2. CASE CreditReply
  BY <1>2, CreditRefines
<1>3. CASE SendQuery
  BY <1>3, SendRefines
<1>4. CASE LoopStep \/ RejectReply \/ SystemFails
  <2>1. ~Ended /\ UNCHANGED <<messages_sent, answer>>
    BY <1>4 DEF LoopStep, SkipReceive, ReceiveDone, DrainDone, SelectReady, SelectTimeout, SkipWrite,
           WaitReady, WaitTimeout, RejectReply, SystemFails, ReceiveFails, SelectFails, SendFails, Fail,
           Reading, Receiving, Ended, sendVars, receiveVars
  <2> QED
    BY <2>1, FinishOrStutter
<1> QED
  BY <1>1, <1>2, <1>3, <1>4 DEF Next, Step, LoopStep

\* What the client does is a measurement, for every number of queries.
THEOREM Refines == ASSUME NoWrap PROVE Spec => IsMeasurement
<1>1. Init => M!Init
  <2> SUFFICES ASSUME Init PROVE M!Init
    OBVIOUS
  <2>1. messages_sent = 0 /\ Answered = {} /\ ~Ended
    BY DEF Init, Answered, Ended
  <2>2. Ended = FALSE
    BY <2>1 DEF Ended
  <2> QED
    BY <2>1, <2>2 DEF M!Init
<1>2. RunInv /\ PairInv /\ PairInv' /\ [Next]_vars => [M!Next]_<<messages_sent, Answered, Ended>>
  BY StepRefines
<1> QED
  BY <1>1, <1>2, RunInvariant, PairInvariant, PTL DEF Spec, M!Spec, IsMeasurement
-----------------------------------------------------------------------------
(* What those who run the client with others need to know of its steps.    *)

\* A client that has ended does nothing more.
LEMMA EndIsFinal == ASSUME Ended, [Next]_vars PROVE UNCHANGED vars
BY DEF Ended, Next, Step, SystemFails, World, SkipReceive, CreditReply, DiscardReply, RejectReply,
       Reading, Receiving, ReceiveDone, DrainDone, SelectReady, SelectTimeout, SendQuery, SkipWrite,
       WaitReady, WaitTimeout, ReceiveFails, SelectFails, SendFails

\* Only CreditReply answers a query.
LEMMA AnswerSteps == ASSUME [Next]_vars, ~CreditReply PROVE answer' = answer
BY DEF Next, vars, Step, SystemFails, World, SkipReceive, DiscardReply, RejectReply, ReceiveDone,
       DrainDone, SelectReady, SelectTimeout, SendQuery, SkipWrite, WaitReady, WaitTimeout,
       ReceiveFails, SelectFails, SendFails, Fail, receiveVars

\* The client only takes messages from its socket, the oldest first.
LEMMA InboxSteps ==
  ASSUME Step
  PROVE  inbox' = inbox \/ (inbox # << >> /\ inbox' = Tail(inbox))
BY DEF Step, SkipReceive, CreditReply, DiscardReply, RejectReply, Reading, ReceiveDone, DrainDone,
       SelectReady, SelectTimeout, SendQuery, SkipWrite, WaitReady, WaitTimeout, netVars

\* A query that has been sent stays sent.
LEMMA SentGrows == ASSUME RunInv, [Next]_vars PROVE messages_sent <= messages_sent'
<1>1. messages_sent \in Nat
  BY CountAssumption DEF RunInv, DataOK
<1>2. messages_sent' \in {messages_sent, messages_sent + 1}
  BY DEF Next, vars, Step, SystemFails, World, SkipReceive, CreditReply, DiscardReply, RejectReply,
         ReceiveDone, DrainDone, SelectReady, SelectTimeout, SendQuery, SkipWrite, WaitReady,
         WaitTimeout, ReceiveFails, SelectFails, SendFails, Fail, sendVars
<1> QED
  BY <1>1, <1>2

\* Except while it reads, the client watches its socket: each path of the two loops
\* puts back the bit that select cleared (main.c:982, 1051-1055, 1110-1113).
Watched == pc \notin {"recv", "failed"} => readfds

LEMMA InitWatched == Init => Watched
BY DEF Init, Watched

LEMMA StepWatched == ASSUME Watched, [Next]_vars PROVE Watched'
<1>1. CASE SkipReceive \/ SelectTimeout \/ WaitTimeout
  BY <1>1 DEF SkipReceive, SelectTimeout, WaitTimeout, Watched
<1>2. CASE SelectReady
  BY <1>2 DEF SelectReady, Watched
<1>3. CASE ReceiveDone
  BY <1>3, Zenon DEF ReceiveDone, Receiving, fdVars, Watched
<1>4. CASE DrainDone \/ WaitReady \/ SendQuery \/ SkipWrite
  BY <1>4, Zenon DEF DrainDone, WaitReady, SendQuery, SkipWrite, fdVars, Watched
<1>5. CASE CreditReply \/ DiscardReply \/ World \/ UNCHANGED vars
  BY <1>5, Zenon DEF CreditReply, DiscardReply, World, vars, fdVars, Watched
<1>6. CASE RejectReply \/ SystemFails
  BY <1>6 DEF RejectReply, SystemFails, ReceiveFails, SelectFails, SendFails, Fail, Watched
<1> QED
  BY <1>1, <1>2, <1>3, <1>4, <1>5, <1>6 DEF Next, Step

\* A run ends because all queries are answered, or because a wait was in vain.
LEMMA Ending ==
  ASSUME RunInv, Watched, [Next]_vars, pc # "done", pc' = "done"
  PROVE  \/ Answered' = Query
         \/ /\ attempts' < attempts /\ inbox = << >>
            /\ UNCHANGED <<messages_sent, sending, inbox, replies>>
<1>1. RunInv'
  BY RunInductive
<1>2. CASE messages_received' = Count
  <2>1. Cardinality(Answered') = Count /\ Answered' \subseteq Query
    BY <1>1, <1>2 DEF RunInv, Counted, Answered
  <2>2. IsFiniteSet(Query) /\ Cardinality(Query) = Count
    BY QueriesFinite
  <2> QED
    BY <2>1, <2>2, FS_Subset
<1>3. CASE WaitTimeout
  <2>1. attempts \in Nat /\ attempts' = attempts - 1
    BY <1>3, LimitAssumption DEF WaitTimeout, RunInv, ControlOK
  <2>2. inbox = << >>
    BY <1>3, Zenon DEF WaitTimeout, Readable, Watched
  <2> QED
    BY <1>3, <2>1, <2>2 DEF WaitTimeout, sendVars, netVars
<1>4. messages_received' = Count \/ WaitTimeout
  <2>1. CASE DrainDone \/ SendQuery
    <3>1. pc' = StartWaiting \/ pc' = "select"
      BY <2>1 DEF DrainDone, SendQuery
    <3>2. messages_received' = messages_received
      BY <2>1 DEF DrainDone, SendQuery, receiveVars
    <3>3. messages_received \in 0..Count
      BY DEF RunInv, DataOK
    <3> QED
      BY <3>1, <3>2, <3>3, CountAssumption DEF StartWaiting
  <2>2. DrainDone \/ SendQuery \/ WaitTimeout
    BY DEF Next, vars, Step, SystemFails, World, SkipReceive, CreditReply, DiscardReply, RejectReply,
           ReceiveDone, SelectReady, SelectTimeout, SkipWrite, WaitReady, ReceiveFails, SelectFails,
           SendFails, Fail
  <2> QED
    BY <2>1, <2>2
<1> QED
  BY <1>2, <1>3, <1>4
=============================================================================
