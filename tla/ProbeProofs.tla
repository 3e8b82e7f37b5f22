----------------------------- MODULE ProbeProofs -----------------------------
(***************************************************************************)
(* Proofs about client and server together, for every number of queries    *)
(* and every network.  What each program does by itself is taken from      *)
(* MigProofs and ServerProofs; what is shown here is how the two agree.    *)
(***************************************************************************)
EXTENDS Probe, SequenceTheorems, FiniteSetTheorems, TLAPS

CP == INSTANCE MigProofs WITH
  MaxStrays <- 0, StrayId <- {},
  pc <- c_pc, readfds <- c_readfds, writefds <- c_writefds, messages_received <- c_received,
  sends <- c_sends, receives <- c_receives, sending <- c_sending, inbox <- c_inbox

SP == INSTANCE ServerProofs WITH
  Query <- 0..(Count - 1), Malformed <- {},
  inbox <- s_inbox, sending <- s_sending, pc <- s_pc, readfds <- s_readfds,
  writefds <- s_writefds, messages_received <- s_received, receives <- s_receives, sends <- s_sends

\* The ids of a run go round only after its last query (main.c:85).
NoWrap == Count <= IdSpace
-----------------------------------------------------------------------------
(* The steps of Probe are steps of the modules that the theorems are about. *)

LEMMA SameClientInit == C!Init <=> CP!Init
BY DEF C!Init, CP!Init, C!Query, CP!Query

LEMMA SameClientReads ==
  /\ C!SkipReceive <=> CP!SkipReceive
  /\ C!CreditReply <=> CP!CreditReply
  /\ C!DiscardReply <=> CP!DiscardReply
  /\ C!RejectReply <=> CP!RejectReply
  /\ C!ReceiveDone <=> CP!ReceiveDone
  /\ C!DrainDone <=> CP!DrainDone
BY DEF C!SkipReceive, CP!SkipReceive, C!CreditReply, CP!CreditReply, C!DiscardReply, CP!DiscardReply,
       C!RejectReply, CP!RejectReply, C!ReceiveDone, CP!ReceiveDone, C!DrainDone, CP!DrainDone,
       C!Reading, CP!Reading, C!Receiving, CP!Receiving, C!TooLargeId, CP!TooLargeId,
       C!Matches, CP!Matches, C!Query, CP!Query, C!Record, CP!Record, C!NoteRead, CP!NoteRead,
       C!Fail, CP!Fail, C!StartWaiting, CP!StartWaiting, C!fdVars, CP!fdVars,
       C!sendVars, CP!sendVars, C!receiveVars, CP!receiveVars, C!netVars, CP!netVars

LEMMA SameClientSends ==
  /\ C!SelectReady <=> CP!SelectReady
  /\ C!SelectTimeout <=> CP!SelectTimeout
  /\ C!SendQuery <=> CP!SendQuery
  /\ C!SkipWrite <=> CP!SkipWrite
  /\ C!WaitReady <=> CP!WaitReady
  /\ C!WaitTimeout <=> CP!WaitTimeout
BY DEF C!SelectReady, CP!SelectReady, C!SelectTimeout, CP!SelectTimeout, C!SendQuery, CP!SendQuery,
       C!SkipWrite, CP!SkipWrite, C!WaitReady, CP!WaitReady, C!WaitTimeout, CP!WaitTimeout,
       C!Readable, CP!Readable, C!Writable, CP!Writable, C!Due, CP!Due,
       C!WriteInterval, CP!WriteInterval, C!StartWaiting, CP!StartWaiting, C!fdVars, CP!fdVars,
       C!sendVars, CP!sendVars, C!receiveVars, CP!receiveVars, C!netVars, CP!netVars

LEMMA SameClientStep == C!Step <=> CP!Step
BY SameClientReads, SameClientSends DEF C!Step, CP!Step

LEMMA SameClientWorld ==
  /\ C!World <=> CP!World
  /\ C!Ended <=> CP!Ended
  /\ \A i \in Query : C!Reply(i) <=> CP!Reply(i)
BY DEF C!World, CP!World, C!Ended, CP!Ended, C!Transmit, CP!Transmit, C!Tick, CP!Tick,
       C!Stamps, CP!Stamps, C!Reply, CP!Reply, C!Stray, CP!Stray,
       C!TransactionId, CP!TransactionId, C!Query, CP!Query, C!fdVars, CP!fdVars,
       C!sendVars, CP!sendVars, C!receiveVars, CP!receiveVars, C!netVars, CP!netVars

LEMMA SameServerInit == S!Init <=> SP!Init
BY DEF S!Init, SP!Init, S!Q!Init, SP!Q!Init, S!Q!Addr, SP!Q!Addr

LEMMA SameServerWaits ==
  /\ S!SkipDump <=> SP!SkipDump
  /\ S!BeginDump <=> SP!BeginDump
  /\ S!Dump <=> SP!Dump
  /\ S!DumpFails <=> SP!DumpFails
  /\ S!SelectReady <=> SP!SelectReady
  /\ S!SelectTimeout <=> SP!SelectTimeout
  /\ S!SelectInterrupted <=> SP!SelectInterrupted
  /\ S!SelectFails <=> SP!SelectFails
BY DEF S!SkipDump, SP!SkipDump, S!BeginDump, SP!BeginDump, S!Dump, SP!Dump,
       S!DumpFails, SP!DumpFails, S!SelectReady, SP!SelectReady, S!SelectTimeout, SP!SelectTimeout,
       S!SelectInterrupted, SP!SelectInterrupted, S!SelectFails, SP!SelectFails,
       S!Watch, SP!Watch, S!Q!IsEmpty, SP!Q!IsEmpty, S!ResetPositions, SP!ResetPositions,
       S!MayTouchErrno, SP!MayTouchErrno, S!Fail, SP!Fail, S!Ready, SP!Ready,
       S!Readable, SP!Readable, S!Writable, SP!Writable, S!Idle, SP!Idle,
       S!WatchWrite, SP!WatchWrite, S!Report, SP!Report,
       S!queueVars, SP!queueVars, S!worldVars, SP!worldVars, S!waitVars, SP!waitVars,
       S!countVars, SP!countVars, S!stampVars, SP!stampVars

LEMMA SameServerQueue ==
  /\ S!Q!Get <=> SP!Q!Get
  /\ S!Q!IsEmpty <=> SP!Q!IsEmpty
  /\ \A q : /\ S!Q!PushAtTail(q) <=> SP!Q!PushAtTail(q)
            /\ S!Q!PushWrapped(q) <=> SP!Q!PushWrapped(q)
            /\ S!Q!PushRefused(q) <=> SP!Q!PushRefused(q)
BY DEF S!Q!Get, SP!Q!Get, S!Q!PushAtTail, SP!Q!PushAtTail, S!Q!PushWrapped, SP!Q!PushWrapped,
       S!Q!PushRefused, SP!Q!PushRefused, S!Q!IsEmpty, SP!Q!IsEmpty,
       S!Q!HeadMessage, SP!Q!HeadMessage, S!Q!NewHead, SP!Q!NewHead, S!Q!ReadFrom, SP!Q!ReadFrom,
       S!Q!FitsAtTail, SP!Q!FitsAtTail, S!Q!Fits, SP!Q!Fits, S!Q!TailLimit, SP!Q!TailLimit,
       S!Q!WriteRecord, SP!Q!WriteRecord, S!Q!Accept, SP!Q!Accept, S!Q!MayWrap, SP!Q!MayWrap,
       S!Q!CanPush, SP!Q!CanPush, S!Q!Addr, SP!Q!Addr

LEMMA SameServerReads ==
  /\ S!SkipReceive <=> SP!SkipReceive
  /\ S!ReceiveOne <=> SP!ReceiveOne
  /\ S!ReceiveUnqueued <=> SP!ReceiveUnqueued
  /\ S!ReceiveMalformed <=> SP!ReceiveMalformed
  /\ S!ReceiveFails <=> SP!ReceiveFails
  /\ S!ReceiveDone <=> SP!ReceiveDone
  /\ S!SkipStdin <=> SP!SkipStdin
  /\ S!Stop <=> SP!Stop
  /\ S!ReadStdin <=> SP!ReadStdin
  /\ S!StdinEnds <=> SP!StdinEnds
BY SameServerQueue
   DEF S!SkipReceive, SP!SkipReceive, S!ReceiveOne, SP!ReceiveOne,
       S!ReceiveUnqueued, SP!ReceiveUnqueued, S!ReceiveMalformed, SP!ReceiveMalformed,
       S!ReceiveFails, SP!ReceiveFails, S!ReceiveDone, SP!ReceiveDone, S!Receiving, SP!Receiving,
       S!Stamp, SP!Stamp, S!SkipStdin, SP!SkipStdin, S!Stop, SP!Stop, S!ReadStdin, SP!ReadStdin,
       S!StdinEnds, SP!StdinEnds, S!StopTyped, SP!StopTyped, S!Fail, SP!Fail,
       S!queueVars, SP!queueVars, S!worldVars, SP!worldVars, S!waitVars, SP!waitVars,
       S!countVars, SP!countVars, S!stampVars, SP!stampVars

LEMMA SameServerSends ==
  /\ S!SkipSend <=> SP!SkipSend
  /\ S!SendOne <=> SP!SendOne
  /\ S!SendBlocked <=> SP!SendBlocked
  /\ S!SendFails <=> SP!SendFails
  /\ S!SendDone <=> SP!SendDone
BY SameServerQueue
   DEF S!SkipSend, SP!SkipSend, S!SendOne, SP!SendOne, S!SendBlocked, SP!SendBlocked,
       S!SendFails, SP!SendFails, S!SendDone, SP!SendDone, S!Sending, SP!Sending,
       S!Stamp, SP!Stamp, S!Fail, SP!Fail,
       S!queueVars, SP!queueVars, S!worldVars, SP!worldVars, S!waitVars, SP!waitVars,
       S!countVars, SP!countVars, S!stampVars, SP!stampVars

LEMMA SameServerStep ==
  /\ S!Step <=> SP!Step
  /\ S!SystemFails <=> SP!SystemFails
  /\ S!SelectInterrupted <=> SP!SelectInterrupted
BY SameServerWaits, SameServerReads, SameServerSends
   DEF S!Step, SP!Step, S!SystemFails, SP!SystemFails

LEMMA SameServerWorld ==
  /\ S!World <=> SP!World
  /\ S!Signal <=> SP!Signal
  /\ S!Ended <=> SP!Ended
  /\ S!Seen = SP!Seen
BY DEF S!World, SP!World, S!Signal, SP!Signal, S!Ended, SP!Ended, S!Seen, SP!Seen,
       S!Transmit, SP!Transmit, S!CloseStdin, SP!CloseStdin, S!Arrive, SP!Arrive, S!Type, SP!Type,
       S!queueVars, SP!queueVars, S!waitVars, SP!waitVars,
       S!countVars, SP!countVars, S!stampVars, SP!stampVars
-----------------------------------------------------------------------------
(* The inductive invariant: each program's own, and what passes between.   *)

Programs == CP!RunInv /\ CP!PairInv /\ CP!Watched /\ SP!Inv /\ SP!Once

\* A reply that the client holds, or has credited, left the server before; a query
\* that the server has seen left the client before.
Conveyed ==
  /\ \A k \in DOMAIN c_inbox : c_inbox[k].of \in S!Values(replied)
  /\ C!Answered \subseteq S!Values(replied)
  /\ S!Seen \subseteq 0..(messages_sent - 1)

Inv == Programs /\ Conveyed /\ LossIsReal

LEMMA SameAnswered == C!Answered = CP!Answered /\ C!Answered' = CP!Answered'
BY DEF C!Answered, CP!Answered, C!Query, CP!Query

LEMMA SameValues ==
  /\ S!Values(replied) = SP!Values(replied)
  /\ S!Values(replied)' = SP!Values(replied')
BY DEF S!Values, SP!Values

\* A step of the whole is a step of the client or none, and one of the server or none.
LEMMA Steps == ASSUME [Next]_vars PROVE [CP!Next]_(CP!vars) /\ [SP!Next]_(SP!vars)
<1>1. UNCHANGED clientVars => UNCHANGED CP!vars
  BY DEF clientVars, CP!vars, CP!fdVars, CP!sendVars, CP!receiveVars, CP!netVars
<1>2. UNCHANGED serverVars => UNCHANGED SP!vars
  BY DEF serverVars, SP!vars, SP!queueVars, SP!worldVars, SP!waitVars, SP!countVars, SP!stampVars
<1>3. CASE Client
  <2>1. CP!Next
    BY <1>3, SameClientStep, SameClientWorld DEF Client, CP!Next
  <2> QED
    BY <1>2, <1>3, <2>1 DEF Client
<1>4. CASE Server
  <2>1. SP!Next
    BY <1>4, SameServerStep, SameServerWorld DEF Server, SP!Next
  <2> QED
    BY <1>1, <1>4, <2>1 DEF Server
<1>5. ASSUME NEW i \in Query, QueryArrives(i)
      PROVE  [CP!Next]_(CP!vars) /\ [SP!Next]_(SP!vars)
  <2>1. SP!Next
    BY <1>5, SameServerWorld DEF QueryArrives, SP!Next
  <2> QED
    BY <1>1, <1>5, <2>1 DEF QueryArrives
<1>6. ASSUME NEW i \in Query, ReplyArrives(i)
      PROVE  [CP!Next]_(CP!vars) /\ [SP!Next]_(SP!vars)
  <2>1. CP!Next
    BY <1>6, SameClientWorld DEF ReplyArrives, CP!Next
  <2> QED
    BY <1>2, <1>6, <2>1 DEF ReplyArrives
<1>7. ASSUME NEW i \in Query, Lose(i)
      PROVE  [CP!Next]_(CP!vars) /\ [SP!Next]_(SP!vars)
  BY <1>1, <1>2, <1>7 DEF Lose
<1>8. CASE UNCHANGED vars
  BY <1>1, <1>2, <1>8 DEF vars
<1> QED
  BY <1>3, <1>4, <1>5, <1>6, <1>7, <1>8 DEF Next, Network

LEMMA IdsDiffer == NoWrap => CP!NoWrap
BY DEF NoWrap, CP!NoWrap

LEMMA ProgramsInv == ASSUME NoWrap, Programs, [Next]_vars PROVE Programs'
<1>1. [CP!Next]_(CP!vars) /\ [SP!Next]_(SP!vars)
  BY Steps
<1>2. CP!RunInv' 
  BY <1>1, CP!RunInductive, ClientAssumption DEF Programs
<1>3. CP!PairInv'
  BY <1>1, IdsDiffer, CP!PairsInductive, ClientAssumption DEF Programs
<1>4. SP!Inv'
  BY <1>1, SP!NextInv, ClientAssumption, ServerAssumption DEF Programs
<1>5. SP!Once'
  BY <1>1, SP!OnceInv, ClientAssumption, ServerAssumption DEF Programs
<1>6. CP!Watched'
  BY <1>1, CP!StepWatched, ClientAssumption DEF Programs
<1> QED
  BY <1>2, <1>3, <1>4, <1>5, <1>6 DEF Programs

\* What the two invariants say of the variables they share.
LEMMA ProgramTypes ==
  ASSUME Programs
  PROVE  /\ messages_sent \in 0..Count /\ c_sending \in Nat /\ s_sending \in Nat
         /\ attempts \in Nat /\ replies \in [Query -> 0..MaxReplies]
         /\ accepted \in Seq(Query) /\ replied \in Seq(Query) /\ s_inbox \in Seq(Query)
         /\ c_inbox \in Seq([id : Nat, of : Query \cup {None}])
<1>1. CP!DataOK /\ CP!ControlOK /\ SP!DataOK
  BY DEF Programs, CP!RunInv, SP!Inv
<1>2. Query = 0..(Count - 1) /\ CP!Query = Query
  BY DEF Query, CP!Query
<1>3. /\ messages_sent \in 0..Count /\ c_sending \in 0..SocketBuffer /\ replies \in [Query -> 0..MaxReplies]
      /\ c_inbox \in Seq([id : Nat, of : Query \cup {None}])
  BY <1>1, <1>2 DEF CP!DataOK, CP!Message
<1>4. s_sending \in 0..SocketBuffer /\ attempts \in 0..RecvTimeout
  BY <1>1 DEF SP!DataOK, CP!ControlOK
<1>5. accepted \in Seq(Query) /\ replied \in Seq(Query) /\ s_inbox \in Seq(Query)
  BY <1>1, <1>2 DEF SP!DataOK
<1>6. \A n : \A k \in 0..n : k \in Nat
  OBVIOUS
<1> QED
  BY <1>3, <1>4, <1>5, <1>6

LEMMA InitInv == Init => Inv
<1> SUFFICES ASSUME Init PROVE Inv
  OBVIOUS
<1>1. CP!Init /\ SP!Init
  BY SameClientInit, SameServerInit DEF Init
<1>2. CP!RunInv /\ CP!PairInv /\ CP!Watched
  BY <1>1, CP!InitRun, CP!InitPairs, CP!InitWatched, ClientAssumption
<1>3. SP!Inv /\ SP!Once
  BY <1>1, SP!InitInv, SP!InitOnce, ClientAssumption, ServerAssumption
<1>4. Conveyed
  <2>1. c_inbox = << >> /\ CP!Answered = {} /\ s_inbox = << >> /\ accepted = << >>
    BY <1>1 DEF CP!Init, SP!Init, CP!Answered
  <2>2. S!Seen = {}
    BY <2>1 DEF S!Seen
  <2> QED
    BY <2>1, <2>2, SameAnswered DEF Conveyed
<1>5. LossIsReal
  BY <1>1 DEF CP!Init, LossIsReal
<1> QED
  BY <1>2, <1>3, <1>4, <1>5 DEF Inv, Programs
-----------------------------------------------------------------------------
(* What passes between the programs.                                       *)

\* The message that the client reads is the reply to the query it is credited to.
LEMMA CreditsConveyed ==
  ASSUME NoWrap, Programs, Conveyed, CP!CreditReply
  PROVE  CP!Answered' \subseteq S!Values(replied)
<1>1. PICK i \in CP!Query :
        i \in CP!Matches(Head(c_inbox).id) /\ CP!Answered' = CP!Answered \cup {i}
  BY CP!CreditEffect, ClientAssumption DEF Programs
<1>2. c_inbox # << >> /\ CP!DataOK
  BY DEF CP!CreditReply, CP!Reading, Programs, CP!RunInv
<1>3. Head(c_inbox) = c_inbox[1] /\ 1 \in DOMAIN c_inbox
  BY <1>2, CP!OldestMessage, ClientAssumption
<1>4. CP!Matches(c_inbox[1].id) \subseteq {c_inbox[1].of}
  <2>1. CP!Genuine
    BY DEF Programs, CP!PairInv
  <2> QED
    BY <1>2, <1>3, <2>1, IdsDiffer, CP!MatchesOwn, ClientAssumption
<1>5. i \in S!Values(replied)
  BY <1>1, <1>3, <1>4 DEF Conveyed
<1> QED
  BY <1>1, <1>5, SameAnswered DEF Conveyed

LEMMA AnsweredConveyed ==
  ASSUME NoWrap, Programs, Conveyed, [Next]_vars
  PROVE  C!Answered' \subseteq S!Values(replied)'
<1>1. S!Values(replied) \subseteq S!Values(replied)'
  BY Steps, SameValues, SP!RepliedGrows, ClientAssumption, ServerAssumption DEF Programs
<1>2. CASE CP!CreditReply
  BY <1>1, <1>2, CreditsConveyed, SameAnswered
<1>3. CASE ~CP!CreditReply
  <2>1. answer' = answer
    BY <1>3, Steps, CP!AnswerSteps, ClientAssumption
  <2>2. C!Answered' = C!Answered
    BY <2>1 DEF C!Answered
  <2> QED
    BY <1>1, <2>2 DEF Conveyed
<1> QED
  BY <1>2, <1>3

LEMMA RepliesConveyed ==
  ASSUME Programs, Conveyed, [Next]_vars, NEW k \in DOMAIN c_inbox'
  PROVE  c_inbox'[k].of \in S!Values(replied)'
<1>1. S!Values(replied) \subseteq S!Values(replied)'
  BY Steps, SameValues, SP!RepliedGrows, ClientAssumption, ServerAssumption DEF Programs
<1>2. CASE c_inbox' = c_inbox
  BY <1>1, <1>2 DEF Conveyed
<1>3. CASE c_inbox # << >> /\ c_inbox' = Tail(c_inbox)
  <2>1. CP!DataOK
    BY DEF Programs, CP!RunInv
  <2>2. k + 1 \in DOMAIN c_inbox /\ c_inbox'[k] = c_inbox[k + 1]
    BY <1>3, <2>1, CP!OldestMessage, ClientAssumption
  <2> QED
    BY <1>1, <2>2 DEF Conveyed
<1>4. ASSUME NEW i \in Query, ReplyArrives(i)
      PROVE  c_inbox'[k].of \in S!Values(replied)'
  <2> DEFINE m == [id |-> C!TransactionId(i), of |-> i]
             M == [id : Nat, of : Query \cup {None}]
  <2>1. c_inbox' = Append(c_inbox, m)
    BY <1>4 DEF ReplyArrives, C!Reply
  <2>2. c_inbox \in Seq(M)
    BY ProgramTypes
  <2>3. m \in M /\ m.of = i
    BY ClientAssumption DEF C!TransactionId, Query
  <2> HIDE DEF m, M
  <2>4. /\ DOMAIN c_inbox' = 1..(Len(c_inbox) + 1) /\ DOMAIN c_inbox = 1..Len(c_inbox)
        /\ Len(c_inbox) \in Nat
        /\ \A j \in 1..Len(c_inbox) : c_inbox'[j] = c_inbox[j]
        /\ c_inbox'[Len(c_inbox) + 1] = m
    BY <2>1, <2>2, <2>3, AppendProperties, LenProperties
  <2>5. i \in S!Values(replied)
    <3>1. PICK j \in 1..(Len(replied) - s_sending) : replied[j] = i
      BY <1>4 DEF ReplyArrives, RepliesLeft
    <3>2. j \in 1..Len(replied)
      BY <3>1, ProgramTypes, LenProperties
    <3> QED
      BY <3>1, <3>2 DEF S!Values
  <2>6. CASE k \in 1..Len(c_inbox)
    BY <1>1, <2>4, <2>6 DEF Conveyed
  <2>7. CASE k = Len(c_inbox) + 1
    BY <1>1, <2>3, <2>4, <2>5, <2>7
  <2> QED
    BY <2>4, <2>6, <2>7
<1>5. CASE Client
  <2>1. CASE C!Step
    BY <1>2, <1>3, <2>1, SameClientStep, CP!InboxSteps, ClientAssumption
  <2>2. CASE C!Transmit \/ C!Tick
    BY <1>2, <2>2 DEF C!Transmit, C!Tick, C!netVars
  <2> QED
    BY <1>5, <2>1, <2>2 DEF Client
<1>6. CASE Server \/ UNCHANGED vars
  BY <1>2, <1>6 DEF Server, vars, clientVars
<1>7. ASSUME NEW i \in Query, QueryArrives(i) \/ Lose(i)
      PROVE  c_inbox' = c_inbox
  BY <1>7 DEF QueryArrives, Lose, clientVars
<1> QED
  BY <1>2, <1>4, <1>5, <1>6, <1>7 DEF Next, Network

LEMMA LongerRange ==
  ASSUME NEW a \in Int, NEW b \in Int, a <= b
  PROVE  0..(a - 1) \subseteq 0..(b - 1)
OBVIOUS

LEMMA QueriesConveyed ==
  ASSUME Programs, Conveyed, [Next]_vars
  PROVE  S!Seen' \subseteq 0..(messages_sent' - 1)
<1>1. messages_sent \in Int /\ messages_sent' \in Int /\ messages_sent <= messages_sent'
  <2>1. messages_sent <= messages_sent'
    BY Steps, CP!SentGrows, ClientAssumption DEF Programs
  <2>2. CP!RunInv'
    BY Steps, CP!RunInductive, ClientAssumption DEF Programs
  <2>3. messages_sent' \in 0..Count
    BY <2>2 DEF CP!RunInv, CP!DataOK
  <2> QED
    BY <2>1, <2>3, ProgramTypes, ClientAssumption
<1>2. 0..(messages_sent - 1) \subseteq 0..(messages_sent' - 1)
  BY <1>1, LongerRange
<1>3. CASE S!Seen' \subseteq S!Seen
  BY <1>2, <1>3 DEF Conveyed
<1>4. CASE Server
  <2>1. CASE S!Step \/ S!SystemFails \/ S!SelectInterrupted \/ S!Signal
    <3>1. SP!Seen' \subseteq SP!Seen
      BY <2>1, SameServerStep, SameServerWorld, SP!SeenShrinks, ClientAssumption, ServerAssumption
         DEF Programs
    <3>2. S!Seen' = SP!Seen' /\ S!Seen = SP!Seen
      BY DEF S!Seen, SP!Seen
    <3> QED
      BY <1>3, <3>1, <3>2
  <2>2. CASE S!World /\ S!Transmit
    BY <1>3, <2>2 DEF S!World, S!Transmit, S!Seen
  <2> QED
    BY <1>4, <2>1, <2>2 DEF Server
<1>5. CASE UNCHANGED serverVars
  BY <1>3, <1>5 DEF serverVars, S!Seen
<1>6. ASSUME NEW i \in Query, QueryArrives(i)
      PROVE  S!Seen' \subseteq 0..(messages_sent' - 1)
  <2>1. s_inbox' = Append(s_inbox, i) /\ accepted' = accepted
    BY <1>6 DEF QueryArrives, S!Arrive, S!World
  <2>2. /\ Len(s_inbox) \in Nat /\ Len(s_inbox') = Len(s_inbox) + 1
        /\ \A k \in 1..Len(s_inbox) : s_inbox'[k] = s_inbox[k]
        /\ s_inbox'[Len(s_inbox) + 1] = i
    BY <2>1, ProgramTypes, AppendProperties, LenProperties
  <2>3. \A k \in 1..Len(s_inbox') : k \in 1..Len(s_inbox) \/ k = Len(s_inbox) + 1
    BY <2>2
  <2>4. S!Seen' \subseteq S!Seen \cup {i}
    BY <2>1, <2>2, <2>3 DEF S!Seen
  <2>5. i \in 0..(messages_sent - 1)
    BY <1>1, <1>6, ProgramTypes, ClientAssumption, SMTT(30) DEF QueryArrives, QueriesUnderWay, Query
  <2> QED
    BY <1>2, <2>4, <2>5 DEF Conveyed
<1>7. UNCHANGED serverVars \/ Server \/ \E i \in Query : QueryArrives(i)
  BY DEF Next, Network, Client, ReplyArrives, Lose, vars
<1> QED
  BY <1>4, <1>5, <1>6, <1>7

LEMMA ConveyedInv == ASSUME NoWrap, Programs, Conveyed, [Next]_vars PROVE Conveyed'
BY AnsweredConveyed, RepliesConveyed, QueriesConveyed DEF Conveyed
-----------------------------------------------------------------------------
(* What the client reports as lost.                                        *)

\* A wait in vain finds the server idle and the network empty: whatever query has
\* no reply in the client's socket by then is lost, or its server has ended.
LEMMA WaitsInVain ==
  ASSUME Programs, Still, ~S!Ended, messages_sent = Count, NEW i \in Query
  PROVE  i \in lost \/ replies[i] > 0
<1>1. /\ c_sending = 0 /\ RepliesUnderWay = {} /\ s_pc = "select" /\ ~SP!Ready
      /\ s_sending = 0 /\ QueriesUnderWay = {}
  BY DEF Still, S!Ready, SP!Ready, S!Readable, SP!Readable, S!Writable, SP!Writable
<1>2. s_inbox = << >> /\ replied = accepted
  BY <1>1, SP!IdleHasAnswered, ClientAssumption, ServerAssumption DEF Programs
<1>3. i \in S!Seen \cup lost
  BY <1>1, ClientAssumption DEF QueriesUnderWay, Query
<1>4. CASE i \in S!Seen
  <2>1. PICK k \in 1..Len(accepted) : accepted[k] = i
    BY <1>2, <1>4 DEF S!Seen
  <2>2. i \in RepliesLeft
    <3>1. Len(replied) - s_sending = Len(accepted)
      BY <1>1, <1>2, ProgramTypes, LenProperties
    <3> QED
      BY <1>2, <2>1, <3>1 DEF RepliesLeft
  <2>3. replies[i] # 0 \/ i \in lost
    BY <1>1, <2>2 DEF RepliesUnderWay
  <2>4. replies[i] \in Nat
    BY ProgramTypes, ClientAssumption
  <2> QED
    BY <2>3, <2>4
<1> QED
  BY <1>3, <1>4

LEMMA LossInv == ASSUME NoWrap, Inv, [Next]_vars PROVE LossIsReal'
<1> SUFFICES ASSUME c_pc' = "done", ~S!Ended', NEW i \in Query, i \notin C!Answered'
             PROVE  i \in lost' \/ ReadInItsTick(i)'
  BY DEF LossIsReal, Query
<1>1. Programs /\ Programs' /\ LossIsReal
  BY ProgramsInv DEF Inv
<1>2. [CP!Next]_(CP!vars)
  BY Steps
<1>3. i \notin read'
  BY <1>1, SameAnswered DEF Programs, CP!PairInv, CP!LostOnlyUnread
<1>4. ~S!Ended
  BY <1>1, Steps, SameServerWorld, SP!EndIsFinal, ClientAssumption, ServerAssumption
     DEF SP!Ended, S!Ended
<1>5. CASE c_pc = "done"
  <2>1. UNCHANGED CP!vars
    BY <1>2, <1>5, CP!EndIsFinal, ClientAssumption DEF CP!Ended
  <2>2. replies' = replies /\ c_inbox' = c_inbox /\ read' = read /\ answer' = answer
    BY <2>1 DEF CP!vars, CP!netVars, CP!receiveVars
  <2>3. i \notin C!Answered
    BY <2>2 DEF C!Answered
  <2>4. i \in lost \/ ReadInItsTick(i)
    BY <1>1, <1>4, <1>5, <2>3 DEF LossIsReal
  <2>5. lost \subseteq lost'
    BY DEF Next, Network, Client, Server, QueryArrives, ReplyArrives, Lose, vars
  <2> QED
    BY <2>2, <2>4, <2>5 DEF ReadInItsTick
<1>6. CASE c_pc # "done"
  <2>1. /\ attempts' < attempts /\ c_inbox = << >>
        /\ UNCHANGED <<messages_sent, c_sending, c_inbox, replies>>
    <3>1. CP!Answered' # CP!Query
      BY SameAnswered DEF CP!Query, Query
    <3> QED
      BY <1>1, <1>2, <1>6, <3>1, CP!Ending, ClientAssumption DEF Programs
  <2>2. attempts' # attempts
    BY <1>1, <2>1, ProgramTypes
  <2>3. Client /\ C!Step
    <3>1. clientVars' # clientVars
      BY <2>2 DEF clientVars
    <3>2. \A q \in Query : ~ReplyArrives(q)
      BY <2>2 DEF ReplyArrives, C!World
    <3> QED
      BY <2>2, <3>1, <3>2 DEF Next, Network, Client, C!World, Server, QueryArrives, Lose, vars
  <2>4. Still /\ lost' = lost
    BY <2>1, <2>2, <2>3 DEF Client, C!World
  <2>5. messages_sent = Count
    BY <1>1, <2>1 DEF Programs, CP!RunInv, CP!Stages
  <2>6. i \in lost \/ replies[i] > 0
    BY <1>1, <1>4, <2>4, <2>5, WaitsInVain
  <2>7. DOMAIN c_inbox' = {}
    BY <2>1
  <2> QED
    BY <1>3, <2>1, <2>4, <2>6, <2>7 DEF ReadInItsTick
<1> QED
  BY <1>5, <1>6

LEMMA NextInv == ASSUME NoWrap, Inv, [Next]_vars PROVE Inv'
BY ProgramsInv, ConveyedInv, LossInv DEF Inv

\* What the two programs know of each other, while no transaction id is used twice.
THEOREM Invariant == ASSUME NoWrap PROVE Spec => []Inv
<1>1. Inv /\ [Next]_vars => Inv'
  BY NextInv
<1> QED
  BY <1>1, InitInv, PTL DEF Spec

\* Whatever the client reports as lost was lost, or came too early, or its server
\* stopped; neither program forgets a message (main.c:1058-1121, server.c:477-537).
THEOREM ReportsRealLoss == ASSUME NoWrap PROVE Spec => []LossIsReal
<1>1. Inv => LossIsReal
  BY DEF Inv
<1> QED
  BY <1>1, Invariant, PTL
-----------------------------------------------------------------------------
(* What the programs count.                                                *)

\* A sequence has at most as many values as items, and just as many if it has none
\* twice.
LEMMA ValuesCounted ==
  ASSUME NEW E, NEW s \in Seq(E)
  PROVE  /\ IsFiniteSet(S!Values(s)) /\ Cardinality(S!Values(s)) <= Len(s)
         /\ (\A j, k \in 1..Len(s) : s[j] = s[k] => j = k) => Cardinality(S!Values(s)) = Len(s)
<1> DEFINE D == 1..Len(s)
<1>1. Len(s) \in Nat /\ s \in [D -> E] /\ DOMAIN s = D
  BY LenProperties
<1>2. IsFiniteSet(D) /\ Cardinality(D) = Len(s)
  BY <1>1, FS_Interval
<1>3. s \in Surjection(D, S!Values(s))
  BY <1>1 DEF Surjection, S!Values
<1>4. /\ IsFiniteSet(S!Values(s)) /\ Cardinality(S!Values(s)) <= Cardinality(D)
      /\ Cardinality(S!Values(s)) = Cardinality(D) <=> s \in Injection(D, S!Values(s))
  BY <1>2, <1>3, FS_Surjection
<1>5. ASSUME \A j, k \in D : s[j] = s[k] => j = k
      PROVE  s \in Injection(D, S!Values(s))
  BY <1>3, <1>5 DEF Surjection, Injection, IsInjective
<1> QED
  BY <1>2, <1>4, <1>5

LEMMA InvCounts == Inv => CountsAgree
<1> SUFFICES ASSUME Inv PROVE CountsAgree
  OBVIOUS
<1>1. Programs /\ Conveyed /\ SP!Inv /\ SP!Once
  BY DEF Inv, Programs
<1>2. /\ accepted \in Seq(Query) /\ replied \in Seq(Query) /\ messages_sent \in Nat
      /\ Len(accepted) \in Nat /\ Len(replied) \in Nat
  BY <1>1, ProgramTypes, LenProperties, ClientAssumption
<1>3. C!Answered \subseteq S!Values(replied)
  BY <1>1 DEF Conveyed
<1>4. Cardinality(C!Answered) = c_received
  <2>1. \A T : CP!Cardinality(T) = Cardinality(T)
    BY DEF CP!Cardinality, Cardinality, CP!IsFiniteSet, IsFiniteSet
  <2> QED
    BY <1>1, <2>1, SameAnswered DEF Programs, CP!RunInv, CP!Counted
<1>5. c_received <= Len(replied)
  <2>1. /\ IsFiniteSet(S!Values(replied)) /\ Cardinality(S!Values(replied)) \in Nat
        /\ Cardinality(S!Values(replied)) <= Len(replied)
    BY <1>2, ValuesCounted, FS_CardinalityType
  <2>2. Cardinality(C!Answered) \in Nat /\ Cardinality(C!Answered) <= Cardinality(S!Values(replied))
    BY <1>3, <2>1, FS_Subset, FS_CardinalityType
  <2> QED
    BY <1>2, <1>4, <2>1, <2>2
<1>6. reported + s_received = Len(accepted)
  BY <1>1 DEF SP!Inv, SP!ReportsAddUp
<1>7. Len(replied) <= Len(accepted)
  <2>1. SP!Q!Queued \in Seq(0..(Count - 1)) /\ replied \o SP!Q!Queued = accepted
    BY <1>1, SP!QueueContents, ClientAssumption, ServerAssumption DEF SP!Inv, SP!RepliesInOrder
  <2>2. replied \in Seq(0..(Count - 1))
    BY <1>2 DEF Query
  <2>3. Len(accepted) = Len(replied) + Len(SP!Q!Queued) /\ Len(SP!Q!Queued) \in Nat
    BY <2>1, <2>2, ConcatProperties, LenProperties
  <2> QED
    BY <1>2, <2>3
<1>8. Len(accepted) <= messages_sent
  <2> DEFINE Sent == 0..(messages_sent - 1)
  <2>1. IsFiniteSet(Sent) /\ Cardinality(Sent) = messages_sent
    <3>1. messages_sent - 1 \in Int /\ 0 \in Int
      BY <1>2
    <3>2. IsFiniteSet(Sent) /\ Cardinality(Sent) = IF 0 > messages_sent - 1 THEN 0 ELSE messages_sent - 1 - 0 + 1
      BY <3>1, FS_Interval
    <3> QED
      BY <1>2, <3>2
  <2>2. S!Values(accepted) \subseteq Sent
    BY <1>1 DEF Conveyed, S!Seen, S!Values
  <2>3. Cardinality(S!Values(accepted)) = Len(accepted)
    BY <1>1, <1>2, ValuesCounted DEF SP!Once
  <2>4. Cardinality(S!Values(accepted)) <= Cardinality(Sent)
    BY <2>1, <2>2, FS_Subset
  <2> QED
    BY <2>1, <2>3, <2>4
<1> QED
  BY <1>3, <1>4, <1>5, <1>6, <1>7, <1>8 DEF CountsAgree

\* At every moment the counts of the two programs agree (README.md:44-59).
THEOREM ProgramsAgree == ASSUME NoWrap PROVE Spec => []CountsAgree
BY Invariant, InvCounts, PTL
=============================================================================
