--------------------------------- MODULE Mig ---------------------------------
(***************************************************************************)
(* mig/probe/main.c: the DNS client.  One thread sends Count queries, at   *)
(* most one per WriteInterval, reading replies in between; then it waits   *)
(* for the rest until all are answered or RECV_TIMEOUT selects in a row    *)
(* time out.  Every reply is credited to a query by its transaction id,    *)
(* the query's number modulo USHRT_MAX.                                    *)
(*                                                                         *)
(* The network loses, delays, reorders and duplicates replies.  A reply is *)
(* its transaction id and, as history, the query it answers.  Queries are  *)
(* numbered from 0, as the arrays are.                                     *)
(***************************************************************************)
EXTENDS Integers, Sequences, FiniteSets, Report

CONSTANTS
  Count,         \* queries to send
  IdSpace,       \* USHRT_MAX: query i has transaction id i % IdSpace
  QueryLimit,    \* -l: queries per second, 0 for no limit
  Nanoseconds,   \* NANOSECONDS, clock ticks per second
  RecvTimeout,   \* RECV_TIMEOUT
  SocketBuffer,  \* bound: queries the kernel buffers before select finds no room
  MaxReplies,    \* bound: copies of the reply to a query that arrive
  MaxGap,        \* bound: ticks between two recorded timestamps
  MaxStrays,     \* bound: messages that answer no query of this run
  StrayId,       \* transaction ids of those messages
  Uninitialized, \* what malloc may leave in pairs[i].sent
  None

ASSUME CountAssumption == Count \in Nat \ {0} /\ IdSpace \in Nat \ {0}
ASSUME LimitAssumption == QueryLimit \in Nat /\ Nanoseconds \in Nat \ {0} /\ RecvTimeout \in Nat \ {0}
ASSUME BoundAssumption == SocketBuffer \in Nat \ {0} /\ MaxReplies \in Nat /\ MaxGap \in Nat /\ MaxStrays \in Nat
ASSUME InputAssumption == StrayId \subseteq Nat /\ Uninitialized \subseteq Nat /\ None \notin Nat

Query == 0..(Count - 1)

\* main.c:761-766
WriteInterval ==
  IF QueryLimit = 0 THEN 0
  ELSE IF Nanoseconds % QueryLimit >= Nanoseconds \div 2
       THEN Nanoseconds \div QueryLimit + 1
       ELSE Nanoseconds \div QueryLimit

VARIABLES
  pc,                 \* where main() is
  readfds, writefds,  \* the socket is set in readfds, in writefds
  messages_sent, messages_received, attempts,
  last_sent,          \* time of the last query, if there is a limit
  sends, receives,    \* the arrays of timestamps
  sent, answer, received,  \* pairs[i].sent, .answer, .received
  clock,              \* CLOCK_SOURCE, which may stand still between two readings
  sending,            \* queries in the kernel's send buffer
  inbox,              \* messages in the socket, oldest first
  replies,            \* replies that have arrived, of each query
  strays,             \* messages from elsewhere that have arrived
  credit,             \* history: the query whose reply pairs[i] was credited with
  read                \* history: queries of which a reply was read after they were stamped

fdVars == <<readfds, writefds>>
sendVars == <<messages_sent, last_sent, sends, sent>>
receiveVars == <<messages_received, receives, answer, received, credit, read>>
netVars == <<sending, inbox, replies, strays>>
vars == <<pc, fdVars, sendVars, receiveVars, attempts, clock, netVars>>

Init ==
  /\ pc = "select"
  /\ readfds = TRUE /\ writefds = TRUE
  /\ messages_sent = 0 /\ messages_received = 0 /\ attempts = RecvTimeout
  /\ last_sent = 0
  /\ sends = [i \in Query |-> 0] /\ receives = [i \in Query |-> 0]
  /\ sent \in [Query -> Uninitialized]
  /\ answer = [i \in Query |-> 0] /\ received = [i \in Query |-> 0]
  /\ clock = 1
  /\ sending = 0 /\ inbox = << >> /\ replies = [i \in Query |-> 0] /\ strays = 0
  /\ credit = [i \in Query |-> None] /\ read = {}
\* make_queries: query i carries transaction id i % USHRT_MAX.
TransactionId(i) == i % IdSpace
-----------------------------------------------------------------------------
(* The network and the clock.                                              *)

Transmit ==
  /\ sending > 0
  /\ sending' = sending - 1
  /\ UNCHANGED <<inbox, replies, strays, clock>>

\* The server answers a query that has left, now, later, twice or never.
Reply(i) ==
  /\ i < messages_sent - sending
  /\ replies[i] < MaxReplies
  /\ replies' = [replies EXCEPT ![i] = @ + 1]
  /\ inbox' = Append(inbox, [id |-> TransactionId(i), of |-> i])
  /\ UNCHANGED <<sending, strays, clock>>

Stray(id) ==
  /\ strays < MaxStrays
  /\ strays' = strays + 1
  /\ inbox' = Append(inbox, [id |-> id, of |-> None])
  /\ UNCHANGED <<sending, replies, clock>>

Stamps == {sends[i] : i \in Query} \cup {receives[i] : i \in Query} \cup {1}

Tick ==
  /\ \E t \in Stamps : clock < t + MaxGap
  /\ clock' = clock + 1
  /\ UNCHANGED netVars

Ended == pc \in {"done", "failed"}

World ==
  /\ ~Ended
  /\ Transmit \/ Tick \/ (\E i \in Query : Reply(i)) \/ (\E id \in StrayId : Stray(id))
  /\ UNCHANGED <<pc, fdVars, sendVars, receiveVars, attempts>>
-----------------------------------------------------------------------------
(* recv_answer, which both loops call until it has emptied the socket.     *)

Fail == pc' = "failed" /\ UNCHANGED <<fdVars, sendVars, receiveVars, attempts, clock>>

\* Variant: the bit of the socket is not set again.
SkipReceiveForgetting ==
  /\ pc = "recv" /\ ~readfds
  /\ pc' = "write"
  /\ UNCHANGED <<fdVars, sendVars, receiveVars, attempts, clock, netVars>>

SkipReceive ==
  /\ pc = "recv" /\ ~readfds
  /\ readfds' = TRUE
  /\ pc' = "write"
  /\ UNCHANGED <<writefds, sendVars, receiveVars, attempts, clock, netVars>>

Receiving == readfds /\ pc \in {"recv", "drain"}

\* Variants: an answered pair may be credited again; a reply need not be younger
\* than its query; the search starts behind the pair; it takes the next pair.
MatchesAnswered(id) ==
  {i \in Query : i >= id /\ (i - id) % IdSpace = 0 /\ sent[i] < clock}
MatchesOlder(id) ==
  {i \in Query : i >= id /\ (i - id) % IdSpace = 0 /\ answer[i] = 0}
MatchesNext(id) ==
  {i \in Query : i >= id /\ sent[i] < clock /\ answer[i] = 0}
MatchesBehind(id) ==
  {i \in Query : i > id /\ (i - id) % IdSpace = 0 /\ sent[i] < clock /\ answer[i] = 0}

\* The pairs that a reply with this id may be credited to (main.c:226-235).
Matches(id) ==
  {i \in Query : /\ i >= id /\ (i - id) % IdSpace = 0
                 /\ sent[i] < clock
                 /\ answer[i] = 0}

TooLargeId(id) == Count < IdSpace /\ id >= Count

\* Variant: receives is filled from its second item.
RecordShifted(i, of) ==
  /\ answer' = [answer EXCEPT ![i] = @ + 1]
  /\ receives' = [receives EXCEPT ![messages_received + 1] = clock]
  /\ received' = [received EXCEPT ![i] = clock]
  /\ messages_received' = messages_received + 1
  /\ credit' = [credit EXCEPT ![i] = of]

Record(i, of) ==
  /\ answer' = [answer EXCEPT ![i] = @ + 1]
  /\ receives' = [receives EXCEPT ![messages_received] = clock]
  /\ received' = [received EXCEPT ![i] = clock]
  /\ messages_received' = messages_received + 1
  /\ credit' = [credit EXCEPT ![i] = of]

Reading ==
  /\ Receiving /\ inbox # << >>
  /\ inbox' = Tail(inbox)
  /\ UNCHANGED <<sending, replies, strays>>

NoteRead(of) == read' = IF of # None /\ sent[of] < clock THEN read \cup {of} ELSE read

CreditReply ==
  /\ Reading
  /\ LET m == Head(inbox) IN
       /\ ~TooLargeId(m.id)
       /\ \E i \in Matches(m.id) :
            /\ \A j \in Matches(m.id) : i <= j
            /\ Record(i, m.of)
       /\ NoteRead(m.of)
  /\ UNCHANGED <<pc, fdVars, sendVars, attempts, clock>>

\* No pair left for this id: a duplicate, or a reply stamped like its query.
DiscardReply ==
  /\ Reading
  /\ ~TooLargeId(Head(inbox).id)
  /\ Matches(Head(inbox).id) = {}
  /\ NoteRead(Head(inbox).of)
  /\ UNCHANGED <<pc, fdVars, sendVars, messages_received, receives, answer, received, credit,
                 attempts, clock>>

RejectReply ==
  /\ Reading
  /\ TooLargeId(Head(inbox).id)
  /\ Fail

\* recv fails, or the message is shorter than a header.
ReceiveFails == Receiving /\ Fail /\ UNCHANGED netVars

\* Each loop tests its condition before it selects again.
StartWaiting == IF messages_received < Count THEN "wait" ELSE "done"

ReceiveDone ==
  /\ pc = "recv" /\ Receiving /\ inbox = << >>
  /\ pc' = "write"
  /\ UNCHANGED <<fdVars, sendVars, receiveVars, attempts, clock, netVars>>

DrainDone ==
  /\ pc = "drain" /\ inbox = << >>
  /\ attempts' = RecvTimeout
  /\ pc' = StartWaiting
  /\ UNCHANGED <<fdVars, sendVars, receiveVars, clock, netVars>>
-----------------------------------------------------------------------------
(* The loop that sends, main.c:936-1056.                                   *)

Readable == readfds /\ inbox # << >>
Writable == writefds /\ sending < SocketBuffer

SelectReady ==
  /\ pc = "select" /\ (Readable \/ Writable)
  /\ pc' = "recv"
  /\ readfds' = Readable
  /\ writefds' = Writable
  /\ UNCHANGED <<sendVars, receiveVars, attempts, clock, netVars>>

SelectTimeout ==
  /\ pc = "select" /\ ~(Readable \/ Writable)
  /\ readfds' = TRUE /\ writefds' = TRUE
  /\ UNCHANGED <<pc, sendVars, receiveVars, attempts, clock, netVars>>

SelectFails == pc \in {"select", "wait"} /\ Fail /\ UNCHANGED netVars

\* Variant: the interval is measured one tick short.
DueEarly == WriteInterval = 0 \/ messages_sent = 0 \/ clock - last_sent >= WriteInterval - 1

Due == WriteInterval = 0 \/ messages_sent = 0 \/ clock - last_sent >= WriteInterval

SendQuery ==
  /\ pc = "write" /\ writefds /\ Due
  /\ sending' = sending + 1
  /\ sends' = [sends EXCEPT ![messages_sent] = clock]
  /\ sent' = [sent EXCEPT ![messages_sent] = clock]
  /\ messages_sent' = messages_sent + 1
  /\ last_sent' = IF WriteInterval > 0 THEN clock ELSE last_sent
  /\ pc' = IF messages_sent' < Count THEN "select" ELSE StartWaiting
  /\ UNCHANGED <<fdVars, receiveVars, attempts, clock, inbox, replies, strays>>

SendFails == pc = "write" /\ writefds /\ Due /\ Fail /\ UNCHANGED netVars

SkipWrite ==
  /\ pc = "write" /\ ~(writefds /\ Due)
  /\ writefds' = TRUE
  /\ pc' = "select"
  /\ UNCHANGED <<readfds, sendVars, receiveVars, attempts, clock, netVars>>
-----------------------------------------------------------------------------
(* The loop that waits for the remaining replies, main.c:1058-1114.        *)

WaitReady ==
  /\ pc = "wait" /\ Readable
  /\ pc' = "drain"
  /\ UNCHANGED <<fdVars, sendVars, receiveVars, attempts, clock, netVars>>

\* Variant: a timeout is not counted.
WaitTimeoutForever ==
  /\ pc = "wait" /\ ~Readable
  /\ readfds' = TRUE
  /\ UNCHANGED <<pc, attempts, writefds, sendVars, receiveVars, clock, netVars>>

WaitTimeout ==
  /\ pc = "wait" /\ ~Readable
  /\ attempts' = attempts - 1
  /\ readfds' = TRUE
  /\ pc' = IF attempts' > 0 THEN "wait" ELSE "done"
  /\ UNCHANGED <<writefds, sendVars, receiveVars, clock, netVars>>
-----------------------------------------------------------------------------
\* The report, main.c:1123-1213.
Written ==
  [sends |-> [k \in 1..Count |-> sends[k - 1]],
   receives |-> [k \in 1..Count |-> receives[k - 1]],
   pairs |-> [k \in 1..Count |->
               PairOf(sent[k - 1], IF answer[k - 1] > 0 THEN received[k - 1] ELSE 0)]]

Step ==
  \/ SkipReceive \/ CreditReply \/ DiscardReply \/ RejectReply \/ ReceiveDone \/ DrainDone
  \/ SelectReady \/ SelectTimeout \/ SendQuery \/ SkipWrite
  \/ WaitReady \/ WaitTimeout

SystemFails == ReceiveFails \/ SelectFails \/ SendFails

Next == Step \/ SystemFails \/ World

\* The process runs, the kernel sends what it holds and time passes; that a
\* system call fails is never taken for granted.
Fairness == WF_vars(Step) /\ WF_vars(World /\ Transmit) /\ WF_vars(World /\ Tick)

Spec == Init /\ [][Next]_vars /\ Fairness
-----------------------------------------------------------------------------
TypeOK ==
  /\ pc \in {"select", "recv", "write", "wait", "drain", "done", "failed"}
  /\ readfds \in BOOLEAN /\ writefds \in BOOLEAN
  /\ messages_sent \in 0..Count /\ messages_received \in 0..Count
  /\ attempts \in 0..RecvTimeout
  /\ last_sent \in Nat /\ clock \in Nat
  /\ sends \in [Query -> Nat] /\ receives \in [Query -> Nat]
  /\ sent \in [Query -> Nat] /\ answer \in [Query -> {0, 1}] /\ received \in [Query -> Nat]
  /\ sending \in 0..SocketBuffer /\ strays \in 0..MaxStrays
  /\ inbox \in Seq([id : Nat, of : Query \cup {None}])
  /\ replies \in [Query -> 0..MaxReplies]
  /\ credit \in [Query -> Query \cup {None}] /\ read \subseteq Query

Answered == {i \in Query : answer[i] > 0}

\* README.md:90: a pair is the time its query was sent and the later time at
\* which the reply to that very query was received.
PairsMatch ==
  \A i \in Answered : i < messages_sent /\ credit[i] = i /\ sent[i] < received[i]

\* A query counts as lost only if no copy of its reply was read later than the
\* query was stamped, whatever the loss, order and duplication of replies.
LostOnlyUnread == read \subseteq Answered

\* A run that ends as it should writes a report with sorted arrays, the zeroes
\* of lost replies at the end and the same times in receives as in pairs, of which
\* fit.py and preview.py count as lost just what main() printed (main.c:1118-1121).
WritesReport ==
  pc = "done" => IsReport(Written) /\ Lost(JLoad(Written)) = Count - messages_received

\* -l keeps queries WriteInterval apart (main.c:986-1046), however long select,
\* recv_answer or a full socket delayed the one before.
RateLimited ==
  \A i \in 1..(messages_sent - 1) : sends[i] - sends[i - 1] >= WriteInterval

\* A run ends, though replies be lost or never come.
Terminates == <>Ended

\* The abstract measurement: queries leave in order and each is credited with a
\* reply at most once, after it left and before the run ends.
M == INSTANCE Measurement WITH answered <- Answered, over <- Ended
IsMeasurement == M!Spec
-----------------------------------------------------------------------------
(* More queries than transaction ids, Count > IdSpace: main.c:85.          *)

\* README.md:90 again: only a query that was sent has a reply.
OnlySentAnswered == \A i \in Answered : i < messages_sent
=============================================================================
