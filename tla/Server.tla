------------------------------- MODULE Server -------------------------------
(***************************************************************************)
(* mig/probe/server.c: the stub DNS server.  One thread runs serve(): wait *)
(* in pselect, receive and answer every query that is there (recv_all),    *)
(* look for the stop character (check_int_code), send queued replies until *)
(* the socket takes no more (send_all).  A signal handler raises a flag    *)
(* that makes the loop dump the timestamps it has recorded.                *)
(*                                                                         *)
(* A query is a model value and each arrives once; its reply goes by the   *)
(* same name.  A timestamp is named by the query it belongs to.  The       *)
(* arrays of timestamps are the sequences of their first *_position items. *)
(***************************************************************************)
EXTENDS Integers, Sequences

CONSTANTS Query,          \* the queries that may arrive
          Malformed,      \* those make_answer cannot answer
          ReplySize,      \* bytes the queued reply takes
          Size,           \* SEND_QUEUE_SIZE
          SocketBuffer,   \* replies the kernel buffers before sendto returns EAGAIN
          MaxTimestamps,  \* TIMESTAMPS_MAXLENGTH
          MaxSignals,     \* bound: signals that arrive
          Body, Wrap, None, Garbage

ASSUME MalformedAssumption == Malformed \subseteq Query
\* What MessageQueue assumes of its constants.
ASSUME QueueAssumption ==
  /\ Size \in Nat \ {0}
  /\ ReplySize \in [Query \cup {Body, Wrap} -> Nat \ {0}]
  /\ Body \notin Query /\ Wrap \notin Query
  /\ Garbage \subseteq Query \cup {Body, Wrap}
ASSUME LimitsAssumption == SocketBuffer \in Nat \ {0} /\ MaxTimestamps \in Nat /\ MaxSignals \in Nat

VARIABLES
  mem, head, tail, log, out,  \* the queue of replies, see MessageQueue
  inbox,                \* queries waiting in the socket, oldest first
  sending,              \* replies the kernel holds and has not put on the wire
  input,                \* characters waiting on stdin: "s", the stop character, or "other"
  eof,                  \* stdin has been closed
  do_dump_timestamps,   \* raised by the signal handler, catch_info
  signals,              \* signals so far
  pc,                   \* where serve() is
  errno,                \* "EAGAIN" or "other"
  readfds,              \* what is set in readfds
  pwritefds,            \* pwritefds is not NULL
  writefds,             \* the socket is set in writefds
  messages_received,    \* received since the last report
  receives, sends,      \* timestamps recorded since the last dump
  file,                 \* the output file, None until it is written
  accepted, replied,    \* history: queries answered and queued, replies sent
  reported,             \* history: messages reported so far
  mark                  \* history: how many events the last dump had seen

queueVars == <<mem, head, tail, log, out>>
worldVars == <<inbox, sending, input, eof, signals>>
waitVars == <<readfds, pwritefds, writefds>>
countVars == <<messages_received, reported>>
stampVars == <<receives, sends, file, mark>>
vars == <<queueVars, worldVars, do_dump_timestamps, pc, errno, waitVars, countVars,
          stampVars, accepted, replied>>

Q == INSTANCE MessageQueue WITH Message <- Query, RecordSize <- ReplySize

Init ==
  /\ Q!Init
  /\ inbox = << >> /\ sending = 0 /\ input = {} /\ eof = FALSE /\ signals = 0
  /\ do_dump_timestamps = FALSE
  /\ pc = "top"
  /\ errno = "other"
  /\ readfds = {"socket", "stdin"} /\ pwritefds = TRUE /\ writefds = FALSE
  /\ messages_received = 0 /\ reported = 0
  /\ receives = << >> /\ sends = << >> /\ file = None
  /\ mark = [accepted |-> 0, replied |-> 0]
  /\ accepted = << >> /\ replied = << >>
-----------------------------------------------------------------------------
(* The world: clients, the kernel, whoever types on stdin, signals.        *)

Seen == {inbox[i] : i \in 1..Len(inbox)} \cup {accepted[i] : i \in 1..Len(accepted)}

Arrive(q) ==
  /\ q \notin Seen
  /\ inbox' = Append(inbox, q)
  /\ UNCHANGED <<sending, input, eof, signals>>

Transmit ==
  /\ sending > 0
  /\ sending' = sending - 1
  /\ UNCHANGED <<inbox, input, eof, signals>>

Type(c) ==
  /\ ~eof
  /\ c \notin input
  /\ input' = input \cup {c}
  /\ UNCHANGED <<inbox, sending, eof, signals>>

CloseStdin ==
  /\ ~eof
  /\ eof' = TRUE
  /\ UNCHANGED <<inbox, sending, input, signals>>

World ==
  /\ Transmit \/ CloseStdin \/ (\E q \in Query : Arrive(q)) \/ (\E c \in {"s", "other"} : Type(c))
  /\ UNCHANGED <<queueVars, do_dump_timestamps, pc, errno, waitVars, countVars, stampVars,
                 accepted, replied>>

\* catch_info only raises the flag.
Signal ==
  /\ signals < MaxSignals
  /\ signals' = signals + 1
  /\ do_dump_timestamps' = TRUE
  /\ UNCHANGED <<queueVars, inbox, sending, input, eof, pc, errno, waitVars, countVars,
                 stampVars, accepted, replied>>
-----------------------------------------------------------------------------
(* serve(): the top of the loop.                                           *)

\* A call of the C library that succeeds may still replace errno.
MayTouchErrno == errno' \in {errno, "other"}

\* serve() returns and the process ends.
Fail ==
  /\ pc' = "failed"
  /\ UNCHANGED <<sending, input, eof, signals, do_dump_timestamps, errno, waitVars,
                 countVars, stampVars, accepted, replied>>

\* Variant: writefds is set up once and not again for replies queued later.
WatchOnce ==
  /\ UNCHANGED <<readfds, pwritefds, writefds>>
  /\ pc' = "select"

\* Replies are waiting: ask pselect for room in the socket.
Watch ==
  /\ pwritefds' = (pwritefds \/ ~Q!IsEmpty)
  /\ writefds' = (writefds \/ ~Q!IsEmpty)
  /\ pc' = "select"
  /\ UNCHANGED readfds

SkipDump ==
  /\ pc = "top" /\ ~do_dump_timestamps
  /\ Watch
  /\ UNCHANGED <<queueVars, worldVars, do_dump_timestamps, errno, countVars, stampVars,
                 accepted, replied>>

BeginDump ==
  /\ pc = "top" /\ do_dump_timestamps
  /\ do_dump_timestamps' = FALSE
  /\ pc' = "dump"
  /\ UNCHANGED <<queueVars, worldVars, errno, waitVars, countVars, stampVars, accepted, replied>>

\* Variant: sends_position is not reset.
ResetReceivesOnly ==
  /\ receives' = << >>
  /\ UNCHANGED sends

ResetPositions ==
  /\ receives' = << >>
  /\ sends' = << >>

\* Variant: the flag is cleared once the dump is done.
DumpThenClear ==
  /\ pc = "dump"
  /\ file' = [receives |-> receives, sends |-> sends]
  /\ mark' = [accepted |-> Len(accepted), replied |-> Len(replied)]
  /\ ResetPositions
  /\ MayTouchErrno
  /\ Watch
  /\ do_dump_timestamps' = FALSE
  /\ UNCHANGED <<queueVars, worldVars, countVars, accepted, replied>>

\* dump_timestamps truncates the file; the positions start again from zero.
Dump ==
  /\ pc = "dump"
  /\ file' = [receives |-> receives, sends |-> sends]
  /\ mark' = [accepted |-> Len(accepted), replied |-> Len(replied)]
  /\ ResetPositions
  /\ MayTouchErrno
  /\ Watch
  /\ UNCHANGED <<queueVars, worldVars, do_dump_timestamps, countVars, accepted, replied>>

DumpFails == pc = "dump" /\ Fail /\ UNCHANGED <<queueVars, inbox>>
-----------------------------------------------------------------------------
(* pselect                                                                 *)

Readable ==
  (IF inbox # << >> THEN {"socket"} ELSE {}) \cup (IF input # {} \/ eof THEN {"stdin"} ELSE {})
Writable == pwritefds /\ writefds /\ sending < SocketBuffer
Ready == readfds \cap Readable # {} \/ Writable

SelectReady ==
  /\ pc = "select" /\ Ready
  /\ readfds' = readfds \cap Readable
  /\ writefds' = Writable
  /\ pc' = "recv"
  /\ UNCHANGED <<queueVars, worldVars, do_dump_timestamps, errno, pwritefds, countVars,
                 stampVars, accepted, replied>>

WatchWrite == writefds' = (pwritefds \/ writefds)

Report ==
  /\ reported' = reported + messages_received
  /\ messages_received' = 0

\* Nothing happened: watch everything again and report the messages received.
Idle ==
  /\ pc = "select" /\ ~Ready
  /\ readfds' = {"socket", "stdin"}
  /\ WatchWrite
  /\ Report
  /\ pc' = "top"
  /\ UNCHANGED <<queueVars, inbox, sending, input, eof, pwritefds, stampVars, accepted, replied>>

SelectTimeout == Idle /\ MayTouchErrno /\ UNCHANGED <<signals, do_dump_timestamps>>

\* A signal that finds the server waiting ends pselect with EINTR.
SelectInterrupted ==
  /\ signals < MaxSignals
  /\ signals' = signals + 1
  /\ do_dump_timestamps' = TRUE
  /\ errno' = "other"
  /\ Idle

SelectFails == pc = "select" /\ Fail /\ UNCHANGED <<queueVars, inbox>>
-----------------------------------------------------------------------------
(* recv_all                                                                *)

\* Variant: one timestamp too many.
StampBeyond(stamps, q) == IF Len(stamps) <= MaxTimestamps THEN Append(stamps, q) ELSE stamps

Stamp(stamps, q) == IF Len(stamps) < MaxTimestamps THEN Append(stamps, q) ELSE stamps

SkipReceive ==
  /\ pc = "recv" /\ "socket" \notin readfds
  /\ readfds' = readfds \cup {"socket"}
  /\ pc' = "stdin"
  /\ UNCHANGED <<queueVars, worldVars, do_dump_timestamps, errno, pwritefds, writefds, countVars,
                 stampVars, accepted, replied>>

Receiving == pc = "recv" /\ "socket" \in readfds

ReceiveOne ==
  /\ Receiving /\ inbox # << >>
  /\ LET q == Head(inbox) IN
       /\ q \notin Malformed
       /\ Q!PushAtTail(q) \/ Q!PushWrapped(q)
       /\ accepted' = Append(accepted, q)
       /\ receives' = Stamp(receives, q)
  /\ inbox' = Tail(inbox)
  /\ messages_received' = messages_received + 1
  /\ UNCHANGED <<sending, input, eof, signals, do_dump_timestamps, pc, errno, waitVars,
                 reported, sends, file, mark, replied>>

\* The queue is full: the server stops.
ReceiveUnqueued ==
  /\ Receiving /\ inbox # << >>
  /\ Head(inbox) \notin Malformed
  /\ Q!PushRefused(Head(inbox))
  /\ inbox' = Tail(inbox)
  /\ Fail

\* A query make_answer cannot answer stops the server too.
ReceiveMalformed ==
  /\ Receiving /\ inbox # << >>
  /\ Head(inbox) \in Malformed
  /\ inbox' = Tail(inbox)
  /\ Fail
  /\ UNCHANGED queueVars

\* The socket cannot be read.  A clock that fails behind the push (server.c:321-325)
\* is folded into this: the server ends too, with a query queued that nobody sends.
ReceiveFails ==
  /\ Receiving
  /\ Fail
  /\ UNCHANGED <<queueVars, inbox>>

ReceiveDone ==
  /\ Receiving /\ inbox = << >>
  /\ errno' = "EAGAIN"
  /\ pc' = "stdin"
  /\ UNCHANGED <<queueVars, worldVars, do_dump_timestamps, waitVars, countVars, stampVars,
                 accepted, replied>>
-----------------------------------------------------------------------------
(* check_int_code                                                          *)

StopTyped == "s" \in input

SkipStdin ==
  /\ pc = "stdin" /\ "stdin" \notin readfds
  /\ readfds' = readfds \cup {"stdin"}
  /\ pc' = "send"
  /\ UNCHANGED <<queueVars, worldVars, do_dump_timestamps, errno, pwritefds, writefds, countVars,
                 stampVars, accepted, replied>>

Stop ==
  /\ pc = "stdin" /\ "stdin" \in readfds
  /\ StopTyped
  /\ pc' = "stopped"
  /\ UNCHANGED <<queueVars, worldVars, do_dump_timestamps, errno, waitVars, countVars, stampVars,
                 accepted, replied>>

\* Everything typed has been read.  An open stdin sets errno to EAGAIN; at its
\* end fread returns 0 and leaves errno as an earlier call set it.
ReadStdin ==
  /\ pc = "stdin" /\ "stdin" \in readfds
  /\ ~StopTyped
  /\ ~eof \/ errno = "EAGAIN"
  /\ input' = {}
  /\ errno' = "EAGAIN"
  /\ pc' = "send"
  /\ UNCHANGED <<queueVars, inbox, sending, eof, signals, do_dump_timestamps, waitVars, countVars,
                 stampVars, accepted, replied>>

StdinEnds ==
  /\ pc = "stdin" /\ "stdin" \in readfds
  /\ ~StopTyped
  /\ eof /\ errno # "EAGAIN"
  /\ Fail
  /\ UNCHANGED <<queueVars, inbox>>
-----------------------------------------------------------------------------
(* send_all                                                                *)

SkipSend ==
  /\ pc = "send" /\ ~(pwritefds /\ writefds)
  /\ writefds' = pwritefds
  /\ pc' = "top"
  /\ UNCHANGED <<queueVars, worldVars, do_dump_timestamps, errno, readfds, pwritefds, countVars,
                 stampVars, accepted, replied>>

Sending == pc = "send" /\ pwritefds /\ writefds

SendOne ==
  /\ Sending /\ sending < SocketBuffer
  /\ Q!Get
  /\ sending' = sending + 1
  /\ replied' = Append(replied, out')
  /\ sends' = Stamp(sends, out')
  /\ UNCHANGED <<inbox, input, eof, signals, do_dump_timestamps, pc, errno, waitVars, countVars,
                 receives, file, mark, accepted>>

\* Variant: the head moves on before sendto has taken the reply.
SendBlockedDropping ==
  /\ Sending /\ ~Q!IsEmpty /\ sending = SocketBuffer
  /\ Q!Get
  /\ errno' = "EAGAIN"
  /\ pc' = "top"
  /\ UNCHANGED <<worldVars, do_dump_timestamps, waitVars, countVars, stampVars, accepted, replied>>

\* EAGAIN: the reply stays at the head of the queue.
SendBlocked ==
  /\ Sending /\ ~Q!IsEmpty /\ sending = SocketBuffer
  /\ errno' = "EAGAIN"
  /\ pc' = "top"
  /\ UNCHANGED <<queueVars, worldVars, do_dump_timestamps, waitVars, countVars, stampVars,
                 accepted, replied>>

\* sendto fails.  A clock that fails behind the new head (server.c:368-372) is folded
\* into this: the server ends too, with one reply more on its way.
SendFails ==
  /\ Sending /\ ~Q!IsEmpty
  /\ Fail
  /\ UNCHANGED <<queueVars, inbox>>

\* Variant: the socket is watched for writing even with nothing to send.
SendDoneWatching ==
  /\ Sending /\ Q!IsEmpty
  /\ pc' = "top"
  /\ UNCHANGED <<queueVars, worldVars, do_dump_timestamps, errno, waitVars, countVars, stampVars,
                 accepted, replied>>

SendDone ==
  /\ Sending /\ Q!IsEmpty
  /\ pwritefds' = FALSE
  /\ writefds' = FALSE
  /\ pc' = "top"
  /\ UNCHANGED <<queueVars, worldVars, do_dump_timestamps, errno, readfds, countVars, stampVars,
                 accepted, replied>>
-----------------------------------------------------------------------------
Step ==
  \/ SkipDump \/ BeginDump \/ Dump
  \/ SelectReady \/ SelectTimeout
  \/ SkipReceive \/ ReceiveOne \/ ReceiveUnqueued \/ ReceiveMalformed \/ ReceiveDone
  \/ SkipStdin \/ Stop \/ ReadStdin \/ StdinEnds
  \/ SkipSend \/ SendOne \/ SendBlocked \/ SendDone

SystemFails == DumpFails \/ SelectFails \/ ReceiveFails \/ SendFails

Ended == pc \in {"stopped", "failed"}

\* What the world does once the process has ended no longer matters.
Next == Step \/ SystemFails \/ SelectInterrupted \/ (~Ended /\ (Signal \/ World))

\* The process keeps running (a pselect with nothing to report ends after its
\* second), and the network takes what the kernel holds; that a system call fails
\* is never taken for granted.
Fairness == WF_vars(Step) /\ WF_vars(~Ended /\ Transmit /\ World)

Spec == Init /\ [][Next]_vars /\ Fairness
-----------------------------------------------------------------------------
Values(s) == {s[i] : i \in 1..Len(s)}

TypeOK ==
  /\ Q!TypeOK
  /\ inbox \in Seq(Query) /\ sending \in 0..SocketBuffer
  /\ input \subseteq {"s", "other"} /\ eof \in BOOLEAN /\ signals \in 0..MaxSignals
  /\ do_dump_timestamps \in BOOLEAN
  /\ pc \in {"top", "dump", "select", "recv", "stdin", "send", "stopped", "failed"}
  /\ errno \in {"EAGAIN", "other"}
  /\ readfds \subseteq {"socket", "stdin"} /\ pwritefds \in BOOLEAN /\ writefds \in BOOLEAN
  /\ messages_received \in Nat /\ reported \in Nat
  /\ receives \in Seq(Query) /\ Len(receives) <= MaxTimestamps
  /\ sends \in Seq(Query) /\ Len(sends) <= MaxTimestamps
  /\ file \in {None} \cup [receives : Seq(Query), sends : Seq(Query)]
  /\ accepted \in Seq(Query) /\ replied \in Seq(Query)
  /\ mark \in [accepted : Nat, replied : Nat]

\* Every query accepted is answered once and in order: the replies sent, then
\* those in the queue, are the queries accepted, whatever wraps, refusals and
\* EAGAINs send_all and recv_all met (server.c:290-379).
RepliesInOrder == replied \o Q!Queued = accepted

\* When serve() waits, pselect watches both inputs, and the socket for writing
\* if a reply is queued: the sets that pselect overwrites have been restored on
\* every path (server.c:477-537), so no event is slept through.
NothingSleptThrough ==
  pc = "select" => /\ readfds = {"socket", "stdin"}
                   /\ ~Q!IsEmpty => pwritefds /\ writefds

\* What one dump does not show the next one does: the recorded timestamps are
\* those of the events since the last dump, in order, up to the array's limit
\* (server.c:319-328, 366-375, 468-475).
Window(events, from) ==
  SubSeq(events, from + 1,
         IF Len(events) - from < MaxTimestamps THEN Len(events) ELSE from + MaxTimestamps)
TimestampsSinceDump ==
  /\ receives = Window(accepted, mark.accepted)
  /\ sends = Window(replied, mark.replied)

\* The "Got n message(s)" lines add up to the queries accepted (server.c:533-537).
ReportsAddUp == reported + messages_received = Len(accepted)

\* What the server tells of its traffic, in both ways, is what happened: no event
\* is reported twice or dropped when a dump, a signal or a refusal comes between.
EventsAccounted == TimestampsSinceDump /\ ReportsAddUp

\* A queued reply is eventually sent, or the server ends.
RepliesSent ==
  \A q \in Query : q \in Values(accepted) ~> (q \in Values(replied) \/ Ended)

\* A signal is followed by a dump that starts after it, even a signal that falls
\* between the test of the flag and pselect, or into a dump (server.c:468-485).
SignalServed == do_dump_timestamps ~> ((pc = "dump" /\ ~do_dump_timestamps) \/ Ended)

\* Received messages are reported once queries and typing pause, as long as
\* stdin is open (server.c:527-538).
Quiet == <>[](input = {})
MessagesReported ==
  Quiet => (messages_received > 0 ~> (messages_received = 0 \/ eof \/ Ended))
-----------------------------------------------------------------------------
(* What the documentation says.                                            *)

\* README.md:44-59: the server's output confirms how many messages it got.
AllMessagesReported ==
  Quiet => (messages_received > 0 ~> (messages_received = 0 \/ Ended))
=============================================================================
