-------------------------------- MODULE Probe --------------------------------
(***************************************************************************)
(* mig/probe as it is used: the client of main.c measures the stub server  *)
(* of server.c over a network that loses and reorders datagrams and        *)
(* doubles replies.  The two programs are the modules Mig and Server, step *)
(* for step; what is new is that a query arrives at the server only after  *)
(* the client sent it, and a reply at the client only after the server     *)
(* sent that.  Where both have a variable of one name, the client's has    *)
(* the prefix c and the server's s.  A query is known by its number.       *)
(***************************************************************************)
EXTENDS Integers, Sequences, FiniteSets

CONSTANTS
  Count, IdSpace, QueryLimit, Nanoseconds, RecvTimeout, MaxReplies, MaxGap, Uninitialized,  \* see Mig
  ReplySize, Size, MaxTimestamps, MaxSignals, Body, Wrap, Garbage,                          \* see Server
  SocketBuffer, None,                                                                       \* see both
  MaxLost        \* bound: queries that the network loses, on their way there or back

\* What Mig and Server assume of their constants.
ASSUME ClientAssumption ==
  /\ Count \in Nat \ {0} /\ IdSpace \in Nat \ {0}
  /\ QueryLimit \in Nat /\ Nanoseconds \in Nat \ {0} /\ RecvTimeout \in Nat \ {0}
  /\ SocketBuffer \in Nat \ {0} /\ MaxReplies \in Nat /\ MaxGap \in Nat
  /\ Uninitialized \subseteq Nat /\ None \notin Nat
ASSUME ServerAssumption ==
  /\ Size \in Nat \ {0}
  /\ ReplySize \in [0..(Count - 1) \cup {Body, Wrap} -> Nat \ {0}]
  /\ Body \notin 0..(Count - 1) /\ Wrap \notin 0..(Count - 1)
  /\ Garbage \subseteq 0..(Count - 1) \cup {Body, Wrap}
  /\ MaxTimestamps \in Nat /\ MaxSignals \in Nat
ASSUME MaxLostAssumption == MaxLost \in Nat

VARIABLES
  c_pc, c_readfds, c_writefds, messages_sent, c_received, attempts, last_sent,
  c_sends, c_receives, sent, answer, received, clock, c_sending, c_inbox, replies, strays,
  credit, read,
  mem, head, tail, log, out, s_inbox, s_sending, input, eof, do_dump_timestamps, signals,
  s_pc, errno, s_readfds, pwritefds, s_writefds, s_received, s_receives, s_sends, file,
  accepted, replied, reported, mark,
  lost           \* queries the network lost, or the replies to them

clientVars == <<c_pc, c_readfds, c_writefds, messages_sent, c_received, attempts, last_sent,
  c_sends, c_receives, sent, answer, received, clock, c_sending, c_inbox, replies, strays,
  credit, read>>
serverVars == <<mem, head, tail, log, out, s_inbox, s_sending, input, eof, do_dump_timestamps,
  signals, s_pc, errno, s_readfds, pwritefds, s_writefds, s_received, s_receives, s_sends, file,
  accepted, replied, reported, mark>>
vars == <<clientVars, serverVars, lost>>

C == INSTANCE Mig WITH
  MaxStrays <- 0, StrayId <- {},
  pc <- c_pc, readfds <- c_readfds, writefds <- c_writefds, messages_received <- c_received,
  sends <- c_sends, receives <- c_receives, sending <- c_sending, inbox <- c_inbox

S == INSTANCE Server WITH
  Query <- 0..(Count - 1), Malformed <- {},
  inbox <- s_inbox, sending <- s_sending, pc <- s_pc, readfds <- s_readfds,
  writefds <- s_writefds, messages_received <- s_received, receives <- s_receives, sends <- s_sends

Query == 0..(Count - 1)

Init == C!Init /\ S!Init /\ lost = {}
-----------------------------------------------------------------------------
(* The network.                                                            *)

\* Queries on their way to the server, replies that have left it.
QueriesUnderWay == {i \in Query : i < messages_sent - c_sending} \ (S!Seen \cup lost)
RepliesLeft == {replied[k] : k \in 1..(Len(replied) - s_sending)}
RepliesUnderWay == {i \in RepliesLeft : replies[i] = 0} \ lost

QueryArrives(i) ==
  /\ i \in QueriesUnderWay
  /\ ~S!Ended /\ S!World /\ S!Arrive(i)
  /\ UNCHANGED <<clientVars, lost>>

ReplyArrives(i) ==
  /\ i \in RepliesLeft \ lost
  /\ ~C!Ended /\ C!World /\ C!Reply(i)
  /\ UNCHANGED <<serverVars, lost>>

Lose(i) ==
  /\ Cardinality(lost) < MaxLost
  /\ i \in QueriesUnderWay \cup RepliesUnderWay
  /\ lost' = lost \cup {i}
  /\ UNCHANGED <<clientVars, serverVars>>

Network == \E i \in Query : QueryArrives(i) \/ ReplyArrives(i) \/ Lose(i)
-----------------------------------------------------------------------------
(* The programs and their hosts.                                           *)

\* Nothing happens any more unless the client does it.
Still ==
  /\ c_sending = 0 /\ RepliesUnderWay = {}
  /\ S!Ended \/ (s_pc = "select" /\ ~S!Ready /\ s_sending = 0 /\ QueriesUnderWay = {})

\* RECV_TIMEOUT is long for two hosts that have something to do: a second passes
\* for the waiting client only when all is still.
Client ==
  /\ \/ C!Step /\ (attempts' < attempts => Still)
     \/ C!World /\ (C!Transmit \/ C!Tick)
  /\ UNCHANGED <<serverVars, lost>>

\* The server may stop at any time, by an error if not by the stop character.
Server ==
  /\ \/ S!Step \/ S!SystemFails \/ S!SelectInterrupted
     \/ ~S!Ended /\ (S!Signal \/ (S!World /\ S!Transmit))
  /\ UNCHANGED <<clientVars, lost>>

Next == Client \/ Server \/ Network

Spec == Init /\ [][Next]_vars
-----------------------------------------------------------------------------
\* What the two programs count agrees, at every moment: the client credits no more
\* replies than the server sent, which are no more than the queries the server
\* counted, and those no more than the client sent: the server's output confirms that
\* it got the client's messages, as the probe's README.md:44-59 reads it.
CountsAgree ==
  /\ C!Answered \subseteq S!Values(replied)
  /\ Cardinality(C!Answered) = c_received /\ c_received <= Len(replied)
  /\ Len(replied) <= reported + s_received
  /\ reported + s_received <= messages_sent

\* A reply to query i reached the client and every copy of it was read, but none in
\* a later tick than that of the query: the client takes it for a duplicate
\* (main.c:232).
ReadInItsTick(i) ==
  /\ replies[i] > 0
  /\ \A k \in DOMAIN c_inbox : c_inbox[k].of # i
  /\ i \notin read

\* Whatever the client reports as lost was lost by the network, or by a server that
\* stopped, or its reply was read in the tick in which the query had left: neither
\* program forgets a message between its two selects (main.c:936-1114,
\* server.c:466-538), and none is left in a socket when the client gives up.
LossIsReal ==
  c_pc = "done" /\ ~S!Ended => \A i \in Query \ C!Answered : i \in lost \/ ReadInItsTick(i)
=============================================================================
