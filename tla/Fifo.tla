-------------------------------- MODULE Fifo --------------------------------
(***************************************************************************)
(* What mig's reply queue promises its user, server.c: replies leave in    *)
(* the order in which they were accepted, each exactly once, whatever the  *)
(* layout of the buffer.  A refused push changes nothing.                  *)
(***************************************************************************)
EXTENDS Sequences

CONSTANTS Message,  \* the replies that may be queued
          None      \* "nothing has been taken yet"

VARIABLES queue,    \* replies accepted and not yet taken, oldest first
          out       \* the reply taken last

Init == queue = << >> /\ out = None

Put(m) == queue' = Append(queue, m) /\ UNCHANGED out

Take ==
  /\ queue # << >>
  /\ out' = Head(queue)
  /\ queue' = Tail(queue)

Next == Take \/ \E m \in Message : Put(m)

Spec == Init /\ [][Next]_<<queue, out>>
=============================================================================
