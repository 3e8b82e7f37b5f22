----------------------------- MODULE Measurement -----------------------------
(***************************************************************************)
(* What a run of mig measures, main.c and README.md: queries leave one by  *)
(* one in order, a query that has left may be credited with a reply, once, *)
(* and what is not credited when the run ends is lost.                     *)
(***************************************************************************)
EXTENDS Naturals

CONSTANT Count  \* queries to send

Query == 0..(Count - 1)

VARIABLES messages_sent,  \* queries 0 .. messages_sent - 1 have left
          answered,       \* queries credited with a reply
          over            \* the run has ended

Init == messages_sent = 0 /\ answered = {} /\ over = FALSE

Send ==
  /\ ~over /\ messages_sent < Count
  /\ messages_sent' = messages_sent + 1
  /\ UNCHANGED <<answered, over>>

Credit(q) ==
  /\ ~over /\ q < messages_sent /\ q \notin answered
  /\ answered' = answered \cup {q}
  /\ UNCHANGED <<messages_sent, over>>

Finish ==
  /\ ~over
  /\ over' = TRUE
  /\ UNCHANGED <<messages_sent, answered>>

Next == Send \/ Finish \/ \E q \in Query : Credit(q)

Spec == Init /\ [][Next]_<<messages_sent, answered, over>>
=============================================================================
