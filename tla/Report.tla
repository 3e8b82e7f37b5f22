------------------------------- MODULE Report --------------------------------
(***************************************************************************)
(* The report that mig/probe/main.c writes when a run is over, and what    *)
(* the scripts of mig/analyser read of it.  A report is a record of three  *)
(* sequences; item k of sends and of pairs belongs to the k-th query.      *)
(* Times are whole ticks of the clock, and none is zero: zero stands for   *)
(* "never" in receives.                                                    *)
(***************************************************************************)
EXTENDS Integers, Sequences, FiniteSets, Ranks

\* What main() writes of the query that left at "sent" (main.c:1167-1210);
\* "received" is 0 if no reply was credited to it.
PairOf(sent, received) ==
  IF received = 0 THEN <<sent>> ELSE <<sent, received, received - sent>>

IsAnswered(pair) == Len(pair) > 1

\* How often t is the time of a reply, in receives and in pairs.
ReceivedAt(r, t) == Cardinality({k \in DOMAIN r.receives : r.receives[k] = t})
PairedAt(r, t) == Cardinality({k \in DOMAIN r.pairs : IsAnswered(r.pairs[k]) /\ r.pairs[k][2] = t})

\* README.md:88-90 of the probe: sends and receives are sorted, the zeroes of
\* lost messages come last, and pairs, in the order of sends, holds the same times.
IsReport(r) ==
  /\ Len(r.receives) = Len(r.sends) /\ Len(r.pairs) = Len(r.sends)
  /\ \A k \in DOMAIN r.sends :
       /\ r.sends[k] > 0
       /\ \A j \in 1..k : r.sends[j] <= r.sends[k]
       /\ LET pair == r.pairs[k] IN
            /\ pair = PairOf(r.sends[k], IF IsAnswered(pair) THEN pair[2] ELSE 0)
            /\ IsAnswered(pair) => pair[3] > 0
  /\ \A k \in DOMAIN r.receives : \A j \in 1..k :
       r.receives[k] # 0 => 0 < r.receives[j] /\ r.receives[j] <= r.receives[k]
  /\ \A k \in DOMAIN r.receives : r.receives[k] # 0 => ReceivedAt(r, r.receives[k]) = PairedAt(r, r.receives[k])
  /\ \A k \in DOMAIN r.pairs :
       IsAnswered(r.pairs[k]) => ReceivedAt(r, r.pairs[k][2]) = PairedAt(r, r.pairs[k][2])

\* The zeroes of lost replies are dropped when a report is loaded.
JLoad(r) == [r EXCEPT !.receives = Kept(@, {k \in DOMAIN @ : @[k] > 0})]

\* "lost" of preview.py and fit.py, of a loaded report.
Lost(r) == Len(r.sends) - Len(r.receives)
=============================================================================
