-------------------------------- MODULE Ranks --------------------------------
(***************************************************************************)
(* Sets and sequences of whole numbers in their order, what a sequence     *)
(* holds at the places in such a set, and loops over a sequence.  It says  *)
(* what SelectSeq, SortSeq and FoldLeft say, in a form that can be         *)
(* reasoned about.                                                         *)
(***************************************************************************)
EXTENDS Integers, Sequences, FiniteSets

Rank(cuts, c) == Cardinality({d \in cuts : d < c})

\* The member of cuts that k others precede.
Nth(cuts, k) == CHOOSE c \in cuts : Rank(cuts, c) = k

\* The items of s at those places.
Kept(s, places) == [k \in 1..Cardinality(places) |-> s[Nth(places, k - 1)]]

\* Where the first, second, ... of the keys is; equal ones keep their order.
PlaceOf(keys, k) == Cardinality({j \in DOMAIN keys : keys[j] < keys[k] \/ (keys[j] = keys[k] /\ j <= k)})
Order(keys) == [p \in DOMAIN keys |-> CHOOSE k \in DOMAIN keys : PlaceOf(keys, k) = p]

\* What becomes of "start" when the items of s take their turns.
Loop(Turn(_, _), start, s) ==
  LET after[k \in 0..Len(s)] == IF k = 0 THEN start ELSE Turn(after[k - 1], s[k])
  IN  after[Len(s)]

Total(numbers) == Loop(LAMBDA sum, x : sum + x, 0, numbers)
Power(base, e) == Loop(LAMBDA power, factor : power * factor, 1, [k \in 1..e |-> base])
=============================================================================
