------------------------------- MODULE Search -------------------------------
(***************************************************************************)
(* The binary search for the largest rate that a server answers without a  *)
(* loss, as the README of mig/analyser describes it: run mig with a limit, *)
(* give its report and the limits so far to preview.py, run it again with  *)
(* the limit preview proposes.  Limits are whole queries per second.       *)
(*                                                                         *)
(* Of a report only the sending rate and whether replies were lost count.  *)
(* The names differ from those of Grinder, whose theorems stand in one     *)
(* module with those about the search.                                     *)
(***************************************************************************)
EXTENDS Ranks

CONSTANTS
  Limits,      \* limits the operator may start with, of two digits and zeroes
  Capacities,  \* rates a server may be able to answer
  Noise,       \* bound: rates above the capacity at which loss is a matter of chance
  ClientRates, \* rates mig may reach on its host
  Unknown      \* the negative number that stands for no high limit

\* Variant: divided until it is at most 10, which keeps one digit.
ScaleShort(r2) == CHOOSE i \in 0..7 : r2 <= 20 * Power(10, i) /\ \A j \in 0..(i - 1) : r2 > 20 * Power(10, j)

\* How often half of r2 is divided by 10 until it is at most 100.  Bound: mig counts in
\* nanoseconds and so sends at most 10^9 queries per second; no rate is divided by 10
\* more than 7 times.
Scale(r2) == CHOOSE i \in 0..7 : r2 <= 200 * Power(10, i) /\ \A j \in 0..(i - 1) : r2 > 200 * Power(10, j)

\* rate_round of r2/2: two digits are kept, halves are rounded up.
RateRound(r2) ==
  LET unit == Power(10, Scale(r2)) IN ((r2 + unit) \div (2 * unit)) * unit

\* The limits that preview can propose: at most two digits, but for 100, and zeroes.
TwoDigits(r) == \E n \in 0..100, i \in 0..7 : r = n * Power(10, i)

ASSUME LimitsAssumption ==
  /\ \A r \in Limits : r > 0 /\ TwoDigits(r)
  /\ Capacities \subseteq Nat /\ Noise \in Nat
ASSUME ClientAssumption == ClientRates \subseteq Nat \ {0} /\ Unknown \in Int \ Nat

VARIABLES
  stage,
  low, high, test,     \* the arguments of preview.py
  rate, lost,          \* what it reads off the report
  proposed,            \* the limit it proposes
  capacity, client     \* the server's and the client's rate, which do not change

searchVars == <<stage, low, high, test, rate, lost, proposed, capacity, client>>

SearchInit ==
  /\ stage = "measure"
  /\ capacity \in Capacities /\ client \in ClientRates
  /\ low \in Limits \cup {0} /\ high \in Limits \cup {Unknown} /\ test \in Limits
  /\ low <= capacity
  /\ high # Unknown => capacity + Noise < high /\ test <= high
  /\ low <= test
  /\ rate = 0 /\ lost = FALSE /\ proposed = test
-----------------------------------------------------------------------------
\* A run of mig keeps to its limit, or to what its host can do.
Measure ==
  /\ stage = "measure"
  /\ rate' = IF test < client THEN test ELSE client
  /\ lost' \in BOOLEAN
  /\ rate' <= capacity => ~lost'
  /\ rate' > capacity + Noise => lost'
  /\ stage' = "preview"
  /\ UNCHANGED <<low, high, test, proposed, capacity, client>>

\* Variant: the limits are swapped.
NextRateSwapped(limit) == RateRound((IF lost THEN limit ELSE low) + test)

\* Half way to the low limit after a loss, else to the high one.
NextRate(limit) == RateRound((IF lost THEN low ELSE limit) + test)

Preview ==
  /\ stage = "preview"
  /\ proposed' = NextRate(IF high < 0 THEN rate ELSE high)
  /\ stage' = "adjust"
  /\ UNCHANGED <<low, high, test, rate, lost, capacity, client>>

\* The operator: the limit just tested is a high limit if it lost and a low one if not.
Adjust ==
  /\ stage = "adjust"
  /\ IF lost THEN high' = test /\ low' = low ELSE low' = test /\ high' = high
  /\ test' = proposed
  /\ stage' = "measure"
  /\ UNCHANGED <<rate, lost, proposed, capacity, client>>

SearchNext == Measure \/ Preview \/ Adjust

SearchSpec == SearchInit /\ [][SearchNext]_searchVars /\ WF_searchVars(SearchNext)
-----------------------------------------------------------------------------
Between(r, a, b) == (a <= r /\ r <= b) \/ (b <= r /\ r <= a)

\* Rounding to two digits (preview.py:45-51) never proposes a limit outside of those
\* it halves, also where the digits kept change their place, at 100: a search that
\* left them would raise a limit that had lost, or lower one that had not.
TestsInside ==
  stage = "adjust" =>
    /\ Between(proposed, test, IF lost THEN low ELSE IF high = Unknown THEN rate ELSE high)
    /\ proposed = RateRound(2 * proposed)

\* There is no limit of two digits between these.
Neighbours(a, b) == \A r \in (a + 1)..(b - 1) : RateRound(2 * r) # r

\* The search ends: from some point on preview proposes the limit just tested, which
\* is the high one, the next of two digits above a limit that was answered; it never
\* skips past the capacity, and no rounding makes it go to and fro.  Begun without a
\* high limit, it ends at the rate the client can send if nothing is lost, and
\* anywhere if chance made a limit lose that is below an answered one.
SearchEnds ==
  <>[](/\ test = proposed
       /\ IF high = Unknown THEN Neighbours(rate, test)
          ELSE \/ low > high
               \/ /\ test = high /\ Neighbours(low, high) /\ capacity < high
                  /\ low <= capacity + Noise \/ client <= capacity + Noise)
=============================================================================
