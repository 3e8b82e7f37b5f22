------------------------------- MODULE Charts --------------------------------
(***************************************************************************)
(* How mig/analyser turns a report into numbers and charts: grinder.py's   *)
(* make_count, make_rate, make_processing, make_queue and calculate_fit.   *)
(*                                                                         *)
(* A point keeps the whole numbers it is drawn from, so that what the code *)
(* computes in floating point is exact here: a mean is its sum and its     *)
(* number of items, a rate its count and its interval, a bound 10^(p/q)    *)
(* its place among the bounds.  Units (milliseconds, per second, percent)  *)
(* are constant factors and left out.  The parameter fit of make_count and *)
(* make_rate is always empty (see Grinder), so there is one stride.        *)
(***************************************************************************)
EXTENDS Report, SequencesExt, TLC

CONSTANTS
  FitPoints,  \* __FITPOINTS, 500: points a chart has at least, if there are as many items
  AnyRate     \* the rates leastsq may return when all points have one time

ASSUME FitPointsAssumption == FitPoints \in Nat \ {0}
ASSUME AnyRateAssumption == \A rate \in AnyRate : rate.num \in Int /\ rate.den \in Nat \ {0}

\* sorted(s, key=...) is stable: items with equal keys keep their order.
SortedBy(s, key(_)) ==
  LET order == Order([k \in DOMAIN s |-> key(s[k])])
  IN  [p \in DOMAIN s |-> s[order[p]]]

\* step of the charts: every step-th item is drawn (Python's / of two ints).
Step(items) == IF items \div FitPoints <= 1 THEN 1 ELSE items \div FitPoints

\* timestamps[step - 1::step]
Strided(timestamps, step) == [k \in 1..(Len(timestamps) \div step) |-> timestamps[k * step]]
-----------------------------------------------------------------------------
(* Counts and rates over time.                                             *)

\* Variant: the stride starts at the first item, timestamps[::step].
MakeCountEarly(timestamps, start) ==
  LET n == Len(timestamps)
      step == Step(n)
      Point(y) == [x |-> timestamps[y] - start, y |-> y]
  IN  [k \in 1..(n \div step) |-> [x |-> timestamps[(k - 1) * step + 1] - start, y |-> k * step]]
      \o (IF n % step # 0 THEN <<Point(n)>> ELSE << >>)

MakeCount(timestamps, start) ==
  LET n == Len(timestamps)
      step == Step(n)
      Point(y) == [x |-> timestamps[y] - start, y |-> y]
  IN  (IF step > 1 THEN <<Point(1)>> ELSE << >>)
      \o [k \in 1..(n \div step) |-> Point(k * step)]
      \o (IF n % step # 0 THEN <<Point(n)>> ELSE << >>)

\* A bar of make_rate: "count" items from one time to a later one; it is drawn at
\* the middle of the interval as their number per second.
Bar(from, to, start, count) == [from |-> from - start, to |-> to - start, count |-> count]

\* Variant: the items counted so far are kept after a bar is drawn.
ExtendRateKeeping(s, timestamp, step, start) ==
  IF timestamp <= s.previous
  THEN [s EXCEPT !.steps = @ + 1]
  ELSE [previous |-> timestamp, steps |-> s.steps + 1,
        data |-> Append(s.data, Bar(s.previous, timestamp, start, step * s.steps))]

\* One turn of either loop of make_rate.
ExtendRate(s, timestamp, step, start) ==
  IF timestamp <= s.previous
  THEN [s EXCEPT !.steps = @ + 1]
  ELSE [previous |-> timestamp, steps |-> 1,
        data |-> Append(s.data, Bar(s.previous, timestamp, start, step * s.steps))]

\* Of no timestamps it has no first one, and raises IndexError: see CanDraw.
MakeRate(timestamps, start) ==
  LET n == Len(timestamps)
      step == Step(n)
      Extend(s, timestamp) == ExtendRate(s, timestamp, step, start)
      s == Loop(Extend, [previous |-> Head(timestamps), steps |-> 1, data |-> << >>],
                IF step = 1 THEN Tail(timestamps) ELSE Strided(timestamps, step))
  IN  IF n % step # 0 /\ timestamps[n] > s.previous
      THEN Append(s.data, Bar(s.previous, timestamps[n], start, n % step))
      ELSE s.data
-----------------------------------------------------------------------------
(* Delays of replies, on a logarithmic scale.                              *)

Floor10(delay) == CHOOSE e \in 0..delay : Power(10, e) <= delay /\ delay < Power(10, e + 1)
Ceiling10(delay) == CHOOSE e \in 0..delay : delay <= Power(10, e) /\ \A d \in 0..(e - 1) : Power(10, d) < delay

\* delay > bound of the i-th bucket, 10^(left + i*(right - left)/FitPoints)
Above(delay, i, left, right) ==
  Power(delay, FitPoints) > Power(10, left * FitPoints + i * (right - left))

\* Variant: the bucket advances by one at most.
NextBucketOnce(delay, index, left, right) ==
  IF Above(delay, index, left, right) /\ index < FitPoints THEN index + 1 ELSE index

\* The bucket of a delay, from that of the delay before.
NextBucket(delay, index, left, right) ==
  CHOOSE i \in index..FitPoints :
    /\ Above(delay, i, left, right) => i = FitPoints
    /\ \A j \in index..(i - 1) : Above(delay, j, left, right)

PlaceDelay(s, delay, left, right) ==
  LET i == NextBucket(delay, s.index, left, right)
  IN  [index |-> i, buckets |-> [s.buckets EXCEPT ![i] = Append(@, delay)]]

\* The delays of the replies, sorted.
Delays(pairs) ==
  LET times == [k \in DOMAIN pairs |-> IF IsAnswered(pairs[k]) THEN pairs[k][3] ELSE 0]
  IN  SortedBy(Kept(times, {k \in DOMAIN times : times[k] > 0}), LAMBDA d : d)

\* The buckets from the first that has a delay to the last.  A point is a bucket: its
\* place among the bounds, its delays, and whether it is drawn at their mean with
\* their number or, of one delay or none, at zero.
Filled(buckets) ==
  LET filled == {i \in 1..FitPoints : buckets[i] # << >>}
      Point(i) == [at |-> i, delays |-> buckets[i], y |-> IF Len(buckets[i]) > 1 THEN Len(buckets[i]) ELSE 0]
  IN  SubSeq([i \in 1..FitPoints |-> Point(i)], Min(filled), Max(filled))

MakeProcessing(pairs) ==
  LET delays == Delays(pairs)
      left == Floor10(delays[1])
      right == Ceiling10(delays[Len(delays)])
      Place(s, delay) == PlaceDelay(s, delay, left, right)
      end == Loop(Place, [index |-> 1, buckets |-> [i \in 1..FitPoints |-> << >>]], delays)
  IN  IF delays = << >> THEN << >> ELSE Filled(end.buckets)
-----------------------------------------------------------------------------
(* Queries in the air.                                                     *)

\* Variant: replies are put before queries whatever their times.
EventsUnsorted(pairs) ==
  FlattenSeq([k \in DOMAIN pairs |-> [j \in 1..Min({2, Len(pairs[k])}) |->
    [timestamp |-> pairs[k][j], increment |-> IF j = 1 THEN 1 ELSE -1]]])

\* The queries and replies of a report by time.
Events(pairs) ==
  SortedBy(FlattenSeq([k \in DOMAIN pairs |-> [j \in 1..Min({2, Len(pairs[k])}) |->
             [timestamp |-> pairs[k][j], increment |-> IF j = 1 THEN 1 ELSE -1]]]),
           LAMBDA e : e.timestamp)

\* A point stands for n events: the sums of their times and of the queues they left.
MakeQueue(pairs, start) ==
  LET step == Step(Len(pairs))
      Count(s, e) ==
        LET queue == s.queue + e.increment
            window == [n |-> s.window.n + 1, x |-> s.window.x + e.timestamp - start, y |-> s.window.y + queue]
        IN  IF window.n = step
            THEN [queue |-> queue, window |-> [n |-> 0, x |-> 0, y |-> 0], data |-> Append(s.data, window)]
            ELSE [s EXCEPT !.queue = queue, !.window = window]
      s == Loop(Count, [queue |-> 0, window |-> [n |-> 0, x |-> 0, y |-> 0], data |-> << >>], Events(pairs))
  IN  IF s.window.n # 0 THEN Append(s.data, s.window) ELSE s.data
-----------------------------------------------------------------------------
(* Rates over a whole run.                                                 *)

\* The slope of the line that calculate_fit lays through the points (timestamp, count)
\* by least squares: the rates it may return, none if it raises.  Without a
\* timestamp it has no limits (IndexError), and leastsq wants two points at least.
\* The points between the limits are collected and not used.
Fit(timestamps) ==
  LET n == Len(timestamps)
      t(k) == timestamps[k] - timestamps[1]
      Sum(f(_)) == Total([k \in 1..n |-> f(k)])
      den == n * Sum(LAMBDA k : t(k) * t(k)) - Sum(t) * Sum(t)
  IN  IF n < 2 THEN {}
      ELSE IF den = 0 THEN AnyRate
      ELSE {[num |-> n * Sum(LAMBDA k : t(k) * k) - Sum(t) * Sum(LAMBDA k : k), den |-> den]}

\* What fit.py prints of a report; without a reply the receiving rate is 0.
Summary(r) ==
  {[send |-> send, recv |-> recv, lost |-> Lost(r)] :
     send \in Fit(r.sends),
     recv \in IF r.receives = << >> THEN {[num |-> 0, den |-> 1]} ELSE Fit(r.receives)}

Slower(a, b) == a.num * b.den < b.num * a.den
=============================================================================
