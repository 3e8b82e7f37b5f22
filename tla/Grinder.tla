------------------------------ MODULE Grinder -------------------------------
(***************************************************************************)
(* mig/analyser/grinder.py: the script reads the reports it is given, cuts *)
(* them to the range asked for, and draws six charts of them.              *)
(*                                                                         *)
(* A report that cannot be read is Unreadable.  An exception ends the      *)
(* script without a page, in pc = "raised".  Titles, details, colours and  *)
(* the wording of labels are left out; a line is known by its input.       *)
(***************************************************************************)
EXTENDS Charts

CONSTANTS
  Arguments,   \* what the script may be called with: inputs, from_point, to_point, no_fit, build_rates
  Unreadable,  \* a file that is not a report
  None

\* A report as mig writes them.
Reports == {r \in [sends : Seq(Nat), receives : Seq(Nat), pairs : Seq(Seq(Nat))] : IsReport(r)}
Files == [json : BOOLEAN, speed : Nat \cup {None}, data : Reports \cup {Unreadable}, fits : BOOLEAN]

ASSUME ArgumentsAssumption ==
  \A arguments \in Arguments :
    /\ arguments.inputs \in Seq([is_directory : BOOLEAN, files : Seq(Files)])
    /\ \A k \in DOMAIN arguments.inputs :
         arguments.inputs[k].is_directory \/ Len(arguments.inputs[k].files) = 1
    /\ arguments.from_point \in Nat \cup {None} /\ arguments.to_point \in Int \cup {None}
    /\ arguments.no_fit \in BOOLEAN /\ arguments.build_rates \in BOOLEAN

VARIABLES
  pc,
  arguments,
  inputs,      \* the files to read, in the order in which they are drawn
  next,        \* the input that is being read or drawn
  report,      \* its report, cut to the range
  counts, rates, processing, queue,       \* the lines of the charts
  reference_series, receiving_series,     \* the rate chart, a point per input
  sending_labels_series, receiving_labels_series

lineVars == <<counts, rates, processing, queue>>
seriesVars == <<reference_series, receiving_series, sending_labels_series, receiving_labels_series>>
vars == <<pc, arguments, inputs, next, report, lineVars, seriesVars>>

\* An input is a file, or a directory whose files os.listdir names in any order.
Init ==
  /\ pc = "collect"
  /\ arguments \in Arguments
  /\ inputs = << >> /\ next = 1 /\ report = None
  /\ counts = << >> /\ rates = << >> /\ processing = << >> /\ queue = << >>
  /\ reference_series = << >> /\ receiving_series = << >>
  /\ sending_labels_series = << >> /\ receiving_labels_series = << >>
-----------------------------------------------------------------------------
(* The inputs.                                                             *)

\* A directory stands for all its .json files, with the speed in names of the form
\* test-<speed>.json; a file named on the command line has no speed.
EnumerateInputs(items) ==
  FlattenSeq([k \in DOMAIN items |->
    IF items[k].is_directory THEN Kept(items[k].files, {j \in DOMAIN items[k].files : items[k].files[j].json})
    ELSE <<[items[k].files[1] EXCEPT !.speed = None]>>])

\* One input without a speed takes it from all; else they are sorted by speed.
TranslateSpeeds(files) ==
  IF \E k \in DOMAIN files : files[k].speed = None
  THEN [k \in DOMAIN files |-> [files[k] EXCEPT !.speed = None]]
  ELSE SortedBy(files, LAMBDA file : file.speed)

StartDrawing(n) == IF n <= Len(inputs') THEN "load" ELSE "finish"

Collect ==
  /\ pc = "collect"
  /\ inputs' = TranslateSpeeds(EnumerateInputs(arguments.inputs))
  /\ pc' = StartDrawing(1)
  /\ UNCHANGED <<arguments, next, report, lineVars, seriesVars>>

Leave(state, outcome) ==
  /\ pc = state
  /\ pc' = outcome
  /\ UNCHANGED <<arguments, inputs, next, report, lineVars, seriesVars>>

\* s[from_point:to_point] of Python, for from_point >= 0.
Slice(s) ==
  LET to == IF arguments.to_point = None THEN Len(s)
            ELSE IF arguments.to_point < 0 THEN Len(s) + arguments.to_point
            ELSE Min({arguments.to_point, Len(s)})
  IN  SubSeq(s, (IF arguments.from_point = None THEN 0 ELSE arguments.from_point) + 1, to)

\* Variant: pairs are not cut.
CutArrays(r) == [r EXCEPT !.sends = Slice(@), !.receives = Slice(@)]

\* Items are cut by their place, the k-th reply with the k-th query.
Cut(r) == [r EXCEPT !.sends = Slice(@), !.receives = Slice(@), !.pairs = Slice(@)]

Load ==
  /\ pc = "load"
  /\ inputs[next].data # Unreadable
  /\ report' = Cut(JLoad(inputs[next].data))
  /\ pc' = "fit"
  /\ UNCHANGED <<arguments, inputs, next, lineVars, seriesVars>>

LoadRaises == Leave("load", "raised") /\ inputs[next].data = Unreadable
-----------------------------------------------------------------------------
(* The rate chart: a sending and a receiving rate for each input.          *)

start == report.sends[1]

\* make_fit uses names it does not define, so any fit a report asks for raises.
FitsAsked == inputs[next].fits /\ ~arguments.no_fit

SkipRates ==
  /\ pc = "fit" /\ ~FitsAsked /\ ~arguments.build_rates
  /\ pc' = "draw"
  /\ UNCHANGED <<arguments, inputs, next, report, lineVars, seriesVars>>

AddRates ==
  /\ pc = "fit" /\ ~FitsAsked /\ arguments.build_rates
  /\ \E sending_rate \in Fit(report.sends), receiving_rate \in Fit(report.receives) :
       /\ reference_series' = Append(reference_series, [x |-> sending_rate, y |-> sending_rate])
       /\ receiving_series' = Append(receiving_series, [x |-> sending_rate, y |-> receiving_rate])
       /\ LET Label(series, rate) ==
                IF inputs[next].speed = None THEN series
                ELSE Append(series, [x |-> inputs[next].speed, y |-> rate])
          IN  /\ sending_labels_series' = Label(sending_labels_series, sending_rate)
              /\ receiving_labels_series' = Label(receiving_labels_series, receiving_rate)
  /\ pc' = "draw"
  /\ UNCHANGED <<arguments, inputs, next, report, lineVars>>

FitRaises ==
  /\ Leave("fit", "raised")
  /\ FitsAsked \/ (arguments.build_rates /\ (Fit(report.sends) = {} \/ Fit(report.receives) = {}))
-----------------------------------------------------------------------------
(* The lines of an input, and the page.                                    *)

CanDraw == report.sends # << >> /\ report.receives # << >>

Line(what, values) == [input |-> next, what |-> what, values |-> values, disabled |-> FALSE]

Draw ==
  /\ pc = "draw" /\ CanDraw
  /\ counts' = counts \o <<Line("sent", MakeCount(report.sends, start)),
                           Line("received", MakeCount(report.receives, start))>>
  /\ rates' = rates \o <<Line("sending", MakeRate(report.sends, start)),
                         Line("receiving", MakeRate(report.receives, start))>>
  /\ processing' = Append(processing, Line("delay", MakeProcessing(report.pairs)))
  /\ queue' = Append(queue, Line("queue", MakeQueue(report.pairs, start)))
  /\ next' = next + 1
  /\ pc' = IF next' <= Len(inputs) THEN "load" ELSE "finish"
  /\ UNCHANGED <<arguments, inputs, report, seriesVars>>

\* make_rate takes the first item of an empty list.
DrawRaises == Leave("draw", "raised") /\ ~CanDraw

\* All lines but the first are hidden until the reader asks for them.
Hide(lines, shown) == [k \in DOMAIN lines |-> [lines[k] EXCEPT !.disabled = k > shown]]

\* Variant: the points stay in the order of the inputs.
SortedByInput(series) == series

\* sorted(series, key=x), where x is a rate: stable, as SortedBy is.
SortedByRate(series) ==
  LET place(k) == Cardinality({j \in DOMAIN series :
                    \/ Slower(series[j].x, series[k].x)
                    \/ (~Slower(series[k].x, series[j].x) /\ j <= k)})
  IN  [p \in DOMAIN series |-> series[CHOOSE k \in DOMAIN series : place(k) = p]]

Finish ==
  /\ pc = "finish"
  /\ counts' = Hide(counts, 2) /\ rates' = Hide(rates, 2)
  /\ processing' = Hide(processing, 1) /\ queue' = Hide(queue, 1)
  /\ reference_series' = SortedByRate(reference_series)
  /\ receiving_series' = SortedByRate(receiving_series)
  /\ sending_labels_series' = SortedBy(sending_labels_series, LAMBDA point : point.x)
  /\ receiving_labels_series' = SortedBy(receiving_labels_series, LAMBDA point : point.x)
  /\ pc' = "written"
  /\ UNCHANGED <<arguments, inputs, next, report>>

\* The output file cannot be written.
FinishRaises == Leave("finish", "unwritten")

Next ==
  \/ Collect \/ Load \/ LoadRaises
  \/ SkipRates \/ AddRates \/ FitRaises
  \/ Draw \/ DrawRaises \/ Finish \/ FinishRaises

Spec == Init /\ [][Next]_vars
-----------------------------------------------------------------------------
\* What is drawn of an input: the part of its report that was asked for.
Part(input) == Cut(JLoad(inputs[input].data))

\* The times that a line shows, those of queries or those of replies.
Shown(line) ==
  IF line.what \in {"sent", "sending"} THEN Part(line.input).sends ELSE Part(line.input).receives

Zero(line) == Part(line.input).sends[1]

\* Drawing every step-th item (grinder.py:164-175) moves no point: each says, exactly,
\* when how many messages had been sent or received; the last is never cut off,
\* and no gap is wider than a stride.
CountsExact ==
  \A l \in DOMAIN counts :
    LET points == counts[l].values
        times == Shown(counts[l])
    IN  /\ points[1].y = 1 \/ Len(times) <= FitPoints
        /\ points[Len(points)].y = Len(times)
        /\ \A p \in DOMAIN points : points[p].x = times[points[p].y] - Zero(counts[l])
        /\ \A p \in 2..Len(points) : points[p].y - points[p - 1].y \in 1..Step(Len(times))

\* How many messages the bars count.
Counted(bars) == Total([b \in DOMAIN bars |-> bars[b].count])

\* The bars of the rate chart (grinder.py:181-208) meet, from the first message to the
\* last, and each counts the messages inside its interval, and of those at its two
\* ends some, however bursts fall among the strides: none is counted twice.
RatesAccounted ==
  \A l \in DOMAIN rates :
    LET bars == rates[l].values
        times == Shown(rates[l])
        time(k) == times[k] - Zero(rates[l])
        Between(bar) == Cardinality({k \in DOMAIN times : bar.from < time(k) /\ time(k) < bar.to})
        Within(bar) == Cardinality({k \in DOMAIN times : bar.from <= time(k) /\ time(k) <= bar.to})
    IN  /\ bars = << >> <=> time(1) = time(Len(times))
        /\ bars # << >> => bars[1].from = time(1) /\ bars[Len(bars)].to = time(Len(times))
        /\ \A b \in 2..Len(bars) : bars[b].from = bars[b - 1].to
        /\ \A b \in DOMAIN bars : /\ bars[b].from < bars[b].to
                                 /\ Between(bars[b]) <= bars[b].count /\ bars[b].count <= Within(bars[b])
        /\ Counted(bars) <= Len(times)

\* Every delay is in one bucket, the one whose bounds it lies between, so that the
\* points of the latency chart (grinder.py:239-272) go from left to right and
\* begin and end with a delay.
LatencyBinned ==
  \A l \in DOMAIN processing :
    LET points == processing[l].values
        pairs == Part(processing[l].input).pairs
        answered == {k \in DOMAIN pairs : IsAnswered(pairs[k])}
        all == {pairs[k][3] : k \in answered}
        left == Floor10(Min(all))
        right == Ceiling10(Max(all))
        In(p, delay) == Cardinality({k \in DOMAIN points[p].delays : points[p].delays[k] = delay})
    IN  IF answered = {} THEN points = << >>
        ELSE /\ points[1].delays # << >> /\ points[Len(points)].delays # << >>
             /\ \A p \in 2..Len(points) : points[p].at = points[p - 1].at + 1
             /\ \A p \in DOMAIN points : \A k \in DOMAIN points[p].delays :
                  LET delay == points[p].delays[k] IN
                    /\ ~Above(delay, points[p].at, left, right)
                    /\ points[p].at > 1 => Above(delay, points[p].at - 1, left, right)
                    /\ In(p, delay) = Cardinality({j \in answered : pairs[j][3] = delay})
             /\ all = UNION {Range(points[p].delays) : p \in DOMAIN points}

\* An event of a report: the time of a query (1) or, before it in the same tick, of
\* a reply (0), and the pair it is in.
AllEvents(pairs) ==
  {<<pairs[k][1], 1, k>> : k \in DOMAIN pairs} \cup
  {<<pairs[k][2], 0, k>> : k \in {j \in DOMAIN pairs : IsAnswered(pairs[j])}}
UpTo(events, e) ==
  {d \in events : \/ d[1] < e[1]
                  \/ (d[1] = e[1] /\ d[2] < e[2])
                  \/ (d[1] = e[1] /\ d[2] = e[2] /\ d[3] <= e[3])}
InAir(events, e) == Cardinality({d \in UpTo(events, e) : d[2] = 1}) - Cardinality({d \in UpTo(events, e) : d[2] = 0})

\* The k-th of them.
NthEvent(events, k) == CHOOSE e \in events : Cardinality(UpTo(events, e)) = k

\* The queue chart (grinder.py:289-322) shows the queries that had left and not been
\* answered, at each event or as the mean over a window of them: a reply never
\* counts before its query, and no event is left out or in two windows.
InAirExact ==
  \A l \in DOMAIN queue :
    LET points == queue[l].values
        events == AllEvents(Part(queue[l].input).pairs)
        Before(p) == Total([q \in 1..(p - 1) |-> points[q].n])
        event(p, k) == NthEvent(events, Before(p) + k)
    IN  /\ Before(Len(points) + 1) = Cardinality(events)
        /\ \A p \in DOMAIN points :
             /\ points[p].y = Total([k \in 1..points[p].n |-> InAir(events, event(p, k))])
             /\ points[p].x = Total([k \in 1..points[p].n |-> event(p, k)[1] - Zero(queue[l])])

\* The range is cut by place and not by time (grinder.py:427-440), and yet no chart
\* shows anything before its start, the first query that is left: the k-th reply
\* never comes before the k-th query, whatever was lost or overtaken.
NothingBeforeStart ==
  /\ \A l \in DOMAIN counts : \A p \in DOMAIN counts[l].values : counts[l].values[p].x >= 0
  /\ \A l \in DOMAIN rates : \A p \in DOMAIN rates[l].values : rates[l].values[p].from >= 0
  /\ \A l \in DOMAIN queue : \A p \in DOMAIN queue[l].values : queue[l].values[p].x >= 0

\* The rates between pairs of points: a line fitted to the points is neither
\* steeper nor flatter than all of them.
PairRates(times) ==
  LET pairs == {p \in (DOMAIN times) \X (DOMAIN times) : times[p[1]] < times[p[2]]}
  IN  {[num |-> p[2] - p[1], den |-> times[p[2]] - times[p[1]]] : p \in pairs}
Plausible(rate, times) ==
  PairRates(times) # {} =>
    /\ \E r \in PairRates(times) : ~Slower(rate, r)
    /\ \E r \in PairRates(times) : ~Slower(r, rate)

\* The page's rate chart (grinder.py:486-530) has a point for each input, with the two
\* rates fit.py prints of that input, in the order of sending rates, the same in both
\* series; the labels follow the inputs' speeds, or there are none.
RatesAgree ==
  pc = "written" /\ arguments.build_rates =>
    LET Same(a, b) == ~Slower(a, b) /\ ~Slower(b, a)
        labelled == {k \in DOMAIN inputs : inputs[k].speed # None}
    IN  /\ Len(reference_series) = Len(inputs) /\ Len(receiving_series) = Len(inputs)
        /\ \A p \in DOMAIN receiving_series :
             /\ Same(reference_series[p].x, receiving_series[p].x)
             /\ p > 1 => ~Slower(receiving_series[p].x, receiving_series[p - 1].x)
        /\ \A k \in DOMAIN inputs : \E p \in DOMAIN receiving_series, s \in Summary(Part(k)) :
             /\ receiving_series[p] = [x |-> s.send, y |-> s.recv]
             /\ Plausible(s.send, Part(k).sends) /\ Plausible(s.recv, Part(k).receives)
        /\ labelled \in {{}, DOMAIN inputs}
        /\ DOMAIN sending_labels_series = labelled /\ DOMAIN receiving_labels_series = labelled
        /\ \A k \in labelled : /\ sending_labels_series[k].x = inputs[k].speed
                                /\ sending_labels_series[k].y \in Fit(Part(k).sends)
                                /\ receiving_labels_series[k].y \in Fit(Part(k).receives)
=============================================================================
