------------------------------ MODULE MCGrinder ------------------------------
EXTENDS Grinder

\* The report of queries sent at some times, each answered after its delay, or
\* never if that is 0.
MCReportOf(sends, delays) ==
  LET Received(k) == IF delays[k] = 0 THEN 0 ELSE sends[k] + delays[k]
      times == SelectSeq([k \in DOMAIN sends |-> Received(k)], LAMBDA t : t > 0)
  IN  [sends |-> sends,
       receives |-> SortSeq(times, <) \o [k \in 1..(Len(sends) - Len(times)) |-> 0],
       pairs |-> [k \in DOMAIN sends |-> PairOf(sends[k], Received(k))]]

MCReports(n, Time, Delay) ==
  LET Sends == {s \in [1..n -> Time] : s[1] = 1 /\ \A k \in 2..n : s[k - 1] <= s[k]}
  IN  {MCReportOf(sends, delays) : sends \in Sends, delays \in [1..n -> Delay]}

MCFile(data, speed) == [json |-> TRUE, speed |-> speed, data |-> data, fits |-> FALSE]
MCInput(data) == [is_directory |-> FALSE, files |-> <<MCFile(data, None)>>]

\* Every small report, cut in every way, and larger ones that are drawn in strides.
MCSmall == UNION {MCReports(n, 1..3, {0, 1, 2, 30}) : n \in 1..3}
MCLarge == MCReports(6, {1, 3}, {0, 2, 5}) \cup MCReports(7, {1, 3}, {0, 2})
MCOne ==
  {[inputs |-> <<MCInput(r)>>, from_point |-> from, to_point |-> to, no_fit |-> FALSE, build_rates |-> build_rates] :
     r \in MCSmall, from \in {None, 1}, to \in {None, 2, -1}, build_rates \in BOOLEAN}
MCStrides ==
  {[inputs |-> <<MCInput(r)>>, from_point |-> None, to_point |-> None, no_fit |-> FALSE, build_rates |-> FALSE] :
     r \in MCLarge}

\* A few files, some with no report, in a directory and next to it.
MCData == {MCReportOf(<<1, 2>>, <<1, 1>>), MCReportOf(<<1, 4, 5>>, <<9, 2, 2>>),
           MCReportOf(<<1, 3, 3>>, <<0, 0, 4>>), Unreadable}
MCFiles(data) ==
  {<<MCFile(data[1], 2000), MCFile(data[2], 1000)>>,
   <<MCFile(data[1], 1000), [MCFile(data[2], None) EXCEPT !.fits = TRUE], MCFile(data[3], 2000)>>,
   <<MCFile(data[2], 1000), [MCFile(Unreadable, None) EXCEPT !.json = FALSE], MCFile(data[1], 500), MCFile(data[3], 1000)>>}
MCMany ==
  {[inputs |-> <<[is_directory |-> TRUE, files |-> files]>> \o file, from_point |-> None, to_point |-> None,
    no_fit |-> no_fit, build_rates |-> build_rates] :
     files \in UNION {MCFiles(data) : data \in [1..3 -> MCData]}, file \in {<< >>, <<MCInput(MCReportOf(<<1, 2>>, <<3, 1>>))>>},
     no_fit \in BOOLEAN, build_rates \in BOOLEAN}
MCArguments == MCOne \cup MCStrides \cup MCMany

MCAnyRate == {[num |-> 0, den |-> 1], [num |-> 1, den |-> 1]}

ASSUME MCReportsAreReports ==
  \A r \in MCSmall \cup MCLarge \cup (MCData \ {Unreadable}) : IsReport(r)
=============================================================================
