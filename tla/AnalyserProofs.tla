--------------------------- MODULE AnalyserProofs ---------------------------
(***************************************************************************)
(* Proofs about the scripts of mig/analyser: about the charts of           *)
(* grinder.py, for every set of reports, every range and every number of   *)
(* points to a chart, and about the binary search with preview.py.         *)
(***************************************************************************)
EXTENDS Grinder, Search, SequenceTheorems, FiniteSetTheorems, WellFoundedInduction, TLAPS

(* Induction, sequences and loops.                                         *)

\* A set of natural numbers has a least one.
LEMMA Least ==
  ASSUME NEW T \in SUBSET Nat, T # {}
  PROVE  \E x \in T : \A y \in T : x <= y
<1> DEFINE R == OpToRel(<, Nat)
<1>1. PICK x \in T : \A y \in T : ~(<<y, x>> \in R)
  BY NatLessThanWellFounded, WFMin
<1>2. \A y \in T : <<y, x>> \in R <=> y < x
  BY DEF OpToRel
<1> HIDE DEF R
<1>3. \A y \in T : ~(y < x)
  BY <1>1, <1>2
<1>4. \A y \in T : y \in Int
  OBVIOUS
<1> QED
  BY <1>3, <1>4

\* Induction up to n: P holds the numbers of which something has been shown.
LEMMA Upwards ==
  ASSUME NEW n \in Nat, NEW P \in SUBSET Nat, 0 \in P, \A k \in 1..n : k - 1 \in P => k \in P
  PROVE  0..n \subseteq P
<1> DEFINE T == (0..n) \ P
<1>1. SUFFICES ASSUME T # {} PROVE FALSE
  OBVIOUS
<1>2. PICK k \in T : \A j \in T : k <= j
  <2>1. T \in SUBSET Nat
    OBVIOUS
  <2> HIDE DEF T
  <2> QED
    BY <1>1, <2>1, Least
<1>3. k \in 1..n /\ k - 1 \in 0..n /\ ~(k <= k - 1)
  OBVIOUS
<1>4. k - 1 \in P
  BY <1>2, <1>3
<1> QED
  BY <1>3, <1>4

\* f is the run of a loop over n items whose k-th turn is D[k].
Runs(f, n, S, first, D) ==
  f \in [0..n -> S] /\ f[0] = first /\ \A k \in 1..n : f[k] = D[k][f[k - 1]]

\* There is one.
LEMMA LoopRuns ==
  ASSUME NEW n \in Nat, NEW S, NEW first \in S, NEW D \in [1..n -> [S -> S]]
  PROVE  \E f : Runs(f, n, S, first, D)
<1> DEFINE Upto(m, f) == f \in [0..m -> S] /\ f[0] = first /\ \A k \in 1..m : f[k] = D[k][f[k - 1]]
           P == {m \in 0..n : \E f : Upto(m, f)}
<1>1. 0 \in P
  <2>1. Upto(0, [k \in 0..0 |-> first])
    OBVIOUS
  <2> HIDE DEF Upto
  <2>2. \E f : Upto(0, f)
    BY <2>1
  <2> QED
    BY <2>2
<1>2. ASSUME NEW m \in 1..n, m - 1 \in P PROVE m \in P
  <2>1. PICK f : Upto(m - 1, f)
    <3> HIDE DEF Upto
    <3> QED
      BY <1>2
  <2> DEFINE g == [k \in 0..m |-> IF k = m THEN D[m][f[m - 1]] ELSE f[k]]
  <2>2. f[m - 1] \in S /\ D[m] \in [S -> S]
    BY <2>1
  <2>3. g \in [0..m -> S] /\ g[0] = first
    BY <2>1, <2>2
  <2>4. ASSUME NEW k \in 1..m PROVE g[k] = D[k][g[k - 1]]
    BY <2>1
  <2>5. Upto(m, g)
    BY <2>3, <2>4
  <2> HIDE DEF Upto, g
  <2>6. \E h : Upto(m, h)
    BY <2>5
  <2> QED
    BY <2>6
<1>3. 0..n \subseteq P
  <2>1. P \in SUBSET Nat
    OBVIOUS
  <2> HIDE DEF P
  <2> QED
    BY <1>1, <1>2, <2>1, Upwards
<1>4. PICK f : Upto(n, f)
  <2> HIDE DEF Upto
  <2>1. n \in P
    BY <1>3
  <2> QED
    BY <2>1
<1>5. Runs(f, n, S, first, D)
  BY <1>4 DEF Runs
<1> HIDE DEF Upto
<1> QED
  BY <1>5

\* A function on 1..n is a sequence.
LEMMA Tabulated ==
  ASSUME NEW E, NEW n \in Nat, NEW s \in [1..n -> E]
  PROVE  s \in Seq(E) /\ Len(s) = n /\ DOMAIN s = 1..n
<1>1. s \in Seq(E)
  BY SeqDef
<1>2. Len(s) \in Nat /\ DOMAIN s = 1..Len(s) /\ DOMAIN s = 1..n
  BY <1>1, LenProperties
<1> QED
  BY <1>1, <1>2

\* u holds the items of s and then those of t.
IsJoined(u, s, t) ==
  /\ Len(u) = Len(s) + Len(t)
  /\ \A k \in 1..Len(s) : u[k] = s[k]
  /\ \A k \in 1..Len(t) : u[Len(s) + k] = t[k]

\* What a concatenation holds.
LEMMA ConcatItems ==
  ASSUME NEW E, NEW s \in Seq(E), NEW t \in Seq(E)
  PROVE  s \o t \in Seq(E) /\ IsJoined(s \o t, s, t)
<1>1. Len(s) \in Nat /\ Len(t) \in Nat
  BY LenProperties
<1>2. /\ s \o t \in Seq(E) /\ Len(s \o t) = Len(s) + Len(t)
      /\ \A k \in 1..(Len(s) + Len(t)) : (s \o t)[k] = IF k <= Len(s) THEN s[k] ELSE t[k - Len(s)]
  BY ConcatProperties
<1>3. \A k \in 1..Len(t) :
        /\ Len(s) + k \in 1..(Len(s) + Len(t)) /\ ~(Len(s) + k <= Len(s)) /\ (Len(s) + k) - Len(s) = k
  BY <1>1
<1>4. \A k \in 1..Len(s) : k \in 1..(Len(s) + Len(t)) /\ k <= Len(s)
  BY <1>1
<1> QED
  BY <1>2, <1>3, <1>4 DEF IsJoined

\* What a slice holds.
LEMMA SliceItems ==
  ASSUME NEW E, NEW s \in Seq(E), NEW o \in Nat, NEW n \in Nat, o + n <= Len(s)
  PROVE  /\ SubSeq(s, o + 1, o + n) \in Seq(E) /\ Len(SubSeq(s, o + 1, o + n)) = n
         /\ \A k \in 1..n : SubSeq(s, o + 1, o + n)[k] = s[o + k]
<1> DEFINE t == SubSeq(s, o + 1, o + n)
<1>1. \A k \in (o + 1)..(o + n) : s[k] \in E
  <2>1. \A k \in (o + 1)..(o + n) : k \in 1..Len(s)
    BY LenProperties
  <2> QED
    BY <2>1, ElementOfSeq
<1>2. /\ t \in Seq(E) /\ Len(t) = IF o + 1 <= o + n THEN (o + n) - (o + 1) + 1 ELSE 0
      /\ \A k \in 1..((o + n) - (o + 1) + 1) : t[k] = s[(o + 1) + k - 1]
  <2>1. o + 1 \in Int /\ o + n \in Int
    OBVIOUS
  <2> QED
    BY <1>1, <2>1, SubSeqProperties
<1>3. (o + n) - (o + 1) + 1 = n /\ (o + 1 <= o + n <=> n > 0) /\ \A k \in Int : (o + 1) + k - 1 = o + k
  OBVIOUS
<1> HIDE DEF t
<1>4. t \in Seq(E) /\ Len(t) = n /\ \A k \in 1..n : t[k] = s[o + k]
  BY <1>2, <1>3
<1> QED
  BY <1>4 DEF t

(* Orders.                                                                 *)

\* How many members of S precede a.
Before(S, R, a) == Cardinality({b \in S : <<b, a>> \in R})

Orders(R, S) ==
  /\ \A a \in S : <<a, a>> \notin R
  /\ \A a, b, c \in S : <<a, b>> \in R /\ <<b, c>> \in R => <<a, c>> \in R
  /\ \A a, b \in S : a = b \/ <<a, b>> \in R \/ <<b, a>> \in R

\* In a finite set that R orders, each member is known by how many precede it, and
\* there is one for every number.
LEMMA Ranked ==
  ASSUME NEW S, IsFiniteSet(S), NEW R, Orders(R, S)
  PROVE  /\ Cardinality(S) \in Nat
         /\ \A a \in S : Before(S, R, a) \in 0..(Cardinality(S) - 1)
         /\ \A a, b \in S : <<a, b>> \in R => Before(S, R, a) < Before(S, R, b)
         /\ \A a, b \in S : Before(S, R, a) = Before(S, R, b) => a = b
         /\ \A k \in 0..(Cardinality(S) - 1) : \E a \in S : Before(S, R, a) = k
<1> DEFINE before(a) == {b \in S : <<b, a>> \in R}
           N == Cardinality(S)
<1> USE DEF Orders
<1>1. ASSUME NEW T \in SUBSET S
      PROVE  IsFiniteSet(T) /\ Cardinality(T) \in Nat /\ Cardinality(T) <= N /\ N \in Nat
  BY FS_Subset, FS_CardinalityType
<1>2. ASSUME NEW a \in S, NEW T \in SUBSET S, before(a) \cup {a} \subseteq T
      PROVE  Cardinality(before(a)) < Cardinality(T)
  <2>1. a \notin before(a) /\ before(a) \in SUBSET S /\ before(a) \cup {a} \in SUBSET S
    OBVIOUS
  <2> HIDE DEF before, N
  <2>2. Cardinality(before(a) \cup {a}) = Cardinality(before(a)) + 1
    BY <1>1, <2>1, FS_AddElement
  <2>3. Cardinality(before(a) \cup {a}) <= Cardinality(T)
    BY <1>1, <1>2, FS_Subset
  <2> QED
    BY <1>1, <2>1, <2>2, <2>3
<1>3. N \in Nat /\ \A a \in S : Cardinality(before(a)) \in 0..(N - 1)
  <2>1. \A a \in S : before(a) \in SUBSET S /\ before(a) \cup {a} \subseteq S
    OBVIOUS
  <2> HIDE DEF before, N
  <2>2. N \in Nat
    BY <1>1
  <2>3. \A a \in S : Cardinality(before(a)) < Cardinality(S) /\ Cardinality(before(a)) \in Nat
    BY <1>1, <1>2, <2>1
  <2> QED
    BY <2>2, <2>3 DEF N
<1>4. ASSUME NEW a \in S, NEW b \in S, <<a, b>> \in R
      PROVE  Cardinality(before(a)) < Cardinality(before(b))
  <2>1. before(a) \cup {a} \subseteq before(b) /\ before(b) \in SUBSET S
    BY <1>4
  <2> HIDE DEF before
  <2> QED
    BY <1>2, <2>1
<1>5. ASSUME NEW a \in S, NEW b \in S, Cardinality(before(a)) = Cardinality(before(b)) PROVE a = b
  <2> HIDE DEF before
  <2>1. Cardinality(before(a)) \in Int
    BY <1>3
  <2>2. \A x \in Int : ~(x < x)
    OBVIOUS
  <2> QED
    BY <1>4, <1>5, <2>1, <2>2
<1>6. ASSUME NEW k \in 0..(N - 1) PROVE \E a \in S : Cardinality(before(a)) = k
  <2> DEFINE f == [a \in S |-> Cardinality(before(a))]
  <2>1. IsFiniteSet(0..(N - 1)) /\ Cardinality(0..(N - 1)) = N
    <3>1. 0 \in Int /\ N - 1 \in Int
      BY <1>3
    <3>2. /\ IsFiniteSet(0..(N - 1))
          /\ Cardinality(0..(N - 1)) = IF 0 > N - 1 THEN 0 ELSE (N - 1) - 0 + 1
      BY <3>1, FS_Interval
    <3> QED
      BY <1>3, <3>2
  <2>2. f \in Injection(S, 0..(N - 1))
    <3>1. f \in [S -> 0..(N - 1)]
      BY <1>3
    <3>2. \A a, b \in S : f[a] = f[b] => a = b
      BY <1>5
    <3> QED
      BY <3>1, <3>2 DEF Injection, IsInjective
  <2> HIDE DEF f, N
  <2>3. f \in Surjection(S, 0..(N - 1))
    BY <2>1, <2>2, FS_Injection DEF N
  <2>4. \E a \in S : f[a] = k
    BY <2>3 DEF Surjection, N
  <2> QED
    BY <2>4 DEF f
<1> QED
  BY <1>3, <1>4, <1>5, <1>6 DEF Before

\* There are n numbers up to n.
LEMMA IntervalSize ==
  ASSUME NEW n \in Nat
  PROVE  IsFiniteSet(1..n) /\ Cardinality(1..n) = n
<1>1. IsFiniteSet(1..n) /\ Cardinality(1..n) = IF 1 > n THEN 0 ELSE n - 1 + 1
  BY FS_Interval
<1> QED
  BY <1>1

\* What is kept of a sequence is in it.
LEMMA KeptItems ==
  ASSUME NEW E, NEW s \in Seq(E), NEW P \in SUBSET (DOMAIN s)
  PROVE  /\ Kept(s, P) \in Seq(E) /\ Len(Kept(s, P)) = Cardinality(P)
         /\ \A k \in DOMAIN Kept(s, P) : \E j \in P : Kept(s, P)[k] = s[j]
<1> DEFINE N == Cardinality(P)
           R == {e \in P \X P : e[1] < e[2]}
<1>1. Len(s) \in Nat /\ DOMAIN s = 1..Len(s) /\ IsFiniteSet(1..Len(s)) /\ \A k \in DOMAIN s : s[k] \in E
  BY LenProperties, ElementOfSeq, IntervalSize
<1>2. IsFiniteSet(P) /\ \A j \in P : j \in Nat
  BY <1>1, FS_Subset
<1>3. \A k \in 0..(N - 1) : \E j \in P : Rank(P, j) = k
  <2>1. Orders(R, P)
    BY <1>2 DEF Orders
  <2>2. \A j \in P : {b \in P : <<b, j>> \in R} = {b \in P : b < j}
    BY <1>2
  <2> HIDE DEF R
  <2>3. \A k \in 0..(Cardinality(P) - 1) : \E j \in P : Before(P, R, j) = k
    BY <1>2, <2>1, Ranked
  <2> QED
    BY <2>2, <2>3 DEF Rank, Before
<1>4. N \in Nat
  BY <1>2, FS_CardinalityType
<1> HIDE DEF N
<1>5. \A k \in 1..N : Nth(P, k - 1) \in P
  <2>1. \A k \in 1..N : k - 1 \in 0..(N - 1)
    BY <1>4
  <2> QED
    BY <1>3, <2>1 DEF Nth
<1>6. Kept(s, P) = [k \in 1..N |-> s[Nth(P, k - 1)]]
  BY DEF Kept, N
<1>7. Kept(s, P) \in [1..N -> E]
  BY <1>1, <1>5, <1>6
<1>8. Kept(s, P) \in Seq(E) /\ Len(Kept(s, P)) = N /\ DOMAIN Kept(s, P) = 1..N
  BY <1>4, <1>7, Tabulated
<1>9. \A k \in 1..N : \E j \in P : Kept(s, P)[k] = s[j]
  BY <1>5, <1>6
<1> QED
  BY <1>8, <1>9 DEF N

\* What is kept at the first m places are the first m items.
LEMMA KeptFirst ==
  ASSUME NEW s, NEW m \in Nat
  PROVE  Kept(s, 1..m) = [k \in 1..m |-> s[k]]
<1>1. ASSUME NEW k \in 1..m PROVE Rank(1..m, k) = k - 1
  <2>1. {d \in 1..m : d < k} = 1..(k - 1) /\ k - 1 \in Nat
    OBVIOUS
  <2> QED
    BY <2>1, IntervalSize DEF Rank
<1>2. ASSUME NEW k \in 1..m PROVE Nth(1..m, k - 1) = k
  <2>1. \A c \in 1..m : Rank(1..m, c) = k - 1 <=> c = k
    BY <1>1
  <2> QED
    BY <2>1 DEF Nth
<1> QED
  BY <1>2, IntervalSize DEF Kept

\* Places among which no earlier one is missing are the first ones.
LEMMA FirstPlaces ==
  ASSUME NEW n \in Nat, NEW P \in SUBSET (1..n), \A k \in P, j \in 1..n : j <= k => j \in P
  PROVE  \E m \in 0..n : P = 1..m
<1> DEFINE T == {m \in Nat : m + 1 \notin P}
<1>1. n \in T
  <2>1. n + 1 \notin 1..n
    OBVIOUS
  <2> QED
    BY <2>1
<1>2. PICK m \in T : \A j \in T : m <= j
  <2>1. T \in SUBSET Nat /\ T # {}
    BY <1>1
  <2> HIDE DEF T
  <2> QED
    BY <2>1, Least
<1>3. m \in 0..n
  BY <1>1, <1>2
<1>4. ASSUME NEW k \in 1..m PROVE k \in P
  <2>1. k - 1 \in Nat /\ ~(m <= k - 1) /\ (k - 1) + 1 = k
    BY <1>3
  <2> QED
    BY <1>2, <2>1
<1>5. ASSUME NEW k \in P PROVE k \in 1..m
  <2>1. m + 1 <= k => m + 1 \in P
    BY <1>3
  <2> QED
    BY <1>3, <2>1
<1> QED
  BY <1>3, <1>4, <1>5

-----------------------------------------------------------------------------
(* What a report says, loaded and cut.                                     *)

\* What is known of the three lists of a report.
LEMMA ReportType ==
  ASSUME NEW r \in Reports
  PROVE  /\ r.sends \in Seq(Nat) /\ r.receives \in Seq(Nat) /\ r.pairs \in Seq(Seq(Nat))
         /\ Len(r.sends) \in Nat /\ Len(r.receives) = Len(r.sends) /\ Len(r.pairs) = Len(r.sends)
         /\ DOMAIN r.sends = 1..Len(r.sends) /\ DOMAIN r.receives = 1..Len(r.sends)
         /\ DOMAIN r.pairs = 1..Len(r.sends)
         /\ \A k \in 1..Len(r.sends) : r.sends[k] \in Nat /\ r.receives[k] \in Nat /\ r.pairs[k] \in Seq(Nat)
<1>1. /\ r.sends \in Seq(Nat) /\ r.receives \in Seq(Nat) /\ r.pairs \in Seq(Seq(Nat))
      /\ IsReport(r)
  BY DEF Reports
<1>2. Len(r.receives) = Len(r.sends) /\ Len(r.pairs) = Len(r.sends)
  BY <1>1 DEF IsReport
<1> QED
  BY <1>1, <1>2, LenProperties, ElementOfSeq

\* The pair of a query: its time, the time of a reply if there was one, and the delay.
LEMMA ReportPairs ==
  ASSUME NEW r \in Reports, NEW k \in 1..Len(r.sends)
  PROVE  /\ r.sends[k] > 0 /\ \A j \in 1..k : r.sends[j] <= r.sends[k]
         /\ Len(r.pairs[k]) \in {1, 3} /\ r.pairs[k][1] = r.sends[k]
         /\ IsAnswered(r.pairs[k]) =>
              r.pairs[k][2] \in Nat /\ r.sends[k] < r.pairs[k][2] /\ r.pairs[k][3] \in Nat \ {0}
<1> DEFINE pair == r.pairs[k]
           sent == r.sends[k]
<1>1. /\ IsReport(r) /\ k \in DOMAIN r.sends /\ pair \in Seq(Nat) /\ sent \in Nat
  BY ReportType DEF Reports
<1>2. /\ sent > 0 /\ \A j \in 1..k : r.sends[j] <= sent
      /\ pair = PairOf(sent, IF IsAnswered(pair) THEN pair[2] ELSE 0)
      /\ IsAnswered(pair) => pair[3] > 0
  BY <1>1 DEF IsReport
<1> HIDE DEF pair, sent
<1>3. CASE IsAnswered(pair)
  <2>1. Len(pair) > 1 /\ Len(pair) \in Nat /\ 2 \in 1..Len(pair)
    BY <1>1, <1>3, LenProperties DEF IsAnswered
  <2>2. pair[2] \in Nat
    BY <1>1, <2>1, ElementOfSeq
  <2>3. pair[2] # 0
    <3>1. Len(<<sent>>) = 1
      OBVIOUS
    <3>2. pair[2] = 0 => pair = <<sent>>
      BY <1>2, <1>3 DEF PairOf
    <3> QED
      BY <2>1, <3>1, <3>2
  <2>4. pair = <<sent, pair[2], pair[2] - sent>>
    BY <1>2, <1>3, <2>3 DEF PairOf
  <2> DEFINE received == pair[2]
  <2> HIDE DEF received
  <2>5. pair = <<sent, received, received - sent>> /\ received \in Nat
    BY <2>2, <2>4 DEF received
  <2>6. Len(pair) = 3 /\ pair[1] = sent /\ pair[3] = received - sent
    BY <2>5
  <2>7. sent < received /\ pair[3] \in Nat \ {0}
    BY <1>1, <1>2, <1>3, <2>5, <2>6
  <2> QED
    BY <1>2, <2>2, <2>6, <2>7 DEF pair, sent, received
<1>4. CASE ~IsAnswered(pair)
  <2>1. pair = <<sent>>
    BY <1>2, <1>4 DEF PairOf
  <2>2. Len(pair) = 1 /\ pair[1] = sent
    BY <2>1
  <2> QED
    BY <1>2, <1>4, <2>2 DEF pair, sent
<1> QED
  BY <1>3, <1>4

\* Loading drops the zeroes, which come last.
LEMMA Loaded ==
  ASSUME NEW r \in Reports
  PROVE  /\ JLoad(r).sends = r.sends /\ JLoad(r).pairs = r.pairs
         /\ \E m \in 0..Len(r.sends) :
              /\ JLoad(r).receives = [k \in 1..m |-> r.receives[k]]
              /\ JLoad(r).receives \in Seq(Nat) /\ Len(JLoad(r).receives) = m
              /\ \A k \in 1..m : 0 < r.receives[k] /\ \A j \in 1..k : r.receives[j] <= r.receives[k]
<1> DEFINE P == {k \in DOMAIN r.receives : r.receives[k] > 0}
           n == Len(r.sends)
<1>1. /\ n \in Nat /\ DOMAIN r.receives = 1..n /\ \A k \in 1..n : r.receives[k] \in Nat
      /\ r = [sends |-> r.sends, receives |-> r.receives, pairs |-> r.pairs]
  BY ReportType DEF Reports
<1>2. \A k \in 1..n : \A j \in 1..k :
        r.receives[k] # 0 => 0 < r.receives[j] /\ r.receives[j] <= r.receives[k]
  BY <1>1 DEF Reports, IsReport
<1>3. PICK m \in 0..n : P = 1..m
  <2>1. P \in SUBSET (1..n) /\ \A k \in P, j \in 1..n : j <= k => j \in P
    BY <1>1, <1>2
  <2> HIDE DEF P, n
  <2> QED
    BY <1>1, <2>1, FirstPlaces
<1>4. JLoad(r) = [r EXCEPT !.receives = Kept(r.receives, P)]
  BY <1>1 DEF JLoad
<1> HIDE DEF P
<1>5. JLoad(r).sends = r.sends /\ JLoad(r).pairs = r.pairs /\ JLoad(r).receives = Kept(r.receives, 1..m)
  BY <1>1, <1>3, <1>4
<1>6. JLoad(r).receives = [k \in 1..m |-> r.receives[k]]
  BY <1>1, <1>3, <1>5, KeptFirst
<1>7. JLoad(r).receives \in Seq(Nat) /\ Len(JLoad(r).receives) = m
  <2>1. m \in Nat /\ JLoad(r).receives \in [1..m -> Nat]
    BY <1>1, <1>6
  <2> QED
    BY <2>1, Tabulated
<1>8. \A k \in 1..m : 0 < r.receives[k] /\ \A j \in 1..k : r.receives[j] <= r.receives[k]
  <2>1. \A k \in 1..m : k \in 1..n /\ r.receives[k] > 0
    BY <1>1, <1>3 DEF P
  <2> QED
    BY <1>1, <1>2, <2>1
<1> QED
  BY <1>5, <1>6, <1>7, <1>8

\* As many replies as the pairs hold up to a time are in receives up to it.
LEMMA CountsUpTo ==
  ASSUME NEW r \in Reports, NEW t \in Nat
  PROVE  Cardinality({k \in 1..Len(r.sends) : 0 < r.receives[k] /\ r.receives[k] <= t})
         = Cardinality({k \in 1..Len(r.sends) : IsAnswered(r.pairs[k]) /\ r.pairs[k][2] <= t})
<1> DEFINE n == Len(r.sends)
           A(u) == {k \in 1..n : 0 < r.receives[k] /\ r.receives[k] <= u}
           B(u) == {k \in 1..n : IsAnswered(r.pairs[k]) /\ r.pairs[k][2] <= u}
           NewA(u) == {k \in 1..n : r.receives[k] = u}
           NewB(u) == {k \in 1..n : IsAnswered(r.pairs[k]) /\ r.pairs[k][2] = u}
           P == {u \in Nat : Cardinality(A(u)) = Cardinality(B(u))}
<1>1. /\ n \in Nat /\ IsFiniteSet(1..n) /\ \A k \in 1..n : r.receives[k] \in Nat
      /\ \A k \in 1..n : IsAnswered(r.pairs[k]) => r.pairs[k][2] \in Nat /\ r.pairs[k][2] > 0
  <2>1. /\ n \in Nat /\ \A k \in 1..n : r.receives[k] \in Nat /\ r.sends[k] \in Nat
    BY ReportType
  <2>2. ASSUME NEW k \in 1..n, IsAnswered(r.pairs[k])
        PROVE  r.pairs[k][2] \in Nat /\ r.pairs[k][2] > 0
    <3>1. r.pairs[k][2] \in Nat /\ r.sends[k] < r.pairs[k][2]
      BY <2>2, ReportPairs
    <3> QED
      BY <2>1, <3>1
  <2> QED
    BY <2>1, <2>2, IntervalSize
<1>2. \A T \in SUBSET (1..n) : IsFiniteSet(T) /\ Cardinality(T) \in Nat
  BY <1>1, FS_Subset, FS_CardinalityType
<1>3. \A S, T \in SUBSET (1..n) : S \cap T = {} => Cardinality(S \cup T) = Cardinality(S) + Cardinality(T)
  <2> SUFFICES ASSUME NEW S \in SUBSET (1..n), NEW T \in SUBSET (1..n), S \cap T = {}
               PROVE  Cardinality(S \cup T) = Cardinality(S) + Cardinality(T)
    OBVIOUS
  <2>1. IsFiniteSet(S) /\ IsFiniteSet(T) /\ Cardinality(S) \in Nat /\ Cardinality(T) \in Nat
    BY <1>2
  <2>2. Cardinality(S \cup T) = Cardinality(S) + Cardinality(T) - Cardinality(S \cap T)
    BY <2>1, FS_Union
  <2>3. Cardinality(S \cap T) = 0
    BY FS_EmptySet
  <2> QED
    BY <2>1, <2>2, <2>3
\* At one time it is what a report is.
<1>4. ASSUME NEW u \in Nat, u > 0 PROVE Cardinality(NewA(u)) = Cardinality(NewB(u))
  <2>1. ReceivedAt(r, u) = Cardinality(NewA(u)) /\ PairedAt(r, u) = Cardinality(NewB(u))
    BY ReportType DEF ReceivedAt, PairedAt
  <2>2. CASE \E k \in 1..n : r.receives[k] = u
    <3>1. \A k \in 1..n : r.receives[k] # 0 => ReceivedAt(r, r.receives[k]) = PairedAt(r, r.receives[k])
      BY ReportType DEF Reports, IsReport
    <3> QED
      BY <1>4, <2>1, <2>2, <3>1
  <2>3. CASE \E k \in 1..n : IsAnswered(r.pairs[k]) /\ r.pairs[k][2] = u
    <3>1. \A k \in 1..n : IsAnswered(r.pairs[k]) => ReceivedAt(r, r.pairs[k][2]) = PairedAt(r, r.pairs[k][2])
      BY ReportType DEF Reports, IsReport
    <3> QED
      BY <2>1, <2>3, <3>1
  <2>4. CASE NewA(u) = {} /\ NewB(u) = {}
    BY <2>4
  <2> QED
    BY <2>2, <2>3, <2>4
<1>5. 0 \in P
  <2>1. A(0) = {} /\ B(0) = {}
    BY <1>1
  <2> HIDE DEF A, B
  <2> QED
    BY <2>1
<1>6. ASSUME NEW u \in 1..t, u - 1 \in P PROVE u \in P
  <2>1. /\ A(u) = A(u - 1) \cup NewA(u) /\ A(u - 1) \cap NewA(u) = {}
        /\ A(u - 1) \in SUBSET (1..n) /\ NewA(u) \in SUBSET (1..n)
    BY <1>1
  <2>2. /\ B(u) = B(u - 1) \cup NewB(u) /\ B(u - 1) \cap NewB(u) = {}
        /\ B(u - 1) \in SUBSET (1..n) /\ NewB(u) \in SUBSET (1..n)
    BY <1>1
  <2>3. u \in Nat /\ u > 0 /\ Cardinality(A(u - 1)) = Cardinality(B(u - 1))
    <3> HIDE DEF A, B
    <3> QED
      BY <1>6
  <2>4. Cardinality(NewA(u)) = Cardinality(NewB(u))
    BY <1>4, <2>3
  <2> HIDE DEF A, B, NewA, NewB
  <2>5. Cardinality(A(u)) = Cardinality(A(u - 1)) + Cardinality(NewA(u))
    BY <1>3, <2>1
  <2>6. Cardinality(B(u)) = Cardinality(B(u - 1)) + Cardinality(NewB(u))
    BY <1>3, <2>2
  <2> QED
    BY <2>3, <2>4, <2>5, <2>6
<1>7. t \in P
  <2>1. P \in SUBSET Nat
    OBVIOUS
  <2> HIDE DEF P
  <2>2. 0..t \subseteq P
    BY <1>5, <1>6, <2>1, Upwards
  <2> QED
    BY <2>2
<1> QED
  BY <1>7

\* The k-th reply comes after the k-th query: among the queries that were answered up
\* to then is one that is not among the first k - 1.
LEMMA RepliesBehind ==
  ASSUME NEW r \in Reports, NEW j \in 1..Len(r.sends), 0 < r.receives[j]
  PROVE  r.sends[j] < r.receives[j]
<1> DEFINE n == Len(r.sends)
           t == r.receives[j]
           A == {k \in 1..n : 0 < r.receives[k] /\ r.receives[k] <= t}
           B == {k \in 1..n : IsAnswered(r.pairs[k]) /\ r.pairs[k][2] <= t}
<1>1. /\ n \in Nat /\ \A k \in 1..n : r.receives[k] \in Nat /\ r.sends[k] \in Nat
  BY ReportType
<1>2. SUFFICES ASSUME t <= r.sends[j] PROVE FALSE
  BY <1>1
<1>3. 1..j \subseteq A
  <2>1. \A k \in 1..n : \A i \in 1..k : r.receives[k] # 0 => 0 < r.receives[i] /\ r.receives[i] <= r.receives[k]
    BY ReportType DEF Reports, IsReport
  <2>2. j \in 1..n /\ t # 0 /\ \A k \in 1..j : k \in 1..n
    BY <1>1
  <2>3. \A k \in 1..j : 0 < r.receives[k] /\ r.receives[k] <= t
    BY <2>1, <2>2
  <2> QED
    BY <2>2, <2>3
<1>4. B \subseteq 1..(j - 1)
  <2>1. ASSUME NEW k \in B PROVE k < j
    <3>1. k \in 1..n /\ IsAnswered(r.pairs[k]) /\ r.pairs[k][2] <= t
      OBVIOUS
    <3>2. r.sends[k] < r.pairs[k][2] /\ r.pairs[k][2] \in Nat
      BY <3>1, ReportPairs
    <3>3. j <= k => r.sends[j] <= r.sends[k]
      BY <3>1, ReportPairs
    <3> QED
      BY <1>1, <1>2, <3>1, <3>2, <3>3
  <2> QED
    BY <1>1, <2>1
<1>5. Cardinality(A) = Cardinality(B)
  BY <1>1, CountsUpTo
<1>6. A \in SUBSET (1..n)
  OBVIOUS
<1> HIDE DEF A, B, n
<1>7. /\ IsFiniteSet(A) /\ j \in Nat /\ j - 1 \in Nat
      /\ Cardinality(1..j) = j /\ Cardinality(1..(j - 1)) = j - 1 /\ IsFiniteSet(1..(j - 1))
  <2>1. j \in Nat /\ j - 1 \in Nat
    OBVIOUS
  <2> QED
    BY <1>1, <1>6, <2>1, IntervalSize, FS_Subset
<1>8. j <= Cardinality(A) /\ Cardinality(B) <= j - 1 /\ Cardinality(A) \in Nat
  BY <1>3, <1>4, <1>7, FS_Subset, FS_CardinalityType
<1> QED
  BY <1>5, <1>7, <1>8

\* How many items a range leaves out at the front, and leaves of n.
From == IF arguments.from_point = None THEN 0 ELSE arguments.from_point
To(n) == IF arguments.to_point = None THEN n
         ELSE IF arguments.to_point < 0 THEN n + arguments.to_point
         ELSE Min({arguments.to_point, n})
Left(n) == IF From < To(n) THEN To(n) - From ELSE 0

\* s[from_point:to_point] holds the items of s from there on.
LEMMA Sliced ==
  ASSUME arguments \in Arguments, NEW E, NEW s \in Seq(E)
  PROVE  /\ From \in Nat /\ Slice(s) \in Seq(E) /\ Len(Slice(s)) = Left(Len(s)) /\ Left(Len(s)) \in Nat
         /\ \A k \in 1..Left(Len(s)) : From + k \in 1..Len(s) /\ Slice(s)[k] = s[From + k]
<1> DEFINE n == Len(s)
           to == To(n)
<1>1. n \in Nat /\ \A k \in 1..n : s[k] \in E
  BY LenProperties, ElementOfSeq
<1>2. From \in Nat
  BY ArgumentsAssumption DEF From
<1>3. to \in Int /\ to <= n
  <2>1. arguments.to_point \in Int \cup {None}
    BY ArgumentsAssumption
  <2>2. ASSUME arguments.to_point \in Int PROVE Min({arguments.to_point, n}) \in Int /\ Min({arguments.to_point, n}) <= n
    <3> DEFINE p == arguments.to_point
    <3>1. \E x \in {p, n} : \A y \in {p, n} : x <= y
      <4>1. p <= n \/ n <= p
        BY <1>1, <2>2
      <4>2. p <= p /\ n <= n
        BY <1>1, <2>2
      <4> HIDE DEF p, n
      <4> QED
        BY <4>1, <4>2
    <3>2. Min({p, n}) \in {p, n} /\ \A y \in {p, n} : Min({p, n}) <= y
      <4> HIDE DEF p, n
      <4> QED
        BY <3>1 DEF Min
    <3> QED
      BY <1>1, <2>2, <3>2
  <2>3. CASE arguments.to_point = None
    BY <1>1, <2>3 DEF To
  <2>4. CASE arguments.to_point # None /\ arguments.to_point < 0
    <3>1. arguments.to_point \in Int
      BY <2>1, <2>4
    <3>2. to = n + arguments.to_point
      BY <2>4 DEF To
    <3> QED
      BY <1>1, <2>4, <3>1, <3>2
  <2>5. CASE arguments.to_point # None /\ ~(arguments.to_point < 0)
    <3>1. arguments.to_point \in Int /\ to = Min({arguments.to_point, n})
      BY <2>1, <2>5 DEF To
    <3> QED
      BY <2>2, <3>1
  <2> QED
    BY <2>3, <2>4, <2>5
<1>4. Slice(s) = SubSeq(s, From + 1, to)
  BY DEF Slice, To, From
<1> HIDE DEF to, n
<1>5. /\ Slice(s) \in Seq(E)
      /\ Len(Slice(s)) = IF From + 1 <= to THEN to - (From + 1) + 1 ELSE 0
      /\ \A k \in 1..(to - (From + 1) + 1) : Slice(s)[k] = s[(From + 1) + k - 1]
  <2>1. From + 1 \in Int /\ \A k \in (From + 1)..to : s[k] \in E
    BY <1>1, <1>2, <1>3
  <2> QED
    BY <1>3, <1>4, <2>1, SubSeqProperties
<1>6. /\ Left(n) = (IF From + 1 <= to THEN to - (From + 1) + 1 ELSE 0) /\ Left(n) \in Nat
      /\ \A k \in 1..Left(n) : /\ From + k \in 1..n /\ k \in 1..(to - (From + 1) + 1)
                               /\ (From + 1) + k - 1 = From + k
  <2>1. Left(n) = IF From < to THEN to - From ELSE 0
    BY DEF Left, to
  <2> QED
    BY <1>1, <1>2, <1>3, <2>1
<1>7. \A k \in 1..Left(n) : Slice(s)[k] = s[From + k]
  BY <1>5, <1>6
<1> QED
  BY <1>2, <1>5, <1>6, <1>7 DEF n

Sorted(s) == \A j, k \in DOMAIN s : j <= k => s[j] <= s[k]

\* What the charts rely on: times in order, no reply before the first query, and a pair
\* for each query, whose reply comes after it.
SoundPart(p) ==
  /\ p.sends \in Seq(Nat) /\ p.receives \in Seq(Nat) /\ p.pairs \in Seq(Seq(Nat))
  /\ Sorted(p.sends) /\ Sorted(p.receives)
  /\ p.sends # << >> => \A k \in DOMAIN p.receives : p.sends[1] < p.receives[k]
  /\ Len(p.pairs) = Len(p.sends)
  /\ \A k \in DOMAIN p.pairs :
       /\ Len(p.pairs[k]) \in {1, 3} /\ p.pairs[k][1] = p.sends[k]
       /\ IsAnswered(p.pairs[k]) =>
            p.pairs[k][2] \in Nat /\ p.sends[k] < p.pairs[k][2] /\ p.pairs[k][3] \in Nat \ {0}

\* The range is cut by place, and what is left of a report is sound all the same.
LEMMA CutSound ==
  ASSUME arguments \in Arguments, NEW r \in Reports
  PROVE  SoundPart(Cut(JLoad(r)))
<1> DEFINE p == Cut(JLoad(r))
           n == Len(r.sends)
<1>1. PICK m \in 0..n :
        /\ JLoad(r).receives = [k \in 1..m |-> r.receives[k]]
        /\ JLoad(r).receives \in Seq(Nat) /\ Len(JLoad(r).receives) = m
        /\ \A k \in 1..m : 0 < r.receives[k] /\ \A j \in 1..k : r.receives[j] <= r.receives[k]
  BY Loaded
<1>2. JLoad(r).sends = r.sends /\ JLoad(r).pairs = r.pairs
  BY Loaded
<1>3. /\ r.sends \in Seq(Nat) /\ r.pairs \in Seq(Seq(Nat)) /\ n \in Nat /\ Len(r.pairs) = n
      /\ \A k \in 1..n : r.sends[k] \in Nat /\ r.receives[k] \in Nat
  BY ReportType
<1>4. p.sends = Slice(r.sends) /\ p.receives = Slice(JLoad(r).receives) /\ p.pairs = Slice(r.pairs)
  <2>1. JLoad(r) = [sends |-> r.sends, receives |-> JLoad(r).receives, pairs |-> r.pairs]
    <3>1. JLoad(r) = [r EXCEPT !.receives = Kept(r.receives, {k \in DOMAIN r.receives : r.receives[k] > 0})]
      BY DEF JLoad, Reports
    <3>2. r = [sends |-> r.sends, receives |-> r.receives, pairs |-> r.pairs]
      BY DEF Reports
    <3> QED
      BY <3>1, <3>2
  <2> DEFINE q == JLoad(r)
  <2> HIDE DEF q
  <2>2. q = [sends |-> q.sends, receives |-> q.receives, pairs |-> q.pairs]
    BY <1>2, <2>1 DEF q
  <2>3. Cut(q).sends = Slice(q.sends) /\ Cut(q).receives = Slice(q.receives) /\ Cut(q).pairs = Slice(q.pairs)
    BY <2>2 DEF Cut
  <2> QED
    BY <1>2, <2>3 DEF q
<1> HIDE DEF p
<1>5. /\ From \in Nat /\ p.sends \in Seq(Nat) /\ Len(p.sends) = Left(n) /\ Left(n) \in Nat
      /\ DOMAIN p.sends = 1..Left(n)
      /\ \A k \in 1..Left(n) : From + k \in 1..n /\ p.sends[k] = r.sends[From + k]
  <2>1. /\ From \in Nat /\ Slice(r.sends) \in Seq(Nat) /\ Len(Slice(r.sends)) = Left(n) /\ Left(n) \in Nat
        /\ \A k \in 1..Left(n) : From + k \in 1..n /\ Slice(r.sends)[k] = r.sends[From + k]
    BY <1>3, Sliced
  <2> QED
    BY <1>4, <2>1, LenProperties
<1>6. /\ p.receives \in Seq(Nat) /\ Len(p.receives) = Left(m) /\ Left(m) \in Nat
      /\ DOMAIN p.receives = 1..Left(m)
      /\ \A k \in 1..Left(m) : From + k \in 1..m /\ p.receives[k] = r.receives[From + k]
  <2> DEFINE s == JLoad(r).receives
  <2>1. /\ Slice(s) \in Seq(Nat) /\ Len(Slice(s)) = Left(m) /\ Left(m) \in Nat
        /\ \A k \in 1..Left(m) : From + k \in 1..m /\ Slice(s)[k] = s[From + k]
    <3>1. s \in Seq(Nat) /\ Len(s) = m
      BY <1>1
    <3> HIDE DEF s
    <3> QED
      BY <3>1, Sliced
  <2> HIDE DEF s
  <2>2. \A k \in 1..m : s[k] = r.receives[k]
    BY <1>1 DEF s
  <2> QED
    BY <1>4, <2>1, <2>2, LenProperties DEF s
<1>7. /\ p.pairs \in Seq(Seq(Nat)) /\ Len(p.pairs) = Left(n) /\ DOMAIN p.pairs = 1..Left(n)
      /\ \A k \in 1..Left(n) : p.pairs[k] = r.pairs[From + k]
  <2>1. /\ Slice(r.pairs) \in Seq(Seq(Nat)) /\ Len(Slice(r.pairs)) = Left(n)
        /\ \A k \in 1..Left(n) : Slice(r.pairs)[k] = r.pairs[From + k]
    BY <1>3, Sliced
  <2> QED
    BY <1>4, <2>1, LenProperties
<1>8. Sorted(p.sends)
  <2> SUFFICES ASSUME NEW j \in 1..Left(n), NEW k \in 1..Left(n), j <= k PROVE p.sends[j] <= p.sends[k]
    BY <1>5 DEF Sorted
  <2>1. From + k \in 1..n /\ From + j \in 1..(From + k)
    BY <1>5
  <2>2. r.sends[From + j] <= r.sends[From + k]
    BY <2>1, ReportPairs
  <2> QED
    BY <1>5, <2>2
<1>9. Sorted(p.receives)
  <2> SUFFICES ASSUME NEW j \in 1..Left(m), NEW k \in 1..Left(m), j <= k PROVE p.receives[j] <= p.receives[k]
    BY <1>6 DEF Sorted
  <2>1. From + k \in 1..m /\ From + j \in 1..(From + k)
    BY <1>5, <1>6
  <2> QED
    BY <1>1, <1>6, <2>1
<1>10. ASSUME p.sends # << >>, NEW k \in DOMAIN p.receives PROVE p.sends[1] < p.receives[k]
  <2>1. 1 \in 1..Left(n) /\ From + 1 \in 1..n
    <3>1. Left(n) # 0
      BY <1>5, <1>10, EmptySeq
    <3> QED
      BY <1>5, <3>1
  <2>2. From + k \in 1..m /\ From + 1 \in 1..(From + k) /\ From + 1 \in 1..m
    BY <1>5, <1>6, <1>10
  <2>3. 0 < r.receives[From + 1] /\ r.receives[From + 1] <= r.receives[From + k]
    BY <1>1, <2>2
  <2>4. r.sends[From + 1] < r.receives[From + 1]
    BY <2>1, <2>3, RepliesBehind
  <2>5. p.sends[1] = r.sends[From + 1] /\ p.receives[k] = r.receives[From + k]
    BY <1>5, <1>6, <1>10, <2>1
  <2>6. /\ r.sends[From + 1] \in Nat /\ r.receives[From + 1] \in Nat /\ r.receives[From + k] \in Nat
    <3>1. From + k \in 1..n
      BY <2>2
    <3> QED
      BY <1>3, <2>1, <3>1
  <2> QED
    BY <2>3, <2>4, <2>5, <2>6
<1>11. ASSUME NEW k \in DOMAIN p.pairs
       PROVE  /\ Len(p.pairs[k]) \in {1, 3} /\ p.pairs[k][1] = p.sends[k]
              /\ IsAnswered(p.pairs[k]) =>
                   p.pairs[k][2] \in Nat /\ p.sends[k] < p.pairs[k][2] /\ p.pairs[k][3] \in Nat \ {0}
  <2>1. From + k \in 1..n /\ p.pairs[k] = r.pairs[From + k] /\ p.sends[k] = r.sends[From + k]
    BY <1>5, <1>7, <1>11
  <2> QED
    BY <2>1, ReportPairs
<1> QED
  BY <1>5, <1>6, <1>7, <1>8, <1>9, <1>10, <1>11 DEF SoundPart, p

-----------------------------------------------------------------------------
(* The inputs and the lines that are drawn of them.                        *)

\* Sequences of sequences, put one after the other: f[k] is what the first k make.
FlattenRun(f, seqs, E) ==
  /\ f \in [1..Len(seqs) -> Seq(E)] /\ f[1] = seqs[1]
  /\ \A k \in 2..Len(seqs) : f[k] = f[k - 1] \o seqs[k]
  /\ FlattenSeq(seqs) = f[Len(seqs)]

\* FlattenSeq appends the sequences one after the other.
LEMMA FlattenRuns ==
  ASSUME NEW E, NEW seqs \in Seq(Seq(E)), Len(seqs) # 0
  PROVE  \E f : FlattenRun(f, seqs, E)
<1> DEFINE n == Len(seqs)
<1>1. n \in Nat /\ \A k \in 1..n : seqs[k] \in Seq(E)
  BY LenProperties, ElementOfSeq
<1>2. n # 0
  OBVIOUS
<1> QED
  <2> DEFINE Joins(g) == g = [i \in 1..n |-> IF i = 1 THEN seqs[i] ELSE g[i - 1] \o seqs[i]]
             D == [k \in 1..(n - 1) |-> [s \in Seq(E) |-> s \o seqs[k + 1]]]
  <2>1. D \in [1..(n - 1) -> [Seq(E) -> Seq(E)]] /\ n - 1 \in Nat /\ seqs[1] \in Seq(E)
    BY <1>1, <1>2
  <2>2. PICK f \in [0..(n - 1) -> Seq(E)] : f[0] = seqs[1] /\ \A k \in 1..(n - 1) : f[k] = D[k][f[k - 1]]
    <3> DEFINE T == Seq(E)
               m == n - 1
               first == seqs[1]
    <3>1. D \in [1..m -> [T -> T]] /\ m \in Nat /\ first \in T
      BY <2>1
    <3> HIDE DEF D, n, T, m, first
    <3>2. \E f : Runs(f, m, T, first, D)
      BY <3>1, LoopRuns
    <3> QED
      BY <3>2 DEF T, m, first, Runs
  <2>3. \E g : Joins(g)
    <3> DEFINE g == [i \in 1..n |-> f[i - 1]]
    <3>1. ASSUME NEW i \in 1..n PROVE g[i] = IF i = 1 THEN seqs[i] ELSE g[i - 1] \o seqs[i]
      <4>1. CASE i = 1
        BY <2>2, <4>1
      <4>2. CASE i # 1
        <5>1. i - 1 \in 1..(n - 1) /\ i - 1 \in 1..n /\ (i - 1) - 1 \in 0..(n - 1) /\ (i - 1) + 1 = i
          BY <1>1, <4>2
        <5>2. f[i - 1] = D[i - 1][f[(i - 1) - 1]] /\ f[(i - 1) - 1] \in Seq(E)
          BY <2>2, <5>1
        <5>3. f[i - 1] = f[(i - 1) - 1] \o seqs[i]
          BY <5>1, <5>2
        <5> QED
          BY <4>2, <5>1, <5>3
      <4> QED
        BY <4>1, <4>2
    <3>2. Joins(g)
      BY <3>1
    <3> HIDE DEF Joins, g
    <3> QED
      BY <3>2
  <2> DEFINE flatten == CHOOSE g : Joins(g)
  <2>4. Joins(flatten)
    <3> HIDE DEF Joins
    <3> QED
      BY <2>3
  <2>5. FlattenSeq(seqs) = flatten[n]
    BY <1>2 DEF FlattenSeq
  <2> HIDE DEF flatten
  <2> DEFINE P == {k \in Nat : k + 1 \in 1..n => flatten[k + 1] \in Seq(E)}
  <2>6. 0 \in P
    BY <1>1, <2>4
  <2>7. ASSUME NEW k \in 1..(n - 1), k - 1 \in P PROVE k \in P
    <3>1. k + 1 \in 1..n /\ k + 1 # 1 /\ (k + 1) - 1 = k /\ (k - 1) + 1 = k /\ k \in 1..n /\ k \in Nat
      BY <1>1
    <3>2. flatten[k] \in Seq(E)
      BY <2>7, <3>1
    <3>3. flatten[k + 1] = flatten[k] \o seqs[k + 1]
      BY <2>4, <3>1
    <3>4. flatten[k] \o seqs[k + 1] \in Seq(E)
      BY <1>1, <3>1, <3>2, ConcatProperties
    <3> QED
      BY <3>1, <3>3, <3>4
  <2>8. \A k \in 1..n : flatten[k] \in Seq(E)
    <3>1. P \in SUBSET Nat /\ n - 1 \in Nat
      BY <2>1
    <3>2. 0..(n - 1) \subseteq P
      <4> HIDE DEF P
      <4> QED
        BY <2>6, <2>7, <3>1, Upwards
    <3>3. ASSUME NEW k \in 1..n PROVE flatten[k] \in Seq(E)
      <4>1. k - 1 \in 0..(n - 1) /\ (k - 1) + 1 = k
        BY <1>1
      <4>2. k - 1 \in P
        <5> HIDE DEF P
        <5> QED
          BY <3>2, <4>1
      <4> QED
        BY <4>1, <4>2
    <3> QED
      BY <3>3
  <2>9. flatten = [i \in 1..n |-> flatten[i]]
    BY <2>4
  <2>10. flatten \in [1..n -> Seq(E)]
    BY <2>8, <2>9
  <2>11. flatten[1] = seqs[1] /\ \A k \in 2..n : flatten[k] = flatten[k - 1] \o seqs[k]
    <3>1. 1 \in 1..n
      BY <1>1, <1>2
    <3>2. ASSUME NEW k \in 2..n PROVE flatten[k] = flatten[k - 1] \o seqs[k]
      <4>1. k \in 1..n /\ k # 1
        BY <1>1
      <4> QED
        BY <2>4, <4>1
    <3> QED
      BY <2>4, <3>1, <3>2
  <2>12. FlattenRun(flatten, seqs, E)
    BY <2>5, <2>10, <2>11 DEF FlattenRun
  <2> QED
    BY <2>12

\* Sequences over E flatten to one over E.
LEMMA Flattened ==
  ASSUME NEW E, NEW seqs \in Seq(Seq(E))
  PROVE  FlattenSeq(seqs) \in Seq(E)
<1>1. CASE Len(seqs) = 0
  <2>1. seqs = << >> /\ FlattenSeq(seqs) = seqs
    BY <1>1, EmptySeq DEF FlattenSeq
  <2>2. << >> \in Seq(E)
    BY EmptySeq
  <2> QED
    BY <2>1, <2>2
<1>2. CASE Len(seqs) # 0
  <2>1. PICK f : FlattenRun(f, seqs, E)
    BY <1>2, FlattenRuns
  <2>2. Len(seqs) \in 1..Len(seqs)
    BY <1>2, LenProperties
  <2> QED
    BY <2>1, <2>2 DEF FlattenRun
<1> QED
  BY <1>1, <1>2

\* Where the items of seqs[k] are in the flattened sequence: behind off[k - 1] others.
Offsets(off, seqs, flat) ==
  LET n == Len(seqs) IN
  /\ off \in [0..n -> Nat] /\ off[0] = 0 /\ Len(flat) = off[n]
  /\ \A k \in 1..n : off[k] = off[k - 1] + Len(seqs[k])
  /\ \A k \in 1..n : \A j \in 1..Len(seqs[k]) : flat[off[k - 1] + j] = seqs[k][j]

\* Every item is found at the length of the sequences before its own, and its place there.
LEMMA FlattenPlaces ==
  ASSUME NEW E, NEW seqs \in Seq(Seq(E)), Len(seqs) # 0
  PROVE  \E off : Offsets(off, seqs, FlattenSeq(seqs))
<1> DEFINE n == Len(seqs)
<1>1. n \in Nat \ {0} /\ \A k \in 1..n : seqs[k] \in Seq(E) /\ Len(seqs[k]) \in Nat
  BY LenProperties, ElementOfSeq
<1>2. PICK f : FlattenRun(f, seqs, E)
  BY FlattenRuns
<1>3. /\ f \in [1..n -> Seq(E)] /\ f[1] = seqs[1] /\ FlattenSeq(seqs) = f[n]
      /\ \A k \in 2..n : f[k] = f[k - 1] \o seqs[k]
  BY <1>2 DEF FlattenRun
<1> HIDE DEF n
<1> DEFINE off == [k \in 0..n |-> IF k = 0 THEN 0 ELSE Len(f[k])]
<1>4. off \in [0..n -> Nat] /\ off[0] = 0 /\ \A k \in 1..n : off[k] = Len(f[k]) /\ off[k - 1] \in Nat
  <2>1. \A k \in 1..n : Len(f[k]) \in Nat
    BY <1>3, LenProperties
  <2> QED
    BY <1>1, <2>1
<1> HIDE DEF off
<1>5. ASSUME NEW k \in 2..n PROVE IsJoined(f[k], f[k - 1], seqs[k])
  <2>1. k \in 1..n /\ k - 1 \in 1..n
    BY <1>1
  <2>2. f[k - 1] \in Seq(E) /\ seqs[k] \in Seq(E)
    BY <1>1, <1>3, <2>1
  <2>3. f[k] = f[k - 1] \o seqs[k]
    BY <1>3
  <2> QED
    BY <2>2, <2>3, ConcatItems
<1>6. ASSUME NEW k \in 1..n PROVE off[k] = off[k - 1] + Len(seqs[k])
  <2>1. CASE k = 1
    BY <1>1, <1>3, <1>4, <2>1
  <2>2. CASE k # 1
    <3>1. k \in 2..n /\ k - 1 \in 1..n
      BY <1>1, <2>2
    <3> QED
      BY <1>4, <1>5, <3>1 DEF IsJoined
  <2> QED
    BY <2>1, <2>2
<1> DEFINE Holds(m) == \A k \in 1..m : \A j \in 1..Len(seqs[k]) : off[k - 1] + j <= off[m] /\ f[m][off[k - 1] + j] = seqs[k][j]
           P == {m \in Nat : m \in 1..n => Holds(m)}
<1>7. 0 \in P
  OBVIOUS
<1>8. ASSUME NEW m \in 1..n, m - 1 \in P PROVE m \in P
  <2>1. m \in Nat /\ (m - 1 # 0 => m \in 2..n /\ m - 1 \in 1..n /\ Holds(m - 1))
    <3>1. m \in Nat /\ (m - 1 # 0 => m \in 2..n /\ m - 1 \in 1..n)
      BY <1>1
    <3> HIDE DEF Holds
    <3> QED
      BY <1>8, <3>1
  <2>2. ASSUME NEW k \in 1..m, NEW j \in 1..Len(seqs[k])
        PROVE  off[k - 1] + j <= off[m] /\ f[m][off[k - 1] + j] = seqs[k][j]
    <3>1. k \in 1..n /\ Len(seqs[k]) \in Nat /\ j \in Nat /\ off[k - 1] \in Nat /\ off[m] \in Nat /\ off[m - 1] \in Nat
      <4>1. k \in 1..n /\ m \in 0..n
        BY <1>1
      <4>2. Len(seqs[k]) \in Nat /\ j \in Nat
        BY <1>1, <4>1
      <4> QED
        BY <1>4, <4>1, <4>2
    <3>2. CASE m = 1
      <4>1. k = 1 /\ off[1] = Len(seqs[1]) /\ off[0] = 0 /\ f[1] = seqs[1]
        BY <1>3, <1>4, <1>6, <3>1, <3>2
      <4>2. off[k - 1] = 0
        BY <4>1
      <4> QED
        BY <3>1, <3>2, <4>1, <4>2
    <3>3. CASE m # 1 /\ k = m
      <4>1. m \in 2..n /\ m - 1 \in 1..n
        BY <2>1, <3>3
      <4>2. IsJoined(f[m], f[m - 1], seqs[m]) /\ off[m - 1] = Len(f[m - 1])
        BY <1>4, <1>5, <4>1
      <4>3. f[m][off[m - 1] + j] = seqs[m][j]
        BY <3>3, <4>2 DEF IsJoined
      <4>4. off[m] = off[m - 1] + Len(seqs[m])
        BY <1>6
      <4> QED
        BY <3>1, <3>3, <4>3, <4>4
    <3>4. CASE m # 1 /\ k # m
      <4>0. m \in 2..n /\ m - 1 \in 1..n /\ k \in 1..(m - 1)
        <5>1. m \in Nat \ {0} /\ m \in 1..n /\ n \in Nat
          BY <1>1
        <5>2. k \in Nat /\ 1 <= k /\ k <= m /\ m # 1 /\ k # m
          BY <3>4, <5>1
        <5> QED
          BY <5>1, <5>2
      <4>01. Holds(m - 1)
        <5>1. m - 1 # 0
          BY <4>0
        <5> HIDE DEF Holds
        <5> QED
          BY <2>1, <5>1
      <4>1. m \in 2..n /\ m - 1 \in 1..n /\ k \in 1..(m - 1) /\ Holds(m - 1)
        <5> HIDE DEF Holds
        <5> QED
          BY <4>0, <4>01
      <4> DEFINE place == off[k - 1] + j
      <4>2. place <= off[m - 1] /\ f[m - 1][place] = seqs[k][j]
        BY <4>1
      <4>3. IsJoined(f[m], f[m - 1], seqs[m]) /\ off[m - 1] = Len(f[m - 1])
        BY <1>4, <1>5, <4>1
      <4>4. place \in Nat \ {0}
        <5>1. j > 0 /\ j \in Nat /\ off[k - 1] \in Nat
          BY <3>1
        <5> QED
          BY <5>1
      <4> HIDE DEF place, Holds
      <4>5. place \in 1..Len(f[m - 1])
        BY <3>1, <4>2, <4>3, <4>4
      <4>6. f[m][place] = f[m - 1][place]
        BY <4>3, <4>5 DEF IsJoined
      <4>7. off[m] = off[m - 1] + Len(seqs[m]) /\ Len(seqs[m]) \in Nat
        BY <1>1, <1>6
      <4>8. place <= off[m]
        BY <3>1, <4>2, <4>4, <4>7
      <4> QED
        BY <4>2, <4>6, <4>8 DEF place
    <3> QED
      BY <3>2, <3>3, <3>4
  <2> QED
    BY <2>1, <2>2
<1>9. Holds(n)
  <2>1. P \in SUBSET Nat
    OBVIOUS
  <2> HIDE DEF P
  <2>2. n \in P
    <3>1. n \in Nat /\ n \in 0..n
      BY <1>1
    <3>2. 0..n \subseteq P
      BY <1>7, <1>8, <2>1, <3>1, Upwards
    <3> QED
      BY <3>1, <3>2
  <2>3. n \in 1..n
    BY <1>1
  <2> QED
    BY <2>2, <2>3 DEF P
<1>10. Len(FlattenSeq(seqs)) = off[n]
  BY <1>1, <1>3, <1>4
<1>11. Offsets(off, seqs, FlattenSeq(seqs))
  <2>1. \A k \in 1..n : \A j \in 1..Len(seqs[k]) : FlattenSeq(seqs)[off[k - 1] + j] = seqs[k][j]
    BY <1>3, <1>9
  <2> QED
    BY <1>4, <1>6, <1>10, <2>1 DEF Offsets, n
<1> QED
  BY <1>11

\* o names, for every number, a place of 1..n that so many precede in R, if there is one.
Placing(o, n, R) ==
  /\ o = [p \in 1..n |-> o[p]]
  /\ \A p \in 1..n : (\E k \in 1..n : Before(1..n, R, k) + 1 = p) =>
       o[p] \in 1..n /\ Before(1..n, R, o[p]) + 1 = p

\* o has the places of 1..n in the order R.
InPlace(o, n, R) ==
  /\ o \in [1..n -> 1..n]
  /\ \A j, k \in 1..n : j < k => <<o[j], o[k]>> \in R
  /\ \A a \in 1..n : \E k \in 1..n : o[k] = a
  /\ \A p \in 1..n : Before(1..n, R, o[p]) + 1 = p

\* When o names the place that so many precede, it puts each place somewhere, in the order R.
LEMMA PlacesOrdered ==
  ASSUME NEW n \in Nat, NEW R, Orders(R, 1..n), NEW o, Placing(o, n, R)
  PROVE  InPlace(o, n, R)
<1> DEFINE S == 1..n
<1>1. IsFiniteSet(S) /\ Cardinality(S) = n
  BY IntervalSize
<1>2. /\ \A a \in S : Before(S, R, a) \in 0..(n - 1)
      /\ \A a, b \in S : <<a, b>> \in R => Before(S, R, a) < Before(S, R, b)
      /\ \A a, b \in S : Before(S, R, a) = Before(S, R, b) => a = b
      /\ \A k \in 0..(n - 1) : \E a \in S : Before(S, R, a) = k
  <2>1. Orders(R, S)
    OBVIOUS
  <2> HIDE DEF S
  <2>2. \A a \in S : Before(S, R, a) \in 0..(Cardinality(S) - 1)
    BY <1>1, <2>1, Ranked
  <2>3. \A a, b \in S : <<a, b>> \in R => Before(S, R, a) < Before(S, R, b)
    BY <1>1, <2>1, Ranked
  <2>4. \A a, b \in S : Before(S, R, a) = Before(S, R, b) => a = b
    BY <1>1, <2>1, Ranked
  <2>5. \A k \in 0..(Cardinality(S) - 1) : \E a \in S : Before(S, R, a) = k
    BY <1>1, <2>1, Ranked
  <2> QED
    BY <1>1, <2>2, <2>3, <2>4, <2>5
<1>3. ASSUME NEW p \in 1..n
      PROVE  o[p] \in S /\ Before(S, R, o[p]) = p - 1
  <2>1. p - 1 \in 0..(n - 1) /\ (p - 1) + 1 = p
    OBVIOUS
  <2>2. PICK k \in S : Before(S, R, k) = p - 1
    BY <1>2, <2>1
  <2>3. o[p] \in S /\ Before(S, R, o[p]) + 1 = p
    BY <2>1, <2>2 DEF Placing
  <2>4. Before(S, R, o[p]) \in Int
    <3> HIDE DEF S
    <3> QED
      BY <1>2, <2>3
  <2> QED
    BY <2>3, <2>4
<1>4. ASSUME NEW j \in 1..n, NEW k \in 1..n, j < k PROVE <<o[j], o[k]>> \in R
  <2> DEFINE a == o[j]
             b == o[k]
  <2>1. a \in S /\ b \in S /\ Before(S, R, a) = j - 1 /\ Before(S, R, b) = k - 1
    BY <1>3
  <2> HIDE DEF a, b
  <2>2. ~(<<b, a>> \in R) /\ a # b
    <3> HIDE DEF S
    <3>1. ~(k - 1 < j - 1) /\ j - 1 # k - 1
      BY <1>4
    <3> QED
      BY <1>2, <2>1, <3>1
  <2>3. <<a, b>> \in R
    BY <2>1, <2>2 DEF Orders
  <2> QED
    BY <2>3 DEF a, b
<1>5. ASSUME NEW a \in 1..n PROVE \E k \in 1..n : o[k] = a
  <2>1. Before(S, R, a) \in 0..(n - 1)
    BY <1>2
  <2> DEFINE k == Before(S, R, a) + 1
  <2>2. k \in 1..n /\ k - 1 = Before(S, R, a)
    BY <2>1
  <2> HIDE DEF k
  <2>3. o[k] \in S /\ Before(S, R, o[k]) = Before(S, R, a)
    BY <1>3, <2>2
  <2>4. o[k] = a
    BY <1>2, <2>3
  <2> QED
    BY <2>2, <2>4
<1>6. o \in [1..n -> 1..n]
  BY <1>3 DEF Placing
<1>7. \A p \in 1..n : Before(1..n, R, o[p]) + 1 = p
  <2> SUFFICES ASSUME NEW p \in 1..n PROVE Before(1..n, R, o[p]) + 1 = p
    OBVIOUS
  <2> HIDE DEF S
  <2>1. Before(1..n, R, o[p]) = p - 1
    BY <1>3 DEF S
  <2> QED
    BY <2>1
<1> QED
  BY <1>4, <1>5, <1>6, <1>7 DEF InPlace

\* Order puts every place of the keys somewhere.
LEMMA OrderPlaces ==
  ASSUME NEW n \in Nat, NEW keys \in [1..n -> Int]
  PROVE  /\ Order(keys) \in [1..n -> 1..n]
         /\ \A j, k \in 1..n : j < k =>
              LET a == Order(keys)[j]
                  b == Order(keys)[k]
              IN  keys[a] < keys[b] \/ (keys[a] = keys[b] /\ a < b)
         /\ \A a \in 1..n : \E k \in 1..n : Order(keys)[k] = a
<1> DEFINE R == {e \in (1..n) \X (1..n) : keys[e[1]] < keys[e[2]] \/ (keys[e[1]] = keys[e[2]] /\ e[1] < e[2])}
           S == 1..n
<1>1. IsFiniteSet(S) /\ Cardinality(S) = n /\ \A k \in S : k \in Int /\ keys[k] \in Int
  BY IntervalSize
<1>2. Orders(R, S)
  BY <1>1 DEF Orders
<1>3. ASSUME NEW k \in S PROVE PlaceOf(keys, k) = Before(S, R, k) + 1
  <2> DEFINE T == {j \in S : <<j, k>> \in R}
  <2>1. {j \in 1..n : keys[j] < keys[k] \/ (keys[j] = keys[k] /\ j <= k)} = T \cup {k}
    BY <1>1
  <2>2. k \notin T /\ IsFiniteSet(T)
    <3>1. T \in SUBSET S
      OBVIOUS
    <3>2. k \notin T
      BY <1>1
    <3> HIDE DEF T
    <3> QED
      BY <1>1, <3>1, <3>2, FS_Subset
  <2> HIDE DEF T
  <2>3. Cardinality(T \cup {k}) = Cardinality(T) + 1
    BY <2>2, FS_AddElement
  <2> QED
    BY <2>1, <2>3 DEF Before, T, PlaceOf
<1>4. Order(keys) = [p \in 1..n |-> CHOOSE k \in 1..n : PlaceOf(keys, k) = p]
  BY DEF Order
<1>5. ASSUME NEW p \in 1..n, NEW k \in 1..n, Before(1..n, R, k) + 1 = p
      PROVE  Order(keys)[p] \in 1..n /\ Before(1..n, R, Order(keys)[p]) + 1 = p
  <2>1. Order(keys)[p] = CHOOSE c \in 1..n : PlaceOf(keys, c) = p
    BY <1>4
  <2>2. PlaceOf(keys, k) = p
    BY <1>3, <1>5
  <2>3. Order(keys)[p] \in 1..n /\ PlaceOf(keys, Order(keys)[p]) = p
    BY <2>1, <2>2
  <2> QED
    BY <1>3, <2>3
<1>6. /\ Order(keys) \in [1..n -> 1..n]
      /\ \A j, k \in 1..n : j < k => <<Order(keys)[j], Order(keys)[k]>> \in R
      /\ \A a \in 1..n : \E k \in 1..n : Order(keys)[k] = a
  <2> DEFINE o == Order(keys)
  <2>1. o = [p \in 1..n |-> o[p]]
    BY <1>4
  <2>2. \A p \in 1..n : (\E k \in 1..n : Before(1..n, R, k) + 1 = p) =>
          o[p] \in 1..n /\ Before(1..n, R, o[p]) + 1 = p
    BY <1>5
  <2>3. Orders(R, 1..n)
    BY <1>2
  <2> HIDE DEF o, R, S
  <2>4. Placing(o, n, R)
    BY <2>1, <2>2 DEF Placing
  <2>5. InPlace(o, n, R)
    BY <2>3, <2>4, PlacesOrdered
  <2> QED
    BY <2>5 DEF InPlace, o
<1>7. \A j, k \in 1..n : j < k =>
        LET a == Order(keys)[j]
            b == Order(keys)[k]
        IN  keys[a] < keys[b] \/ (keys[a] = keys[b] /\ a < b)
  <2> SUFFICES ASSUME NEW j \in 1..n, NEW k \in 1..n, j < k
               PROVE  LET a == Order(keys)[j]
                          b == Order(keys)[k]
                      IN  keys[a] < keys[b] \/ (keys[a] = keys[b] /\ a < b)
    OBVIOUS
  <2>1. <<Order(keys)[j], Order(keys)[k]>> \in R
    BY <1>6
  <2> QED
    BY <2>1
<1> QED
  BY <1>6, <1>7

\* enumerate_inputs and the sort of translate_speeds yield files of the inputs, nothing else.
LEMMA InputFiles ==
  ASSUME arguments \in Arguments
  PROVE  /\ EnumerateInputs(arguments.inputs) \in Seq(Files)
         /\ TranslateSpeeds(EnumerateInputs(arguments.inputs)) \in Seq(Files)
<1> DEFINE items == arguments.inputs
           n == Len(items)
           File(k) == items[k].files[1]
           All(k) == {j \in DOMAIN items[k].files : items[k].files[j].json}
           seqs == [k \in DOMAIN items |->
                      IF items[k].is_directory THEN Kept(items[k].files, All(k))
                      ELSE <<[File(k) EXCEPT !.speed = None]>>]
<1>1. \A file \in Files : [file EXCEPT !.speed = None] \in Files
  BY DEF Files
<1>2. /\ n \in Nat /\ DOMAIN items = 1..n
      /\ \A k \in 1..n : /\ items[k].is_directory \in BOOLEAN /\ items[k].files \in Seq(Files)
                         /\ items[k].is_directory \/ Len(items[k].files) = 1
  <2>1. /\ items \in Seq([is_directory : BOOLEAN, files : Seq(Files)])
        /\ \A k \in DOMAIN items : items[k].is_directory \/ Len(items[k].files) = 1
    BY ArgumentsAssumption
  <2> HIDE DEF items
  <2>2. n \in Nat /\ DOMAIN items = 1..n /\ \A k \in 1..n : items[k] \in [is_directory : BOOLEAN, files : Seq(Files)]
    BY <2>1, LenProperties, ElementOfSeq
  <2> QED
    BY <2>1, <2>2
<1> HIDE DEF items
<1>3. ASSUME NEW k \in 1..n PROVE seqs[k] \in Seq(Files)
  <2>1. CASE items[k].is_directory
    <3>1. seqs[k] = Kept(items[k].files, All(k))
      BY <1>2, <2>1
    <3>2. items[k].files \in Seq(Files) /\ All(k) \in SUBSET (DOMAIN items[k].files)
      BY <1>2
    <3> HIDE DEF All
    <3>3. Kept(items[k].files, All(k)) \in Seq(Files)
      BY <3>2, KeptItems
    <3> QED
      BY <3>1, <3>3
  <2>2. CASE ~items[k].is_directory
    <3>1. seqs[k] = <<[File(k) EXCEPT !.speed = None]>>
      BY <1>2, <2>2
    <3>2. File(k) \in Files
      <4>1. 1 \in 1..Len(items[k].files) /\ items[k].files \in Seq(Files)
        <5>1. Len(items[k].files) = 1 /\ items[k].files \in Seq(Files)
          BY <1>2, <2>2
        <5> QED
          BY <5>1
      <4> QED
        BY <4>1, ElementOfSeq
    <3>3. [File(k) EXCEPT !.speed = None] \in Files
      BY <1>1, <3>2
    <3> DEFINE file == [File(k) EXCEPT !.speed = None]
    <3> HIDE DEF file, seqs
    <3>4. <<file>> \in Seq(Files)
      BY <3>3 DEF file
    <3> QED
      BY <3>1, <3>4 DEF file
  <2> QED
    BY <2>1, <2>2
<1>4. EnumerateInputs(items) \in Seq(Files)
  <2>1. EnumerateInputs(items) = FlattenSeq(seqs)
    BY DEF EnumerateInputs
  <2>2. seqs \in [1..n -> Seq(Files)] /\ n \in Nat
    BY <1>2, <1>3
  <2> HIDE DEF seqs, n
  <2>3. seqs \in Seq(Seq(Files))
    BY <2>2, Tabulated
  <2> QED
    BY <2>1, <2>3, Flattened
<1>5. ASSUME NEW files \in Seq(Files) PROVE TranslateSpeeds(files) \in Seq(Files)
  <2> DEFINE m == Len(files)
             keys == [k \in DOMAIN files |-> files[k].speed]
  <2>1. m \in Nat /\ DOMAIN files = 1..m /\ \A k \in 1..m : files[k] \in Files
    BY LenProperties, ElementOfSeq
  <2>2. CASE \E k \in DOMAIN files : files[k].speed = None
    <3>1. TranslateSpeeds(files) = [k \in 1..m |-> [files[k] EXCEPT !.speed = None]]
      BY <2>1, <2>2 DEF TranslateSpeeds
    <3>2. TranslateSpeeds(files) \in [1..m -> Files]
      BY <1>1, <2>1, <3>1
    <3> HIDE DEF m
    <3> QED
      BY <2>1, <3>2, Tabulated
  <2>3. CASE ~\E k \in DOMAIN files : files[k].speed = None
    <3>1. TranslateSpeeds(files) = [p \in 1..m |-> files[Order(keys)[p]]]
      BY <2>1, <2>3 DEF TranslateSpeeds, SortedBy
    <3>2. keys \in [1..m -> Int]
      <4>1. \A k \in 1..m : files[k].speed \in Nat
        BY <2>1, <2>3 DEF Files
      <4> QED
        BY <2>1, <4>1
    <3>3. Order(keys) \in [1..m -> 1..m]
      <4> HIDE DEF keys, m
      <4> QED
        BY <2>1, <3>2, OrderPlaces
    <3> HIDE DEF keys
    <3>4. TranslateSpeeds(files) \in [1..m -> Files]
      BY <2>1, <3>1, <3>3
    <3> HIDE DEF m
    <3> QED
      BY <2>1, <3>4, Tabulated
  <2> QED
    BY <2>2, <2>3
<1> QED
  BY <1>4, <1>5 DEF items

IsSeq(s) == s \in Seq({s[k] : k \in DOMAIN s})

FromEither(u, s, t) ==
  \A l \in DOMAIN u : (\E k \in DOMAIN s : u[l] = s[k]) \/ (\E k \in DOMAIN t : u[l] = t[k])

\* What is in two sequences, one after the other, was in one of them.
LEMMA JoinedItems ==
  ASSUME NEW s, IsSeq(s), NEW t, IsSeq(t)
  PROVE  IsSeq(s \o t) /\ FromEither(s \o t, s, t)
<1> DEFINE S == {s[k] : k \in DOMAIN s}
           T == {t[k] : k \in DOMAIN t}
           E == S \cup T
           u == s \o t
<1>1. s \in Seq(E) /\ t \in Seq(E)
  <2>1. s \in Seq(S) /\ t \in Seq(T) /\ S \subseteq E /\ T \subseteq E
    BY DEF IsSeq
  <2> HIDE DEF S, T, E
  <2>2. \A A, B : A \subseteq B => Seq(A) \subseteq Seq(B)
    OBVIOUS
  <2> QED
    BY <2>1, <2>2
<1> HIDE DEF u
<1>2. u \in Seq(E) /\ DOMAIN u = 1..Len(u) /\ Len(u) \in Nat
  <2> HIDE DEF E
  <2>1. s \o t \in Seq(E)
    BY <1>1, ConcatItems
  <2> QED
    BY <2>1, LenProperties DEF u
<1>3. \A l \in DOMAIN u : u[l] \in E
  <2> HIDE DEF E
  <2> QED
    BY <1>2, ElementOfSeq
<1>4. IsSeq(u)
  <2> DEFINE U == {u[k] : k \in DOMAIN u}
             n == Len(u)
  <2>1. u \in [1..n -> U]
    <3>1. u = [k \in 1..n |-> u[k]]
      <4> HIDE DEF E
      <4> QED
        BY <1>2
    <3> QED
      BY <1>2, <3>1
  <2>2. n \in Nat
    BY <1>2
  <2> HIDE DEF n, U
  <2>3. u \in Seq(U)
    BY <2>1, <2>2, Tabulated
  <2> QED
    BY <2>3 DEF IsSeq, U
<1>5. FromEither(u, s, t)
  BY <1>3 DEF FromEither
<1> QED
  BY <1>4, <1>5 DEF u


\* A line is drawn of a report that could be read, and its range is not empty.
Drawn(l) ==
  /\ l = [input |-> l.input, what |-> l.what, values |-> l.values, disabled |-> l.disabled]
  /\ l.input \in DOMAIN inputs /\ inputs[l.input].data \in Reports
  /\ Part(l.input).sends # << >> /\ Part(l.input).receives # << >>

CountLine(l) == Drawn(l) /\ l.what \in {"sent", "received"} /\ l.values = MakeCount(Shown(l), Zero(l))
RateLine(l) == Drawn(l) /\ l.what \in {"sending", "receiving"} /\ l.values = MakeRate(Shown(l), Zero(l))
DelayLine(l) == Drawn(l) /\ l.values = MakeProcessing(Part(l.input).pairs)
QueueLine(l) == Drawn(l) /\ l.values = MakeQueue(Part(l.input).pairs, Zero(l))

LinesDrawn ==
  /\ IsSeq(counts) /\ \A l \in DOMAIN counts : CountLine(counts[l])
  /\ IsSeq(rates) /\ \A l \in DOMAIN rates : RateLine(rates[l])
  /\ IsSeq(processing) /\ \A l \in DOMAIN processing : DelayLine(processing[l])
  /\ IsSeq(queue) /\ \A l \in DOMAIN queue : QueueLine(queue[l])

\* The inductive invariant: what the script has in hand is the part of the next input's
\* report, and every line is what its function makes of the part it is drawn of.
GrinderInv ==
  /\ arguments \in Arguments /\ inputs \in Seq(Files) /\ next \in Nat \ {0}
  /\ pc \in {"load", "fit", "draw"} => next \in DOMAIN inputs
  /\ pc \in {"fit", "draw"} => inputs[next].data \in Reports /\ report = Part(next)
  /\ pc = "collect" => next = 1 /\ counts = << >> /\ rates = << >> /\ processing = << >> /\ queue = << >>
  /\ LinesDrawn

\* No chart has a line yet.
LEMMA GrinderInvInit == Init => GrinderInv
<1> SUFFICES ASSUME Init PROVE GrinderInv
  OBVIOUS
<1>1. IsSeq(<< >>)
  BY DEF IsSeq
<1>2. arguments \in Arguments /\ inputs = << >> /\ next = 1 /\ pc = "collect"
      /\ counts = << >> /\ rates = << >> /\ processing = << >> /\ queue = << >>
  BY DEF Init
<1>3. inputs \in Seq(Files) /\ DOMAIN counts = {} /\ DOMAIN rates = {} /\ DOMAIN processing = {} /\ DOMAIN queue = {}
  BY <1>2
<1>4. LinesDrawn
  BY <1>1, <1>2, <1>3 DEF LinesDrawn
<1> QED
  BY <1>2, <1>3, <1>4 DEF GrinderInv

\* A line stays what it is while the inputs do.
LEMMA LinesStay ==
  ASSUME LinesDrawn, UNCHANGED <<arguments, inputs, counts, rates, processing, queue>>
  PROVE  LinesDrawn'
<1>1. \A k : Part(k)' = Part(k)
  BY DEF Part, Cut, Slice
<1>2. \A l : Shown(l)' = Shown(l) /\ Zero(l)' = Zero(l)
  BY <1>1 DEF Shown, Zero
<1>3. \A l : Drawn(l)' <=> Drawn(l)
  BY <1>1 DEF Drawn
<1> QED
  BY <1>1, <1>2, <1>3 DEF LinesDrawn, CountLine, RateLine, DelayLine, QueueLine, IsSeq

\* What is in a sequence with one more item was there or is the item.
LEMMA AppendedItems ==
  ASSUME NEW s, IsSeq(s), NEW e
  PROVE  /\ IsSeq(Append(s, e))
         /\ \A l \in DOMAIN Append(s, e) : Append(s, e)[l] = e \/ \E k \in DOMAIN s : Append(s, e)[l] = s[k]
<1> DEFINE E == {s[k] : k \in DOMAIN s} \cup {e}
           u == Append(s, e)
           n == Len(s) + 1
<1>1. s \in Seq(E) /\ e \in E
  <2> DEFINE S == {s[k] : k \in DOMAIN s}
  <2>1. s \in Seq(S) /\ S \subseteq E /\ e \in E
    BY DEF IsSeq
  <2> HIDE DEF S, E
  <2> QED
    BY <2>1
<1>2. /\ u \in Seq(E) /\ Len(u) = n /\ n \in Nat /\ DOMAIN s = 1..Len(s)
      /\ \A k \in 1..n : u[k] = IF k <= Len(s) THEN s[k] ELSE e
  <2> HIDE DEF E
  <2>1. Len(s) \in Nat /\ DOMAIN s = 1..Len(s)
    BY <1>1, LenProperties
  <2> QED
    BY <1>1, <2>1, AppendProperties
<1> HIDE DEF u, n
<1>3. DOMAIN u = 1..n
  <2> HIDE DEF E
  <2> QED
    BY <1>2, LenProperties
<1>4. \A l \in DOMAIN u : u[l] = e \/ \E k \in DOMAIN s : u[l] = s[k]
  <2> SUFFICES ASSUME NEW l \in 1..n PROVE u[l] = e \/ \E k \in DOMAIN s : u[l] = s[k]
    BY <1>3
  <2>1. CASE l <= Len(s)
    <3>1. l \in DOMAIN s
      BY <1>2, <2>1
    <3>2. u[l] = s[l]
      BY <1>2, <2>1
    <3> QED
      BY <3>1, <3>2
  <2>2. CASE ~(l <= Len(s))
    BY <1>2, <2>2
  <2> QED
    BY <2>1, <2>2
<1>5. IsSeq(u)
  <2> DEFINE U == {u[k] : k \in DOMAIN u}
  <2>1. u \in [1..n -> U]
    <3>1. u = [k \in 1..n |-> u[k]]
      <4> HIDE DEF E
      <4> QED
        BY <1>2, <1>3
    <3> QED
      BY <1>3, <3>1
  <2> HIDE DEF U
  <2>2. u \in Seq(U)
    BY <1>2, <2>1, Tabulated
  <2> QED
    BY <2>2 DEF IsSeq, U
<1> QED
  BY <1>4, <1>5 DEF u

\* make_count and make_rate draw a line for each direction.
LEMMA TwoLines ==
  ASSUME NEW a, NEW b
  PROVE  IsSeq(<<a, b>>) /\ \A k \in DOMAIN <<a, b>> : <<a, b>>[k] \in {a, b}
<1>1. <<a, b>> \in Seq({a, b}) /\ DOMAIN <<a, b>> = 1..2
  OBVIOUS
<1>2. {<<a, b>>[k] : k \in DOMAIN <<a, b>>} = {a, b}
  <2>1. <<a, b>>[1] = a /\ <<a, b>>[2] = b /\ 1 \in DOMAIN <<a, b>> /\ 2 \in DOMAIN <<a, b>>
    OBVIOUS
  <2>2. \A k \in DOMAIN <<a, b>> : k = 1 \/ k = 2
    OBVIOUS
  <2> QED
    BY <2>1, <2>2
<1> QED
  BY <1>1, <1>2 DEF IsSeq

\* The iteration of main draws lines of the report at hand.
LEMMA DrawLines ==
  ASSUME GrinderInv, Draw
  PROVE  LinesDrawn'
<1> DEFINE sent == Line("sent", MakeCount(report.sends, start))
           received == Line("received", MakeCount(report.receives, start))
           sending == Line("sending", MakeRate(report.sends, start))
           receiving == Line("receiving", MakeRate(report.receives, start))
           delay == Line("delay", MakeProcessing(report.pairs))
           waiting == Line("queue", MakeQueue(report.pairs, start))
<1>1. /\ LinesDrawn /\ next \in DOMAIN inputs /\ inputs[next].data \in Reports /\ report = Part(next)
      /\ report.sends # << >> /\ report.receives # << >> /\ start = Part(next).sends[1]
      /\ UNCHANGED <<arguments, inputs>>
      /\ counts' = counts \o <<sent, received>> /\ rates' = rates \o <<sending, receiving>>
      /\ processing' = Append(processing, delay) /\ queue' = Append(queue, waiting)
  BY DEF GrinderInv, Draw, CanDraw, start
<1>2. ASSUME NEW k PROVE Part(k)' = Part(k)
  BY <1>1 DEF Part, Cut, Slice
<1>3. \A l : Shown(l)' = Shown(l) /\ Zero(l)' = Zero(l) /\ (Drawn(l)' <=> Drawn(l))
  BY <1>1, <1>2 DEF Shown, Zero, Drawn
<1>4. \A what, values : LET l == Line(what, values) IN
        /\ Drawn(l) /\ l.input = next /\ l.what = what /\ l.values = values
        /\ Zero(l) = start
        /\ Shown(l) = IF what \in {"sent", "sending"} THEN report.sends ELSE report.receives
  BY <1>1 DEF Line, Drawn, Zero, Shown
<1>5. CountLine(sent) /\ CountLine(received)
  BY <1>4 DEF CountLine
<1>6. RateLine(sending) /\ RateLine(receiving)
  BY <1>4 DEF RateLine
<1>7. DelayLine(delay) /\ QueueLine(waiting)
  <2>1. \A what, values : Line(what, values).input = next
    BY <1>4
  <2> QED
    BY <1>1, <1>4, <2>1 DEF DelayLine, QueueLine
<1> HIDE DEF sent, received, sending, receiving, delay, waiting
<1>8. IsSeq(counts') /\ \A l \in DOMAIN counts' : CountLine(counts'[l])
  <2>1. IsSeq(counts) /\ \A l \in DOMAIN counts : CountLine(counts[l])
    BY <1>1 DEF LinesDrawn
  <2> DEFINE new == <<sent, received>>
  <2>2. IsSeq(new) /\ \A k \in DOMAIN new : new[k] \in {sent, received}
    BY TwoLines
  <2>3. counts' = counts \o new
    BY <1>1
  <2> HIDE DEF new
  <2>4. IsSeq(counts \o new) /\ FromEither(counts \o new, counts, new)
    BY <2>1, <2>2, JoinedItems
  <2> QED
    BY <1>5, <2>1, <2>2, <2>3, <2>4 DEF FromEither
<1>9. IsSeq(rates') /\ \A l \in DOMAIN rates' : RateLine(rates'[l])
  <2>1. IsSeq(rates) /\ \A l \in DOMAIN rates : RateLine(rates[l])
    BY <1>1 DEF LinesDrawn
  <2> DEFINE new == <<sending, receiving>>
  <2>2. IsSeq(new) /\ \A k \in DOMAIN new : new[k] \in {sending, receiving}
    BY TwoLines
  <2>3. rates' = rates \o new
    BY <1>1
  <2> HIDE DEF new
  <2>4. IsSeq(rates \o new) /\ FromEither(rates \o new, rates, new)
    BY <2>1, <2>2, JoinedItems
  <2> QED
    BY <1>6, <2>1, <2>2, <2>3, <2>4 DEF FromEither
<1>10. IsSeq(queue') /\ \A l \in DOMAIN queue' : QueueLine(queue'[l])
  <2>1. IsSeq(queue) /\ \A l \in DOMAIN queue : QueueLine(queue[l])
    BY <1>1 DEF LinesDrawn
  <2>2. queue' = Append(queue, waiting)
    BY <1>1
  <2>3. /\ IsSeq(Append(queue, waiting))
        /\ \A l \in DOMAIN Append(queue, waiting) :
             Append(queue, waiting)[l] = waiting \/ \E k \in DOMAIN queue : Append(queue, waiting)[l] = queue[k]
    BY <2>1, AppendedItems
  <2> QED
    BY <1>7, <2>1, <2>2, <2>3
<1>13. IsSeq(processing') /\ \A l \in DOMAIN processing' : DelayLine(processing'[l])
  <2>1. IsSeq(processing) /\ \A l \in DOMAIN processing : DelayLine(processing[l])
    BY <1>1 DEF LinesDrawn
  <2>2. processing' = Append(processing, delay)
    BY <1>1
  <2>3. /\ IsSeq(Append(processing, delay))
        /\ \A l \in DOMAIN Append(processing, delay) :
             Append(processing, delay)[l] = delay \/ \E k \in DOMAIN processing : Append(processing, delay)[l] = processing[k]
    BY <2>1, AppendedItems
  <2> QED
    BY <1>7, <2>1, <2>2, <2>3
<1>11. \A l : (CountLine(l) => CountLine(l)') /\ (RateLine(l) => RateLine(l)')
              /\ (DelayLine(l) => DelayLine(l)') /\ (QueueLine(l) => QueueLine(l)')
  BY <1>2, <1>3 DEF CountLine, RateLine, DelayLine, QueueLine
<1>12. /\ IsSeq(counts)' /\ IsSeq(rates)' /\ IsSeq(processing)' /\ IsSeq(queue)'
  BY <1>8, <1>9, <1>10, <1>13 DEF IsSeq
<1> QED
  BY <1>8, <1>9, <1>10, <1>11, <1>12, <1>13 DEF LinesDrawn

\* hide changes no line, only whether it is shown.
LEMMA HideLines ==
  ASSUME NEW lines, IsSeq(lines), NEW shown, \A k \in DOMAIN lines : Drawn(lines[k])
  PROVE  /\ IsSeq(Hide(lines, shown)) /\ DOMAIN Hide(lines, shown) = DOMAIN lines
         /\ \A k \in DOMAIN lines : LET l == Hide(lines, shown)[k] IN
              /\ Drawn(l)
              /\ l.input = lines[k].input /\ l.what = lines[k].what /\ l.values = lines[k].values
<1> DEFINE u == Hide(lines, shown)
           n == Len(lines)
<1>1. DOMAIN lines = 1..n /\ n \in Nat
  <2> DEFINE E == {lines[k] : k \in DOMAIN lines}
  <2>1. lines \in Seq(E)
    BY DEF IsSeq
  <2> HIDE DEF E
  <2> QED
    BY <2>1, LenProperties
<1>2. u = [k \in 1..n |-> [lines[k] EXCEPT !.disabled = k > shown]]
  BY <1>1 DEF Hide
<1> HIDE DEF u, n
<1>3. ASSUME NEW k \in 1..n
      PROVE  \E b : u[k] = [input |-> lines[k].input, what |-> lines[k].what, values |-> lines[k].values, disabled |-> b]
  <2> DEFINE l == lines[k]
             b == k > shown
  <2>1. u[k] = [l EXCEPT !.disabled = b]
    BY <1>2
  <2>2. l = [input |-> l.input, what |-> l.what, values |-> l.values, disabled |-> l.disabled]
    BY <1>1 DEF Drawn
  <2> HIDE DEF l, b
  <2>3. [l EXCEPT !.disabled = b] = [input |-> l.input, what |-> l.what, values |-> l.values, disabled |-> b]
    BY <2>2
  <2> QED
    BY <2>1, <2>3 DEF l
<1>4. \A k \in 1..n : /\ u[k].input = lines[k].input /\ u[k].what = lines[k].what /\ u[k].values = lines[k].values
                      /\ Drawn(u[k])
  <2> SUFFICES ASSUME NEW k \in 1..n
               PROVE  /\ u[k].input = lines[k].input /\ u[k].what = lines[k].what /\ u[k].values = lines[k].values
                      /\ Drawn(u[k])
    OBVIOUS
  <2>1. PICK b : u[k] = [input |-> lines[k].input, what |-> lines[k].what, values |-> lines[k].values, disabled |-> b]
    BY <1>3
  <2>2. Drawn(lines[k])
    BY <1>1
  <2> QED
    BY <2>1, <2>2 DEF Drawn
<1>5. IsSeq(u)
  <2> DEFINE U == {u[k] : k \in DOMAIN u}
  <2>1. u \in [1..n -> U]
    BY <1>2
  <2> HIDE DEF U
  <2>2. u \in Seq(U)
    BY <1>1, <2>1, Tabulated
  <2> QED
    BY <2>2 DEF IsSeq, U
<1>6. DOMAIN u = DOMAIN lines
  BY <1>1, <1>2
<1> QED
  BY <1>1, <1>4, <1>5, <1>6 DEF u

\* The lines main writes to the page are those it drew.
LEMMA FinishLines ==
  ASSUME LinesDrawn, Finish
  PROVE  LinesDrawn'
<1>1. /\ counts' = Hide(counts, 2) /\ rates' = Hide(rates, 2)
      /\ processing' = Hide(processing, 1) /\ queue' = Hide(queue, 1)
      /\ UNCHANGED <<arguments, inputs>>
  BY DEF Finish
<1>2. /\ IsSeq(counts) /\ \A l \in DOMAIN counts : CountLine(counts[l])
      /\ IsSeq(rates) /\ \A l \in DOMAIN rates : RateLine(rates[l])
      /\ IsSeq(processing) /\ \A l \in DOMAIN processing : DelayLine(processing[l])
      /\ IsSeq(queue) /\ \A l \in DOMAIN queue : QueueLine(queue[l])
  BY DEF LinesDrawn
<1>3. \A l : (CountLine(l) => CountLine(l)') /\ (RateLine(l) => RateLine(l)')
              /\ (DelayLine(l) => DelayLine(l)') /\ (QueueLine(l) => QueueLine(l)')
  <2>1. \A k : Part(k)' = Part(k)
    BY <1>1 DEF Part, Cut, Slice
  <2>2. \A l : Shown(l)' = Shown(l) /\ Zero(l)' = Zero(l) /\ (Drawn(l)' <=> Drawn(l))
    BY <1>1, <2>1 DEF Shown, Zero, Drawn
  <2> QED
    BY <2>1, <2>2 DEF CountLine, RateLine, DelayLine, QueueLine
<1>4. IsSeq(counts') /\ \A l \in DOMAIN counts' : CountLine(counts'[l])
  <2>1. \A l \in DOMAIN counts : Drawn(counts[l])
    BY <1>2 DEF CountLine
  <2>2. /\ IsSeq(Hide(counts, 2)) /\ DOMAIN Hide(counts, 2) = DOMAIN counts
        /\ \A k \in DOMAIN counts : LET l == Hide(counts, 2)[k] IN
             /\ Drawn(l)
             /\ l.input = counts[k].input /\ l.what = counts[k].what /\ l.values = counts[k].values
    BY <1>2, <2>1, HideLines
  <2> QED
    BY <1>1, <1>2, <2>2 DEF CountLine, Shown, Zero
<1>5. IsSeq(rates') /\ \A l \in DOMAIN rates' : RateLine(rates'[l])
  <2>1. \A l \in DOMAIN rates : Drawn(rates[l])
    BY <1>2 DEF RateLine
  <2>2. /\ IsSeq(Hide(rates, 2)) /\ DOMAIN Hide(rates, 2) = DOMAIN rates
        /\ \A k \in DOMAIN rates : LET l == Hide(rates, 2)[k] IN
             /\ Drawn(l)
             /\ l.input = rates[k].input /\ l.what = rates[k].what /\ l.values = rates[k].values
    BY <1>2, <2>1, HideLines
  <2> QED
    BY <1>1, <1>2, <2>2 DEF RateLine, Shown, Zero
<1>6. IsSeq(queue') /\ \A l \in DOMAIN queue' : QueueLine(queue'[l])
  <2>1. \A l \in DOMAIN queue : Drawn(queue[l])
    BY <1>2 DEF QueueLine
  <2>2. /\ IsSeq(Hide(queue, 1)) /\ DOMAIN Hide(queue, 1) = DOMAIN queue
        /\ \A k \in DOMAIN queue : LET l == Hide(queue, 1)[k] IN
             /\ Drawn(l)
             /\ l.input = queue[k].input /\ l.what = queue[k].what /\ l.values = queue[k].values
    BY <1>2, <2>1, HideLines
  <2> QED
    BY <1>1, <1>2, <2>2 DEF QueueLine, Zero
<1>8. IsSeq(processing') /\ \A l \in DOMAIN processing' : DelayLine(processing'[l])
  <2>1. \A l \in DOMAIN processing : Drawn(processing[l])
    BY <1>2 DEF DelayLine
  <2>2. /\ IsSeq(Hide(processing, 1)) /\ DOMAIN Hide(processing, 1) = DOMAIN processing
        /\ \A k \in DOMAIN processing : LET l == Hide(processing, 1)[k] IN
             /\ Drawn(l)
             /\ l.input = processing[k].input /\ l.what = processing[k].what /\ l.values = processing[k].values
    BY <1>2, <2>1, HideLines
  <2> QED
    BY <1>1, <1>2, <2>2 DEF DelayLine
<1>7. /\ IsSeq(counts)' /\ IsSeq(rates)' /\ IsSeq(processing)' /\ IsSeq(queue)'
  BY <1>4, <1>5, <1>6, <1>8 DEF IsSeq
<1> QED
  BY <1>3, <1>4, <1>5, <1>6, <1>7, <1>8 DEF LinesDrawn

\* Every step of main, and an exception in it, keeps the invariant.
LEMMA GrinderInvStep ==
  ASSUME GrinderInv, [Next]_vars
  PROVE  GrinderInv'
<1>1. CASE Collect
  <2>1. /\ inputs' = TranslateSpeeds(EnumerateInputs(arguments.inputs)) /\ pc' = StartDrawing(1) /\ pc = "collect"
        /\ UNCHANGED <<arguments, next, counts, rates, processing, queue>>
    BY <1>1 DEF Collect, lineVars
  <2>2. inputs' \in Seq(Files) /\ next = 1 /\ counts = << >> /\ rates = << >> /\ processing = << >> /\ queue = << >>
    BY <2>1, InputFiles DEF GrinderInv
  <2>3. pc' \in {"load", "finish"} /\ (pc' = "load" => next' \in DOMAIN inputs')
    <3>1. Len(inputs') \in Nat /\ DOMAIN inputs' = 1..Len(inputs')
      BY <2>2, LenProperties
    <3>2. pc' = IF 1 <= Len(inputs') THEN "load" ELSE "finish"
      BY <2>1 DEF StartDrawing
    <3> QED
      BY <2>1, <2>2, <3>1, <3>2
  <2>4. LinesDrawn'
    <3>1. counts' = << >> /\ rates' = << >> /\ processing' = << >> /\ queue' = << >> /\ IsSeq(<< >>)
      BY <2>1, <2>2 DEF IsSeq
    <3>2. DOMAIN counts' = {} /\ DOMAIN rates' = {} /\ DOMAIN processing' = {} /\ DOMAIN queue' = {}
      BY <3>1
    <3>3. IsSeq(counts)' /\ IsSeq(rates)' /\ IsSeq(processing)' /\ IsSeq(queue)'
      BY <3>1 DEF IsSeq
    <3> QED
      BY <3>2, <3>3 DEF LinesDrawn
  <2> QED
    BY <2>1, <2>2, <2>3, <2>4 DEF GrinderInv
<1>2. CASE Draw
  <2>1. LinesDrawn'
    BY <1>2, DrawLines
  <2>2. /\ next' = next + 1 /\ pc' = IF next' <= Len(inputs) THEN "load" ELSE "finish"
        /\ UNCHANGED <<arguments, inputs>>
    BY <1>2 DEF Draw
  <2>3. next' \in Nat \ {0} /\ pc' \in {"load", "finish"} /\ (pc' = "load" => next' \in DOMAIN inputs')
    <3>1. Len(inputs) \in Nat /\ DOMAIN inputs = 1..Len(inputs) /\ next \in Nat \ {0}
      BY LenProperties DEF GrinderInv
    <3>2. next' \in Nat \ {0}
      BY <2>2, <3>1
    <3>3. next' <= Len(inputs) => next' \in DOMAIN inputs'
      BY <2>2, <3>1, <3>2
    <3> QED
      BY <2>2, <3>2, <3>3
  <2> QED
    BY <2>1, <2>2, <2>3 DEF GrinderInv
<1>3. CASE Finish
  <2>1. LinesDrawn'
    BY <1>3, FinishLines DEF GrinderInv
  <2>2. pc' = "written" /\ UNCHANGED <<arguments, inputs, next>>
    BY <1>3 DEF Finish
  <2> QED
    BY <2>1, <2>2 DEF GrinderInv
<1>4. CASE Load
  <2>1. /\ pc = "load" /\ inputs[next].data # Unreadable /\ report' = Cut(JLoad(inputs[next].data)) /\ pc' = "fit"
        /\ UNCHANGED <<arguments, inputs, next, counts, rates, processing, queue>>
    BY <1>4 DEF Load, lineVars
  <2>2. LinesDrawn'
    BY <2>1, LinesStay DEF GrinderInv
  <2>3. next \in DOMAIN inputs /\ inputs[next].data \in Reports
    <3>1. next \in DOMAIN inputs /\ inputs \in Seq(Files)
      BY <2>1 DEF GrinderInv
    <3>2. inputs[next] \in Files
      BY <3>1, ElementOfSeq, LenProperties
    <3> QED
      BY <2>1, <3>1, <3>2 DEF Files
  <2>4. report' = Part(next)'
    BY <2>1 DEF Part, Cut, Slice
  <2> QED
    BY <2>1, <2>2, <2>3, <2>4 DEF GrinderInv
<1>5. ASSUME UNCHANGED <<arguments, inputs, next, report, counts, rates, processing, queue>>,
             pc' \in {"draw", "raised", "unwritten", pc}, pc' = "draw" => pc \in {"fit", "draw"}
      PROVE  GrinderInv'
  <2>1. LinesDrawn'
    BY <1>5, LinesStay DEF GrinderInv
  <2>2. \A k : Part(k)' = Part(k)
    BY <1>5 DEF Part, Cut, Slice
  <2>3. /\ arguments' \in Arguments /\ inputs' \in Seq(Files) /\ next' \in Nat \ {0}
        /\ pc' \in {"load", "fit", "draw"} => next' \in DOMAIN inputs'
    BY <1>5 DEF GrinderInv
  <2>4. pc' \in {"fit", "draw"} => inputs'[next'].data \in Reports /\ report' = Part(next)'
    BY <1>5, <2>2 DEF GrinderInv
  <2>5. pc' = "collect" => next' = 1 /\ counts' = << >> /\ rates' = << >> /\ processing' = << >> /\ queue' = << >>
    BY <1>5 DEF GrinderInv
  <2> QED
    BY <2>1, <2>3, <2>4, <2>5 DEF GrinderInv
<1>6. CASE LoadRaises \/ FitRaises \/ DrawRaises \/ FinishRaises
  <2>1. UNCHANGED <<arguments, inputs, next, report, counts, rates, processing, queue>> /\ pc' \in {"raised", "unwritten"}
    BY <1>6 DEF LoadRaises, FitRaises, DrawRaises, FinishRaises, Leave, lineVars
  <2> QED
    BY <1>5, <2>1
<1>7. CASE SkipRates \/ AddRates
  <2>1. UNCHANGED <<arguments, inputs, next, report, counts, rates, processing, queue>> /\ pc = "fit" /\ pc' = "draw"
    BY <1>7 DEF SkipRates, AddRates, lineVars
  <2> QED
    BY <1>5, <2>1
<1>8. CASE UNCHANGED vars
  <2>1. UNCHANGED <<arguments, inputs, next, report, counts, rates, processing, queue, pc>>
    BY <1>8 DEF vars, lineVars
  <2> QED
    BY <1>5, <2>1
<1> QED
  BY <1>1, <1>2, <1>3, <1>4, <1>6, <1>7, <1>8 DEF Next

\* Each line of a chart is what its function makes of the part of one report, whatever the
\* order of the files and the range (grinder.py:422-515).
THEOREM LinesAreDrawn == Spec => []GrinderInv
<1>1. GrinderInv /\ [Next]_vars => GrinderInv'
  BY GrinderInvStep
<1> QED
  BY GrinderInvInit, <1>1, PTL DEF Spec

-----------------------------------------------------------------------------
(* Strides.                                                                *)

\* Whole division, with its remainder.
LEMMA Division ==
  ASSUME NEW n \in Nat, NEW d \in Nat \ {0}
  PROVE  /\ n \div d \in Nat /\ n % d \in 0..(d - 1)
         /\ n = (n \div d) * d + (n % d)
         /\ d <= n => n \div d > 0
         /\ \A k \in 1..(n \div d) : k * d \in 1..n
<1> DEFINE q == n \div d
           r == n % d
<1>1. q \in Nat /\ r \in 0..(d - 1) /\ n = d * q + r
  OBVIOUS
<1>2. q = n \div d /\ r = n % d
  OBVIOUS
<1> HIDE DEF q, r
<1>3. d * q = q * d
  BY <1>1
<1>4. d <= n => q > 0
  <2>1. q = 0 => d * q = 0
    OBVIOUS
  <2> QED
    BY <1>1, <2>1
<1>5. ASSUME NEW k \in 1..q PROVE k * d \in 1..n
  <2>1. q - k \in Nat /\ k \in Nat /\ q = k + (q - k)
    BY <1>1
  <2>2. q * d = k * d + (q - k) * d /\ k * d \in Nat /\ (q - k) * d \in Nat
    BY <1>1, <2>1
  <2>3. k * d # 0
    <3>1. k * d = d + (k - 1) * d /\ (k - 1) * d \in Nat
      BY <2>1
    <3> QED
      BY <3>1
  <2> QED
    BY <1>1, <1>3, <2>2, <2>3
<1>6. /\ q \in Nat /\ r \in 0..(d - 1) /\ n = q * d + r /\ (d <= n => q > 0)
      /\ \A k \in 1..q : k * d \in 1..n
  <2>1. n = q * d + r
    BY <1>1, <1>3
  <2> QED
    BY <1>1, <2>1, <1>4, <1>5, Zenon
<1> QED
  BY <1>6, Zenon DEF q, r

\* A stride is positive, and never longer than the list it walks.
LEMMA Strides ==
  ASSUME NEW n \in Nat
  PROVE  Step(n) \in Nat \ {0} /\ (Step(n) > 1 => Step(n) <= n)
<1>1. FitPoints \in Nat \ {0}
  BY FitPointsAssumption
<1> DEFINE q == n \div FitPoints
           r == n % FitPoints
<1>2. q \in Nat /\ r \in 0..(FitPoints - 1) /\ n = q * FitPoints + r
  BY <1>1, Division, Zenon
<1>3. Step(n) = IF q <= 1 THEN 1 ELSE q
  BY DEF Step
<1> HIDE DEF q, r
<1>4. q <= n
  <2> DEFINE a == q * FitPoints
             b == q * (FitPoints - 1)
  <2>1. a = q + b /\ b \in Nat
    BY <1>1, <1>2
  <2>2. n = a + r /\ r \in Nat
    BY <1>2
  <2> HIDE DEF a, b
  <2> QED
    BY <1>2, <2>1, <2>2
<1> QED
  BY <1>2, <1>3, <1>4

\* make_count's points: the first item, each that ends a stride, and the last.
LEMMA CountPoints ==
  ASSUME NEW times \in Seq(Nat), Len(times) > 0, NEW zero \in Nat
  PROVE  LET points == MakeCount(times, zero)
             n == Len(times)
         IN  /\ points \in Seq([x : Int, y : Int]) /\ Len(points) > 0
             /\ points[1].y = 1 /\ points[Len(points)].y = n
             /\ \A p \in 1..Len(points) : points[p].y \in 1..n /\ points[p].x = times[points[p].y] - zero
             /\ \A p \in 2..Len(points) : points[p].y - points[p - 1].y \in 1..Step(n)
<1> DEFINE n == Len(times)
           step == Step(n)
           q == n \div step
           r == n % step
           Point(y) == [x |-> times[y] - zero, y |-> y]
           E == [x : Int, y : Int]
           A == IF step > 1 THEN <<Point(1)>> ELSE << >>
           B == [k \in 1..q |-> Point(k * step)]
           C == IF r # 0 THEN <<Point(n)>> ELSE << >>
           points == MakeCount(times, zero)
<1>1. n \in Nat /\ n > 0 /\ \A y \in 1..n : times[y] \in Nat
  BY LenProperties, ElementOfSeq
<1>2. step \in Nat \ {0} /\ (step > 1 => step <= n)
  <2> HIDE DEF n
  <2> QED
    BY <1>1, Strides
<1>3. /\ q \in Nat /\ r \in 0..(step - 1) /\ n = q * step + r /\ (step <= n => q > 0)
      /\ \A k \in 1..q : k * step \in 1..n
  <2> HIDE DEF n, step
  <2> QED
    BY <1>1, <1>2, Division
<1>4. \A y \in 1..n : Point(y) \in E /\ Point(y).y = y /\ Point(y).x = times[y] - zero
  BY <1>1
<1>5. points = A \o B \o C
  BY DEF MakeCount
<1> HIDE DEF n, step, q, r, Point, points, E
<1>6. 1 \in 1..n /\ n \in 1..n
  BY <1>1
<1>7. B \in Seq(E) /\ Len(B) = q /\ \A k \in 1..q : B[k] = Point(k * step)
  <2>1. B \in [1..q -> E]
    BY <1>3, <1>4
  <2>2. \A k \in 1..q : B[k] = Point(k * step)
    OBVIOUS
  <2> HIDE DEF B
  <2> QED
    BY <1>3, <2>1, <2>2, Tabulated
<1> HIDE DEF B
<1>8. ASSUME NEW f \in [1..Len(points) -> 1..n], points \in Seq(E), Len(points) > 0,
             f[1] = 1, f[Len(points)] = n,
             \A p \in 1..Len(points) : points[p] = Point(f[p]),
             \A p \in 2..Len(points) : f[p] - f[p - 1] \in 1..step
      PROVE  /\ points \in Seq(E) /\ Len(points) > 0 /\ points[1].y = 1 /\ points[Len(points)].y = n
             /\ \A p \in 1..Len(points) : points[p].y \in 1..n /\ points[p].x = times[points[p].y] - zero
             /\ \A p \in 2..Len(points) : points[p].y - points[p - 1].y \in 1..step
  <2>1. Len(points) \in Nat
    BY <1>8, LenProperties
  <2>2. \A p \in 1..Len(points) : f[p] \in 1..n /\ points[p].y = f[p] /\ points[p].x = times[f[p]] - zero
    BY <1>4, <1>8
  <2>3. 1 \in 1..Len(points) /\ Len(points) \in 1..Len(points)
        /\ \A p \in 2..Len(points) : p \in 1..Len(points) /\ p - 1 \in 1..Len(points)
    BY <1>8, <2>1
  <2> QED
    BY <1>8, <2>2, <2>3
<1>9. CASE step = 1
  <2>1. q = n /\ r = 0
    BY <1>1, <1>3, <1>9
  <2>2. A = << >> /\ C = << >>
    BY <1>9, <2>1
  <2>3. points = B
    <3>1. << >> \o B = B /\ B \o << >> = B
      BY <1>7, ConcatEmptySeq
    <3> QED
      BY <1>5, <2>2, <3>1
  <2> DEFINE f == [p \in 1..n |-> p]
  <2>4. Len(points) = n /\ points \in Seq(E)
    BY <1>7, <2>1, <2>3
  <2>5. \A p \in 1..n : points[p] = Point(f[p])
    <3>1. \A p \in 1..n : p * step = p
      BY <1>9
    <3> QED
      BY <1>7, <2>1, <2>3, <3>1
  <2>6. f \in [1..n -> 1..n] /\ f[1] = 1 /\ f[n] = n
    BY <1>6
  <2>7. \A p \in 2..n : f[p] - f[p - 1] \in 1..step
    BY <1>1, <1>9
  <2> HIDE DEF f
  <2> QED
    BY <1>1, <1>8, <2>4, <2>5, <2>6, <2>7 DEF n, step, E, points
<1>10. CASE step # 1
  <2>1. step > 1 /\ q > 0
    BY <1>2, <1>3, <1>10
  <2>2. A = <<Point(1)>>
    BY <2>1
  <2>3. A \in Seq(E) /\ Len(A) = 1 /\ A[1] = Point(1)
    BY <1>4, <1>6, <2>2
  <2>4. C \in Seq(E) /\ Len(C) = (IF r # 0 THEN 1 ELSE 0) /\ (r # 0 => C[1] = Point(n))
    <3>1. <<Point(n)>> \in Seq(E) /\ << >> \in Seq(E)
      BY <1>4, <1>6
    <3> QED
      BY <3>1
  <2> HIDE DEF A, C
  <2>5. /\ A \o B \in Seq(E) /\ Len(A \o B) = 1 + q /\ (A \o B)[1] = Point(1)
        /\ \A k \in 1..q : (A \o B)[1 + k] = Point(k * step)
    <3>1. A \o B \in Seq(E) /\ IsJoined(A \o B, A, B)
      BY <1>7, <2>3, ConcatItems
    <3> QED
      BY <1>7, <2>3, <3>1 DEF IsJoined
  <2> DEFINE D == A \o B
             N == 1 + q + (IF r # 0 THEN 1 ELSE 0)
             f == [p \in 1..N |-> IF p = 1 THEN 1 ELSE IF p <= 1 + q THEN (p - 1) * step ELSE n]
  <2> HIDE DEF D
  <2>6. /\ points \in Seq(E) /\ Len(points) = N /\ N \in Nat /\ N > 1
        /\ \A k \in 1..(1 + q) : points[k] = D[k]
        /\ r # 0 => points[2 + q] = Point(n)
    <3>1. D \in Seq(E) /\ Len(D) = 1 + q
      BY <2>5 DEF D
    <3>2. D \o C \in Seq(E) /\ IsJoined(D \o C, D, C)
      BY <2>4, <3>1, ConcatItems
    <3>3. points = D \o C
      BY <1>5 DEF D
    <3>4. r # 0 => 1 \in 1..Len(C) /\ (1 + q) + 1 = 2 + q
      BY <1>3, <2>4
    <3>5. points \in Seq(E) /\ Len(points) = Len(D) + Len(C)
      BY <3>2, <3>3 DEF IsJoined
    <3>6. \A k \in 1..(1 + q) : points[k] = D[k]
      BY <3>1, <3>2, <3>3 DEF IsJoined
    <3>7. r # 0 => points[2 + q] = Point(n)
      BY <2>4, <3>1, <3>2, <3>3, <3>4 DEF IsJoined
    <3> QED
      BY <1>3, <2>1, <2>4, <3>1, <3>5, <3>6, <3>7
  <2>7. \A p \in 2..(1 + q) : p - 1 \in 1..q /\ (p - 1) * step \in 1..n /\ f[p] = (p - 1) * step
    <3>1. \A p \in 2..(1 + q) : p - 1 \in 1..q /\ p \in 1..N /\ p # 1 /\ p <= 1 + q
      BY <1>3
    <3> QED
      BY <1>3, <3>1
  <2>8. /\ f[1] = 1 /\ 1 \in 1..N
        /\ \A p \in 1..N : p = 1 \/ p \in 2..(1 + q) \/ (p = 2 + q /\ r # 0 /\ f[p] = n /\ p = N)
    BY <1>3, <2>1
  <2>9. f \in [1..N -> 1..n]
    <3>1. \A p \in 1..N : f[p] \in 1..n
      BY <1>6, <2>7, <2>8
    <3> QED
      BY <3>1
  <2>10. f[N] = n
    <3>1. CASE r = 0
      <4>1. N = 1 + q /\ N \in 2..(1 + q) /\ (1 + q) - 1 = q /\ q * step = n
        BY <1>1, <1>2, <1>3, <2>1, <3>1
      <4> QED
        BY <2>7, <4>1
    <3>2. CASE r # 0
      BY <1>3, <2>1, <2>8, <3>2
    <3> QED
      BY <3>1, <3>2
  <2>11. \A p \in 1..N : points[p] = Point(f[p])
    <3> SUFFICES ASSUME NEW p \in 1..N PROVE points[p] = Point(f[p])
      OBVIOUS
    <3>1. CASE p = 1
      <4>1. 1 \in 1..(1 + q) /\ D[1] = Point(1)
        BY <1>3, <2>5 DEF D
      <4>2. points[1] = D[1]
        BY <2>6, <4>1
      <4> QED
        BY <2>8, <3>1, <4>1, <4>2
    <3>2. CASE p \in 2..(1 + q)
      <4>1. 1 + (p - 1) = p /\ p \in 1..(1 + q)
        BY <1>3, <3>2
      <4>2. D[1 + (p - 1)] = Point((p - 1) * step)
        BY <2>5, <2>7, <3>2 DEF D
      <4>3. points[p] = D[p] /\ f[p] = (p - 1) * step
        BY <2>6, <2>7, <3>2, <4>1
      <4> QED
        BY <4>1, <4>2, <4>3
    <3>3. CASE p = 2 + q /\ r # 0 /\ f[p] = n
      BY <2>6, <3>3
    <3> QED
      BY <2>8, <3>1, <3>2, <3>3
  <2>12. \A p \in 2..N : f[p] - f[p - 1] \in 1..step
    <3> SUFFICES ASSUME NEW p \in 2..N PROVE f[p] - f[p - 1] \in 1..step
      OBVIOUS
    <3>1. CASE p = 2
      <4>1. f[2] = step /\ p - 1 = 1
        <5>1. 2 \in 2..(1 + q) /\ p - 1 = 1 /\ (2 - 1) * step = step
          BY <1>2, <1>3, <2>1, <3>1
        <5> QED
          BY <2>7, <5>1
      <4> HIDE DEF f
      <4> QED
        BY <1>2, <2>1, <2>8, <3>1, <4>1
    <3>2. CASE p # 2 /\ p \in 2..(1 + q)
      <4>1. f[p] = (p - 1) * step /\ p - 1 \in 2..(1 + q)
        <5>1. p - 1 \in 2..(1 + q)
          BY <1>3, <3>2
        <5> QED
          BY <2>7, <3>2, <5>1
      <4>2. f[p - 1] = ((p - 1) - 1) * step
        BY <2>7, <4>1
      <4>3. (p - 1) * step = ((p - 1) - 1) * step + step
        BY <1>2
      <4>4. (p - 1) * step \in Int /\ ((p - 1) - 1) * step \in Int
        BY <1>2
      <4> DEFINE a == (p - 1) * step
                 b == ((p - 1) - 1) * step
      <4> HIDE DEF a, b, f
      <4>5. a - b = step
        BY <1>2, <4>3, <4>4 DEF a, b
      <4>6. f[p] = a /\ f[p - 1] = b
        BY <4>1, <4>2 DEF a, b
      <4> QED
        BY <1>2, <4>5, <4>6
    <3>3. CASE p = 2 + q /\ r # 0 /\ f[p] = n
      <4>1. p - 1 \in 2..(1 + q) /\ (p - 1) - 1 = q
        BY <1>3, <2>1, <3>3
      <4>2. f[p - 1] = q * step
        BY <2>7, <4>1
      <4> DEFINE a == q * step
      <4>3. a \in Int /\ n = a + r
        BY <1>2, <1>3
      <4> HIDE DEF a, f
      <4>4. n - a = r /\ r \in 1..step
        BY <1>1, <1>2, <1>3, <3>3, <4>3
      <4> QED
        BY <3>3, <4>2, <4>4 DEF a
    <3> QED
      BY <2>8, <3>1, <3>2, <3>3
  <2> HIDE DEF f, N
  <2>13. /\ f \in [1..Len(points) -> 1..n] /\ points \in Seq(E) /\ Len(points) > 0
         /\ f[1] = 1 /\ f[Len(points)] = n
         /\ \A p \in 1..Len(points) : points[p] = Point(f[p])
         /\ \A p \in 2..Len(points) : f[p] - f[p - 1] \in 1..step
    BY <2>6, <2>8, <2>9, <2>10, <2>11, <2>12
  <2>14. /\ points \in Seq(E) /\ Len(points) > 0 /\ points[1].y = 1 /\ points[Len(points)].y = n
         /\ \A p \in 1..Len(points) : points[p].y \in 1..n /\ points[p].x = times[points[p].y] - zero
         /\ \A p \in 2..Len(points) : points[p].y - points[p - 1].y \in 1..step
    BY <1>8, <2>13
  <2> QED
    BY <2>14, Zenon DEF n, step, E, points
<1> QED
  BY <1>9, <1>10

\* What a line shows is in order and not before its zero, whatever was cut off.
LEMMA ShownSorted ==
  ASSUME GrinderInv, NEW l, Drawn(l)
  PROVE  /\ SoundPart(Part(l.input)) /\ Part(l.input).sends # << >> /\ Zero(l) \in Nat
         /\ Shown(l) \in Seq(Nat) /\ Len(Shown(l)) \in Nat \ {0} /\ DOMAIN Shown(l) = 1..Len(Shown(l))
         /\ Sorted(Shown(l)) /\ \A k \in DOMAIN Shown(l) : Shown(l)[k] \in Nat /\ Zero(l) <= Shown(l)[k]
<1> DEFINE p == Part(l.input)
<1>1. SoundPart(p) /\ p.sends # << >> /\ p.receives # << >>
  <2>1. inputs[l.input].data \in Reports /\ p.sends # << >> /\ p.receives # << >>
    BY DEF Drawn
  <2>2. arguments \in Arguments
    BY DEF GrinderInv
  <2> QED
    BY <2>1, <2>2, CutSound DEF Part
<1>2. Shown(l) \in {p.sends, p.receives} /\ Zero(l) = p.sends[1]
  BY DEF Shown, Zero
<1> HIDE DEF p
<1>3. /\ p.sends \in Seq(Nat) /\ p.receives \in Seq(Nat) /\ Sorted(p.sends) /\ Sorted(p.receives)
      /\ \A k \in DOMAIN p.receives : p.sends[1] < p.receives[k]
  BY <1>1 DEF SoundPart
<1>4. \A s \in Seq(Nat) : s # << >> => /\ Len(s) \in Nat \ {0} /\ DOMAIN s = 1..Len(s) /\ 1 \in DOMAIN s
                                      /\ \A k \in DOMAIN s : s[k] \in Nat
  <2> SUFFICES ASSUME NEW s \in Seq(Nat), s # << >>
               PROVE  /\ Len(s) \in Nat \ {0} /\ DOMAIN s = 1..Len(s) /\ 1 \in DOMAIN s
                      /\ \A k \in DOMAIN s : s[k] \in Nat
    OBVIOUS
  <2>1. Len(s) \in Nat \ {0} /\ DOMAIN s = 1..Len(s)
    BY LenProperties, EmptySeq
  <2>2. 1 \in DOMAIN s
    BY <2>1
  <2>3. \A k \in DOMAIN s : s[k] \in Nat
    BY <2>1, ElementOfSeq
  <2> QED
    BY <2>1, <2>2, <2>3
<1>5. p.sends[1] \in Nat
  BY <1>1, <1>3, <1>4
<1>6. \A k \in DOMAIN p.sends : p.sends[1] <= p.sends[k]
  <2>1. 1 \in DOMAIN p.sends /\ \A k \in DOMAIN p.sends : 1 <= k
    BY <1>1, <1>3, <1>4
  <2> QED
    BY <1>3, <2>1 DEF Sorted
<1>7. \A k \in DOMAIN p.receives : p.sends[1] <= p.receives[k]
  <2>1. \A k \in DOMAIN p.receives : p.receives[k] \in Nat
    BY <1>1, <1>3, <1>4
  <2> QED
    BY <1>3, <1>5, <2>1
<1>8. \A s \in {p.sends, p.receives} :
        /\ s \in Seq(Nat) /\ Len(s) \in Nat \ {0} /\ DOMAIN s = 1..Len(s)
        /\ Sorted(s) /\ \A k \in DOMAIN s : s[k] \in Nat /\ p.sends[1] <= s[k]
  BY <1>1, <1>3, <1>4, <1>6, <1>7
<1> QED
  BY <1>1, <1>2, <1>5, <1>8 DEF p

\* CountsExact holds wherever the invariant does.
LEMMA CountsAreExact == GrinderInv => CountsExact
<1> SUFFICES ASSUME GrinderInv, NEW l \in DOMAIN counts
             PROVE  LET points == counts[l].values
                        times == Shown(counts[l])
                    IN  /\ points[1].y = 1 \/ Len(times) <= FitPoints
                        /\ points[Len(points)].y = Len(times)
                        /\ \A p \in DOMAIN points : points[p].x = times[points[p].y] - Zero(counts[l])
                        /\ \A p \in 2..Len(points) : points[p].y - points[p - 1].y \in 1..Step(Len(times))
  BY DEF CountsExact
<1> DEFINE points == counts[l].values
           times == Shown(counts[l])
           zero == Zero(counts[l])
<1>1. points = MakeCount(times, zero) /\ Drawn(counts[l])
  BY DEF GrinderInv, LinesDrawn, CountLine
<1>2. times \in Seq(Nat) /\ Len(times) > 0 /\ zero \in Nat
  <2>1. times \in Seq(Nat) /\ Len(times) \in Nat \ {0} /\ zero \in Nat
    BY <1>1, ShownSorted
  <2> HIDE DEF times, zero
  <2> QED
    BY <2>1
<1> HIDE DEF points, times, zero
<1>3. /\ points \in Seq([x : Int, y : Int]) /\ Len(points) > 0
      /\ points[1].y = 1 /\ points[Len(points)].y = Len(times)
      /\ \A p \in 1..Len(points) : points[p].y \in 1..Len(times) /\ points[p].x = times[points[p].y] - zero
      /\ \A p \in 2..Len(points) : points[p].y - points[p - 1].y \in 1..Step(Len(times))
  BY <1>1, <1>2, CountPoints
<1>4. DOMAIN points = 1..Len(points)
  BY <1>3, LenProperties
<1> QED
  BY <1>3, <1>4, Zenon DEF points, times, zero

\* Every point of every count chart says exactly when how many messages had been sent or
\* received, however many there are and whatever the stride (grinder.py:164-175).
THEOREM CountsExactly == Spec => []CountsExact
BY LinesAreDrawn, CountsAreExact, PTL

-----------------------------------------------------------------------------
(* Sums.                                                                   *)

\* The sums that Total goes through.
Sums(g, n, numbers) ==
  g \in [0..n -> Int] /\ g[0] = 0 /\ \A k \in 1..n : g[k] = g[k - 1] + numbers[k]

\* A total is the last of the partial sums.
LEMMA TotalRuns ==
  ASSUME NEW n \in Nat, NEW numbers \in [1..n -> Int]
  PROVE  \E g : Sums(g, n, numbers) /\ Total(numbers) = g[n]
<1> DEFINE D == [k \in 1..n |-> [sum \in Int |-> sum + numbers[k]]]
           Adds(g) == g = [k \in 0..n |-> IF k = 0 THEN 0 ELSE g[k - 1] + numbers[k]]
<1>1. Len(numbers) = n
  BY Tabulated
<1>2. PICK f : f \in [0..n -> Int] /\ f[0] = 0 /\ \A k \in 1..n : f[k] = D[k][f[k - 1]]
  <2> DEFINE Z == Int
  <2>1. D \in [1..n -> [Z -> Z]] /\ 0 \in Z
    OBVIOUS
  <2> HIDE DEF D, Z
  <2>2. \E f : Runs(f, n, Z, 0, D)
    BY <2>1, LoopRuns
  <2> QED
    BY <2>2 DEF Runs, Z
<1>3. Adds(f)
  <2>1. ASSUME NEW k \in 1..n PROVE f[k] = f[k - 1] + numbers[k]
    <3>1. k - 1 \in 0..n
      OBVIOUS
    <3>2. f[k - 1] \in Int
      BY <1>2, <3>1
    <3> QED
      BY <1>2, <3>2
  <2> QED
    BY <1>2, <2>1
<1> DEFINE g == CHOOSE g : Adds(g)
<1>4. Adds(g)
  <2> HIDE DEF Adds
  <2> QED
    BY <1>3
<1>5. Total(numbers) = g[n]
  BY <1>1 DEF Total, Loop
<1> HIDE DEF g
<1>6. g[0] = 0 /\ \A k \in 1..n : g[k] = g[k - 1] + numbers[k]
  BY <1>4
<1>7. \A k \in 0..n : g[k] \in Int
  <2> DEFINE P == {k \in Nat : g[k] \in Int}
  <2>1. 0 \in P /\ \A k \in 1..n : k - 1 \in P => k \in P
    BY <1>6
  <2>2. P \in SUBSET Nat
    OBVIOUS
  <2> HIDE DEF P
  <2>3. 0..n \subseteq P
    BY <2>1, <2>2, Upwards
  <2> QED
    BY <2>3 DEF P
<1>8. g \in [0..n -> Int]
  BY <1>4, <1>7
<1>9. Sums(g, n, numbers)
  BY <1>6, <1>8 DEF Sums
<1> QED
  BY <1>5, <1>9

\* It only depends on the numbers.
LEMMA SumsAgree ==
  ASSUME NEW n \in Nat, NEW m \in Nat, n <= m, NEW f, NEW g, NEW a \in [1..n -> Int], NEW b \in [1..m -> Int],
         Sums(f, n, a), Sums(g, m, b), \A k \in 1..n : a[k] = b[k]
  PROVE  f[n] = g[n]
<1> DEFINE P == {k \in Nat : k <= n => f[k] = g[k]}
<1>1. 0 \in P
  BY DEF Sums
<1>2. ASSUME NEW k \in 1..n, k - 1 \in P PROVE k \in P
  <2>1. k \in 1..m /\ k - 1 <= n /\ k \in Nat
    OBVIOUS
  <2>2. f[k] = f[k - 1] + a[k] /\ g[k] = g[k - 1] + b[k]
    BY <2>1 DEF Sums
  <2>3. f[k - 1] = g[k - 1]
    BY <1>2, <2>1
  <2> QED
    BY <2>1, <2>2, <2>3
<1>3. P \in SUBSET Nat
  OBVIOUS
<1> HIDE DEF P
<1>4. n \in P
  <2>1. 0..n \subseteq P
    BY <1>1, <1>2, <1>3, Upwards
  <2> QED
    BY <2>1
<1> QED
  BY <1>4 DEF P

\* One number more.
LEMMA TotalMore ==
  ASSUME NEW n \in Nat, NEW f \in [1..(n + 1) -> Int], NEW less \in [1..n -> Int],
         \A k \in 1..n : less[k] = f[k]
  PROVE  Total(less) \in Int /\ Total(f) = Total(less) + f[n + 1]
<1>1. PICK g : Sums(g, n, less) /\ Total(less) = g[n]
  BY TotalRuns
<1>2. PICK h : Sums(h, n + 1, f) /\ Total(f) = h[n + 1]
  <2>1. n + 1 \in Nat
    OBVIOUS
  <2> QED
    BY <2>1, TotalRuns
<1>3. g[n] = h[n]
  <2>1. n + 1 \in Nat /\ n <= n + 1
    OBVIOUS
  <2> QED
    BY <1>1, <1>2, <2>1, SumsAgree
<1>4. n + 1 \in 1..(n + 1) /\ (n + 1) - 1 = n /\ n \in 0..n
  OBVIOUS
<1>5. h[n + 1] = h[n] + f[n + 1] /\ g[n] \in Int
  BY <1>1, <1>2, <1>4 DEF Sums
<1> QED
  BY <1>1, <1>2, <1>3, <1>5

\* No numbers add up to 0.
LEMMA TotalNone ==
  ASSUME NEW none \in [1..0 -> Int]
  PROVE  Total(none) = 0
<1>1. PICK g : Sums(g, 0, none) /\ Total(none) = g[0]
  BY TotalRuns
<1> QED
  BY <1>1 DEF Sums
-----------------------------------------------------------------------------
(* Rates.                                                                  *)

Bars == [from : Int, to : Int, count : Nat]

\* The messages that bars count, up to each of them.
LEMMA CountedRuns ==
  ASSUME NEW bars \in Seq(Bars)
  PROVE  \E g \in [0..Len(bars) -> Nat] :
           /\ g[0] = 0 /\ \A k \in 1..Len(bars) : g[k] = g[k - 1] + bars[k].count
           /\ Counted(bars) = g[Len(bars)]
<1> DEFINE n == Len(bars)
           numbers == [b \in DOMAIN bars |-> bars[b].count]
<1>1. n \in Nat /\ DOMAIN bars = 1..n /\ \A k \in 1..n : bars[k].count \in Nat
  <2>1. n \in Nat /\ DOMAIN bars = 1..n /\ \A k \in 1..n : bars[k] \in Bars
    BY LenProperties, ElementOfSeq
  <2> QED
    BY <2>1 DEF Bars
<1>2. numbers \in [1..n -> Int] /\ \A k \in 1..n : numbers[k] = bars[k].count
  BY <1>1
<1>3. Counted(bars) = Total(numbers)
  BY DEF Counted
<1> HIDE DEF n, numbers
<1>4. PICK g : Sums(g, n, numbers) /\ Total(numbers) = g[n]
  BY <1>1, <1>2, TotalRuns
<1>5. g[0] = 0 /\ \A k \in 1..n : g[k] = g[k - 1] + bars[k].count
  BY <1>2, <1>4 DEF Sums
<1>6. \A k \in 0..n : g[k] \in Nat
  <2> DEFINE P == {k \in Nat : g[k] \in Nat}
  <2>1. 0 \in P
    BY <1>5
  <2>3. ASSUME NEW k \in 1..n, k - 1 \in P PROVE k \in P
    <3>1. g[k - 1] \in Nat /\ g[k] = g[k - 1] + bars[k].count /\ bars[k].count \in Nat /\ k \in Nat
      BY <1>1, <1>5, <2>3
    <3> QED
      BY <3>1
  <2>2. P \in SUBSET Nat
    OBVIOUS
  <2> HIDE DEF P
  <2>4. 0..n \subseteq P
    BY <1>1, <2>1, <2>2, <2>3, Upwards
  <2> QED
    BY <2>4 DEF P
<1>7. g \in [0..n -> Nat]
  BY <1>4, <1>6 DEF Sums
<1> QED
  BY <1>3, <1>4, <1>5, <1>7 DEF n

\* One more bar adds its count.
LEMMA CountedAppend ==
  ASSUME NEW bars \in Seq(Bars), NEW bar \in Bars
  PROVE  /\ Counted(bars) \in Nat
         /\ Counted(Append(bars, bar)) = Counted(bars) + bar.count
<1> DEFINE n == Len(bars)
           more == Append(bars, bar)
<1>1. n \in Nat /\ more \in Seq(Bars) /\ Len(more) = n + 1 /\ more[n + 1] = bar
      /\ \A k \in 1..n : more[k] = bars[k]
  BY LenProperties, AppendProperties
<1>2. PICK f \in [0..n -> Nat] :
        f[0] = 0 /\ (\A k \in 1..n : f[k] = f[k - 1] + bars[k].count) /\ Counted(bars) = f[n]
  BY CountedRuns
<1> HIDE DEF more
<1>3. PICK g \in [0..Len(more) -> Nat] :
        g[0] = 0 /\ (\A k \in 1..Len(more) : g[k] = g[k - 1] + more[k].count) /\ Counted(more) = g[Len(more)]
  BY <1>1, CountedRuns
<1> HIDE DEF n
<1>4. \A k \in 0..n : g[k] = f[k]
  <2> DEFINE P == {k \in Nat : g[k] = f[k]}
  <2>1. 0 \in P
    BY <1>2, <1>3
  <2>2. ASSUME NEW k \in 1..n, k - 1 \in P PROVE k \in P
    <3>1. k \in 1..Len(more) /\ more[k] = bars[k] /\ k \in Nat
      <4>1. k \in 1..(n + 1) /\ k \in Nat
        BY <1>1
      <4> QED
        BY <1>1, <4>1
    <3>2. g[k - 1] = f[k - 1]
      BY <2>2
    <3>3. g[k] = g[k - 1] + more[k].count /\ f[k] = f[k - 1] + bars[k].count
      BY <1>2, <1>3, <3>1
    <3> QED
      BY <3>1, <3>2, <3>3
  <2>3. P \in SUBSET Nat
    OBVIOUS
  <2> HIDE DEF P
  <2>4. 0..n \subseteq P
    BY <1>1, <2>1, <2>2, <2>3, Upwards
  <2> QED
    BY <2>4 DEF P
<1>5. g[n + 1] = g[n] + bar.count
  <2>1. n + 1 \in 1..Len(more) /\ (n + 1) - 1 = n
    BY <1>1
  <2> QED
    BY <1>1, <1>3, <2>1
<1>6. g[n] = f[n] /\ f[n] \in Nat
  BY <1>1, <1>2, <1>4
<1> QED
  BY <1>1, <1>2, <1>3, <1>5, <1>6 DEF more

\* The messages strictly inside a bar's interval, and those inside it or at its ends.
Inside(times, zero, bar) ==
  Cardinality({k \in DOMAIN times : bar.from < times[k] - zero /\ times[k] - zero < bar.to})
Around(times, zero, bar) ==
  Cardinality({k \in DOMAIN times : bar.from <= times[k] - zero /\ times[k] - zero <= bar.to})

BarRight(times, zero, bar) ==
  /\ bar \in Bars /\ 0 <= bar.from /\ bar.from < bar.to
  /\ Inside(times, zero, bar) <= bar.count /\ bar.count <= Around(times, zero, bar)

\* A bar counts the items after the d-th up to the e-th.
LEMMA BarSound ==
  ASSUME NEW n \in Nat, NEW times \in [1..n -> Nat], NEW zero \in Nat,
         NEW P \in Nat, NEW T \in Nat, zero <= P, P < T,
         NEW d \in 0..n, NEW e \in d..n,
         \A j \in 1..d : times[j] <= P,
         \A j \in (d + 1)..e : P <= times[j] /\ times[j] <= T,
         \A j \in (e + 1)..n : T <= times[j]
  PROVE  BarRight(times, zero, Bar(P, T, zero, e - d))
<1> DEFINE bar == Bar(P, T, zero, e - d)
           In == {k \in 1..n : bar.from < times[k] - zero /\ times[k] - zero < bar.to}
           At == {k \in 1..n : bar.from <= times[k] - zero /\ times[k] - zero <= bar.to}
           I == (d + 1)..e
<1>1. bar.from = P - zero /\ bar.to = T - zero /\ bar.count = e - d
  BY DEF Bar
<1>2. bar \in Bars
  <2>1. P - zero \in Int /\ T - zero \in Int /\ e - d \in Nat
    OBVIOUS
  <2> QED
    BY <2>1 DEF Bar, Bars
<1>3. bar.from \in Int /\ bar.to \in Int /\ 0 <= bar.from /\ bar.from < bar.to
  BY <1>1
<1>4. \A k \in 1..n : times[k] \in Nat /\ (bar.from < times[k] - zero <=> P < times[k])
                      /\ (times[k] - zero < bar.to <=> times[k] < T)
                      /\ (bar.from <= times[k] - zero <=> P <= times[k])
                      /\ (times[k] - zero <= bar.to <=> times[k] <= T)
  BY <1>1
<1>5. In \subseteq I
  <2> SUFFICES ASSUME NEW k \in 1..n, P < times[k], times[k] < T PROVE k \in I
    BY <1>4
  <2>1. ~(k \in 1..d) /\ ~(k \in (e + 1)..n)
    BY <1>4
  <2> QED
    BY <2>1
<1>6. I \subseteq At
  <2> SUFFICES ASSUME NEW k \in I PROVE k \in 1..n /\ P <= times[k] /\ times[k] <= T
    BY <1>4
  <2> QED
    OBVIOUS
<1>7. IsFiniteSet(I) /\ Cardinality(I) = e - d
  <2>1. d + 1 \in Int /\ e \in Int
    OBVIOUS
  <2>2. IsFiniteSet(I) /\ Cardinality(I) = IF d + 1 > e THEN 0 ELSE e - (d + 1) + 1
    BY <2>1, FS_Interval
  <2> QED
    BY <2>2
<1>8. IsFiniteSet(At)
  <2>1. At \in SUBSET (1..n)
    OBVIOUS
  <2> HIDE DEF At
  <2> QED
    BY <2>1, IntervalSize, FS_Subset
<1>9. Cardinality(In) <= e - d /\ e - d <= Cardinality(At)
  <2> HIDE DEF In, At, I
  <2>1. Cardinality(In) <= Cardinality(I) /\ Cardinality(I) <= Cardinality(At)
    BY <1>5, <1>6, <1>7, <1>8, FS_Subset
  <2> QED
    BY <1>7, <2>1
<1>10. DOMAIN times = 1..n
  OBVIOUS
<1>11. Inside(times, zero, bar) = Cardinality(In) /\ Around(times, zero, bar) = Cardinality(At)
  BY <1>10 DEF Inside, Around
<1> HIDE DEF bar, In, At
<1>12. BarRight(times, zero, bar)
  BY <1>1, <1>2, <1>3, <1>9, <1>11 DEF BarRight
<1> QED
  BY <1>12 DEF bar

\* The items that make_rate takes, one a turn, and how many it has passed by then.
RateItems(times) == IF Step(Len(times)) = 1 THEN Tail(times) ELSE Strided(times, Step(Len(times)))
Passed(times, k) == k * Step(Len(times)) + (IF Step(Len(times)) = 1 THEN 1 ELSE 0)

\* The k-th timestamp make_rate looks at is the last of those it has passed by then.
LEMMA RateItemsAre ==
  ASSUME NEW times \in Seq(Nat), Len(times) > 0
  PROVE  LET n == Len(times)
             step == Step(n)
             items == RateItems(times)
             m == Len(items)
         IN  /\ items \in Seq(Nat) /\ m \in Nat
             /\ \A k \in 0..m : Passed(times, k) \in 0..n
             /\ \A k \in 1..m : /\ Passed(times, k) = Passed(times, k - 1) + step
                                /\ Passed(times, k) \in 1..n /\ items[k] = times[Passed(times, k)]
             /\ n = Passed(times, m) + (n % step) /\ n % step \in 0..(step - 1)
             /\ Passed(times, 0) \in {0, 1}
<1> DEFINE n == Len(times)
           step == Step(n)
           items == RateItems(times)
           o == IF step = 1 THEN 1 ELSE 0
           q == n \div step
           r == n % step
           passed(k) == Passed(times, k)
<1>1. n \in Nat /\ n > 0 /\ \A y \in 1..n : times[y] \in Nat
  BY LenProperties, ElementOfSeq
<1>2. step \in Nat \ {0}
  <2> HIDE DEF n
  <2> QED
    BY <1>1, Strides
<1>3. \A k : passed(k) = k * step + o
  BY DEF Passed
<1>4. q \in Nat /\ r \in 0..(step - 1) /\ n = q * step + r /\ \A k \in 1..q : k * step \in 1..n
  <2> HIDE DEF n, step
  <2> QED
    BY <1>1, <1>2, Division
<1>5. /\ step = 1 => items = Tail(times)
      /\ step # 1 => items = [k \in 1..q |-> times[k * step]]
  BY DEF RateItems, Strided
<1> HIDE DEF n, step, items, q, r, passed
<1>6. passed(0) = o /\ o \in {0, 1}
  BY <1>2, <1>3
<1>7. \A k \in Nat \ {0} : passed(k) = passed(k - 1) + step /\ passed(k) \in Nat
  <2>1. \A k \in Nat \ {0} : k * step = (k - 1) * step + step /\ k * step \in Nat /\ (k - 1) * step \in Nat
    BY <1>2
  <2> QED
    BY <1>2, <1>3, <1>6, <2>1
<1>10. ASSUME items \in Seq(Nat), Len(items) \in Nat,
              \A k \in 0..Len(items) : passed(k) \in 0..n,
              \A k \in 1..Len(items) : passed(k) \in 1..n /\ items[k] = times[passed(k)],
              n = passed(Len(items)) + r
       PROVE  /\ items \in Seq(Nat) /\ Len(items) \in Nat
              /\ \A k \in 0..Len(items) : passed(k) \in 0..n
              /\ \A k \in 1..Len(items) : /\ passed(k) = passed(k - 1) + step
                                         /\ passed(k) \in 1..n /\ items[k] = times[passed(k)]
              /\ n = passed(Len(items)) + r /\ r \in 0..(step - 1)
              /\ passed(0) \in {0, 1}
  <2>1. \A k \in 1..Len(items) : k \in Nat \ {0}
    BY <1>10
  <2>2. \A k \in 1..Len(items) : passed(k) = passed(k - 1) + step
    BY <1>7, <2>1
  <2> QED
    BY <1>4, <1>6, <1>10, <2>2
<1> SUFFICES /\ items \in Seq(Nat) /\ Len(items) \in Nat
             /\ \A k \in 0..Len(items) : passed(k) \in 0..n
             /\ \A k \in 1..Len(items) : /\ passed(k) = passed(k - 1) + step
                                        /\ passed(k) \in 1..n /\ items[k] = times[passed(k)]
             /\ n = passed(Len(items)) + r /\ r \in 0..(step - 1)
             /\ passed(0) \in {0, 1}
  BY Zenon DEF n, step, items, r, passed
<1>8. CASE step = 1
  <2>1. /\ items \in Seq(Nat) /\ Len(items) = n - 1 /\ \A k \in 1..(n - 1) : items[k] = times[k + 1]
    <3>1. times # << >>
      BY <1>1, EmptySeq DEF n
    <3>2. Tail(times) \in Seq(Nat) /\ Len(Tail(times)) = n - 1 /\ \A k \in 1..Len(Tail(times)) : Tail(times)[k] = times[k + 1]
      BY <3>1, HeadTailProperties DEF n
    <3> QED
      BY <1>5, <1>8, <3>2
  <2>2. \A k \in Nat : passed(k) = k + 1
    BY <1>3, <1>8
  <2>3. r = 0 /\ n = passed(n - 1)
    BY <1>1, <1>4, <1>8, <2>2
  <2>4. /\ items \in Seq(Nat) /\ Len(items) \in Nat
        /\ \A k \in 0..Len(items) : passed(k) \in 0..n
        /\ \A k \in 1..Len(items) : passed(k) \in 1..n /\ items[k] = times[passed(k)]
        /\ n = passed(Len(items)) + r
    <3>1. n - 1 \in Nat /\ \A k \in 0..(n - 1) : k \in Nat /\ k + 1 \in 1..n /\ k + 1 \in 0..n
      BY <1>1
    <3>2. \A k \in 0..(n - 1) : passed(k) = k + 1
      BY <2>2, <3>1
    <3>3. \A k \in 1..(n - 1) : k \in 0..(n - 1)
      BY <1>1
    <3>4. n = passed(n - 1) + r
      BY <1>1, <2>3
    <3> QED
      BY <2>1, <3>1, <3>2, <3>3, <3>4
  <2> QED
    BY <1>10, <2>4
<1>9. CASE step # 1
  <2>1. \A k \in Nat : passed(k) = k * step
    <3>1. \A k \in Nat : k * step \in Nat
      BY <1>2
    <3> QED
      BY <1>3, <1>9, <3>1
  <2>2. items \in Seq(Nat) /\ Len(items) = q /\ \A k \in 1..q : items[k] = times[k * step]
    <3>1. items = [k \in 1..q |-> times[k * step]]
      BY <1>5, <1>9
    <3>2. items \in [1..q -> Nat]
      BY <1>1, <1>4, <3>1
    <3> QED
      BY <1>4, <3>1, <3>2, Tabulated
  <2>3. /\ \A k \in 1..q : passed(k) \in 1..n /\ items[k] = times[passed(k)]
        /\ passed(0) \in 0..n
    BY <1>1, <1>4, <1>6, <2>1, <2>2
  <2>4. n = passed(q) + r
    BY <1>4, <2>1
  <2>5. \A k \in 0..q : passed(k) \in 0..n
    <3>1. \A k \in 0..q : k = 0 \/ k \in 1..q
      BY <1>4
    <3> QED
      BY <1>1, <2>3, <3>1
  <2>6. /\ items \in Seq(Nat) /\ Len(items) \in Nat
        /\ \A k \in 0..Len(items) : passed(k) \in 0..n
        /\ \A k \in 1..Len(items) : passed(k) \in 1..n /\ items[k] = times[passed(k)]
        /\ n = passed(Len(items)) + r
    BY <1>4, <2>2, <2>3, <2>4, <2>5
  <2> QED
    BY <1>10, <2>6
<1> QED
  BY <1>8, <1>9

RateStates == [previous : Nat, steps : Nat, data : Seq(Bars)]

\* make_rate's turns, and what it returns.
LEMMA RateRuns ==
  ASSUME NEW times \in Seq(Nat), Len(times) > 0, NEW zero \in Nat
  PROVE  LET n == Len(times)
             step == Step(n)
             items == RateItems(times)
             m == Len(items)
         IN  \E g :
               /\ g[0] = [previous |-> times[1], steps |-> 1, data |-> << >>]
               /\ \A k \in 0..m : g[k] \in RateStates
               /\ \A k \in 1..m : g[k] = ExtendRate(g[k - 1], items[k], step, zero)
               /\ MakeRate(times, zero) =
                    IF n % step # 0 /\ times[n] > g[m].previous
                    THEN Append(g[m].data, Bar(g[m].previous, times[n], zero, n % step))
                    ELSE g[m].data
<1> DEFINE n == Len(times)
           step == Step(n)
           items == RateItems(times)
           m == Len(items)
           first == [previous |-> Head(times), steps |-> 1, data |-> << >>]
           D == [k \in 1..m |-> [s \in RateStates |-> ExtendRate(s, items[k], step, zero)]]
           Turns(g) == g = [k \in 0..m |-> IF k = 0 THEN first ELSE ExtendRate(g[k - 1], items[k], step, zero)]
<1>1. /\ n \in Nat /\ n > 0 /\ times[1] \in Nat /\ Head(times) = times[1]
  <2>1. n \in Nat /\ 1 \in 1..n /\ times # << >>
    BY LenProperties, EmptySeq
  <2> QED
    BY <2>1, ElementOfSeq, HeadTailProperties
<1>2. step \in Nat \ {0}
  <2> HIDE DEF n
  <2> QED
    BY <1>1, Strides
<1>3. m \in Nat /\ items \in Seq(Nat) /\ \A k \in 1..m : items[k] \in Nat
  <2>1. items \in Seq(Nat)
    BY RateItemsAre
  <2> QED
    BY <2>1, LenProperties, ElementOfSeq
<1>4. first \in RateStates
  <2>1. << >> \in Seq(Bars)
    BY EmptySeq
  <2> QED
    BY <1>1, <2>1 DEF RateStates
<1>5. \A s \in RateStates, t \in Nat : ExtendRate(s, t, step, zero) \in RateStates
  <2> SUFFICES ASSUME NEW s \in RateStates, NEW t \in Nat PROVE ExtendRate(s, t, step, zero) \in RateStates
    OBVIOUS
  <2>1. s.previous \in Nat /\ s.steps \in Nat /\ s.data \in Seq(Bars)
        /\ s = [previous |-> s.previous, steps |-> s.steps, data |-> s.data]
    BY DEF RateStates
  <2>2. CASE t <= s.previous
    <3>1. ExtendRate(s, t, step, zero) = [s EXCEPT !.steps = s.steps + 1]
      BY <2>2 DEF ExtendRate
    <3>2. ExtendRate(s, t, step, zero) = [previous |-> s.previous, steps |-> s.steps + 1, data |-> s.data]
      BY <2>1, <3>1
    <3>3. s.steps + 1 \in Nat
      BY <2>1
    <3> QED
      BY <2>1, <3>2, <3>3 DEF RateStates
  <2>3. CASE ~(t <= s.previous)
    <3> DEFINE bar == Bar(s.previous, t, zero, step * s.steps)
    <3>1. ExtendRate(s, t, step, zero) = [previous |-> t, steps |-> 1, data |-> Append(s.data, bar)]
      BY <2>3 DEF ExtendRate
    <3>2. bar \in Bars
      <4>1. step * s.steps \in Nat
        BY <1>2, <2>1
      <4>2. s.previous - zero \in Int /\ t - zero \in Int
        BY <2>1
      <4> QED
        BY <4>1, <4>2 DEF Bar, Bars
    <3> HIDE DEF bar
    <3>3. Append(s.data, bar) \in Seq(Bars)
      BY <2>1, <3>2, AppendProperties
    <3> QED
      BY <3>1, <3>3 DEF RateStates
  <2> QED
    BY <2>2, <2>3
<1> HIDE DEF first, m, step
<1>6. PICK f : Runs(f, m, RateStates, first, D)
  <2>1. D \in [1..m -> [RateStates -> RateStates]]
    BY <1>3, <1>5
  <2> HIDE DEF D
  <2> QED
    BY <1>3, <1>4, <2>1, LoopRuns
<1>7. Turns(f)
  <2>1. f \in [0..m -> RateStates] /\ f[0] = first /\ \A k \in 1..m : f[k] = D[k][f[k - 1]]
    BY <1>6 DEF Runs
  <2>2. ASSUME NEW k \in 1..m PROVE f[k] = ExtendRate(f[k - 1], items[k], step, zero)
    <3>1. k - 1 \in 0..m
      BY <1>3
    <3>2. f[k - 1] \in RateStates
      BY <2>1, <3>1
    <3> QED
      BY <2>1, <3>2
  <2>3. \A k \in 0..m : k = 0 \/ k \in 1..m
    BY <1>3
  <2>4. \A k \in 0..m : f[k] = IF k = 0 THEN first ELSE ExtendRate(f[k - 1], items[k], step, zero)
    <3>1. \A k \in 1..m : k # 0
      OBVIOUS
    <3> QED
      BY <2>1, <2>2, <2>3, <3>1
  <2> QED
    BY <2>1, <2>4
<1> DEFINE g == CHOOSE g : Turns(g)
<1>8. Turns(g)
  <2> HIDE DEF Turns
  <2> QED
    BY <1>7
<1>9. LET s == g[m] IN
      MakeRate(times, zero) = IF n % step # 0 /\ times[n] > s.previous
                              THEN Append(s.data, Bar(s.previous, times[n], zero, n % step))
                              ELSE s.data
  BY Zenon DEF MakeRate, Loop, RateItems, first, m, step
<1> HIDE DEF g
<1>10. g[0] = first /\ \A k \in 1..m : g[k] = ExtendRate(g[k - 1], items[k], step, zero)
  <2>1. 0 \in 0..m /\ \A k \in 1..m : k \in 0..m /\ k # 0
    BY <1>3
  <2> QED
    BY <1>8, <2>1
<1>11. \A k \in 0..m : g[k] \in RateStates
  <2> DEFINE P == {k \in Nat : g[k] \in RateStates}
  <2>1. 0 \in P
    BY <1>4, <1>10
  <2>2. ASSUME NEW k \in 1..m, k - 1 \in P PROVE k \in P
    <3>1. g[k - 1] \in RateStates /\ k \in Nat
      BY <1>3, <2>2
    <3> QED
      BY <1>3, <1>5, <1>10, <3>1
  <2>3. P \in SUBSET Nat
    OBVIOUS
  <2> HIDE DEF P
  <2>4. 0..m \subseteq P
    BY <1>3, <2>1, <2>2, <2>3, Upwards
  <2> QED
    BY <2>4 DEF P
<1>12. \E h : /\ h[0] = first
              /\ \A k \in 0..m : h[k] \in RateStates
              /\ \A k \in 1..m : h[k] = ExtendRate(h[k - 1], items[k], step, zero)
              /\ MakeRate(times, zero) = IF n % step # 0 /\ times[n] > h[m].previous
                                         THEN Append(h[m].data, Bar(h[m].previous, times[n], zero, n % step))
                                         ELSE h[m].data
  BY <1>9, <1>10, <1>11, Zenon
<1>13. first = [previous |-> times[1], steps |-> 1, data |-> << >>]
  BY <1>1 DEF first
<1> QED
  BY <1>12, <1>13, Zenon DEF m, step

\* Bars that meet from the first time to P.
BarsMeet(times, zero, bars, P) ==
  /\ bars \in Seq(Bars) /\ P \in Nat /\ times[1] <= P
  /\ \A b \in 1..Len(bars) : BarRight(times, zero, bars[b])
  /\ \A b \in 2..Len(bars) : bars[b].from = bars[b - 1].to
  /\ bars = << >> => P = times[1]
  /\ bars # << >> => bars[1].from = times[1] - zero /\ bars[Len(bars)].to = P - zero /\ times[1] < P

\* A bar that begins where the last one ends joins the others.
LEMMA BarsMeetAppend ==
  ASSUME NEW times \in Seq(Nat), Len(times) > 0, NEW zero \in Nat, NEW bars, NEW P, BarsMeet(times, zero, bars, P),
         NEW T \in Nat, P < T, NEW count, BarRight(times, zero, Bar(P, T, zero, count))
  PROVE  /\ BarsMeet(times, zero, Append(bars, Bar(P, T, zero, count)), T)
         /\ Counted(Append(bars, Bar(P, T, zero, count))) = Counted(bars) + count
<1> DEFINE bar == Bar(P, T, zero, count)
           more == Append(bars, bar)
           n == Len(bars)
<1>1. /\ bars \in Seq(Bars) /\ P \in Nat /\ times[1] <= P /\ n \in Nat
      /\ \A b \in 1..n : BarRight(times, zero, bars[b])
      /\ \A b \in 2..n : bars[b].from = bars[b - 1].to
      /\ bars = << >> => P = times[1]
      /\ bars # << >> => bars[1].from = times[1] - zero /\ bars[n].to = P - zero /\ times[1] < P
  BY LenProperties DEF BarsMeet
<1>2. bar \in Bars /\ bar.from = P - zero /\ bar.to = T - zero /\ bar.count = count
  BY DEF BarRight, Bar
<1>3. times[1] \in Nat
  BY LenProperties, ElementOfSeq
<1> HIDE DEF bar
<1>4. Counted(more) = Counted(bars) + count
  BY <1>1, <1>2, CountedAppend
<1>5. /\ more \in Seq(Bars) /\ Len(more) = n + 1 /\ more[n + 1] = bar
      /\ \A b \in 1..n : more[b] = bars[b]
  <2>1. \A b \in 1..n : b \in 1..(n + 1) /\ b <= n
    BY <1>1
  <2>2. /\ more \in Seq(Bars) /\ Len(more) = n + 1
        /\ \A b \in 1..(n + 1) : more[b] = IF b <= n THEN bars[b] ELSE bar
    BY <1>1, <1>2, AppendProperties
  <2>3. n + 1 \in 1..(n + 1) /\ ~(n + 1 <= n)
    BY <1>1
  <2> QED
    BY <2>1, <2>2, <2>3
<1> HIDE DEF more, n
<1>6. \A b \in 1..(n + 1) : BarRight(times, zero, more[b])
  <2>1. \A b \in 1..(n + 1) : b \in 1..n \/ b = n + 1
    BY <1>1
  <2>2. BarRight(times, zero, bar)
    BY DEF bar
  <2> QED
    BY <1>1, <1>5, <2>1, <2>2
<1>7. \A b \in 2..(n + 1) : more[b].from = more[b - 1].to
  <2> SUFFICES ASSUME NEW b \in 2..(n + 1) PROVE more[b].from = more[b - 1].to
    OBVIOUS
  <2>1. CASE b \in 2..n
    <3>1. b \in 1..n /\ b - 1 \in 1..n
      BY <1>1, <2>1
    <3> QED
      BY <1>1, <1>5, <2>1, <3>1
  <2>2. CASE b = n + 1
    <3>1. n \in 1..n /\ b - 1 = n /\ n # 0
      BY <1>1, <2>2
    <3>2. bars # << >>
      BY <1>1, <3>1 DEF n
    <3> QED
      BY <1>1, <1>2, <1>5, <2>2, <3>1, <3>2
  <2> QED
    BY <1>1, <2>1, <2>2
<1>8. more # << >> /\ more[1].from = times[1] - zero /\ more[n + 1].to = T - zero /\ times[1] < T /\ times[1] <= T
  <2>1. more # << >>
    <3>1. n + 1 # 0
      BY <1>1
    <3> QED
      BY <1>5, <3>1
  <2>2. more[1].from = times[1] - zero
    <3>1. CASE bars = << >>
      <4>1. n = 0
        BY <3>1 DEF n
      <4> QED
        BY <1>1, <1>2, <1>5, <3>1, <4>1
    <3>2. CASE bars # << >>
      <4>1. 1 \in 1..n
        BY <1>1, <3>2, EmptySeq DEF n
      <4> QED
        BY <1>1, <1>5, <3>2, <4>1
    <3> QED
      BY <3>1, <3>2
  <2>3. more[n + 1].to = T - zero
    BY <1>1, <1>2, <1>5
  <2>4. times[1] < T /\ times[1] <= T
    BY <1>1, <1>2, <1>3
  <2> QED
    BY <2>1, <2>2, <2>3, <2>4
<1> QED
  BY <1>4, <1>5, <1>6, <1>7, <1>8 DEF BarsMeet, more, bar

\* After k turns of make_rate: c items have been counted in bars, steps the strides since.
RateSoFar(times, zero, k, s) ==
  \E c \in 0..Passed(times, k) :
    /\ Step(Len(times)) * s.steps = Passed(times, k) - c + Step(Len(times))
    /\ Counted(s.data) = c - Passed(times, 0)
    /\ BarsMeet(times, zero, s.data, s.previous)
    /\ \A j \in 1..Passed(times, k) : times[j] <= s.previous
    /\ \A j \in 1..Len(times) : c <= j => s.previous <= times[j]

\* One timestamp more: it ends a bar, or counts for the next.
LEMMA RateTurn ==
  ASSUME NEW times \in Seq(Nat), Len(times) > 0, Sorted(times), NEW zero \in Nat, zero <= times[1],
         NEW k \in 1..Len(RateItems(times)), NEW s \in RateStates, RateSoFar(times, zero, k - 1, s)
  PROVE  RateSoFar(times, zero, k, ExtendRate(s, RateItems(times)[k], Step(Len(times)), zero))
<1> DEFINE n == Len(times)
           step == Step(n)
           before == Passed(times, k - 1)
           now == Passed(times, k)
           first == Passed(times, 0)
           T == RateItems(times)[k]
<1>1. /\ n \in Nat /\ \A j \in 1..n : times[j] \in Nat
  BY LenProperties, ElementOfSeq
<1>2. step \in Nat \ {0}
  <2> HIDE DEF n
  <2> QED
    BY <1>1, Strides
<1>3. /\ now = before + step /\ now \in 1..n /\ T = times[now] /\ before \in 0..n /\ first \in {0, 1}
  <2> DEFINE m == Len(RateItems(times))
  <2>1. /\ m \in Nat /\ \A j \in 0..m : Passed(times, j) \in 0..n
        /\ \A j \in 1..m : /\ Passed(times, j) = Passed(times, j - 1) + step
                           /\ Passed(times, j) \in 1..n /\ RateItems(times)[j] = times[Passed(times, j)]
        /\ first \in {0, 1}
    BY RateItemsAre
  <2>2. k \in 1..m
    OBVIOUS
  <2> HIDE DEF m
  <2>3. k - 1 \in 0..m
    BY <2>1, <2>2
  <2> QED
    BY <2>1, <2>2, <2>3
<1>4. PICK c \in 0..before :
        /\ step * s.steps = before - c + step
        /\ Counted(s.data) = c - first
        /\ BarsMeet(times, zero, s.data, s.previous)
        /\ \A j \in 1..before : times[j] <= s.previous
        /\ \A j \in 1..n : c <= j => s.previous <= times[j]
  BY DEF RateSoFar
<1>5. s.previous \in Nat /\ s.steps \in Nat /\ s = [previous |-> s.previous, steps |-> s.steps, data |-> s.data]
  BY DEF RateStates
<1>6. \A i, j \in 1..n : i <= j => times[i] <= times[j]
  BY LenProperties DEF Sorted
<1>7. \A j \in 1..now : j \in 1..n /\ times[j] <= T
  <2>1. \A j \in 1..now : j \in 1..n /\ j <= now
    BY <1>1, <1>3
  <2> QED
    BY <1>3, <1>6, <2>1
<1>8. T \in Nat
  BY <1>1, <1>3
<1> HIDE DEF n, step, before, now, first, T
<1>9. CASE T <= s.previous
  <2> DEFINE s2 == ExtendRate(s, T, step, zero)
  <2>1. s2 = [s EXCEPT !.steps = s.steps + 1]
    BY <1>9 DEF ExtendRate
  <2>2. s2.previous = s.previous /\ s2.data = s.data /\ s2.steps = s.steps + 1
    BY <1>5, <2>1
  <2> HIDE DEF s2
  <2>3. step * (s.steps + 1) = now - c + step
    <3>1. step * (s.steps + 1) = step * s.steps + step
      BY <1>2, <1>5
    <3> DEFINE a == step * s.steps
    <3>2. a = before - c + step
      BY <1>4
    <3> HIDE DEF a
    <3>3. a + step = now - c + step
      BY <1>2, <1>3, <3>2
    <3> QED
      BY <3>1, <3>3 DEF a
  <2>4. \A j \in 1..now : times[j] <= s.previous
    <3> SUFFICES ASSUME NEW j \in 1..now PROVE times[j] <= s.previous
      OBVIOUS
    <3>1. times[j] <= T /\ times[j] \in Nat
      BY <1>1, <1>7
    <3> QED
      BY <1>5, <1>8, <1>9, <3>1
  <2>5. c \in 0..now
    BY <1>2, <1>3
  <2>6. RateSoFar(times, zero, k, s2)
    <3>1. /\ step * s2.steps = now - c + step
          /\ Counted(s2.data) = c - first
          /\ BarsMeet(times, zero, s2.data, s2.previous)
          /\ \A j \in 1..now : times[j] <= s2.previous
          /\ \A j \in 1..n : c <= j => s2.previous <= times[j]
      BY <1>4, <2>2, <2>3, <2>4
    <3> QED
      BY <2>5, <3>1 DEF RateSoFar, n, step, now, first
  <2> QED
    BY <2>6 DEF s2, n, step, T
<1>10. CASE ~(T <= s.previous)
  <2> DEFINE count == step * s.steps
             bar == Bar(s.previous, T, zero, count)
             s2 == ExtendRate(s, T, step, zero)
  <2>1. s2 = [previous |-> T, steps |-> 1, data |-> Append(s.data, bar)]
    BY <1>10 DEF ExtendRate
  <2>2. s2.previous = T /\ s2.steps = 1 /\ s2.data = Append(s.data, bar)
    BY <2>1
  <2>3. count = now - c /\ c \in 0..now /\ c \in 0..n /\ now \in c..n /\ s.previous < T
    <3>1. count = before - c + step
      BY <1>4
    <3> HIDE DEF count
    <3>2. c \in Int /\ 0 <= c /\ c <= before /\ before \in Int /\ step \in Int /\ step > 0 /\ n \in Int /\ now <= n
      BY <1>1, <1>2, <1>3
    <3>3. count = now - c /\ c \in 0..now /\ c \in 0..n /\ now \in c..n
      BY <1>3, <3>1, <3>2
    <3> QED
      BY <1>5, <1>8, <1>10, <3>3
  <2> HIDE DEF s2, count
  <2>4. BarRight(times, zero, bar)
    <3>1. zero <= s.previous
      <4>1. times[1] <= s.previous
        BY <1>4 DEF BarsMeet
      <4>2. 1 \in 1..n
        BY <1>1, <1>3
      <4> QED
        BY <1>1, <1>5, <4>1, <4>2
    <3>2. \A j \in 1..c : times[j] <= s.previous
      <4>1. \A j \in 1..c : j \in 1..before
        BY <1>3
      <4> QED
        BY <1>4, <4>1
    <3>3. \A j \in (c + 1)..now : s.previous <= times[j] /\ times[j] <= T
      <4>1. \A j \in (c + 1)..now : j \in 1..now /\ c <= j
        BY <2>3
      <4> QED
        BY <1>4, <1>7, <4>1
    <3>4. \A j \in (now + 1)..n : T <= times[j]
      <4>1. \A j \in (now + 1)..n : j \in 1..n /\ now <= j
        BY <1>3
      <4> QED
        BY <1>3, <1>6, <4>1
    <3>5. times \in [1..n -> Nat] /\ n \in Nat
      <4>1. times \in [1..Len(times) -> Nat]
        BY LenProperties
      <4> QED
        BY <1>1, <4>1 DEF n
    <3> DEFINE P == s.previous
    <3>6. P \in Nat /\ P < T /\ zero <= P
      BY <1>5, <2>3, <3>1
    <3> HIDE DEF P
    <3>7. BarRight(times, zero, Bar(P, T, zero, now - c))
      BY <1>8, <2>3, <3>2, <3>3, <3>4, <3>5, <3>6, BarSound DEF P
    <3> QED
      BY <2>3, <3>7 DEF P
  <2>5. BarsMeet(times, zero, s2.data, T) /\ Counted(s2.data) = Counted(s.data) + count
    <3> DEFINE P == s.previous
               data == s.data
    <3>1. BarsMeet(times, zero, data, P) /\ P < T /\ BarRight(times, zero, Bar(P, T, zero, count))
      BY <1>4, <2>3, <2>4
    <3> HIDE DEF P, data
    <3>2. /\ BarsMeet(times, zero, Append(data, Bar(P, T, zero, count)), T)
          /\ Counted(Append(data, Bar(P, T, zero, count))) = Counted(data) + count
      BY <1>8, <3>1, BarsMeetAppend
    <3> QED
      BY <2>2, <3>2 DEF P, data
  <2>6. Counted(s2.data) = now - first
    <3>1. Counted(s.data) = c - first
      BY <1>4
    <3> QED
      BY <1>3, <2>3, <2>5, <3>1
  <2>7. \A j \in 1..n : now <= j => T <= times[j]
    BY <1>3, <1>6
  <2>8. RateSoFar(times, zero, k, s2)
    <3>1. /\ step * s2.steps = now - now + step
          /\ Counted(s2.data) = now - first
          /\ BarsMeet(times, zero, s2.data, s2.previous)
          /\ \A j \in 1..now : times[j] <= s2.previous
          /\ \A j \in 1..n : now <= j => s2.previous <= times[j]
      <4>1. step * s2.steps = now - now + step
        BY <1>2, <1>3, <2>2
      <4> QED
        BY <1>7, <2>2, <2>5, <2>6, <2>7, <4>1
    <3> QED
      BY <2>3, <3>1, SMTT(30) DEF RateSoFar, n, step, now, first
  <2> QED
    BY <2>8 DEF s2, n, step, T
<1> QED
  BY <1>9, <1>10

\* make_rate's bars meet from the first time to the last, and count no item twice.
LEMMA RateBars ==
  ASSUME NEW times \in Seq(Nat), Len(times) > 0, Sorted(times), NEW zero \in Nat, zero <= times[1]
  PROVE  /\ BarsMeet(times, zero, MakeRate(times, zero), times[Len(times)])
         /\ Counted(MakeRate(times, zero)) \in 0..Len(times)
<1> DEFINE n == Len(times)
           step == Step(n)
           items == RateItems(times)
           m == Len(items)
           r == n % step
           first == Passed(times, 0)
           last == Passed(times, m)
           bars == MakeRate(times, zero)
<1>1. /\ n \in Nat /\ n > 0 /\ \A j \in 1..n : times[j] \in Nat
  BY LenProperties, ElementOfSeq
<1>2. step \in Nat \ {0}
  <2> HIDE DEF n
  <2> QED
    BY <1>1, Strides
<1>3. /\ m \in Nat /\ n = last + r /\ r \in 0..(step - 1) /\ first \in {0, 1} /\ first \in 0..n /\ last \in 0..n
  <2>1. /\ m \in Nat /\ \A k \in 0..m : Passed(times, k) \in 0..n
        /\ n = last + r /\ r \in 0..(step - 1) /\ first \in {0, 1}
    BY RateItemsAre
  <2> HIDE DEF m
  <2>2. 0 \in 0..m /\ m \in 0..m
    BY <2>1
  <2> QED
    BY <2>1, <2>2
<1>4. PICK g :
        /\ g[0] = [previous |-> times[1], steps |-> 1, data |-> << >>]
        /\ \A k \in 0..m : g[k] \in RateStates
        /\ \A k \in 1..m : g[k] = ExtendRate(g[k - 1], items[k], step, zero)
        /\ bars = IF r # 0 /\ times[n] > g[m].previous
                  THEN Append(g[m].data, Bar(g[m].previous, times[n], zero, r))
                  ELSE g[m].data
  BY RateRuns
<1>5. \A i, j \in 1..n : i <= j => times[i] <= times[j]
  BY LenProperties DEF Sorted
<1>6. 1 \in 1..n /\ n \in 1..n /\ times[1] \in Nat /\ times[n] \in Nat /\ \A j \in 1..n : times[1] <= times[j] /\ times[j] <= times[n]
  <2>1. 1 \in 1..n /\ n \in 1..n /\ \A j \in 1..n : 1 <= j /\ j <= n
    BY <1>1
  <2> QED
    BY <1>1, <1>5, <2>1
<1> HIDE DEF bars
<1>7. RateSoFar(times, zero, 0, g[0])
  <2>1. << >> \in Seq(Bars) /\ Len(<< >>) = 0
    BY EmptySeq
  <2>2. Counted(<< >>) = 0
    <3>1. PICK f \in [0..Len(<< >>) -> Nat] : f[0] = 0 /\ Counted(<< >>) = f[Len(<< >>)]
      BY <2>1, CountedRuns
    <3> QED
      BY <2>1, <3>1
  <2>3. BarsMeet(times, zero, << >>, times[1])
    BY <1>6, <2>1 DEF BarsMeet
  <2>4. g[0].previous = times[1] /\ g[0].steps = 1 /\ g[0].data = << >>
    BY <1>4
  <2>5. \A j \in 1..first : times[j] <= times[1]
    <3>1. \A j \in 1..first : j = 1
      BY <1>3
    <3> QED
      BY <1>6, <3>1
  <2> HIDE DEF n, step, first
  <2>6. step * 1 = first - first + step /\ first - first = 0 /\ first \in 0..first
    BY <1>2, <1>3
  <2>7. /\ step * g[0].steps = first - first + step
        /\ Counted(g[0].data) = first - first
        /\ BarsMeet(times, zero, g[0].data, g[0].previous)
        /\ \A j \in 1..first : times[j] <= g[0].previous
        /\ \A j \in 1..n : first <= j => g[0].previous <= times[j]
    BY <1>6, <2>2, <2>3, <2>4, <2>5, <2>6
  <2> QED
    BY <2>6, <2>7 DEF RateSoFar, n, step, first
<1>8. RateSoFar(times, zero, m, g[m]) /\ g[m] \in RateStates
  <2> DEFINE P == {k \in 0..m : RateSoFar(times, zero, k, g[k])}
  <2>1. 0 \in P
    BY <1>3, <1>7
  <2>2. ASSUME NEW k \in 1..m, k - 1 \in P PROVE k \in P
    <3>1. k - 1 \in 0..m /\ RateSoFar(times, zero, k - 1, g[k - 1]) /\ k \in 0..m
      BY <1>3, <2>2
    <3>2. g[k - 1] \in RateStates /\ g[k] = ExtendRate(g[k - 1], RateItems(times)[k], Step(Len(times)), zero)
      BY <1>4, <3>1
    <3> DEFINE s == g[k - 1]
    <3>3. s \in RateStates /\ RateSoFar(times, zero, k - 1, s) /\ k \in 1..Len(RateItems(times))
      BY <3>1, <3>2
    <3> HIDE DEF s
    <3>4. RateSoFar(times, zero, k, ExtendRate(s, RateItems(times)[k], Step(Len(times)), zero))
      BY <3>3, RateTurn
    <3> QED
      BY <3>1, <3>2, <3>4 DEF s
  <2>3. P \in SUBSET Nat
    OBVIOUS
  <2> HIDE DEF P, m
  <2>4. 0..m \subseteq P
    BY <1>3, <2>1, <2>2, <2>3, Upwards
  <2>5. m \in 0..m
    BY <1>3
  <2>6. m \in P
    BY <2>4, <2>5
  <2> QED
    BY <1>4, <2>5, <2>6 DEF P, m
<1> DEFINE s == g[m]
<1>9. PICK c \in 0..last :
        /\ Counted(s.data) = c - first
        /\ BarsMeet(times, zero, s.data, s.previous)
        /\ \A j \in 1..last : times[j] <= s.previous
        /\ \A j \in 1..n : c <= j => s.previous <= times[j]
  BY <1>8 DEF RateSoFar
<1>10. s.previous \in Nat /\ s.data \in Seq(Bars) /\ times[1] <= s.previous
  BY <1>8, <1>9 DEF RateStates, BarsMeet
<1>11. Counted(s.data) \in Nat /\ Counted(s.data) <= last
  <2>1. PICK f \in [0..Len(s.data) -> Nat] : Counted(s.data) = f[Len(s.data)]
    BY <1>10, CountedRuns
  <2>2. Len(s.data) \in 0..Len(s.data)
    BY <1>10, LenProperties
  <2>3. Counted(s.data) \in Nat
    BY <2>1, <2>2
  <2>4. c \in Int /\ c <= last /\ first \in Nat /\ last \in Int
    BY <1>3
  <2> HIDE DEF s, first, last
  <2>5. Counted(s.data) = c - first
    BY <1>9
  <2> QED
    BY <2>3, <2>4, <2>5
<1>12. bars = IF r # 0 /\ times[n] > s.previous
              THEN Append(s.data, Bar(s.previous, times[n], zero, r))
              ELSE s.data
  BY <1>4
<1> HIDE DEF s, n, step, m, r, first, last
<1>13. CASE r # 0 /\ times[n] > s.previous
  <2> DEFINE P == s.previous
             data == s.data
             T == times[n]
             bar == Bar(P, T, zero, r)
  <2>1. bars = Append(data, bar) /\ BarsMeet(times, zero, data, P)
    BY <1>9, <1>12, <1>13
  <2>2. P \in Nat /\ T \in Nat /\ P < T /\ zero <= P /\ r = n - last /\ last \in 0..n /\ n \in last..n /\ n \in Nat
    BY <1>1, <1>3, <1>6, <1>10, <1>13
  <2>3. BarRight(times, zero, Bar(P, T, zero, n - last))
    <3>1. times \in [1..n -> Nat]
      <4>1. times \in [1..Len(times) -> Nat]
        BY LenProperties
      <4> QED
        BY <4>1 DEF n
    <3>2. \A j \in 1..last : times[j] <= P
      BY <1>9
    <3>3. \A j \in (last + 1)..n : P <= times[j] /\ times[j] <= T
      <4>1. \A j \in (last + 1)..n : j \in 1..n /\ c <= j
        BY <1>3
      <4> QED
        BY <1>6, <1>9, <4>1
    <3>4. \A j \in (n + 1)..n : T <= times[j]
      <4>1. (n + 1)..n = {}
        BY <1>1
      <4> QED
        BY <4>1
    <3> HIDE DEF P, T
    <3> QED
      BY <2>2, <3>1, <3>2, <3>3, <3>4, BarSound
  <2>4. BarsMeet(times, zero, bars, T) /\ Counted(bars) = Counted(data) + r
    <3> HIDE DEF P, T, data
    <3> QED
      BY <2>1, <2>2, <2>3, BarsMeetAppend
  <2>5. Counted(bars) \in 0..n
    <3> HIDE DEF data
    <3>1. Counted(data) \in Nat /\ Counted(data) <= last
      BY <1>11 DEF data
    <3> QED
      BY <1>3, <2>2, <2>4, <3>1
  <2> QED
    BY <2>4, <2>5 DEF bars, n
<1>14. CASE ~(r # 0 /\ times[n] > s.previous)
  <2>1. bars = s.data
    BY <1>12, <1>14
  <2>2. times[n] = s.previous
    <3>1. times[n] <= s.previous
      <4>1. CASE r = 0
        <5>1. n \in 1..last
          BY <1>1, <1>3, <4>1
        <5> QED
          BY <1>9, <5>1
      <4>2. CASE ~(times[n] > s.previous)
        BY <1>6, <1>10, <4>2
      <4> QED
        BY <1>14, <4>1, <4>2
    <3>2. s.previous <= times[n]
      <4>1. c <= n
        BY <1>1, <1>3
      <4> QED
        BY <1>6, <1>9, <4>1
    <3> QED
      BY <1>6, <1>10, <3>1, <3>2
  <2>3. Counted(bars) \in 0..n
    BY <1>3, <1>11, <2>1
  <2> QED
    BY <1>9, <2>1, <2>2, <2>3 DEF bars, n
<1> QED
  BY <1>13, <1>14

\* RatesAccounted holds wherever the invariant does.
LEMMA RatesAreAccounted == GrinderInv => RatesAccounted
<1> SUFFICES ASSUME GrinderInv, NEW l \in DOMAIN rates
             PROVE  LET bars == rates[l].values
                        times == Shown(rates[l])
                        time(k) == times[k] - Zero(rates[l])
                        Inner(bar) == Cardinality({k \in DOMAIN times : bar.from < time(k) /\ time(k) < bar.to})
                        Within(bar) == Cardinality({k \in DOMAIN times : bar.from <= time(k) /\ time(k) <= bar.to})
                    IN  /\ bars = << >> <=> time(1) = time(Len(times))
                        /\ bars # << >> => bars[1].from = time(1) /\ bars[Len(bars)].to = time(Len(times))
                        /\ \A b \in 2..Len(bars) : bars[b].from = bars[b - 1].to
                        /\ \A b \in DOMAIN bars : /\ bars[b].from < bars[b].to
                                                 /\ Inner(bars[b]) <= bars[b].count /\ bars[b].count <= Within(bars[b])
                        /\ Counted(bars) <= Len(times)
  BY DEF RatesAccounted
<1> DEFINE bars == rates[l].values
           times == Shown(rates[l])
           zero == Zero(rates[l])
<1>1. bars = MakeRate(times, zero) /\ Drawn(rates[l])
  BY DEF GrinderInv, LinesDrawn, RateLine
<1>2. /\ times \in Seq(Nat) /\ Len(times) > 0 /\ zero \in Nat /\ Sorted(times)
      /\ zero <= times[1] /\ times[1] \in Nat /\ times[Len(times)] \in Nat
  <2>1. /\ times \in Seq(Nat) /\ Len(times) \in Nat \ {0} /\ zero \in Nat /\ DOMAIN times = 1..Len(times)
        /\ Sorted(times) /\ \A k \in DOMAIN times : times[k] \in Nat /\ zero <= times[k]
    BY <1>1, ShownSorted
  <2> HIDE DEF times, zero
  <2>2. 1 \in DOMAIN times /\ Len(times) \in DOMAIN times /\ Len(times) > 0
    BY <2>1
  <2> QED
    BY <2>1, <2>2
<1> HIDE DEF bars, times, zero
<1>3. BarsMeet(times, zero, bars, times[Len(times)]) /\ Counted(bars) \in 0..Len(times)
  BY <1>1, <1>2, RateBars
<1>4. /\ bars \in Seq(Bars) /\ DOMAIN bars = 1..Len(bars)
      /\ \A b \in DOMAIN bars : BarRight(times, zero, bars[b])
      /\ \A b \in 2..Len(bars) : bars[b].from = bars[b - 1].to
      /\ bars = << >> => times[Len(times)] = times[1]
      /\ bars # << >> => /\ bars[1].from = times[1] - zero /\ bars[Len(bars)].to = times[Len(times)] - zero
                         /\ times[1] < times[Len(times)]
  BY <1>3, LenProperties DEF BarsMeet
<1>5. bars = << >> <=> times[1] - zero = times[Len(times)] - zero
  <2>1. times[1] - zero = times[Len(times)] - zero <=> times[1] = times[Len(times)]
    BY <1>2
  <2>2. bars # << >> => times[1] # times[Len(times)]
    BY <1>2, <1>4
  <2> QED
    BY <1>4, <2>1, <2>2
<1>6. \A b \in DOMAIN bars :
        /\ bars[b].from < bars[b].to
        /\ Cardinality({k \in DOMAIN times : bars[b].from < times[k] - zero /\ times[k] - zero < bars[b].to}) <= bars[b].count
        /\ bars[b].count <= Cardinality({k \in DOMAIN times : bars[b].from <= times[k] - zero /\ times[k] - zero <= bars[b].to})
  BY <1>4, Zenon DEF BarRight, Inside, Around
<1>7. Counted(bars) <= Len(times)
  BY <1>2, <1>3
<1> QED
  BY <1>4, <1>5, <1>6, <1>7, Zenon DEF bars, times, zero

\* The bars of the rate chart meet from the first message to the last and count no message
\* twice, for any number of messages and any bursts among the strides (grinder.py:181-208).
THEOREM RatesAreComplete == Spec => []RatesAccounted
BY LinesAreDrawn, RatesAreAccounted, PTL

-----------------------------------------------------------------------------
(* Queries in the air.                                                     *)

\* Sorting keeps type and length.
LEMMA SortedItems ==
  ASSUME NEW E, NEW s \in Seq(E), NEW keys \in [1..Len(s) -> Int]
  PROVE  /\ [p \in DOMAIN s |-> s[Order(keys)[p]]] \in Seq(E)
         /\ Len([p \in DOMAIN s |-> s[Order(keys)[p]]]) = Len(s)
<1> DEFINE n == Len(s)
           u == [p \in DOMAIN s |-> s[Order(keys)[p]]]
<1>1. n \in Nat /\ DOMAIN s = 1..n /\ \A k \in 1..n : s[k] \in E
  BY LenProperties, ElementOfSeq
<1>2. Order(keys) \in [1..n -> 1..n]
  <2> HIDE DEF n
  <2> QED
    BY <1>1, OrderPlaces DEF n
<1>3. u \in [1..n -> E]
  <2> HIDE DEF n
  <2> QED
    BY <1>1, <1>2
<1> HIDE DEF n, u
<1>4. u \in Seq(E) /\ Len(u) = n
  BY <1>1, <1>3, Tabulated
<1> QED
  BY <1>4 DEF u, n

\* The events of a sound part: none is before the first query.
EventsFrom(zero) == [timestamp : {t \in Nat : zero <= t}, increment : {1, -1}]

\* What make_queue sorts: sends and replies, none earlier than the first send.
LEMMA EventsType ==
  ASSUME NEW p, SoundPart(p), p.sends # << >>
  PROVE  Events(p.pairs) \in Seq(EventsFrom(p.sends[1]))
<1> DEFINE pairs == p.pairs
           zero == p.sends[1]
           E == EventsFrom(zero)
           n == Len(pairs)
           of(k) == [j \in 1..Min({2, Len(pairs[k])}) |->
                       [timestamp |-> pairs[k][j], increment |-> IF j = 1 THEN 1 ELSE -1]]
           seqs == [k \in DOMAIN pairs |-> of(k)]
           all == FlattenSeq(seqs)
           keys == [k \in DOMAIN all |-> all[k].timestamp]
<1>1. /\ p.sends \in Seq(Nat) /\ pairs \in Seq(Seq(Nat)) /\ Sorted(p.sends) /\ n = Len(p.sends)
      /\ \A k \in DOMAIN pairs :
           /\ Len(pairs[k]) \in {1, 3} /\ pairs[k][1] = p.sends[k]
           /\ IsAnswered(pairs[k]) => pairs[k][2] \in Nat /\ p.sends[k] < pairs[k][2]
  BY DEF SoundPart
<1>2. /\ n \in Nat /\ DOMAIN pairs = 1..n /\ DOMAIN p.sends = 1..n /\ \A k \in 1..n : p.sends[k] \in Nat
      /\ p.sends[1] \in Nat /\ \A k \in 1..n : zero <= p.sends[k]
  <2>1. /\ n \in Nat /\ DOMAIN pairs = 1..n /\ DOMAIN p.sends = 1..n /\ \A k \in 1..n : p.sends[k] \in Nat
    BY <1>1, LenProperties, ElementOfSeq
  <2>2. 1 \in 1..n /\ \A k \in 1..n : 1 <= k
    <3>1. n # 0
      BY <1>1, EmptySeq
    <3> QED
      BY <2>1, <3>1
  <2> QED
    BY <1>1, <2>1, <2>2 DEF Sorted
<1>3. ASSUME NEW k \in 1..n PROVE of(k) \in Seq(E)
  <2>1. Len(pairs[k]) \in {1, 3} /\ pairs[k][1] = p.sends[k] /\ p.sends[k] \in Nat /\ zero <= p.sends[k]
    BY <1>1, <1>2
  <2>2. Min({2, Len(pairs[k])}) = IF Len(pairs[k]) = 1 THEN 1 ELSE 2
    <3>1. CASE Len(pairs[k]) = 1
      <4>1. Min({2, 1}) = 1
        BY DEF Min
      <4> QED
        BY <3>1, <4>1
    <3>2. CASE Len(pairs[k]) = 3
      <4>1. Min({2, 3}) = 2
        BY DEF Min
      <4> QED
        BY <3>2, <4>1
    <3> QED
      BY <2>1, <3>1, <3>2
  <2>3. Len(pairs[k]) = 3 => pairs[k][2] \in Nat /\ zero <= pairs[k][2]
    <3>1. Len(pairs[k]) = 3 => IsAnswered(pairs[k])
      BY DEF IsAnswered
    <3>2. Len(pairs[k]) = 3 => pairs[k][2] \in Nat /\ p.sends[k] < pairs[k][2]
      BY <1>1, <1>2, <3>1
    <3> QED
      BY <1>2, <2>1, <3>2
  <2> DEFINE m == Min({2, Len(pairs[k])})
  <2>4. m \in Nat /\ \A j \in 1..m : j = 1 \/ (j = 2 /\ Len(pairs[k]) = 3)
    <3> HIDE DEF m
    <3>1. m = 1 \/ (m = 2 /\ Len(pairs[k]) = 3)
      BY <2>1, <2>2 DEF m
    <3> QED
      BY <3>1
  <2> HIDE DEF m
  <2>5. ASSUME NEW j \in 1..m PROVE [timestamp |-> pairs[k][j], increment |-> IF j = 1 THEN 1 ELSE -1] \in E
    <3>1. pairs[k][j] \in {t \in Nat : zero <= t}
      BY <2>1, <2>3, <2>4
    <3>2. (IF j = 1 THEN 1 ELSE -1) \in {1, -1}
      OBVIOUS
    <3> QED
      BY <3>1, <3>2 DEF EventsFrom
  <2>6. of(k) \in [1..m -> E]
    BY <2>5 DEF m
  <2> HIDE DEF of, E
  <2> QED
    BY <2>4, <2>6, Tabulated
<1>4. all \in Seq(E)
  <2>1. seqs \in [1..n -> Seq(E)]
    <3> HIDE DEF of, E, n
    <3> QED
      BY <1>2, <1>3
  <2> HIDE DEF seqs, E, n
  <2>2. seqs \in Seq(Seq(E))
    BY <1>2, <2>1, Tabulated
  <2> QED
    BY <2>2, Flattened
<1>5. keys \in [1..Len(all) -> Int] /\ DOMAIN all = 1..Len(all)
  <2> HIDE DEF all
  <2>1. DOMAIN all = 1..Len(all) /\ \A k \in 1..Len(all) : all[k] \in E
    <3> HIDE DEF E
    <3> QED
      BY <1>4, LenProperties, ElementOfSeq
  <2>2. \A k \in 1..Len(all) : all[k].timestamp \in Int
    BY <2>1 DEF EventsFrom
  <2> QED
    BY <2>1, <2>2
<1>6. Events(pairs) = [q \in DOMAIN all |-> all[Order(keys)[q]]]
  BY Zenon DEF Events, SortedBy
<1> HIDE DEF all, keys, E
<1>7. [q \in DOMAIN all |-> all[Order(keys)[q]]] \in Seq(E)
  BY <1>4, <1>5, SortedItems
<1> QED
  BY <1>6, <1>7 DEF E

\* What make_queue makes of an event (grinder.py:303-316), and its states.
CountEvent(s, e, step, zero) ==
  LET left == s.queue + e.increment
      window == [n |-> s.window.n + 1, x |-> s.window.x + e.timestamp - zero, y |-> s.window.y + left]
  IN  IF window.n = step
      THEN [queue |-> left, window |-> [n |-> 0, x |-> 0, y |-> 0], data |-> Append(s.data, window)]
      ELSE [s EXCEPT !.queue = left, !.window = window]

Windows == [n : Nat, x : Nat, y : Int]
QueueStates == [queue : Int, window : Windows, data : Seq(Windows)]

\* One event makes its window longer, or completes it.
LEMMA CountEventType ==
  ASSUME NEW zero \in Nat, NEW step \in Nat, NEW s \in QueueStates, NEW e \in EventsFrom(zero)
  PROVE  LET window == [n |-> s.window.n + 1, x |-> s.window.x + e.timestamp - zero, y |-> s.window.y + (s.queue + e.increment)]
             t == CountEvent(s, e, step, zero)
         IN  /\ window \in Windows /\ t \in QueueStates /\ t.queue = s.queue + e.increment
             /\ s.window.n + 1 = step =>
                  t.window = [n |-> 0, x |-> 0, y |-> 0] /\ t.data = Append(s.data, window)
             /\ s.window.n + 1 # step => t.window = window /\ t.data = s.data
<1> DEFINE left == s.queue + e.increment
           window == [n |-> s.window.n + 1, x |-> s.window.x + e.timestamp - zero, y |-> s.window.y + left]
           none == [n |-> 0, x |-> 0, y |-> 0]
           t == CountEvent(s, e, step, zero)
<1>1. /\ s.queue \in Int /\ s.window.n \in Nat /\ s.window.x \in Nat /\ s.window.y \in Int /\ s.data \in Seq(Windows)
      /\ s = [queue |-> s.queue, window |-> s.window, data |-> s.data]
  BY DEF QueueStates, Windows
<1>2. e.timestamp \in Nat /\ zero <= e.timestamp /\ e.increment \in Int
  BY DEF EventsFrom
<1>3. left \in Int /\ s.window.x + e.timestamp - zero \in Nat
  <2> DEFINE a == s.window.x
             b == e.timestamp
             q == s.queue
             d == e.increment
  <2>1. a \in Nat /\ b \in Nat /\ zero <= b /\ q \in Int /\ d \in Int
    BY <1>1, <1>2
  <2> HIDE DEF a, b, q, d
  <2>2. q + d \in Int /\ a + b - zero \in Nat
    BY <2>1
  <2> QED
    BY <2>2 DEF a, b, q, d
<1>4. window \in Windows /\ none \in Windows /\ window.n = s.window.n + 1
  <2> HIDE DEF left
  <2>1. s.window.y + left \in Int /\ s.window.n + 1 \in Nat
    BY <1>1, <1>3
  <2> QED
    BY <1>3, <2>1 DEF Windows
<1>5. t = IF window.n = step THEN [queue |-> left, window |-> none, data |-> Append(s.data, window)]
          ELSE [s EXCEPT !.queue = left, !.window = window]
  BY DEF CountEvent
<1> HIDE DEF t, window, none, left
<1>6. CASE s.window.n + 1 = step
  <2>1. t = [queue |-> left, window |-> none, data |-> Append(s.data, window)]
    BY <1>4, <1>5, <1>6
  <2>2. Append(s.data, window) \in Seq(Windows)
    BY <1>1, <1>4, AppendProperties
  <2>3. window \in Windows /\ t \in QueueStates /\ t.queue = left /\ t.window = none /\ t.data = Append(s.data, window)
    BY <1>3, <1>4, <2>1, <2>2 DEF QueueStates
  <2> QED
    BY <1>6, <2>3 DEF t, window, none, left
<1>7. CASE s.window.n + 1 # step
  <2>1. t = [s EXCEPT !.queue = left, !.window = window]
    BY <1>4, <1>5, <1>7
  <2>2. window \in Windows /\ t \in QueueStates /\ t.queue = left /\ t.window = window /\ t.data = s.data
    BY <1>1, <1>3, <1>4, <2>1 DEF QueueStates
  <2> QED
    BY <1>7, <2>2 DEF t, window, left
<1> QED
  BY <1>6, <1>7

\* make_queue takes the events one by one.
LEMMA QueueRuns ==
  ASSUME NEW pairs \in Seq(Seq(Nat)), NEW zero \in Nat, Events(pairs) \in Seq(EventsFrom(zero))
  PROVE  LET events == Events(pairs)
             N == Len(events)
             step == Step(Len(pairs))
         IN  \E g :
               /\ g[0] = [queue |-> 0, window |-> [n |-> 0, x |-> 0, y |-> 0], data |-> << >>]
               /\ \A k \in 0..N : g[k] \in QueueStates
               /\ \A k \in 1..N : g[k] = CountEvent(g[k - 1], events[k], step, zero)
               /\ MakeQueue(pairs, zero) =
                    IF g[N].window.n # 0 THEN Append(g[N].data, g[N].window) ELSE g[N].data
<1> DEFINE events == Events(pairs)
           N == Len(events)
           step == Step(Len(pairs))
           first == [queue |-> 0, window |-> [n |-> 0, x |-> 0, y |-> 0], data |-> << >>]
           D == [k \in 1..N |-> [s \in QueueStates |-> CountEvent(s, events[k], step, zero)]]
           Turns(g) == g = [k \in 0..N |-> IF k = 0 THEN first ELSE CountEvent(g[k - 1], events[k], step, zero)]
<1>1. N \in Nat /\ \A k \in 1..N : events[k] \in EventsFrom(zero)
  <2> HIDE DEF events
  <2>1. events \in Seq(EventsFrom(zero))
    BY DEF events
  <2> QED
    BY <2>1, LenProperties, ElementOfSeq
<1>2. step \in Nat
  BY LenProperties, Strides
<1>3. first \in QueueStates
  <2>1. << >> \in Seq(Windows)
    BY EmptySeq
  <2> QED
    BY <2>1 DEF QueueStates, Windows
<1>4. \A s \in QueueStates, e \in EventsFrom(zero) : CountEvent(s, e, step, zero) \in QueueStates
  <2> HIDE DEF step
  <2> SUFFICES ASSUME NEW s \in QueueStates, NEW e \in EventsFrom(zero)
               PROVE  CountEvent(s, e, step, zero) \in QueueStates
    OBVIOUS
  <2> QED
    BY <1>2, CountEventType
<1> DEFINE g == CHOOSE g : Turns(g)
<1>5. LET s == g[N] IN
      MakeQueue(pairs, zero) = IF s.window.n # 0 THEN Append(s.data, s.window) ELSE s.data
  BY Zenon DEF MakeQueue, Loop, CountEvent
<1> HIDE DEF first, N, step, events
<1>6. PICK f : Runs(f, N, QueueStates, first, D)
  <2>1. D \in [1..N -> [QueueStates -> QueueStates]]
    BY <1>1, <1>4
  <2> HIDE DEF D, g
  <2> QED
    BY <1>1, <1>3, <2>1, LoopRuns
<1>7. Turns(f)
  <2> HIDE DEF g
  <2>1. f \in [0..N -> QueueStates] /\ f[0] = first /\ \A k \in 1..N : f[k] = D[k][f[k - 1]]
    BY <1>6 DEF Runs
  <2>2. ASSUME NEW k \in 1..N PROVE f[k] = CountEvent(f[k - 1], events[k], step, zero)
    <3>1. k - 1 \in 0..N
      BY <1>1
    <3>2. f[k - 1] \in QueueStates
      BY <2>1, <3>1
    <3> QED
      BY <2>1, <3>2
  <2>3. \A k \in 0..N : k = 0 \/ k \in 1..N
    BY <1>1
  <2>4. \A k \in 0..N : f[k] = IF k = 0 THEN first ELSE CountEvent(f[k - 1], events[k], step, zero)
    <3>1. \A k \in 1..N : k # 0
      OBVIOUS
    <3> QED
      BY <2>1, <2>2, <2>3, <3>1
  <2> QED
    BY <2>1, <2>4
<1>8. Turns(g)
  <2> HIDE DEF Turns
  <2> QED
    BY <1>7
<1> HIDE DEF g
<1>9. g[0] = first /\ \A k \in 1..N : g[k] = CountEvent(g[k - 1], events[k], step, zero)
  <2>1. 0 \in 0..N /\ \A k \in 1..N : k \in 0..N /\ k # 0
    BY <1>1
  <2> QED
    BY <1>8, <2>1
<1>10. \A k \in 0..N : g[k] \in QueueStates
  <2> DEFINE P == {k \in Nat : g[k] \in QueueStates}
  <2>1. 0 \in P
    BY <1>3, <1>9
  <2>2. ASSUME NEW k \in 1..N, k - 1 \in P PROVE k \in P
    <3>1. g[k - 1] \in QueueStates /\ k \in Nat
      BY <1>1, <2>2
    <3> QED
      BY <1>1, <1>4, <1>9, <3>1
  <2>3. P \in SUBSET Nat
    OBVIOUS
  <2> HIDE DEF P
  <2>4. 0..N \subseteq P
    BY <1>1, <2>1, <2>2, <2>3, Upwards
  <2> QED
    BY <2>4 DEF P
<1>11. \E h : /\ h[0] = first
              /\ \A k \in 0..N : h[k] \in QueueStates
              /\ \A k \in 1..N : h[k] = CountEvent(h[k - 1], events[k], step, zero)
              /\ MakeQueue(pairs, zero) = IF h[N].window.n # 0 THEN Append(h[N].data, h[N].window) ELSE h[N].data
  BY <1>5, <1>9, <1>10, Zenon
<1> QED
  BY <1>11, Zenon DEF first, N, step, events

\* make_queue returns whole windows and, at the end, what is left of one.
LEMMA QueueType ==
  ASSUME NEW pairs \in Seq(Seq(Nat)), NEW zero \in Nat, Events(pairs) \in Seq(EventsFrom(zero))
  PROVE  MakeQueue(pairs, zero) \in Seq(Windows)
<1> DEFINE N == Len(Events(pairs))
<1>1. PICK g :
        /\ \A k \in 0..N : g[k] \in QueueStates
        /\ MakeQueue(pairs, zero) = IF g[N].window.n # 0 THEN Append(g[N].data, g[N].window) ELSE g[N].data
  BY QueueRuns
<1>2. N \in 0..N
  BY LenProperties
<1> HIDE DEF N
<1>3. g[N].data \in Seq(Windows) /\ g[N].window \in Windows
  BY <1>1, <1>2 DEF QueueStates
<1>4. Append(g[N].data, g[N].window) \in Seq(Windows)
  BY <1>3, AppendProperties
<1> QED
  BY <1>1, <1>3, <1>4

\* NothingBeforeStart holds wherever the invariant does.
LEMMA NothingIsBeforeStart == GrinderInv => NothingBeforeStart
<1> SUFFICES ASSUME GrinderInv PROVE NothingBeforeStart
  OBVIOUS
<1>1. ASSUME NEW l \in DOMAIN counts, NEW p \in DOMAIN counts[l].values PROVE counts[l].values[p].x >= 0
  <2> DEFINE points == counts[l].values
             times == Shown(counts[l])
             zero == Zero(counts[l])
  <2>1. points = MakeCount(times, zero) /\ Drawn(counts[l])
    BY DEF GrinderInv, LinesDrawn, CountLine
  <2>2. /\ times \in Seq(Nat) /\ Len(times) \in Nat \ {0} /\ zero \in Nat /\ DOMAIN times = 1..Len(times)
        /\ \A k \in DOMAIN times : times[k] \in Nat /\ zero <= times[k]
    BY <2>1, ShownSorted
  <2> HIDE DEF points, times, zero
  <2>3. /\ points \in Seq([x : Int, y : Int])
        /\ \A q \in 1..Len(points) : points[q].y \in 1..Len(times) /\ points[q].x = times[points[q].y] - zero
    <3>1. Len(times) > 0
      BY <2>2
    <3> QED
      BY <2>1, <2>2, <3>1, CountPoints
  <2>4. p \in 1..Len(points)
    BY <1>1, <2>3, LenProperties DEF points
  <2> DEFINE y == points[p].y
  <2>5. y \in DOMAIN times /\ points[p].x = times[y] - zero
    BY <2>2, <2>3, <2>4
  <2> HIDE DEF y
  <2>6. points[p].x >= 0
    BY <2>2, <2>5
  <2> QED
    BY <2>6 DEF points
<1>2. ASSUME NEW l \in DOMAIN rates, NEW p \in DOMAIN rates[l].values PROVE rates[l].values[p].from >= 0
  <2> DEFINE bars == rates[l].values
             times == Shown(rates[l])
             zero == Zero(rates[l])
  <2>1. bars = MakeRate(times, zero) /\ Drawn(rates[l])
    BY DEF GrinderInv, LinesDrawn, RateLine
  <2>2. /\ times \in Seq(Nat) /\ Len(times) \in Nat \ {0} /\ zero \in Nat /\ DOMAIN times = 1..Len(times)
        /\ Sorted(times) /\ \A k \in DOMAIN times : times[k] \in Nat /\ zero <= times[k]
    BY <2>1, ShownSorted
  <2> HIDE DEF bars, times, zero
  <2>3. Len(times) > 0 /\ zero <= times[1]
    BY <2>2
  <2>4. BarsMeet(times, zero, bars, times[Len(times)])
    BY <2>1, <2>2, <2>3, RateBars
  <2>5. bars \in Seq(Bars) /\ \A b \in 1..Len(bars) : BarRight(times, zero, bars[b])
    BY <2>4 DEF BarsMeet
  <2>6. p \in 1..Len(bars)
    BY <1>2, <2>5, LenProperties DEF bars
  <2>7. 0 <= bars[p].from /\ bars[p] \in Bars
    BY <2>5, <2>6 DEF BarRight
  <2>8. bars[p].from >= 0
    BY <2>7 DEF Bars
  <2> QED
    BY <2>8 DEF bars
<1>3. ASSUME NEW l \in DOMAIN queue, NEW p \in DOMAIN queue[l].values PROVE queue[l].values[p].x >= 0
  <2> DEFINE points == queue[l].values
             pairs == Part(queue[l].input).pairs
             zero == Zero(queue[l])
  <2>1. points = MakeQueue(pairs, zero) /\ Drawn(queue[l])
    BY DEF GrinderInv, LinesDrawn, QueueLine
  <2>2. zero \in Nat /\ pairs \in Seq(Seq(Nat)) /\ Events(pairs) \in Seq(EventsFrom(zero))
    <3> DEFINE part == Part(queue[l].input)
    <3>1. SoundPart(part) /\ part.sends # << >> /\ zero \in Nat
      BY <2>1, ShownSorted
    <3>2. zero = part.sends[1] /\ pairs = part.pairs
      BY DEF Zero
    <3> HIDE DEF part, zero, pairs
    <3>3. part.pairs \in Seq(Seq(Nat))
      BY <3>1 DEF SoundPart
    <3> QED
      BY <3>1, <3>2, <3>3, EventsType
  <2> HIDE DEF points, pairs, zero
  <2>3. points \in Seq(Windows)
    BY <2>1, <2>2, QueueType
  <2>4. points[p] \in Windows
    BY <1>3, <2>3, LenProperties, ElementOfSeq DEF points
  <2>5. points[p].x >= 0
    BY <2>4 DEF Windows
  <2> QED
    BY <2>5 DEF points
<1> QED
  BY <1>1, <1>2, <1>3 DEF NothingBeforeStart

\* No chart shows anything before its start, for any report mig may write and any range,
\* whatever was lost or overtaken (grinder.py:427-440).
THEOREM NothingBefore == Spec => []NothingBeforeStart
BY LinesAreDrawn, NothingIsBeforeStart, PTL

-----------------------------------------------------------------------------
(* Events in the order of their time.                                      *)

\* What comes behind off[k - 1] others, and before off[k].
LEMMA OffsetPlaces ==
  ASSUME NEW n \in Nat, NEW len \in [1..n -> Nat], NEW off \in [0..n -> Nat],
         off[0] = 0, \A k \in 1..n : off[k] = off[k - 1] + len[k]
  PROVE  /\ \A k, m \in 0..n : k <= m => off[k] <= off[m]
         /\ \A p \in 1..off[n] : \E k \in 1..n : \E j \in 1..len[k] : p = off[k - 1] + j
<1>1. ASSUME NEW k \in 0..n PROVE \A m \in 0..n : k <= m => off[k] <= off[m]
  <2> DEFINE P == {m \in Nat : m \in 0..n /\ k <= m => off[k] <= off[m]}
  <2>1. 0 \in P
    BY <1>1
  <2>2. ASSUME NEW m \in 1..n, m - 1 \in P PROVE m \in P
    <3>1. m - 1 \in 0..n /\ m \in 0..n /\ m \in Nat
      OBVIOUS
    <3>2. off[m] = off[m - 1] + len[m] /\ off[m] \in Nat /\ off[m - 1] \in Nat /\ len[m] \in Nat /\ off[k] \in Nat
      BY <3>1
    <3>3. CASE k = m
      BY <3>1, <3>2, <3>3
    <3>4. CASE k # m
      <4>1. k <= m => k <= m - 1
        BY <3>4
      <4>2. k <= m - 1 => off[k] <= off[m - 1]
        BY <2>2, <3>1
      <4> QED
        BY <3>1, <3>2, <4>1, <4>2
    <3> QED
      BY <3>3, <3>4
  <2>3. P \in SUBSET Nat
    OBVIOUS
  <2>4. 0..n \subseteq P
    <3> HIDE DEF P
    <3> QED
      BY <2>1, <2>2, <2>3, Upwards
  <2> QED
    BY <2>4
<1>2. ASSUME NEW p \in 1..off[n] PROVE \E k \in 1..n : \E j \in 1..len[k] : p = off[k - 1] + j
  <2> DEFINE T == {k \in 0..n : p <= off[k]}
  <2>1. n \in T /\ T \in SUBSET Nat
    BY <1>2
  <2>2. PICK k \in T : \A m \in T : k <= m
    <3> HIDE DEF T
    <3> QED
      BY <2>1, Least
  <2>3. k \in 1..n /\ k - 1 \in 0..n /\ k - 1 \notin T
    <3>1. k # 0
      BY <1>2
    <3>2. k \in 1..n /\ k - 1 \in 0..n /\ ~(k <= k - 1)
      BY <3>1
    <3> HIDE DEF T
    <3> QED
      BY <2>2, <3>2
  <2>4. off[k - 1] < p /\ p <= off[k] /\ off[k] = off[k - 1] + len[k]
    BY <2>2, <2>3
  <2> DEFINE j == p - off[k - 1]
  <2>5. off[k - 1] \in Nat /\ len[k] \in Nat /\ p \in Nat
    BY <2>3
  <2>6. j \in 1..len[k] /\ p = off[k - 1] + j
    BY <2>4, <2>5
  <2> HIDE DEF j, T
  <2> QED
    BY <2>3, <2>6
<1> QED
  BY <1>1, <1>2

\* The pairs of a sound part.
SoundPairs(pairs) ==
  /\ pairs \in Seq(Seq(Nat)) /\ pairs # << >>
  /\ \A k \in DOMAIN pairs :
       /\ Len(pairs[k]) \in {1, 3} /\ pairs[k][1] \in Nat
       /\ IsAnswered(pairs[k]) => pairs[k][2] \in Nat /\ pairs[k][1] < pairs[k][2]
  /\ \A j, k \in DOMAIN pairs : j <= k => pairs[j][1] <= pairs[k][1]

\* The events of a pair, as make_queue lists them and as AllEvents has them.
EventsOf(pair) ==
  [j \in 1..Min({2, Len(pair)}) |-> [timestamp |-> pair[j], increment |-> IF j = 1 THEN 1 ELSE -1]]
Event(pairs, k, j) == <<pairs[k][j], IF j = 1 THEN 1 ELSE 0, k>>

AnyEvent == [timestamp : Nat, increment : {1, -1}]

\* A pair makes one event, or two when it was answered.
LEMMA PairEvents ==
  ASSUME NEW pairs, SoundPairs(pairs), NEW k \in DOMAIN pairs
  PROVE  LET m == IF IsAnswered(pairs[k]) THEN 2 ELSE 1
         IN  /\ EventsOf(pairs[k]) \in Seq(AnyEvent) /\ Len(EventsOf(pairs[k])) = m
             /\ \A j \in 1..m : /\ EventsOf(pairs[k])[j] = [timestamp |-> pairs[k][j], increment |-> IF j = 1 THEN 1 ELSE -1]
                                /\ pairs[k][j] \in Nat
<1> DEFINE pair == pairs[k]
           m == IF IsAnswered(pair) THEN 2 ELSE 1
<1>1. /\ Len(pair) \in {1, 3} /\ pair[1] \in Nat
      /\ IsAnswered(pair) => pair[2] \in Nat
  BY DEF SoundPairs
<1> HIDE DEF pair
<1>2. Min({2, Len(pair)}) = m
  <2>1. CASE Len(pair) = 1
    <3>1. Min({2, 1}) = 1
      BY DEF Min
    <3> QED
      BY <2>1, <3>1 DEF IsAnswered
  <2>2. CASE Len(pair) = 3
    <3>1. Min({2, 3}) = 2
      BY DEF Min
    <3> QED
      BY <2>2, <3>1 DEF IsAnswered
  <2> QED
    BY <1>1, <2>1, <2>2
<1>3. m \in Nat /\ \A j \in 1..m : pair[j] \in Nat
  <2>1. CASE IsAnswered(pair)
    <3>1. m = 2 /\ pair[1] \in Nat /\ pair[2] \in Nat
      BY <1>1, <2>1
    <3> HIDE DEF m
    <3>2. \A j \in 1..m : j = 1 \/ j = 2
      BY <3>1
    <3> QED
      BY <3>1, <3>2
  <2>2. CASE ~IsAnswered(pair)
    <3>1. m = 1 /\ pair[1] \in Nat
      BY <1>1, <2>2
    <3> HIDE DEF m
    <3>2. \A j \in 1..m : j = 1
      BY <3>1
    <3> QED
      BY <3>1, <3>2
  <2> QED
    BY <2>1, <2>2
<1> HIDE DEF m
<1>4. EventsOf(pair) = [j \in 1..m |-> [timestamp |-> pair[j], increment |-> IF j = 1 THEN 1 ELSE -1]]
  BY <1>2 DEF EventsOf
<1>5. EventsOf(pair) \in [1..m -> AnyEvent]
  BY <1>3, <1>4 DEF AnyEvent
<1>6. EventsOf(pair) \in Seq(AnyEvent) /\ Len(EventsOf(pair)) = m
  BY <1>3, <1>5, Tabulated
<1>7. \A j \in 1..m : EventsOf(pair)[j] = [timestamp |-> pair[j], increment |-> IF j = 1 THEN 1 ELSE -1]
  BY <1>4
<1> QED
  BY <1>3, <1>6, <1>7 DEF m, pair

\* d is e, or before it.
NotAfter(d, e) ==
  \/ d[1] < e[1]
  \/ (d[1] = e[1] /\ d[2] < e[2])
  \/ (d[1] = e[1] /\ d[2] = e[2] /\ d[3] <= e[3])

Triples == Nat \X {0, 1} \X Nat

\* E numbers the events of the pairs as make_queue goes through them.
Enumerates(E, pairs) ==
  LET N == Len(Events(pairs)) IN
  /\ N \in Nat
  /\ \A i \in 1..N :
       /\ E[i] \in AllEvents(pairs) /\ E[i] \in Triples
       /\ Events(pairs)[i] = [timestamp |-> E[i][1], increment |-> IF E[i][2] = 1 THEN 1 ELSE -1]
  /\ \A i, j \in 1..N : i < j => NotAfter(E[i], E[j]) /\ ~NotAfter(E[j], E[i])
  /\ \A e \in AllEvents(pairs) : \E i \in 1..N : E[i] = e

\* The j-th event of pair k and the m-th of pair l, which comes later or in the same
\* tick behind it in the list: a reply is never in the tick of its own query or before
\* that of a later one, so it is first in its tick.
LEMMA EventPairOrder ==
  ASSUME NEW pairs, SoundPairs(pairs), NEW k \in DOMAIN pairs, NEW l \in DOMAIN pairs,
         NEW j \in {1, 2}, NEW m \in {1, 2}, j = 2 => IsAnswered(pairs[k]), m = 2 => IsAnswered(pairs[l]),
         \/ pairs[k][j] < pairs[l][m]
         \/ pairs[k][j] = pairs[l][m] /\ (k < l \/ (k = l /\ j < m))
  PROVE  NotAfter(Event(pairs, k, j), Event(pairs, l, m)) /\ ~NotAfter(Event(pairs, l, m), Event(pairs, k, j))
<1> DEFINE t == pairs[k][j]
           u == pairs[l][m]
           a == IF j = 1 THEN 1 ELSE 0
           b == IF m = 1 THEN 1 ELSE 0
<1>1. /\ pairs[k][1] \in Nat /\ pairs[l][1] \in Nat /\ k \in Nat /\ l \in Nat
      /\ k <= l => pairs[k][1] <= pairs[l][1]
      /\ m = 2 => pairs[l][2] \in Nat /\ pairs[l][1] < pairs[l][2]
      /\ j = 2 => pairs[k][2] \in Nat
  <2>1. DOMAIN pairs = 1..Len(pairs) /\ Len(pairs) \in Nat
    BY LenProperties DEF SoundPairs
  <2>2. k \in Nat /\ l \in Nat
    BY <2>1
  <2>3. /\ pairs[k][1] \in Nat /\ pairs[l][1] \in Nat
        /\ k <= l => pairs[k][1] <= pairs[l][1]
        /\ IsAnswered(pairs[l]) => pairs[l][2] \in Nat /\ pairs[l][1] < pairs[l][2]
        /\ IsAnswered(pairs[k]) => pairs[k][2] \in Nat
    BY DEF SoundPairs
  <2> QED
    BY <2>2, <2>3
<1>2. t \in Nat /\ u \in Nat /\ a \in {0, 1} /\ b \in {0, 1}
  BY <1>1
<1>3. t = u => a < b \/ (a = b /\ k < l)
  <2>1. CASE j = 1 /\ m = 2
    <3>1. k <= l => t < u
      BY <1>1, <2>1
    <3>2. t = u => k <= l
      BY <1>1, <1>2
    <3> QED
      BY <1>2, <3>1, <3>2
  <2>2. CASE j = 2 /\ m = 1
    BY <2>2
  <2>3. CASE j = m
    <3>1. a = b
      BY <2>3
    <3>2. t = u => k < l
      BY <1>1, <1>2, <2>3
    <3> QED
      BY <3>1, <3>2
  <2> QED
    BY <2>1, <2>2, <2>3
<1>4. t < u \/ t = u
  OBVIOUS
<1>5. Event(pairs, k, j) = <<t, a, k>> /\ Event(pairs, l, m) = <<u, b, l>>
  BY DEF Event
<1> HIDE DEF t, u, a, b
<1>6. NotAfter(<<t, a, k>>, <<u, b, l>>) /\ ~NotAfter(<<u, b, l>>, <<t, a, k>>)
  <2>1. a \in Int /\ b \in Int /\ k \in Int /\ l \in Int /\ t \in Int /\ u \in Int
    BY <1>1, <1>2
  <2> QED
    BY <1>3, <1>4, <2>1 DEF NotAfter
<1> QED
  BY <1>5, <1>6

\* The sorted events are all sends and replies, each once, in their order: the i-th has i up to it.
LEMMA EventsNumbered ==
  ASSUME NEW pairs, SoundPairs(pairs)
  PROVE  \E E : Enumerates(E, pairs)
<1> DEFINE n == Len(pairs)
           M(k) == IF IsAnswered(pairs[k]) THEN 2 ELSE 1
           seqs == [k \in DOMAIN pairs |-> EventsOf(pairs[k])]
           flat == FlattenSeq(seqs)
           N == Len(flat)
           keys == [p \in DOMAIN flat |-> flat[p].timestamp]
           O == Order(keys)
<1>1. n \in Nat \ {0} /\ DOMAIN pairs = 1..n
  BY LenProperties, EmptySeq DEF SoundPairs
<1>2. ASSUME NEW k \in 1..n
      PROVE  /\ seqs[k] = EventsOf(pairs[k]) /\ seqs[k] \in Seq(AnyEvent) /\ Len(seqs[k]) = M(k)
             /\ \A j \in 1..M(k) : /\ seqs[k][j] = [timestamp |-> pairs[k][j], increment |-> IF j = 1 THEN 1 ELSE -1]
                                   /\ pairs[k][j] \in Nat
  <2>1. k \in DOMAIN pairs /\ seqs[k] = EventsOf(pairs[k])
    BY <1>1
  <2> HIDE DEF seqs
  <2> QED
    BY <2>1, PairEvents
<1>3. seqs \in Seq(Seq(AnyEvent)) /\ Len(seqs) = n /\ \A k \in 1..n : M(k) \in Nat
  <2>1. seqs \in [1..n -> Seq(AnyEvent)]
    BY <1>1, <1>2
  <2> HIDE DEF seqs, n
  <2> QED
    BY <1>1, <2>1, Tabulated
<1>4. Events(pairs) = [p \in DOMAIN flat |-> flat[O[p]]]
  BY Zenon DEF Events, SortedBy, EventsOf
<1> HIDE DEF seqs, n
<1>5. flat \in Seq(AnyEvent) /\ N \in Nat /\ DOMAIN flat = 1..N /\ \A p \in 1..N : flat[p] \in AnyEvent
  <2>1. flat \in Seq(AnyEvent)
    BY <1>3, Flattened
  <2> HIDE DEF flat
  <2> QED
    BY <2>1, LenProperties, ElementOfSeq
<1>6. PICK off : Offsets(off, seqs, flat)
  <2>1. Len(seqs) # 0
    BY <1>1, <1>3
  <2> QED
    BY <1>3, <2>1, FlattenPlaces
<1> HIDE DEF flat, N
<1>7. /\ off \in [0..n -> Nat] /\ off[0] = 0 /\ N = off[n]
      /\ \A k \in 1..n : off[k] = off[k - 1] + M(k)
      /\ \A k \in 1..n : \A j \in 1..M(k) : flat[off[k - 1] + j] = [timestamp |-> pairs[k][j], increment |-> IF j = 1 THEN 1 ELSE -1]
  <2>1. /\ off \in [0..n -> Nat] /\ off[0] = 0 /\ N = off[n]
        /\ \A k \in 1..n : off[k] = off[k - 1] + Len(seqs[k])
        /\ \A k \in 1..n : \A j \in 1..Len(seqs[k]) : flat[off[k - 1] + j] = seqs[k][j]
    BY <1>3, <1>6 DEF Offsets, N
  <2>2. \A k \in 1..n : Len(seqs[k]) = M(k)
    BY <1>2
  <2>3. \A k \in 1..n : \A j \in 1..M(k) : seqs[k][j] = [timestamp |-> pairs[k][j], increment |-> IF j = 1 THEN 1 ELSE -1]
    BY <1>2
  <2> HIDE DEF M
  <2>4. \A k \in 1..n : off[k] = off[k - 1] + M(k)
    BY <2>1, <2>2
  <2>5. ASSUME NEW k \in 1..n, NEW j \in 1..M(k)
        PROVE  flat[off[k - 1] + j] = [timestamp |-> pairs[k][j], increment |-> IF j = 1 THEN 1 ELSE -1]
    <3>1. flat[off[k - 1] + j] = seqs[k][j]
      BY <2>1, <2>2
    <3> QED
      BY <2>3, <3>1
  <2> QED
    BY <2>1, <2>4, <2>5
<1>8. /\ \A k, m \in 0..n : k <= m => off[k] <= off[m]
      /\ \A p \in 1..N : \E k \in 1..n : \E j \in 1..M(k) : p = off[k - 1] + j
  <2> DEFINE len == [k \in 1..n |-> M(k)]
  <2>1. n \in Nat /\ len \in [1..n -> Nat] /\ \A k \in 1..n : len[k] = M(k)
    BY <1>1, <1>3
  <2> HIDE DEF len, M
  <2>2. \A k \in 1..n : off[k] = off[k - 1] + len[k]
    BY <1>7, <2>1
  <2>3. \A k, m \in 0..n : k <= m => off[k] <= off[m]
    BY <1>7, <2>1, <2>2, OffsetPlaces
  <2>4. \A p \in 1..off[n] : \E k \in 1..n : \E j \in 1..len[k] : p = off[k - 1] + j
    BY <1>7, <2>1, <2>2, OffsetPlaces
  <2> QED
    BY <1>7, <2>1, <2>3, <2>4
<1>9. keys \in [1..N -> Int] /\ \A p \in 1..N : keys[p] = flat[p].timestamp
  BY <1>5 DEF AnyEvent
<1> HIDE DEF keys
<1>10. /\ O \in [1..N -> 1..N]
       /\ \A i, j \in 1..N : i < j => keys[O[i]] < keys[O[j]] \/ (keys[O[i]] = keys[O[j]] /\ O[i] < O[j])
       /\ \A a \in 1..N : \E i \in 1..N : O[i] = a
  BY <1>5, <1>9, OrderPlaces
<1> HIDE DEF O
<1>11. Len(Events(pairs)) = N /\ \A i \in 1..N : Events(pairs)[i] = flat[O[i]]
  <2>1. Events(pairs) = [p \in 1..N |-> flat[O[p]]]
    BY <1>4, <1>5
  <2>2. Events(pairs) \in [1..N -> AnyEvent]
    BY <1>5, <1>10, <2>1
  <2> QED
    BY <1>5, <2>1, <2>2, Tabulated
<1> DEFINE At(p, k, j) == k \in 1..n /\ j \in 1..M(k) /\ p = off[k - 1] + j
           Is(e, p) == \E k, j : At(p, k, j) /\ e = Event(pairs, k, j)
           E == [i \in 1..N |-> CHOOSE e : Is(e, O[i])]
<1>12. ASSUME NEW i \in 1..N PROVE \E k, j : At(O[i], k, j) /\ E[i] = Event(pairs, k, j)
  <2>1. \E e : Is(e, O[i])
    <3>1. O[i] \in 1..N
      BY <1>10
    <3>2. PICK k \in 1..n : \E j \in 1..M(k) : O[i] = off[k - 1] + j
      BY <1>8, <3>1
    <3>3. PICK j \in 1..M(k) : O[i] = off[k - 1] + j
      BY <3>2
    <3>4. At(O[i], k, j)
      BY <3>3
    <3> HIDE DEF At
    <3> QED
      BY <3>4
  <2>2. Is(E[i], O[i])
    <3> HIDE DEF Is
    <3> QED
      BY <2>1
  <2> HIDE DEF E
  <2> QED
    BY <2>2
<1> HIDE DEF E
<1>13. ASSUME NEW p, NEW k, NEW j, At(p, k, j)
       PROVE  /\ k \in DOMAIN pairs /\ j \in {1, 2} /\ (j = 2 => IsAnswered(pairs[k])) /\ pairs[k][j] \in Nat /\ k \in Nat
              /\ p \in Nat /\ p <= N
              /\ flat[p] = [timestamp |-> pairs[k][j], increment |-> IF j = 1 THEN 1 ELSE -1]
              /\ off[k - 1] < p /\ p <= off[k] /\ off[k] = off[k - 1] + M(k) /\ off[k] \in Nat /\ off[k - 1] \in Nat
  <2>1. k \in 1..n /\ j \in 1..M(k) /\ p = off[k - 1] + j
    BY <1>13
  <2>2. M(k) \in {1, 2} /\ (M(k) = 2 => IsAnswered(pairs[k]))
    OBVIOUS
  <2> HIDE DEF M
  <2>3. j \in {1, 2} /\ (j = 2 => IsAnswered(pairs[k])) /\ j <= M(k)
    <3>1. j = 1 \/ (j = 2 /\ M(k) = 2)
      BY <2>1, <2>2
    <3> QED
      BY <2>2, <3>1
  <2>4. off[k] = off[k - 1] + M(k) /\ off[k] \in Nat /\ off[k - 1] \in Nat /\ off[k] <= N
    <3>1. k \in 0..n /\ k - 1 \in 0..n /\ n \in 0..n /\ k <= n
      BY <1>1, <2>1
    <3> QED
      BY <1>7, <1>8, <2>1, <3>1
  <2>5. pairs[k][j] \in Nat
    BY <1>2, <2>1
  <2>6. flat[p] = [timestamp |-> pairs[k][j], increment |-> IF j = 1 THEN 1 ELSE -1]
    BY <1>7, <2>1
  <2>7. p \in Nat /\ off[k - 1] < p /\ p <= off[k]
    BY <2>1, <2>2, <2>3, <2>4
  <2>8. k \in DOMAIN pairs /\ k \in Nat
    BY <1>1, <2>1
  <2>9. p <= N
    BY <1>5, <2>4, <2>7
  <2> QED
    BY <2>3, <2>4, <2>5, <2>6, <2>7, <2>8, <2>9, Zenon
<1>14. ASSUME NEW i \in 1..N
       PROVE  /\ E[i] \in AllEvents(pairs) /\ E[i] \in Triples
              /\ Events(pairs)[i] = [timestamp |-> E[i][1], increment |-> IF E[i][2] = 1 THEN 1 ELSE -1]
  <2>1. PICK k, j : At(O[i], k, j) /\ E[i] = Event(pairs, k, j)
    BY <1>12
  <2> HIDE DEF At
  <2>2. /\ k \in DOMAIN pairs /\ j \in {1, 2} /\ (j = 2 => IsAnswered(pairs[k])) /\ pairs[k][j] \in Nat /\ k \in Nat
        /\ flat[O[i]] = [timestamp |-> pairs[k][j], increment |-> IF j = 1 THEN 1 ELSE -1]
    BY <1>13, <2>1
  <2> DEFINE b == IF j = 1 THEN 1 ELSE 0
             t == pairs[k][j]
  <2>3. E[i] = <<t, b, k>> /\ b \in {0, 1} /\ (b = 1 <=> j = 1)
    BY <2>1, <2>2 DEF Event
  <2>4. E[i] \in AllEvents(pairs)
    <3>1. CASE j = 1
      BY <2>2, <2>3, <3>1 DEF AllEvents
    <3>2. CASE j = 2
      <4>1. k \in {l \in DOMAIN pairs : IsAnswered(pairs[l])}
        BY <2>2, <3>2
      <4>2. E[i] = <<pairs[k][2], 0, k>>
        BY <2>3, <3>2
      <4> QED
        BY <4>1, <4>2 DEF AllEvents
    <3> QED
      BY <2>2, <3>1, <3>2
  <2>5. Events(pairs)[i] = [timestamp |-> t, increment |-> IF j = 1 THEN 1 ELSE -1]
    BY <1>11, <2>2
  <2>6. t \in Nat
    BY <2>2
  <2> HIDE DEF t, b
  <2>7. E[i] \in Triples
    BY <2>2, <2>3, <2>6 DEF Triples
  <2>8. E[i][1] = t /\ (E[i][2] = 1 <=> j = 1)
    BY <2>3
  <2> QED
    BY <2>4, <2>5, <2>7, <2>8
<1>15. ASSUME NEW i \in 1..N, NEW h \in 1..N, i < h
       PROVE  NotAfter(E[i], E[h]) /\ ~NotAfter(E[h], E[i])
  <2>1. PICK k, j : At(O[i], k, j) /\ E[i] = Event(pairs, k, j)
    BY <1>12
  <2>2. PICK l, m : At(O[h], l, m) /\ E[h] = Event(pairs, l, m)
    BY <1>12
  <2>3. j = m /\ k = l => O[i] = O[h]
    BY <2>1, <2>2
  <2>4. k = l => (O[i] < O[h] => j < m)
    <3>1. k \in 1..n /\ j \in 1..M(k) /\ O[i] = off[k - 1] + j /\ m \in 1..M(l) /\ O[h] = off[l - 1] + m
      BY <2>1, <2>2
    <3>2. off[k - 1] \in Nat /\ M(k) \in Nat /\ M(l) \in Nat
      <4>1. k - 1 \in 0..n
        BY <1>1, <3>1
      <4> QED
        BY <1>7, <4>1
    <3> HIDE DEF M, At
    <3> QED
      BY <3>1, <3>2
  <2> HIDE DEF At
  <2>5. /\ k \in DOMAIN pairs /\ j \in {1, 2} /\ (j = 2 => IsAnswered(pairs[k])) /\ pairs[k][j] \in Nat /\ k \in Nat
        /\ flat[O[i]] = [timestamp |-> pairs[k][j], increment |-> IF j = 1 THEN 1 ELSE -1]
        /\ off[k - 1] < O[i] /\ O[i] <= off[k] /\ off[k] \in Nat /\ off[k - 1] \in Nat
    BY <1>13, <2>1
  <2>6. /\ l \in DOMAIN pairs /\ m \in {1, 2} /\ (m = 2 => IsAnswered(pairs[l])) /\ pairs[l][m] \in Nat /\ l \in Nat
        /\ flat[O[h]] = [timestamp |-> pairs[l][m], increment |-> IF m = 1 THEN 1 ELSE -1]
        /\ off[l - 1] < O[h] /\ O[h] <= off[l] /\ off[l] \in Nat /\ off[l - 1] \in Nat
    BY <1>13, <2>2
  <2>7. O[i] \in 1..N /\ O[h] \in 1..N
    BY <1>10
  <2>8. keys[O[i]] = pairs[k][j] /\ keys[O[h]] = pairs[l][m]
    <3>1. keys[O[i]] = flat[O[i]].timestamp /\ keys[O[h]] = flat[O[h]].timestamp
      BY <1>9, <2>7
    <3>2. flat[O[i]].timestamp = pairs[k][j]
      BY <2>5
    <3>3. flat[O[h]].timestamp = pairs[l][m]
      BY <2>6
    <3> QED
      BY <3>1, <3>2, <3>3
  <2>9. pairs[k][j] < pairs[l][m] \/ (pairs[k][j] = pairs[l][m] /\ O[i] < O[h])
    BY <1>10, <1>15, <2>8
  <2>10. O[i] < O[h] => k < l \/ (k = l /\ j < m)
    <3>1. ASSUME l < k, O[i] < O[h] PROVE FALSE
      <4>1. l \in 0..n /\ k - 1 \in 0..n /\ l <= k - 1
        BY <1>1, <2>5, <2>6, <3>1
      <4>2. off[l] <= off[k - 1]
        BY <1>8, <4>1
      <4> QED
        BY <2>5, <2>6, <2>7, <3>1, <4>2
    <3> QED
      BY <2>4, <2>5, <2>6, <3>1
  <2>11. \/ pairs[k][j] < pairs[l][m]
         \/ pairs[k][j] = pairs[l][m] /\ (k < l \/ (k = l /\ j < m))
    BY <2>9, <2>10
  <2>12. NotAfter(Event(pairs, k, j), Event(pairs, l, m)) /\ ~NotAfter(Event(pairs, l, m), Event(pairs, k, j))
    BY <2>5, <2>6, <2>11, EventPairOrder
  <2> QED
    BY <2>1, <2>2, <2>12
<1>16. ASSUME NEW e \in AllEvents(pairs) PROVE \E i \in 1..N : E[i] = e
  <2>1. \E k \in 1..n : \E j \in 1..M(k) : e = Event(pairs, k, j)
    <3>1. CASE e \in {<<pairs[k][1], 1, k>> : k \in DOMAIN pairs}
      <4>1. PICK k \in DOMAIN pairs : e = <<pairs[k][1], 1, k>>
        BY <3>1
      <4>2. e = Event(pairs, k, 1) /\ 1 \in 1..M(k) /\ k \in 1..n
        BY <1>1, <4>1 DEF Event
      <4> HIDE DEF M
      <4> QED
        BY <4>2
    <3>2. CASE e \in {<<pairs[k][2], 0, k>> : k \in {l \in DOMAIN pairs : IsAnswered(pairs[l])}}
      <4>1. PICK k \in DOMAIN pairs : IsAnswered(pairs[k]) /\ e = <<pairs[k][2], 0, k>>
        BY <3>2
      <4>2. e = Event(pairs, k, 2) /\ 2 \in 1..M(k) /\ k \in 1..n
        BY <1>1, <4>1 DEF Event
      <4> HIDE DEF M
      <4> QED
        BY <4>2
    <3> QED
      BY <3>1, <3>2 DEF AllEvents
  <2>2. PICK k, j : k \in 1..n /\ j \in 1..M(k) /\ e = Event(pairs, k, j)
    BY <2>1
  <2> DEFINE p == off[k - 1] + j
  <2>3. At(p, k, j)
    BY <2>2
  <2>4. p \in Nat /\ p <= N /\ off[k - 1] < p /\ off[k - 1] \in Nat
    <3> HIDE DEF At, p
    <3> QED
      BY <1>13, <2>3
  <2>5. p \in 1..N
    <3> HIDE DEF At, p
    <3> QED
      BY <1>5, <2>4
  <2>6. PICK i \in 1..N : O[i] = p
    BY <1>10, <2>5
  <2>7. PICK l, m : At(p, l, m) /\ E[i] = Event(pairs, l, m)
    BY <1>12, <2>6
  <2>8. l = k
    <3>1. off[k - 1] < p /\ p <= off[k] /\ off[l - 1] < p /\ p <= off[l] /\ k \in 1..n /\ l \in 1..n /\ p \in Nat
      <4>1. l \in 1..n /\ k \in 1..n
        BY <2>2, <2>7
      <4> HIDE DEF At, p
      <4>2. p \in Nat /\ off[k - 1] < p /\ p <= off[k]
        BY <1>13, <2>3
      <4>3. off[l - 1] < p /\ p <= off[l]
        BY <1>13, <2>7
      <4> QED
        BY <4>1, <4>2, <4>3
    <3>2. k - 1 \in 0..n /\ k \in 0..n /\ l - 1 \in 0..n /\ l \in 0..n
      BY <1>1, <3>1
    <3>3. off[k - 1] \in Nat /\ off[k] \in Nat /\ off[l - 1] \in Nat /\ off[l] \in Nat
      BY <1>7, <3>2
    <3> HIDE DEF At, p
    <3>4. ~(l <= k - 1)
      BY <1>8, <3>1, <3>2, <3>3
    <3>5. ~(k <= l - 1)
      BY <1>8, <3>1, <3>2, <3>3
    <3> QED
      BY <3>1, <3>4, <3>5
  <2>9. m = j
    <3>1. p = off[k - 1] + m /\ m \in 1..M(k)
      <4> HIDE DEF p, M
      <4> QED
        BY <2>7, <2>8
    <3>2. p = off[k - 1] + j /\ j \in 1..M(k)
      BY <2>2
    <3>3. M(k) \in Nat
      OBVIOUS
    <3> HIDE DEF At, M, p
    <3> QED
      BY <2>4, <3>1, <3>2, <3>3
  <2> QED
    BY <2>2, <2>7, <2>8, <2>9
<1>17. Enumerates(E, pairs)
  BY <1>5, <1>11, <1>14, <1>15, <1>16 DEF Enumerates
<1> QED
  BY <1>17

\* air[i] queries are in the air after the i-th event.
Airs(air, pairs) ==
  LET N == Len(Events(pairs))
      events == AllEvents(pairs)
  IN  /\ N \in Nat /\ Cardinality(events) = N
      /\ air \in [0..N -> Int] /\ air[0] = 0
      /\ \A i \in 1..N : /\ air[i] = air[i - 1] + Events(pairs)[i].increment
                         /\ NthEvent(events, i)[1] = Events(pairs)[i].timestamp
                         /\ InAir(events, NthEvent(events, i)) = air[i]

\* The sum of the first i increments is what is in the air at the i-th event.
LEMMA EventsInAir ==
  ASSUME NEW pairs, SoundPairs(pairs)
  PROVE  \E air : Airs(air, pairs)
<1> DEFINE N == Len(Events(pairs))
           events == AllEvents(pairs)
<1>1. PICK E : Enumerates(E, pairs)
  BY EventsNumbered
<1>2. /\ N \in Nat
      /\ \A i \in 1..N : /\ E[i] \in events /\ E[i] \in Triples
                         /\ Events(pairs)[i] = [timestamp |-> E[i][1], increment |-> IF E[i][2] = 1 THEN 1 ELSE -1]
      /\ \A i, j \in 1..N : i < j => NotAfter(E[i], E[j]) /\ ~NotAfter(E[j], E[i])
      /\ \A e \in events : \E i \in 1..N : E[i] = e
  BY <1>1 DEF Enumerates
<1> DEFINE First(i) == {E[h] : h \in 1..i}
           Sent(i) == {d \in First(i) : d[2] = 1}
           Answered(i) == {d \in First(i) : d[2] = 0}
           air == [i \in 0..N |-> Cardinality(Sent(i)) - Cardinality(Answered(i))]
<1> HIDE DEF events, N
<1>3. ASSUME NEW i \in 1..N PROVE NotAfter(E[i], E[i])
  <2>1. PICK a, b, c : E[i] = <<a, b, c>> /\ c \in Nat
    <3>1. E[i] \in Nat \X {0, 1} \X Nat
      BY <1>2 DEF Triples
    <3> QED
      BY <3>1
  <2> QED
    BY <2>1 DEF NotAfter
<1>4. ASSUME NEW i \in 1..N PROVE First(i) = First(i - 1) \cup {E[i]} /\ E[i] \notin First(i - 1)
  <2>1. 1..i = (1..(i - 1)) \cup {i}
    BY <1>2
  <2>2. First(i) = First(i - 1) \cup {E[i]}
    BY <2>1
  <2>3. ASSUME NEW h \in 1..(i - 1) PROVE E[h] # E[i]
    <3>1. h \in 1..N /\ h < i
      BY <1>2
    <3>2. ~NotAfter(E[i], E[h]) /\ NotAfter(E[i], E[i])
      BY <1>2, <1>3, <3>1
    <3> QED
      BY <3>2
  <2> QED
    BY <2>2, <2>3
<1>5. \A i \in 0..N : IsFiniteSet(First(i)) /\ Cardinality(First(i)) = i
  <2> DEFINE P == {i \in Nat : IsFiniteSet(First(i)) /\ Cardinality(First(i)) = i}
  <2>1. 0 \in P
    <3>1. First(0) = {}
      OBVIOUS
    <3> HIDE DEF First
    <3> QED
      BY <3>1, FS_EmptySet
  <2>2. ASSUME NEW i \in 1..N, i - 1 \in P PROVE i \in P
    <3>1. i \in Nat /\ i - 1 \in Nat
      BY <1>2
    <3> HIDE DEF First
    <3>2. IsFiniteSet(First(i - 1)) /\ Cardinality(First(i - 1)) = i - 1
      BY <2>2
    <3>3. /\ IsFiniteSet(First(i - 1) \cup {E[i]})
          /\ Cardinality(First(i - 1) \cup {E[i]}) = Cardinality(First(i - 1)) + 1
      BY <1>4, <3>2, FS_AddElement
    <3>4. IsFiniteSet(First(i)) /\ Cardinality(First(i)) = i
      BY <1>4, <3>1, <3>2, <3>3
    <3> QED
      BY <3>1, <3>4
  <2>3. P \in SUBSET Nat
    OBVIOUS
  <2>4. 0..N \subseteq P
    <3> HIDE DEF P
    <3> QED
      BY <1>2, <2>1, <2>2, <2>3, Upwards
  <2> HIDE DEF First
  <2> QED
    BY <2>4
<1>6. ASSUME NEW i \in 1..N PROVE UpTo(events, E[i]) = First(i)
  <2>1. ASSUME NEW d \in First(i) PROVE d \in events /\ NotAfter(d, E[i])
    <3>1. PICK h \in 1..i : d = E[h]
      BY <2>1
    <3>2. h \in 1..N /\ (h = i \/ h < i)
      BY <1>2, <3>1
    <3> QED
      BY <1>2, <1>3, <3>1, <3>2
  <2>2. ASSUME NEW d \in events, NotAfter(d, E[i]) PROVE d \in First(i)
    <3>1. PICK h \in 1..N : E[h] = d
      BY <1>2
    <3>2. ~(i < h)
      BY <1>2, <2>2, <3>1
    <3>3. h \in 1..i
      BY <1>2, <3>2
    <3> QED
      BY <3>1, <3>3
  <2>3. UpTo(events, E[i]) = {d \in events : NotAfter(d, E[i])}
    BY DEF UpTo, NotAfter
  <2> HIDE DEF First
  <2> QED
    BY <2>1, <2>2, <2>3
<1>7. Cardinality(events) = N
  <2>1. events = First(N)
    <3>1. \A e \in events : e \in First(N)
      BY <1>2
    <3>2. ASSUME NEW e \in First(N) PROVE e \in events
      <4>1. PICK h \in 1..N : e = E[h]
        BY <3>2
      <4>2. E[h] \in events
        BY <1>2
      <4> QED
        BY <4>1, <4>2
    <3> HIDE DEF First
    <3> QED
      BY <3>1, <3>2
  <2>2. N \in 0..N
    BY <1>2
  <2> HIDE DEF First
  <2> QED
    BY <1>5, <2>1, <2>2
<1>8. ASSUME NEW i \in 1..N PROVE NthEvent(events, i) = E[i]
  <2>1. \A h \in 1..N : Cardinality(UpTo(events, E[h])) = h
    <3>1. \A h \in 1..N : h \in 0..N
      BY <1>2
    <3> HIDE DEF First
    <3> QED
      BY <1>5, <1>6, <3>1
  <2>2. \A e \in events : Cardinality(UpTo(events, e)) = i <=> e = E[i]
    BY <1>2, <2>1
  <2> QED
    BY <1>2, <2>2 DEF NthEvent
<1>9. ASSUME NEW i \in 0..N
      PROVE  /\ IsFiniteSet(Sent(i)) /\ Cardinality(Sent(i)) \in Nat
             /\ IsFiniteSet(Answered(i)) /\ Cardinality(Answered(i)) \in Nat
  <2>1. IsFiniteSet(First(i))
    BY <1>5
  <2> HIDE DEF First
  <2> QED
    BY <2>1, FS_Subset, FS_CardinalityType
<1>10. ASSUME NEW i \in 1..N
       PROVE  /\ E[i][2] = 1 => Cardinality(Sent(i)) = Cardinality(Sent(i - 1)) + 1 /\ Answered(i) = Answered(i - 1)
              /\ E[i][2] # 1 => Cardinality(Answered(i)) = Cardinality(Answered(i - 1)) + 1 /\ Sent(i) = Sent(i - 1)
  <2>1. E[i][2] \in {0, 1}
    BY <1>2 DEF Triples
  <2>2. First(i) = First(i - 1) \cup {E[i]} /\ E[i] \notin First(i - 1)
    BY <1>4
  <2>3. i - 1 \in 0..N
    BY <1>2
  <2>4. IsFiniteSet(Sent(i - 1)) /\ IsFiniteSet(Answered(i - 1))
    BY <1>9, <2>3
  <2> HIDE DEF First
  <2>5. CASE E[i][2] = 1
    <3>1. Sent(i) = Sent(i - 1) \cup {E[i]} /\ Answered(i) = Answered(i - 1) /\ E[i] \notin Sent(i - 1)
      BY <2>2, <2>5
    <3> HIDE DEF Sent, Answered
    <3>2. Cardinality(Sent(i - 1) \cup {E[i]}) = Cardinality(Sent(i - 1)) + 1
      BY <2>4, <3>1, FS_AddElement
    <3> QED
      BY <2>5, <3>1, <3>2
  <2>6. CASE E[i][2] = 0
    <3>1. Answered(i) = Answered(i - 1) \cup {E[i]} /\ Sent(i) = Sent(i - 1) /\ E[i] \notin Answered(i - 1)
      BY <2>2, <2>6
    <3> HIDE DEF Sent, Answered
    <3>2. Cardinality(Answered(i - 1) \cup {E[i]}) = Cardinality(Answered(i - 1)) + 1
      BY <2>4, <3>1, FS_AddElement
    <3> QED
      BY <2>6, <3>1, <3>2
  <2> QED
    BY <2>1, <2>5, <2>6
<1>11. ASSUME NEW i \in 1..N
       PROVE  Events(pairs)[i].timestamp = E[i][1] /\ Events(pairs)[i].increment = IF E[i][2] = 1 THEN 1 ELSE -1
  <2> DEFINE b == IF E[i][2] = 1 THEN 1 ELSE -1
  <2>1. Events(pairs)[i] = [timestamp |-> E[i][1], increment |-> b]
    BY <1>2
  <2> HIDE DEF b
  <2>2. Events(pairs)[i].timestamp = E[i][1] /\ Events(pairs)[i].increment = b
    BY <2>1
  <2> QED
    BY <2>2 DEF b
<1>12. air \in [0..N -> Int] /\ air[0] = 0
  <2>1. 0 \in 0..N /\ Sent(0) = {} /\ Answered(0) = {} /\ Cardinality({}) = 0
    BY <1>2, FS_EmptySet
  <2> HIDE DEF Sent, Answered
  <2>2. \A i \in 0..N : Cardinality(Sent(i)) - Cardinality(Answered(i)) \in Int
    BY <1>9
  <2> QED
    BY <2>1, <2>2
<1>13. ASSUME NEW i \in 1..N PROVE air[i] = air[i - 1] + Events(pairs)[i].increment
  <2>1. i \in 0..N /\ i - 1 \in 0..N
    BY <1>2
  <2>2. Events(pairs)[i].increment = IF E[i][2] = 1 THEN 1 ELSE -1
    BY <1>11
  <2> HIDE DEF Sent, Answered
  <2>3. /\ air[i] = Cardinality(Sent(i)) - Cardinality(Answered(i))
        /\ air[i - 1] = Cardinality(Sent(i - 1)) - Cardinality(Answered(i - 1))
    BY <2>1
  <2>4. /\ Cardinality(Sent(i - 1)) \in Int /\ Cardinality(Answered(i - 1)) \in Int
    BY <1>9, <2>1
  <2> HIDE DEF air
  <2>5. CASE E[i][2] = 1
    BY <1>10, <2>2, <2>3, <2>4, <2>5
  <2>6. CASE E[i][2] # 1
    BY <1>10, <2>2, <2>3, <2>4, <2>6
  <2> QED
    BY <2>5, <2>6
<1>14. ASSUME NEW i \in 1..N
       PROVE  NthEvent(events, i)[1] = Events(pairs)[i].timestamp /\ InAir(events, NthEvent(events, i)) = air[i]
  <2>1. NthEvent(events, i)[1] = Events(pairs)[i].timestamp
    BY <1>8, <1>11
  <2>2. i \in 0..N
    BY <1>2
  <2>3. InAir(events, E[i]) = Cardinality(Sent(i)) - Cardinality(Answered(i))
    BY <1>6 DEF InAir
  <2> HIDE DEF Sent, Answered
  <2> QED
    BY <1>8, <2>1, <2>2, <2>3
<1> HIDE DEF air
<1>15. Airs(air, pairs)
  BY <1>2, <1>7, <1>12, <1>13, <1>14 DEF Airs, N, events
<1> QED
  BY <1>15

-----------------------------------------------------------------------------
(* The points of the queue chart.                                          *)

\* How many events the points before p stand for.
Behind(points, p) == Total([q \in 1..(p - 1) |-> points[q].n])

\* A window stands for the w.n events behind c others.
WindowRight(w, c, air, ev, zero) ==
  /\ w.y = Total([k \in 1..w.n |-> air[c + k]])
  /\ w.x = Total([k \in 1..w.n |-> ev[c + k].timestamp - zero])

PointsRight(points, air, ev, zero) ==
  /\ points \in Seq(Windows) /\ Behind(points, Len(points) + 1) \in Nat
  /\ \A p \in 1..Len(points) :
       /\ Behind(points, p) \in Nat /\ Behind(points, p) + points[p].n <= Behind(points, Len(points) + 1)
       /\ WindowRight(points[p], Behind(points, p), air, ev, zero)

\* No points are right, and no event is behind them.
LEMMA PointsNone ==
  ASSUME NEW air, NEW ev, NEW zero
  PROVE  PointsRight(<< >>, air, ev, zero) /\ Behind(<< >>, Len(<< >>) + 1) = 0
<1> DEFINE none == << >>
<1>1. none \in Seq(Windows) /\ Len(none) = 0
  BY EmptySeq
<1>2. [q \in 1..0 |-> none[q].n] \in [1..0 -> Int]
  OBVIOUS
<1>3. Behind(none, Len(none) + 1) = 0
  <2>1. (Len(none) + 1) - 1 = 0
    BY <1>1
  <2> HIDE DEF none
  <2>2. Behind(none, Len(none) + 1) = Total([q \in 1..0 |-> none[q].n])
    BY <2>1 DEF Behind
  <2> QED
    BY <1>2, <2>2, TotalNone
<1> HIDE DEF none
<1>4. PointsRight(none, air, ev, zero)
  BY <1>1, <1>3 DEF PointsRight
<1> QED
  BY <1>3, <1>4 DEF none

\* Right points and a right window make right points.
LEMMA PointsAppend ==
  ASSUME NEW air, NEW ev, NEW zero, NEW points, PointsRight(points, air, ev, zero),
         NEW w \in Windows, WindowRight(w, Behind(points, Len(points) + 1), air, ev, zero)
  PROVE  LET more == Append(points, w)
         IN  /\ PointsRight(more, air, ev, zero)
             /\ Behind(more, Len(more) + 1) = Behind(points, Len(points) + 1) + w.n
<1> DEFINE n == Len(points)
           more == Append(points, w)
           less == [q \in 1..n |-> points[q].n]
           all == [q \in 1..(n + 1) |-> more[q].n]
<1>1. /\ points \in Seq(Windows) /\ n \in Nat /\ Behind(points, n + 1) \in Nat
      /\ \A p \in 1..n :
           /\ Behind(points, p) \in Nat /\ Behind(points, p) + points[p].n <= Behind(points, n + 1)
           /\ WindowRight(points[p], Behind(points, p), air, ev, zero)
  <2>1. points \in Seq(Windows)
    BY DEF PointsRight
  <2> QED
    BY <2>1, LenProperties DEF PointsRight
<1>2. /\ more \in Seq(Windows) /\ Len(more) = n + 1 /\ more[n + 1] = w
      /\ \A q \in 1..n : more[q] = points[q]
  BY <1>1, AppendProperties
<1>3. \A q \in 1..n : points[q] \in Windows /\ points[q].n \in Nat
  <2>1. \A q \in 1..n : points[q] \in Windows
    BY <1>1, ElementOfSeq
  <2> QED
    BY <2>1 DEF Windows
<1> HIDE DEF more, n
<1>4. \A p \in 1..(n + 1) : Behind(more, p) = Behind(points, p)
  <2> SUFFICES ASSUME NEW p \in 1..(n + 1) PROVE Behind(more, p) = Behind(points, p)
    OBVIOUS
  <2>1. \A q \in 1..(p - 1) : q \in 1..n
    BY <1>1
  <2>2. \A q \in 1..(p - 1) : more[q].n = points[q].n
    BY <1>2, <2>1
  <2>3. [q \in 1..(p - 1) |-> more[q].n] = [q \in 1..(p - 1) |-> points[q].n]
    BY <2>2
  <2> QED
    BY <2>3 DEF Behind
<1>5. Behind(points, n + 1) = Total(less) /\ Behind(more, (n + 1) + 1) = Total(all)
  <2>1. (n + 1) - 1 = n /\ ((n + 1) + 1) - 1 = n + 1
    BY <1>1
  <2> QED
    BY <2>1 DEF Behind
<1>6. /\ less \in [1..n -> Int] /\ all \in [1..(n + 1) -> Int] /\ all[n + 1] = w.n /\ w.n \in Nat
      /\ \A q \in 1..n : less[q] = all[q]
  <2>1. w.n \in Nat
    BY DEF Windows
  <2>2. \A q \in 1..(n + 1) : q = n + 1 \/ q \in 1..n
    BY <1>1
  <2>3. \A q \in 1..(n + 1) : more[q].n \in Int
    BY <1>2, <1>3, <2>1, <2>2
  <2>4. \A q \in 1..n : q \in 1..(n + 1)
    BY <1>1
  <2>5. n + 1 \in 1..(n + 1)
    BY <1>1
  <2> QED
    BY <1>2, <1>3, <2>1, <2>3, <2>4, <2>5
<1> HIDE DEF less, all
<1>7. Behind(more, (n + 1) + 1) = Behind(points, n + 1) + w.n
  <2>1. Total(all) = Total(less) + all[n + 1]
    BY <1>1, <1>6, TotalMore
  <2> QED
    BY <1>5, <1>6, <2>1
<1> DEFINE old == Behind(points, n + 1)
           new == Behind(more, (n + 1) + 1)
<1>8. old \in Nat /\ new = old + w.n /\ new \in Nat /\ w.n \in Nat
  BY <1>1, <1>6, <1>7
<1>9. ASSUME NEW p \in 1..(n + 1)
      PROVE  /\ Behind(more, p) \in Nat /\ Behind(more, p) + more[p].n <= new
             /\ WindowRight(more[p], Behind(more, p), air, ev, zero)
  <2>1. Behind(more, p) = Behind(points, p)
    BY <1>4
  <2>2. CASE p = n + 1
    <3>1. Behind(more, p) = old /\ more[p] = w
      BY <1>2, <2>1, <2>2
    <3>2. WindowRight(w, old, air, ev, zero)
      BY DEF n
    <3> HIDE DEF old, new
    <3>3. Behind(more, p) \in Nat /\ Behind(more, p) + more[p].n <= new
      BY <1>8, <3>1
    <3> QED
      BY <3>1, <3>2, <3>3
  <2>3. CASE p # n + 1
    <3>1. p \in 1..n
      BY <1>1, <2>3
    <3>2. /\ Behind(points, p) \in Nat /\ Behind(points, p) + points[p].n <= old
          /\ WindowRight(points[p], Behind(points, p), air, ev, zero)
      BY <1>1, <3>1
    <3>3. more[p] = points[p] /\ points[p].n \in Nat
      BY <1>2, <1>3, <3>1
    <3> HIDE DEF old, new
    <3>4. Behind(more, p) \in Nat /\ Behind(more, p) + more[p].n <= new
      <4> DEFINE b == Behind(points, p)
                 m == points[p].n
      <4>1. b \in Nat /\ m \in Nat /\ b + m <= old /\ old <= new
        BY <1>8, <3>2, <3>3
      <4>2. Behind(more, p) = b /\ more[p].n = m
        BY <2>1, <3>3
      <4> HIDE DEF b, m
      <4>3. b + m <= new
        BY <1>8, <4>1
      <4> QED
        BY <4>1, <4>2, <4>3
    <3> QED
      BY <2>1, <3>2, <3>3, <3>4
  <2> QED
    BY <2>2, <2>3
<1> HIDE DEF old, new
<1>10. PointsRight(more, air, ev, zero)
  <2>1. Behind(more, Len(more) + 1) = new
    BY <1>2 DEF new
  <2>2. new \in Nat
    BY <1>8
  <2> QED
    BY <1>2, <1>9, <2>1, <2>2 DEF PointsRight
<1>11. Behind(more, Len(more) + 1) = Behind(points, Len(points) + 1) + w.n
  BY <1>2, <1>7 DEF n
<1> QED
  BY <1>10, <1>11 DEF more

\* Between two turns of make_queue: i events have been counted, those in the window
\* not yet in a point.
QueueGoing(s, i, air, ev, zero) ==
  LET c == Behind(s.data, Len(s.data) + 1) IN
  /\ s.queue = air[i] /\ PointsRight(s.data, air, ev, zero)
  /\ c + s.window.n = i /\ WindowRight(s.window, c, air, ev, zero)

\* One event more: the window grows by it, or is complete and appended.
LEMMA QueueTurn ==
  ASSUME NEW zero \in Nat, NEW step \in Nat, NEW N \in Nat, NEW air \in [0..N -> Int], NEW ev,
         \A k \in 1..N : ev[k] \in EventsFrom(zero) /\ air[k] = air[k - 1] + ev[k].increment,
         NEW i \in 1..N, NEW s \in QueueStates, QueueGoing(s, i - 1, air, ev, zero)
  PROVE  QueueGoing(CountEvent(s, ev[i], step, zero), i, air, ev, zero)
<1> DEFINE c == Behind(s.data, Len(s.data) + 1)
           n == s.window.n
           window == [n |-> n + 1, x |-> s.window.x + ev[i].timestamp - zero, y |-> s.window.y + (s.queue + ev[i].increment)]
           t == CountEvent(s, ev[i], step, zero)
           none == [n |-> 0, x |-> 0, y |-> 0]
<1>1. /\ s.queue = air[i - 1] /\ PointsRight(s.data, air, ev, zero) /\ c + n = i - 1
      /\ WindowRight(s.window, c, air, ev, zero)
  BY DEF QueueGoing
<1>2. /\ window \in Windows /\ t \in QueueStates /\ t.queue = s.queue + ev[i].increment
      /\ n + 1 = step => t.window = none /\ t.data = Append(s.data, window)
      /\ n + 1 # step => t.window = window /\ t.data = s.data
  <2>1. ev[i] \in EventsFrom(zero)
    OBVIOUS
  <2> HIDE DEF t
  <2> QED
    BY <2>1, CountEventType DEF t
<1>3. c \in Nat /\ n \in Nat /\ s.window.x \in Int /\ s.window.y \in Int
  <2>1. s.window \in Windows
    BY DEF QueueStates
  <2>2. n \in Nat /\ s.window.x \in Int /\ s.window.y \in Int
    BY <2>1 DEF Windows
  <2>3. c \in Nat
    BY <1>1 DEF PointsRight
  <2> QED
    BY <2>2, <2>3
<1>4. air[i] = s.queue + ev[i].increment /\ air[i] \in Int /\ ev[i].timestamp \in Int
  <2>1. ev[i] \in EventsFrom(zero) /\ air[i] = air[i - 1] + ev[i].increment /\ i \in 0..N
    OBVIOUS
  <2> QED
    BY <1>1, <2>1 DEF EventsFrom
<1>5. window.n = n + 1 /\ window.x = s.window.x + ev[i].timestamp - zero /\ window.y = s.window.y + air[i]
  <2> HIDE DEF n
  <2> QED
    BY <1>4
<1>6. t.queue = air[i]
  BY <1>2, <1>4
<1> HIDE DEF c, n, window, t, none
<1>7. c + (n + 1) = i /\ \A k \in 1..(n + 1) : c + k \in 1..N
  <2>1. c + n = i - 1 /\ i \in Int /\ i <= N
    BY <1>1
  <2>2. c + (n + 1) = i
    BY <1>3, <2>1
  <2>3. ASSUME NEW k \in 1..(n + 1) PROVE c + k \in 1..N
    BY <1>3, <2>1
  <2> QED
    BY <2>2, <2>3
<1>8. WindowRight(window, c, air, ev, zero)
  <2>1. window.y = Total([k \in 1..(n + 1) |-> air[c + k]])
    <3> DEFINE less == [k \in 1..n |-> air[c + k]]
               all == [k \in 1..(n + 1) |-> air[c + k]]
    <3>1. \A k \in 1..(n + 1) : air[c + k] \in Int
      <4>1. \A k \in 1..(n + 1) : c + k \in 0..N
        BY <1>7
      <4> QED
        BY <4>1
    <3>2. n + 1 \in 1..(n + 1) /\ \A k \in 1..n : k \in 1..(n + 1)
      BY <1>3
    <3>3. less \in [1..n -> Int] /\ all \in [1..(n + 1) -> Int] /\ (\A k \in 1..n : less[k] = all[k])
          /\ all[n + 1] = air[i]
      BY <1>7, <3>1, <3>2
    <3>4. s.window.y = Total(less)
      BY <1>1 DEF WindowRight, n
    <3> HIDE DEF less, all
    <3>5. Total(all) = Total(less) + all[n + 1]
      BY <1>3, <3>3, TotalMore
    <3>6. window.y = Total(all)
      BY <1>5, <3>3, <3>4, <3>5
    <3> QED
      BY <3>6 DEF all
  <2>2. window.x = Total([k \in 1..(n + 1) |-> ev[c + k].timestamp - zero])
    <3> DEFINE less == [k \in 1..n |-> ev[c + k].timestamp - zero]
               all == [k \in 1..(n + 1) |-> ev[c + k].timestamp - zero]
    <3>1. \A k \in 1..(n + 1) : ev[c + k].timestamp - zero \in Int
      <4>1. \A k \in 1..(n + 1) : ev[c + k] \in EventsFrom(zero)
        BY <1>7
      <4>2. \A k \in 1..(n + 1) : ev[c + k].timestamp \in Int
        BY <4>1 DEF EventsFrom
      <4> QED
        BY <4>2
    <3>2. n + 1 \in 1..(n + 1) /\ \A k \in 1..n : k \in 1..(n + 1)
      BY <1>3
    <3>3. less \in [1..n -> Int] /\ all \in [1..(n + 1) -> Int] /\ (\A k \in 1..n : less[k] = all[k])
          /\ all[n + 1] = ev[i].timestamp - zero
      BY <1>7, <3>1, <3>2
    <3>4. s.window.x = Total(less)
      BY <1>1 DEF WindowRight, n
    <3> HIDE DEF less, all
    <3>5. Total(all) = Total(less) + all[n + 1]
      BY <1>3, <3>3, TotalMore
    <3>6. window.x = Total(all)
      BY <1>3, <1>4, <1>5, <3>3, <3>4, <3>5
    <3> QED
      BY <3>6 DEF all
  <2> QED
    BY <1>5, <2>1, <2>2 DEF WindowRight
<1>9. CASE n + 1 = step
  <2> DEFINE more == Append(s.data, window)
  <2>1. t.window = none /\ t.data = more
    BY <1>2, <1>9
  <2>2. WindowRight(window, Behind(s.data, Len(s.data) + 1), air, ev, zero)
    BY <1>8 DEF c
  <2>3. PointsRight(more, air, ev, zero) /\ Behind(more, Len(more) + 1) = c + window.n
    BY <1>1, <1>2, <2>2, PointsAppend DEF c
  <2> HIDE DEF more
  <2>4. Behind(more, Len(more) + 1) = i
    BY <1>5, <1>7, <2>3
  <2>5. none.n = 0 /\ none.x = 0 /\ none.y = 0
    BY DEF none
  <2>6. WindowRight(none, i, air, ev, zero)
    <3>1. /\ [k \in 1..0 |-> air[i + k]] \in [1..0 -> Int]
          /\ [k \in 1..0 |-> ev[i + k].timestamp - zero] \in [1..0 -> Int]
      OBVIOUS
    <3>2. Total([k \in 1..0 |-> air[i + k]]) = 0 /\ Total([k \in 1..0 |-> ev[i + k].timestamp - zero]) = 0
      BY <3>1, TotalNone
    <3> QED
      BY <2>5, <3>2 DEF WindowRight
  <2>7. i + none.n = i
    BY <2>5
  <2>8. QueueGoing(t, i, air, ev, zero)
    BY <1>6, <2>1, <2>3, <2>4, <2>6, <2>7 DEF QueueGoing
  <2> QED
    BY <2>8 DEF t
<1>10. CASE n + 1 # step
  <2>1. t.window = window /\ t.data = s.data
    BY <1>2, <1>10
  <2>2. c + window.n = i
    BY <1>5, <1>7
  <2>3. QueueGoing(t, i, air, ev, zero)
    BY <1>1, <1>6, <1>8, <2>1, <2>2 DEF QueueGoing, c
  <2> QED
    BY <2>3 DEF t
<1> QED
  BY <1>9, <1>10

\* The points that make_queue draws: no event is left out or in two of them.
LEMMA QueuePoints ==
  ASSUME NEW pairs \in Seq(Seq(Nat)), NEW zero \in Nat, Events(pairs) \in Seq(EventsFrom(zero)),
         NEW air, Airs(air, pairs)
  PROVE  LET points == MakeQueue(pairs, zero)
         IN  /\ PointsRight(points, air, Events(pairs), zero)
             /\ Behind(points, Len(points) + 1) = Len(Events(pairs))
<1> DEFINE ev == Events(pairs)
           N == Len(ev)
           step == Step(Len(pairs))
           points == MakeQueue(pairs, zero)
<1>1. PICK g :
        /\ g[0] = [queue |-> 0, window |-> [n |-> 0, x |-> 0, y |-> 0], data |-> << >>]
        /\ \A k \in 0..N : g[k] \in QueueStates
        /\ \A k \in 1..N : g[k] = CountEvent(g[k - 1], ev[k], step, zero)
        /\ points = IF g[N].window.n # 0 THEN Append(g[N].data, g[N].window) ELSE g[N].data
  BY QueueRuns
<1>2. step \in Nat
  BY LenProperties, Strides
<1>3. N \in Nat /\ air \in [0..N -> Int] /\ air[0] = 0
  BY DEF Airs
<1>4. \A k \in 1..N : ev[k] \in EventsFrom(zero) /\ air[k] = air[k - 1] + ev[k].increment
  <2>1. \A k \in 1..N : air[k] = air[k - 1] + ev[k].increment
    BY DEF Airs
  <2>2. \A k \in 1..N : ev[k] \in EventsFrom(zero)
    <3> HIDE DEF ev
    <3>1. ev \in Seq(EventsFrom(zero))
      BY DEF ev
    <3> QED
      BY <3>1, ElementOfSeq
  <2> QED
    BY <2>1, <2>2
<1> HIDE DEF ev, N, step, points
<1> DEFINE Going(k) == QueueGoing(g[k], k, air, ev, zero)
           P == {k \in Nat : Going(k)}
<1>5. 0 \in P
  <2> DEFINE s == g[0]
  <2>1. s.queue = 0 /\ s.window.n = 0 /\ s.window.x = 0 /\ s.window.y = 0 /\ s.data = << >>
    BY <1>1
  <2> HIDE DEF s
  <2>2. PointsRight(s.data, air, ev, zero) /\ Behind(s.data, Len(s.data) + 1) = 0
    BY <2>1, PointsNone
  <2>3. WindowRight(s.window, 0, air, ev, zero)
    <3>1. /\ [k \in 1..0 |-> air[0 + k]] \in [1..0 -> Int]
          /\ [k \in 1..0 |-> ev[0 + k].timestamp - zero] \in [1..0 -> Int]
      OBVIOUS
    <3>2. Total([k \in 1..0 |-> air[0 + k]]) = 0 /\ Total([k \in 1..0 |-> ev[0 + k].timestamp - zero]) = 0
      BY <3>1, TotalNone
    <3> QED
      BY <2>1, <3>2 DEF WindowRight
  <2>4. QueueGoing(s, 0, air, ev, zero)
    BY <1>3, <2>1, <2>2, <2>3 DEF QueueGoing
  <2> QED
    BY <2>4 DEF s
<1>6. ASSUME NEW k \in 1..N, k - 1 \in P PROVE k \in P
  <2>1. k - 1 \in 0..N /\ k \in Nat
    BY <1>3
  <2>2. g[k - 1] \in QueueStates /\ QueueGoing(g[k - 1], k - 1, air, ev, zero)
    BY <1>1, <1>6, <2>1
  <2>3. QueueGoing(CountEvent(g[k - 1], ev[k], step, zero), k, air, ev, zero)
    BY <1>2, <1>3, <1>4, <2>2, QueueTurn
  <2> QED
    BY <1>1, <2>1, <2>3
<1>7. Going(N)
  <2>1. P \in SUBSET Nat
    OBVIOUS
  <2> HIDE DEF P, Going
  <2>2. 0..N \subseteq P
    BY <1>3, <1>5, <1>6, <2>1, Upwards
  <2>3. N \in P
    BY <1>3, <2>2
  <2> QED
    BY <2>3 DEF P
<1> DEFINE s == g[N]
           c == Behind(s.data, Len(s.data) + 1)
<1>8. /\ PointsRight(s.data, air, ev, zero) /\ c + s.window.n = N
      /\ WindowRight(s.window, c, air, ev, zero)
  BY <1>7 DEF QueueGoing
<1>9. s.window \in Windows /\ s.window.n \in Nat /\ c \in Nat
  <2>1. N \in 0..N
    BY <1>3
  <2>2. s \in QueueStates
    BY <1>1, <2>1
  <2> HIDE DEF s
  <2>3. s.window \in Windows
    BY <2>2 DEF QueueStates
  <2> QED
    BY <1>8, <2>3 DEF Windows, PointsRight
<1>10. points = IF s.window.n # 0 THEN Append(s.data, s.window) ELSE s.data
  BY <1>1
<1> HIDE DEF s
<1>11. CASE s.window.n # 0
  <2>1. points = Append(s.data, s.window)
    BY <1>10, <1>11
  <2>2. PointsRight(points, air, ev, zero) /\ Behind(points, Len(points) + 1) = c + s.window.n
    BY <1>8, <1>9, <2>1, PointsAppend
  <2>3. Behind(points, Len(points) + 1) = N
    BY <1>8, <2>2
  <2> QED
    BY <2>2, <2>3 DEF points, ev, N
<1>12. CASE s.window.n = 0
  <2>1. points = s.data
    BY <1>10, <1>12
  <2>2. c = N
    BY <1>8, <1>9, <1>12
  <2>3. PointsRight(points, air, ev, zero) /\ Behind(points, Len(points) + 1) = N
    BY <1>8, <2>1, <2>2
  <2> QED
    BY <2>3 DEF points, ev, N
<1> QED
  BY <1>11, <1>12

\* InAirExact holds wherever the invariant does.
LEMMA QueueIsExact == GrinderInv => InAirExact
<1> SUFFICES ASSUME GrinderInv, NEW l \in DOMAIN queue
             PROVE  LET points == queue[l].values
                        events == AllEvents(Part(queue[l].input).pairs)
                        Earlier(p) == Total([q \in 1..(p - 1) |-> points[q].n])
                        event(p, k) == NthEvent(events, Earlier(p) + k)
                    IN  /\ Earlier(Len(points) + 1) = Cardinality(events)
                        /\ \A p \in DOMAIN points :
                             /\ points[p].y = Total([k \in 1..points[p].n |-> InAir(events, event(p, k))])
                             /\ points[p].x = Total([k \in 1..points[p].n |-> event(p, k)[1] - Zero(queue[l])])
  BY Zenon DEF InAirExact
<1> DEFINE points == queue[l].values
           part == Part(queue[l].input)
           pairs == part.pairs
           events == AllEvents(pairs)
           zero == Zero(queue[l])
           ev == Events(pairs)
           N == Len(ev)
<1>1. points = MakeQueue(pairs, zero) /\ Drawn(queue[l])
  BY DEF GrinderInv, LinesDrawn, QueueLine
<1>2. SoundPart(part) /\ part.sends # << >> /\ zero \in Nat /\ zero = part.sends[1]
  BY <1>1, ShownSorted DEF Zero
<1> HIDE DEF part, zero, points
<1>3. pairs \in Seq(Seq(Nat)) /\ ev \in Seq(EventsFrom(zero))
  BY <1>2, EventsType DEF SoundPart
<1>4. SoundPairs(pairs)
  <2>1. /\ part.sends \in Seq(Nat) /\ Sorted(part.sends) /\ Len(pairs) = Len(part.sends)
        /\ \A k \in DOMAIN pairs :
             /\ Len(pairs[k]) \in {1, 3} /\ pairs[k][1] = part.sends[k]
             /\ IsAnswered(pairs[k]) => pairs[k][2] \in Nat /\ part.sends[k] < pairs[k][2]
    BY <1>2 DEF SoundPart
  <2>2. DOMAIN pairs = DOMAIN part.sends /\ \A k \in DOMAIN pairs : part.sends[k] \in Nat
    <3>1. DOMAIN pairs = 1..Len(pairs) /\ DOMAIN part.sends = 1..Len(part.sends)
      BY <1>3, <2>1, LenProperties
    <3>2. \A k \in 1..Len(part.sends) : part.sends[k] \in Nat
      BY <2>1, ElementOfSeq
    <3> QED
      BY <2>1, <3>1, <3>2
  <2>3. pairs # << >>
    <3>1. Len(part.sends) # 0
      BY <1>2, <2>1, EmptySeq
    <3> HIDE DEF pairs
    <3> QED
      BY <1>3, <2>1, <3>1, EmptySeq
  <2>4. \A j, k \in DOMAIN pairs : j <= k => pairs[j][1] <= pairs[k][1]
    BY <2>1, <2>2 DEF Sorted
  <2> HIDE DEF pairs
  <2>5. \A k \in DOMAIN pairs :
          /\ Len(pairs[k]) \in {1, 3} /\ pairs[k][1] \in Nat
          /\ IsAnswered(pairs[k]) => pairs[k][2] \in Nat /\ pairs[k][1] < pairs[k][2]
    BY <2>1, <2>2
  <2> QED
    BY <1>3, <2>3, <2>4, <2>5 DEF SoundPairs
<1> HIDE DEF pairs
<1>5. PICK air : Airs(air, pairs)
  BY <1>4, EventsInAir
<1>6. PointsRight(points, air, ev, zero) /\ Behind(points, Len(points) + 1) = N
  BY <1>1, <1>2, <1>3, <1>5, QueuePoints
<1>7. /\ N \in Nat /\ Cardinality(events) = N
      /\ \A i \in 1..N : /\ NthEvent(events, i)[1] = ev[i].timestamp
                         /\ InAir(events, NthEvent(events, i)) = air[i]
  BY <1>5 DEF Airs
<1> HIDE DEF ev, N, events
<1>8. ASSUME NEW p \in DOMAIN points
      PROVE  /\ points[p].y = Total([k \in 1..points[p].n |-> InAir(events, NthEvent(events, Behind(points, p) + k))])
             /\ points[p].x = Total([k \in 1..points[p].n |-> NthEvent(events, Behind(points, p) + k)[1] - zero])
  <2> DEFINE c == Behind(points, p)
             n == points[p].n
  <2>1. points \in Seq(Windows) /\ p \in 1..Len(points)
    BY <1>6, LenProperties DEF PointsRight
  <2>2. c \in Nat /\ c + n <= N /\ WindowRight(points[p], c, air, ev, zero)
    BY <1>6, <2>1 DEF PointsRight
  <2>3. n \in Nat
    <3>1. points[p] \in Windows
      BY <2>1, ElementOfSeq
    <3> QED
      BY <3>1 DEF Windows
  <2>4. points[p].y = Total([k \in 1..n |-> air[c + k]]) /\ points[p].x = Total([k \in 1..n |-> ev[c + k].timestamp - zero])
    BY <2>2 DEF WindowRight
  <2> HIDE DEF c, n
  <2>5. \A k \in 1..n : c + k \in 1..N
    BY <1>7, <2>2, <2>3
  <2>6. [k \in 1..n |-> air[c + k]] = [k \in 1..n |-> InAir(events, NthEvent(events, c + k))]
    BY <1>7, <2>5
  <2>7. [k \in 1..n |-> ev[c + k].timestamp - zero] = [k \in 1..n |-> NthEvent(events, c + k)[1] - zero]
    BY <1>7, <2>5
  <2> QED
    BY <2>4, <2>6, <2>7 DEF c, n
<1>9. Behind(points, Len(points) + 1) = Cardinality(events)
  BY <1>6, <1>7
<1> QED
  BY <1>8, <1>9, Zenon DEF Behind, points, part, pairs, events, zero

\* At every point the queue chart shows the queries that had left and not been
\* answered, whatever was lost or overtaken and however ticks coincide
\* (grinder.py:289-322).
THEOREM QueueIsInAir == Spec => []InAirExact
BY LinesAreDrawn, QueueIsExact, PTL

-----------------------------------------------------------------------------
(* Powers.                                                                 *)

\* The powers that Power goes through.
Multiplies(g, e, base) ==
  g \in [0..e -> Nat] /\ g[0] = 1 /\ \A k \in 1..e : g[k] = g[k - 1] * base

\* A power is the last of the products.
LEMMA PowerRuns ==
  ASSUME NEW base \in Nat, NEW e \in Nat
  PROVE  \E g : Multiplies(g, e, base) /\ Power(base, e) = g[e]
<1> DEFINE factors == [k \in 1..e |-> base]
           D == [k \in 1..e |-> [power \in Nat |-> power * base]]
           Goes(g) == g = [k \in 0..e |-> IF k = 0 THEN 1 ELSE g[k - 1] * factors[k]]
<1>1. Len(factors) = e
  BY Tabulated
<1>2. \A a, b \in Nat : a * b \in Nat
  OBVIOUS
<1>3. PICK f : f \in [0..e -> Nat] /\ f[0] = 1 /\ \A k \in 1..e : f[k] = D[k][f[k - 1]]
  <2> DEFINE Z == Nat
  <2>1. D \in [1..e -> [Z -> Z]] /\ 1 \in Z
    BY <1>2
  <2> HIDE DEF D, Z
  <2>2. \E f : Runs(f, e, Z, 1, D)
    BY <2>1, LoopRuns
  <2> QED
    BY <2>2 DEF Runs, Z
<1>4. Goes(f)
  <2>1. ASSUME NEW k \in 1..e PROVE f[k] = f[k - 1] * factors[k]
    <3>1. k - 1 \in 0..e
      OBVIOUS
    <3>2. f[k - 1] \in Nat
      BY <1>3, <3>1
    <3> QED
      BY <1>3, <3>2
  <2> QED
    BY <1>3, <2>1
<1> DEFINE g == CHOOSE g : Goes(g)
<1>5. Goes(g)
  <2> HIDE DEF Goes
  <2> QED
    BY <1>4
<1>6. Power(base, e) = g[e]
  BY <1>1 DEF Power, Loop
<1> HIDE DEF g
<1>7. g[0] = 1 /\ \A k \in 1..e : g[k] = g[k - 1] * base
  BY <1>5
<1>8. \A k \in 0..e : g[k] \in Nat
  <2> DEFINE P == {k \in Nat : g[k] \in Nat}
  <2>1. 0 \in P
    BY <1>7
  <2>2. ASSUME NEW k \in 1..e, k - 1 \in P PROVE k \in P
    <3>1. g[k] = g[k - 1] * base /\ g[k - 1] \in Nat
      BY <1>7, <2>2
    <3>2. g[k] \in Nat
      BY <1>2, <3>1
    <3> QED
      BY <3>2
  <2>3. P \in SUBSET Nat
    OBVIOUS
  <2> HIDE DEF P
  <2>4. 0..e \subseteq P
    BY <2>1, <2>2, <2>3, Upwards
  <2> QED
    BY <2>4 DEF P
<1>9. g \in [0..e -> Nat]
  BY <1>5, <1>8
<1>10. Multiplies(g, e, base)
  BY <1>7, <1>9 DEF Multiplies
<1> QED
  BY <1>6, <1>10

\* One factor more.
LEMMA PowerMore ==
  ASSUME NEW base \in Nat, NEW e \in Nat
  PROVE  Power(base, e) \in Nat /\ Power(base, 0) = 1 /\ Power(base, e + 1) = Power(base, e) * base
<1>1. PICK g : Multiplies(g, e, base) /\ Power(base, e) = g[e]
  BY PowerRuns
<1>2. PICK h : Multiplies(h, e + 1, base) /\ Power(base, e + 1) = h[e + 1]
  <2>1. e + 1 \in Nat
    OBVIOUS
  <2> QED
    BY <2>1, PowerRuns
<1>3. Power(base, 0) = 1
  <2>1. PICK f : Multiplies(f, 0, base) /\ Power(base, 0) = f[0]
    BY PowerRuns
  <2> QED
    BY <2>1 DEF Multiplies
<1> DEFINE P == {k \in Nat : k <= e => g[k] = h[k]}
<1>4. 0 \in P
  BY <1>1, <1>2 DEF Multiplies
<1>5. ASSUME NEW k \in 1..e, k - 1 \in P PROVE k \in P
  <2>1. g[k] = g[k - 1] * base
    BY <1>1 DEF Multiplies
  <2>2. h[k] = h[k - 1] * base
    <3>1. k \in 1..(e + 1)
      OBVIOUS
    <3> QED
      BY <1>2, <3>1 DEF Multiplies
  <2>3. g[k - 1] = h[k - 1]
    BY <1>5
  <2>4. g[k] = h[k]
    BY <2>1, <2>2, <2>3
  <2> QED
    BY <2>4
<1>6. g[e] = h[e]
  <2>1. P \in SUBSET Nat
    OBVIOUS
  <2> HIDE DEF P
  <2>2. 0..e \subseteq P
    BY <1>4, <1>5, <2>1, Upwards
  <2> QED
    BY <2>2 DEF P
<1>7. g[e] \in Nat
  <2>1. e \in 0..e
    OBVIOUS
  <2> QED
    BY <1>1, <2>1 DEF Multiplies
<1>8. h[e + 1] = h[e] * base
  <2>1. e + 1 \in 1..(e + 1) /\ (e + 1) - 1 = e
    OBVIOUS
  <2>2. h[e + 1] = h[(e + 1) - 1] * base
    BY <1>2, <2>1 DEF Multiplies
  <2> QED
    BY <2>1, <2>2
<1> QED
  BY <1>1, <1>2, <1>3, <1>6, <1>7, <1>8

\* A power of a larger number is larger.
LEMMA PowerOfMore ==
  ASSUME NEW a \in Nat, NEW b \in Nat, a <= b, NEW e \in Nat
  PROVE  Power(a, e) <= Power(b, e)
<1> DEFINE P == {k \in Nat : Power(a, k) <= Power(b, k)}
<1>1. 0 \in P
  <2>1. Power(a, 0) = 1 /\ Power(b, 0) = 1 /\ 0 \in Nat
    BY PowerMore
  <2> QED
    BY <2>1
<1>2. ASSUME NEW k \in 1..e, k - 1 \in P PROVE k \in P
  <2>1. k - 1 \in Nat /\ (k - 1) + 1 = k /\ k \in Nat
    OBVIOUS
  <2> DEFINE x == Power(a, k - 1)
             y == Power(b, k - 1)
  <2>2. x \in Nat /\ y \in Nat /\ x <= y /\ Power(a, k) = x * a /\ Power(b, k) = y * b
    BY <1>2, <2>1, PowerMore
  <2> HIDE DEF x, y
  <2>3. x * a <= y * b
    <3>1. x * a <= y * a
      BY <2>2
    <3>2. y * a <= y * b
      BY <2>2
    <3>3. x * a \in Int /\ y * a \in Int /\ y * b \in Int
      BY <2>2
    <3> QED
      BY <3>1, <3>2, <3>3
  <2> QED
    BY <2>1, <2>2, <2>3
<1>3. P \in SUBSET Nat
  OBVIOUS
<1> HIDE DEF P
<1>4. 0..e \subseteq P
  BY <1>1, <1>2, <1>3, Upwards
<1> QED
  BY <1>4 DEF P

\* Exponents add up when powers are multiplied.
LEMMA PowerOfSum ==
  ASSUME NEW base \in Nat, NEW m \in Nat, NEW n \in Nat
  PROVE  Power(base, m + n) = Power(base, m) * Power(base, n)
<1> DEFINE P == {k \in Nat : Power(base, m + k) = Power(base, m) * Power(base, k)}
           x == Power(base, m)
<1>1. x \in Nat /\ Power(base, 0) = 1
  BY PowerMore
<1>2. 0 \in P
  <2>1. m + 0 = m /\ 0 \in Nat
    OBVIOUS
  <2>2. x = x * 1
    BY <1>1
  <2> QED
    BY <1>1, <2>1, <2>2
<1>3. ASSUME NEW k \in 1..n, k - 1 \in P PROVE k \in P
  <2>1. k - 1 \in Nat /\ (k - 1) + 1 = k /\ k \in Nat /\ m + (k - 1) \in Nat /\ (m + (k - 1)) + 1 = m + k
    OBVIOUS
  <2> DEFINE y == Power(base, k - 1)
             z == Power(base, m + (k - 1))
  <2>2. y \in Nat /\ z \in Nat /\ Power(base, k) = y * base /\ Power(base, m + k) = z * base /\ z = x * y
    BY <1>3, <2>1, PowerMore
  <2> HIDE DEF x, y, z
  <2>3. z * base = x * (y * base)
    BY <1>1, <2>2
  <2> QED
    BY <2>1, <2>2, <2>3 DEF x
<1>4. P \in SUBSET Nat
  OBVIOUS
<1> HIDE DEF P
<1>5. 0..n \subseteq P
  BY <1>2, <1>3, <1>4, Upwards
<1> QED
  BY <1>5 DEF P

\* They multiply when a power is raised.
LEMMA PowerOfProduct ==
  ASSUME NEW base \in Nat, NEW m \in Nat, NEW n \in Nat
  PROVE  Power(Power(base, m), n) = Power(base, m * n)
<1> DEFINE x == Power(base, m)
           P == {k \in Nat : Power(x, k) = Power(base, m * k)}
<1>1. x \in Nat
  BY PowerMore
<1>2. 0 \in P
  <2>1. m * 0 = 0 /\ 0 \in Nat
    OBVIOUS
  <2>2. Power(x, 0) = 1 /\ Power(base, 0) = 1
    BY <1>1, PowerMore
  <2> QED
    BY <2>1, <2>2
<1>3. ASSUME NEW k \in 1..n, k - 1 \in P PROVE k \in P
  <2>1. k - 1 \in Nat /\ (k - 1) + 1 = k /\ k \in Nat /\ m * (k - 1) \in Nat /\ m * (k - 1) + m = m * k
    OBVIOUS
  <2>2. Power(x, k) = Power(x, k - 1) * x
    <3> HIDE DEF x
    <3>1. Power(x, (k - 1) + 1) = Power(x, k - 1) * x
      BY <1>1, <2>1, PowerMore
    <3> QED
      BY <2>1, <3>1
  <2>3. Power(base, m * k) = Power(base, m * (k - 1)) * x
    <3>1. Power(base, m * (k - 1) + m) = Power(base, m * (k - 1)) * Power(base, m)
      BY <2>1, PowerOfSum
    <3> QED
      BY <2>1, <3>1
  <2>4. Power(x, k - 1) = Power(base, m * (k - 1))
    BY <1>3
  <2>5. Power(x, k) = Power(base, m * k)
    BY <2>2, <2>3, <2>4
  <2> QED
    BY <2>1, <2>5
<1>4. P \in SUBSET Nat
  OBVIOUS
<1> HIDE DEF P
<1>5. 0..n \subseteq P
  BY <1>2, <1>3, <1>4, Upwards
<1> QED
  BY <1>5 DEF P

\* A power with a larger exponent is larger.
LEMMA PowerRises ==
  ASSUME NEW base \in Nat \ {0}, NEW m \in Nat, NEW n \in Nat, m <= n
  PROVE  0 < Power(base, m) /\ Power(base, m) <= Power(base, n)
<1> DEFINE x == Power(base, m)
           y == Power(base, n - m)
<1>1. n - m \in Nat /\ m + (n - m) = n
  OBVIOUS
<1>2. x \in Nat /\ y \in Nat /\ Power(base, n) = x * y
  BY <1>1, PowerMore, PowerOfSum
<1>3. \A k \in Nat : 0 < Power(base, k)
  <2> SUFFICES ASSUME NEW k \in Nat PROVE 0 < Power(base, k)
    OBVIOUS
  <2>1. Power(1, k) <= Power(base, k) /\ Power(1, k) \in Nat /\ Power(base, k) \in Nat
    BY PowerOfMore, PowerMore
  <2>2. Power(1, k) = 1
    <3> DEFINE P == {i \in Nat : Power(1, i) = 1}
    <3>1. 0 \in P
      BY PowerMore
    <3>2. ASSUME NEW i \in 1..k, i - 1 \in P PROVE i \in P
      <4>1. i - 1 \in Nat /\ (i - 1) + 1 = i /\ i \in Nat
        OBVIOUS
      <4>2. Power(1, (i - 1) + 1) = Power(1, i - 1) * 1 /\ Power(1, i - 1) = 1
        BY <3>2, <4>1, PowerMore
      <4> QED
        BY <4>1, <4>2
    <3>3. P \in SUBSET Nat
      OBVIOUS
    <3> HIDE DEF P
    <3>4. 0..k \subseteq P
      BY <3>1, <3>2, <3>3, Upwards
    <3> QED
      BY <3>4 DEF P
  <2> QED
    BY <2>1, <2>2
<1>4. 0 < x /\ 0 < y
  BY <1>1, <1>3
<1> HIDE DEF x, y
<1>5. x <= x * y
  BY <1>2, <1>4
<1> QED
  BY <1>2, <1>4, <1>5 DEF x

\* Powers of ten outgrow their exponents.
LEMMA TenGrows ==
  ASSUME NEW e \in Nat
  PROVE  e < Power(10, e) /\ Power(10, e) < Power(10, e + 1)
<1> DEFINE P == {k \in Nat : k < Power(10, k)}
<1>1. 0 \in P
  BY PowerMore
<1>2. \A k \in Nat : Power(10, k) \in Nat /\ Power(10, k + 1) = 10 * Power(10, k)
  <2>1. \A k \in Nat : Power(10, k) \in Nat /\ Power(10, k + 1) = Power(10, k) * 10
    BY PowerMore
  <2> QED
    BY <2>1
<1>3. ASSUME NEW k \in 1..e, k - 1 \in P PROVE k \in P
  <2>1. k - 1 \in Nat /\ (k - 1) + 1 = k /\ k \in Nat
    OBVIOUS
  <2>2. k - 1 < Power(10, k - 1) /\ Power(10, k - 1) \in Nat /\ Power(10, (k - 1) + 1) = 10 * Power(10, k - 1)
    BY <1>2, <1>3, <2>1
  <2>3. k < Power(10, k)
    BY <2>1, <2>2
  <2> QED
    BY <2>3
<1>4. P \in SUBSET Nat
  OBVIOUS
<1> HIDE DEF P
<1>5. e \in P
  <2>1. 0..e \subseteq P
    BY <1>1, <1>3, <1>4, Upwards
  <2> QED
    BY <2>1
<1> QED
  BY <1>2, <1>5 DEF P

-----------------------------------------------------------------------------
(* Delays.                                                                 *)

\* math.ceil(math.log10(d)): d is at most that power of ten.
LEMMA CeilingIs ==
  ASSUME NEW d \in Nat
  PROVE  Ceiling10(d) \in Nat /\ d <= Power(10, Ceiling10(d))
<1> DEFINE T == {e \in 0..d : d <= Power(10, e)}
           Is(e) == d <= Power(10, e) /\ \A f \in 0..(e - 1) : Power(10, f) < d
<1>1. \A e \in Nat : Power(10, e) \in Nat
  BY PowerMore
<1>2. PICK e \in T : \A f \in T : e <= f
  <2>1. d \in 0..d /\ d <= Power(10, d)
    BY <1>1, TenGrows
  <2>2. T \in SUBSET Nat /\ d \in T
    BY <2>1
  <2> HIDE DEF T
  <2> QED
    BY <2>2, Least
<1>3. Is(e)
  <2> SUFFICES ASSUME NEW f \in 0..(e - 1) PROVE Power(10, f) < d
    BY <1>2
  <2>1. f \in 0..d /\ ~(e <= f) /\ f \in Nat
    BY <1>2
  <2>2. ~(d <= Power(10, f))
    BY <1>2, <2>1
  <2> QED
    BY <1>1, <2>1, <2>2
<1>4. Ceiling10(d) = CHOOSE c \in 0..d : Is(c)
  BY DEF Ceiling10
<1>5. \E c \in 0..d : Is(c)
  <2> HIDE DEF Is
  <2> QED
    BY <1>2, <1>3
<1>6. Ceiling10(d) \in 0..d /\ Is(Ceiling10(d))
  <2> HIDE DEF Is
  <2> QED
    BY <1>4, <1>5
<1> QED
  BY <1>6

\* math.floor(math.log10(d)): d is at least that power of ten.
LEMMA FloorIs ==
  ASSUME NEW d \in Nat \ {0}
  PROVE  Floor10(d) \in Nat /\ Power(10, Floor10(d)) <= d
<1> DEFINE T == {e \in Nat : d < Power(10, e)}
           Is(e) == Power(10, e) <= d /\ d < Power(10, e + 1)
<1>1. \A e \in Nat : Power(10, e) \in Nat
  BY PowerMore
<1>2. PICK e \in T : \A f \in T : e <= f
  <2>1. d \in Nat /\ d < Power(10, d)
    BY TenGrows
  <2>2. T \in SUBSET Nat /\ d \in T
    BY <2>1
  <2> HIDE DEF T
  <2> QED
    BY <2>2, Least
<1>3. e # 0 /\ e \in Nat
  <2>1. Power(10, 0) = 1
    BY PowerMore
  <2> QED
    BY <1>2, <2>1
<1>4. e - 1 \in Nat /\ (e - 1) + 1 = e /\ ~(e <= e - 1)
  BY <1>3
<1>5. Is(e - 1)
  <2>1. e - 1 \notin T
    <3> HIDE DEF T
    <3> QED
      BY <1>2, <1>4
  <2>2. ~(d < Power(10, e - 1))
    BY <1>4, <2>1
  <2>3. Power(10, e - 1) <= d
    BY <1>1, <1>4, <2>2
  <2> QED
    BY <1>2, <1>4, <2>3
<1>6. e - 1 \in 0..d
  <2>1. e - 1 < Power(10, e - 1) /\ Power(10, e - 1) \in Nat /\ Power(10, e - 1) <= d
    BY <1>4, <1>5, TenGrows, PowerMore
  <2> QED
    BY <1>4, <2>1
<1>7. Floor10(d) = CHOOSE c \in 0..d : Is(c)
  BY DEF Floor10
<1>8. \E c \in 0..d : Is(c)
  <2> HIDE DEF Is
  <2> QED
    BY <1>5, <1>6
<1>9. Floor10(d) \in 0..d /\ Is(Floor10(d))
  <2> HIDE DEF Is
  <2> QED
    BY <1>7, <1>8
<1> QED
  BY <1>9

\* The chart does not end before it begins.
LEMMA FloorBelow ==
  ASSUME NEW a \in Nat \ {0}, NEW b \in Nat, a <= b
  PROVE  Floor10(a) <= Ceiling10(b)
<1> DEFINE left == Floor10(a)
           right == Ceiling10(b)
<1>1. left \in Nat /\ right \in Nat /\ Power(10, left) <= a /\ b <= Power(10, right)
  BY CeilingIs, FloorIs
<1> HIDE DEF left, right
<1>2. ASSUME right < left PROVE FALSE
  <2>1. right + 1 \in Nat /\ right + 1 <= left /\ 10 \in Nat \ {0}
    BY <1>1, <1>2
  <2>2. Power(10, right + 1) <= Power(10, left)
    BY <1>1, <2>1, PowerRises
  <2>3. Power(10, right) < Power(10, right + 1)
    BY <1>1, TenGrows
  <2>4. Power(10, right) \in Nat /\ Power(10, right + 1) \in Nat /\ Power(10, left) \in Nat
    BY <1>1, <2>1, PowerMore
  <2> QED
    BY <1>1, <2>2, <2>3, <2>4
<1> QED
  BY <1>1, <1>2 DEF left, right

\* The exponents of the bounds, times FitPoints.
Bound(i, left, right) == left * FitPoints + i * (right - left)

LEMMA BoundsRise ==
  ASSUME NEW left \in Nat, NEW right \in Nat, left <= right, NEW i \in Nat, NEW j \in Nat, i <= j
  PROVE  Bound(i, left, right) \in Nat /\ Bound(i, left, right) <= Bound(j, left, right)
<1> DEFINE w == right - left
           z == left * FitPoints
<1>1. w \in Nat /\ z \in Nat
  BY FitPointsAssumption
<1>2. Bound(i, left, right) = z + i * w /\ Bound(j, left, right) = z + j * w
  BY DEF Bound
<1> HIDE DEF w, z
<1>3. i * w \in Nat /\ j * w \in Nat /\ i * w <= j * w
  BY <1>1
<1> QED
  BY <1>1, <1>2, <1>3

\* A larger delay is above the same bounds, and one that is above a bound is above
\* those before.
LEMMA AboveMoves ==
  ASSUME NEW left \in Nat, NEW right \in Nat, left <= right, NEW i \in Nat, NEW j \in Nat, i <= j,
         NEW d \in Nat, NEW e \in Nat, d <= e, Above(d, j, left, right)
  PROVE  Above(e, i, left, right)
<1> DEFINE x == Bound(i, left, right)
           y == Bound(j, left, right)
<1>1. x \in Nat /\ y \in Nat /\ x <= y
  <2>1. j <= j
    OBVIOUS
  <2> QED
    BY <2>1, BoundsRise
<1>2. /\ Above(d, j, left, right) <=> Power(d, FitPoints) > Power(10, y)
      /\ Above(e, i, left, right) <=> Power(e, FitPoints) > Power(10, x)
  BY DEF Above, Bound
<1> HIDE DEF x, y
<1>3. Power(d, FitPoints) <= Power(e, FitPoints) /\ Power(10, x) <= Power(10, y)
  <2>1. 10 \in Nat \ {0} /\ FitPoints \in Nat
    BY FitPointsAssumption
  <2> QED
    BY <1>1, <2>1, PowerOfMore, PowerRises
<1>4. Power(d, FitPoints) \in Nat /\ Power(e, FitPoints) \in Nat /\ Power(10, x) \in Nat /\ Power(10, y) \in Nat
  BY <1>1, PowerMore, FitPointsAssumption
<1> QED
  BY <1>2, <1>3, <1>4

\* No delay is above the last bound.
LEMMA LastBound ==
  ASSUME NEW left \in Nat, NEW right \in Nat, left <= right, NEW d \in Nat, d <= Power(10, right)
  PROVE  ~Above(d, FitPoints, left, right)
<1>1. FitPoints \in Nat
  BY FitPointsAssumption
<1>2. left * FitPoints + FitPoints * (right - left) = right * FitPoints
  BY <1>1
<1>3. Above(d, FitPoints, left, right) <=> Power(d, FitPoints) > Power(10, right * FitPoints)
  BY <1>2 DEF Above
<1>4. Power(d, FitPoints) <= Power(Power(10, right), FitPoints)
  <2>1. Power(10, right) \in Nat
    BY PowerMore
  <2> QED
    BY <1>1, <2>1, PowerOfMore
<1>5. Power(Power(10, right), FitPoints) = Power(10, right * FitPoints)
  BY <1>1, PowerOfProduct
<1>6. Power(d, FitPoints) \in Nat /\ Power(10, right * FitPoints) \in Nat
  <2>1. right * FitPoints \in Nat
    BY <1>1
  <2> QED
    BY <1>1, <2>1, PowerMore
<1> QED
  BY <1>3, <1>4, <1>5, <1>6

\* The while loop stops at the first bound that the delay is not above.
LEMMA NextBucketIs ==
  ASSUME NEW left \in Nat, NEW right \in Nat, left <= right, NEW d \in Nat, d <= Power(10, right),
         NEW index \in 1..FitPoints
  PROVE  LET i == NextBucket(d, index, left, right)
         IN  /\ i \in index..FitPoints /\ ~Above(d, i, left, right)
             /\ \A j \in index..(i - 1) : Above(d, j, left, right)
<1> DEFINE A(i) == Above(d, i, left, right)
           T == {i \in index..FitPoints : ~A(i)}
           Is(i) == /\ A(i) => i = FitPoints
                    /\ \A j \in index..(i - 1) : A(j)
           next_i == NextBucket(d, index, left, right)
<1>1. ~A(FitPoints) /\ FitPoints \in Nat /\ index \in Nat
  BY LastBound, FitPointsAssumption
<1>2. next_i = CHOOSE i \in index..FitPoints : Is(i)
  BY DEF NextBucket
<1> HIDE DEF A
<1>3. PICK i \in T : \A j \in T : i <= j
  <2>1. T \in SUBSET Nat /\ FitPoints \in T
    BY <1>1
  <2> HIDE DEF T
  <2> QED
    BY <2>1, Least
<1>4. Is(i)
  <2>1. ASSUME NEW j \in index..(i - 1) PROVE A(j)
    <3>1. j \in index..FitPoints /\ ~(i <= j)
      BY <1>1, <1>3
    <3> QED
      BY <1>3, <3>1
  <2> QED
    BY <1>3, <2>1
<1>5. \E j \in index..FitPoints : Is(j)
  <2> HIDE DEF Is
  <2> QED
    BY <1>3, <1>4
<1> HIDE DEF next_i
<1>6. next_i \in index..FitPoints /\ Is(next_i)
  <2> HIDE DEF Is
  <2> QED
    BY <1>2, <1>5
<1> QED
  BY <1>1, <1>6 DEF next_i, A

\* Nth numbers the members of a set.
LEMMA NthPlaces ==
  ASSUME NEW P \in SUBSET Nat, IsFiniteSet(P)
  PROVE  /\ Cardinality(P) \in Nat
         /\ \A k \in 0..(Cardinality(P) - 1) : Nth(P, k) \in P /\ Rank(P, Nth(P, k)) = k
         /\ \A c \in P : Rank(P, c) \in 0..(Cardinality(P) - 1) /\ Nth(P, Rank(P, c)) = c
<1> DEFINE R == {e \in P \X P : e[1] < e[2]}
<1>1. \A c \in P : c \in Nat
  OBVIOUS
<1>2. Orders(R, P)
  BY <1>1 DEF Orders
<1>3. \A c \in P : Before(P, R, c) = Rank(P, c)
  <2>1. \A c \in P : {b \in P : <<b, c>> \in R} = {b \in P : b < c}
    OBVIOUS
  <2> QED
    BY <2>1 DEF Before, Rank
<1> HIDE DEF R
<1>4. Cardinality(P) \in Nat
  BY FS_CardinalityType
<1>5. \A k \in 0..(Cardinality(P) - 1) : \E c \in P : Before(P, R, c) = k
  <2> DEFINE S == P
  <2>1. IsFiniteSet(S) /\ Orders(R, S)
    BY <1>2
  <2> HIDE DEF S
  <2>2. \A k \in 0..(Cardinality(S) - 1) : \E c \in S : Before(S, R, c) = k
    BY <2>1, Ranked
  <2> QED
    BY <2>2 DEF S
<1>6. \A a, b \in P : Before(P, R, a) = Before(P, R, b) => a = b
  BY <1>2, Ranked, SMTT(30)
<1>7. \A c \in P : Before(P, R, c) \in 0..(Cardinality(P) - 1)
  BY <1>2, Ranked
<1>8. \A k \in 0..(Cardinality(P) - 1) : Nth(P, k) \in P /\ Rank(P, Nth(P, k)) = k
  <2> SUFFICES ASSUME NEW k \in 0..(Cardinality(P) - 1) PROVE Nth(P, k) \in P /\ Rank(P, Nth(P, k)) = k
    OBVIOUS
  <2>1. \E c \in P : Rank(P, c) = k
    BY <1>3, <1>5
  <2> QED
    BY <2>1 DEF Nth
<1>9. \A c \in P : Rank(P, c) \in 0..(Cardinality(P) - 1) /\ Nth(P, Rank(P, c)) = c
  <2> SUFFICES ASSUME NEW c \in P PROVE Rank(P, c) \in 0..(Cardinality(P) - 1) /\ Nth(P, Rank(P, c)) = c
    OBVIOUS
  <2>1. Rank(P, c) \in 0..(Cardinality(P) - 1)
    BY <1>3, <1>7
  <2>2. Nth(P, Rank(P, c)) \in P /\ Rank(P, Nth(P, Rank(P, c))) = Rank(P, c)
    BY <1>8, <2>1
  <2> QED
    BY <1>3, <1>6, <2>1, <2>2
<1> QED
  BY <1>4, <1>8, <1>9

Answered(pairs) == {k \in DOMAIN pairs : IsAnswered(pairs[k])}
SoundDelays(pairs) ==
  pairs \in Seq(Seq(Nat)) /\ \A k \in Answered(pairs) : pairs[k][3] \in Nat \ {0}

\* The delays that make_processing sorts.
DelayTimes(pairs) == [k \in DOMAIN pairs |-> IF IsAnswered(pairs[k]) THEN pairs[k][3] ELSE 0]

\* They are those of the replies, each once: the p-th is that of the pair at g[p].
DelaysFrom(g, s, pairs) ==
  /\ g \in [1..Len(s) -> Answered(pairs)]
  /\ \A p \in 1..Len(s) : s[p] = pairs[g[p]][3]
  /\ \A p, q \in 1..Len(s) : g[p] = g[q] => p = q
  /\ \A k \in Answered(pairs) : \E p \in 1..Len(s) : g[p] = k

LEMMA DelaysAre ==
  ASSUME NEW pairs, SoundDelays(pairs)
  PROVE  /\ Delays(pairs) \in Seq(Nat \ {0}) /\ Len(Delays(pairs)) \in Nat
         /\ Sorted(Delays(pairs))
         /\ \E g : DelaysFrom(g, Delays(pairs), pairs)
<1> DEFINE n == Len(pairs)
           times == DelayTimes(pairs)
           P == Answered(pairs)
           N == Cardinality(P)
           kept == Kept(times, P)
           order == Order(kept)
           s == Delays(pairs)
           g == [p \in 1..N |-> Nth(P, order[p] - 1)]
<1>1. n \in Nat /\ DOMAIN pairs = 1..n /\ DOMAIN times = 1..n
  BY LenProperties DEF SoundDelays, DelayTimes
<1>2. \A k \in 1..n : times[k] \in Nat /\ (k \in P <=> times[k] > 0) /\ (k \in P => times[k] = pairs[k][3])
  <2> SUFFICES ASSUME NEW k \in 1..n
               PROVE  times[k] \in Nat /\ (k \in P <=> times[k] > 0) /\ (k \in P => times[k] = pairs[k][3])
    OBVIOUS
  <2>1. times[k] = IF IsAnswered(pairs[k]) THEN pairs[k][3] ELSE 0
    BY <1>1 DEF DelayTimes
  <2>2. k \in P <=> IsAnswered(pairs[k])
    BY <1>1 DEF Answered
  <2>3. CASE k \in P
    <3>1. times[k] = pairs[k][3] /\ pairs[k][3] \in Nat \ {0}
      BY <2>1, <2>2, <2>3 DEF SoundDelays
    <3> QED
      BY <2>3, <3>1
  <2>4. CASE k \notin P
    <3>1. times[k] = 0
      BY <2>1, <2>2, <2>4
    <3> QED
      BY <2>4, <3>1
  <2> QED
    BY <2>3, <2>4
<1>3. times \in Seq(Nat) /\ Len(times) = n
  <2>1. times \in [1..n -> Nat]
    BY <1>1, <1>2 DEF DelayTimes
  <2> HIDE DEF times, n
  <2> QED
    BY <1>1, <2>1, Tabulated
<1>4. {k \in DOMAIN times : times[k] > 0} = P /\ P \in SUBSET (1..n)
  <2>1. P \in SUBSET (1..n)
    BY <1>1 DEF Answered
  <2> QED
    BY <1>1, <1>2, <2>1
<1>5. P \in SUBSET Nat /\ IsFiniteSet(P)
  <2>1. IsFiniteSet(1..n)
    BY <1>1, IntervalSize
  <2>2. P \in SUBSET Nat
    BY <1>4
  <2> QED
    BY <1>4, <2>1, <2>2, FS_Subset
<1> HIDE DEF P, times, n
<1>6. /\ N \in Nat
      /\ \A k \in 0..(N - 1) : Nth(P, k) \in P /\ Rank(P, Nth(P, k)) = k
      /\ \A c \in P : Rank(P, c) \in 0..(N - 1) /\ Nth(P, Rank(P, c)) = c
  BY <1>5, NthPlaces
<1>7. /\ kept \in Seq(Nat) /\ Len(kept) = N /\ DOMAIN kept = 1..N
      /\ \A k \in 1..N : kept[k] = times[Nth(P, k - 1)]
  <2>1. P \in SUBSET (DOMAIN times)
    BY <1>1, <1>4
  <2>2. kept \in Seq(Nat) /\ Len(kept) = N
    BY <1>3, <2>1, KeptItems
  <2>3. DOMAIN kept = 1..N /\ \A k \in 1..N : kept[k] = times[Nth(P, k - 1)]
    BY DEF Kept
  <2> QED
    BY <2>2, <2>3
<1> HIDE DEF N, kept
<1>8. kept \in [1..N -> Int] /\ kept = [k \in DOMAIN kept |-> kept[k]]
  <2>1. \A k \in 1..N : kept[k] \in Nat
    BY <1>7, ElementOfSeq
  <2>2. kept \in [1..N -> Nat]
    BY <1>6, <1>7, SeqDef, LenProperties, <2>1
  <2> QED
    BY <1>7, <2>1, <2>2
<1>9. /\ order \in [1..N -> 1..N]
      /\ \A j, k \in 1..N : j < k =>
           LET a == order[j]
               b == order[k]
           IN  kept[a] < kept[b] \/ (kept[a] = kept[b] /\ a < b)
      /\ \A a \in 1..N : \E k \in 1..N : order[k] = a
  BY <1>6, <1>8, OrderPlaces
<1>10. s = [p \in 1..N |-> kept[order[p]]]
  <2>1. s = SortedBy(kept, LAMBDA d : d)
    BY <1>4, Zenon DEF Delays, DelayTimes, times, kept
  <2>2. SortedBy(kept, LAMBDA d : d) = [p \in DOMAIN kept |-> kept[Order([k \in DOMAIN kept |-> kept[k]])[p]]]
    BY DEF SortedBy
  <2>3. Order([k \in DOMAIN kept |-> kept[k]]) = order
    BY <1>8
  <2> QED
    BY <1>7, <2>1, <2>2, <2>3
<1> HIDE DEF order, s
<1>11. \A p \in 1..N : order[p] \in 1..N /\ order[p] - 1 \in 0..(N - 1)
  BY <1>6, <1>9
<1>12. g \in [1..N -> P]
  BY <1>6, <1>11
<1>13. \A p \in 1..N : s[p] = pairs[g[p]][3] /\ s[p] \in Nat \ {0}
  <2> SUFFICES ASSUME NEW p \in 1..N PROVE s[p] = pairs[g[p]][3] /\ s[p] \in Nat \ {0}
    OBVIOUS
  <2>1. s[p] = kept[order[p]] /\ kept[order[p]] = times[Nth(P, order[p] - 1)] /\ g[p] = Nth(P, order[p] - 1)
    BY <1>7, <1>10, <1>11
  <2>2. g[p] \in P /\ g[p] \in 1..n
    BY <1>4, <1>12
  <2>3. times[g[p]] = pairs[g[p]][3] /\ times[g[p]] \in Nat /\ times[g[p]] > 0
    BY <1>2, <2>2
  <2>4. s[p] = times[g[p]]
    BY <2>1
  <2> HIDE DEF g
  <2> QED
    BY <2>3, <2>4
<1>14. s \in Seq(Nat \ {0}) /\ Len(s) = N /\ DOMAIN s = 1..N
  <2>1. s \in [1..N -> Nat \ {0}]
    BY <1>10, <1>13
  <2> QED
    BY <1>6, <2>1, Tabulated
<1>15. \A p, q \in 1..N : g[p] = g[q] => p = q
  <2> SUFFICES ASSUME NEW p \in 1..N, NEW q \in 1..N, g[p] = g[q] PROVE p = q
    OBVIOUS
  <2>1. Rank(P, g[p]) = order[p] - 1 /\ Rank(P, g[q]) = order[q] - 1
    BY <1>6, <1>11
  <2>2. order[p] = order[q]
    <3> HIDE DEF g
    <3>1. order[p] - 1 = order[q] - 1
      BY <2>1, <2>2
    <3> QED
      BY <1>11, <3>1
  <2>3. ASSUME NEW i \in 1..N, NEW j \in 1..N, i < j PROVE order[i] # order[j]
    <3>1. kept[order[i]] < kept[order[j]] \/ order[i] < order[j]
      BY <1>9, <2>3
    <3>2. kept[order[i]] \in Int /\ order[i] \in Int
      BY <1>8, <1>11
    <3> QED
      BY <3>1, <3>2
  <2>4. ~(p < q) /\ ~(q < p)
    BY <2>2, <2>3
  <2> QED
    BY <1>6, <2>4
<1>16. \A k \in P : \E p \in 1..N : g[p] = k
  <2> SUFFICES ASSUME NEW k \in P PROVE \E p \in 1..N : g[p] = k
    OBVIOUS
  <2> DEFINE a == Rank(P, k) + 1
  <2>1. a \in 1..N /\ a - 1 = Rank(P, k) /\ Nth(P, a - 1) = k
    BY <1>6
  <2> HIDE DEF a
  <2>2. PICK p \in 1..N : order[p] = a
    BY <1>9, <2>1
  <2>3. g[p] = Nth(P, order[p] - 1)
    OBVIOUS
  <2> QED
    BY <2>1, <2>2, <2>3
<1>17. Sorted(s)
  <2> SUFFICES ASSUME NEW j \in 1..N, NEW k \in 1..N, j <= k PROVE s[j] <= s[k]
    BY <1>14 DEF Sorted
  <2>1. CASE j = k
    BY <1>13, <2>1
  <2>2. CASE j < k
    <3>1. kept[order[j]] < kept[order[k]] \/ kept[order[j]] = kept[order[k]]
      BY <1>9, <2>2
    <3>2. s[j] = kept[order[j]] /\ s[k] = kept[order[k]]
      BY <1>10
    <3> QED
      BY <1>13, <3>1, <3>2
  <2> QED
    BY <2>1, <2>2
<1>18. DelaysFrom(g, s, pairs)
  <2> HIDE DEF g
  <2> QED
    BY <1>12, <1>13, <1>14, <1>15, <1>16 DEF DelaysFrom, P
<1> HIDE DEF g
<1> QED
  BY <1>6, <1>14, <1>17, <1>18 DEF s

-----------------------------------------------------------------------------
(* Buckets of delays.                                                      *)

\* The bucket a delay belongs in: the first bound that it is not above.
InBin(d, b, left, right) ==
  ~Above(d, b, left, right) /\ (b > 1 => Above(d, b - 1, left, right))

\* There is only one.
LEMMA OneBin ==
  ASSUME NEW left \in Nat, NEW right \in Nat, left <= right, NEW d \in Nat,
         NEW b \in 1..FitPoints, NEW c \in 1..FitPoints, InBin(d, b, left, right), InBin(d, c, left, right)
  PROVE  b = c
<1>1. ASSUME NEW i \in 1..FitPoints, NEW j \in 1..FitPoints, i < j,
             InBin(d, i, left, right), InBin(d, j, left, right)
      PROVE  FALSE
  <2>1. i \in Nat /\ j - 1 \in Nat /\ i <= j - 1 /\ j > 1 /\ d <= d
    BY <1>1, FitPointsAssumption
  <2>2. Above(d, j - 1, left, right) /\ ~Above(d, i, left, right)
    BY <1>1, <2>1 DEF InBin
  <2> QED
    BY <2>1, <2>2, AboveMoves
<1>2. ~(b < c) /\ ~(c < b)
  BY <1>1
<1> QED
  BY <1>2, FitPointsAssumption

\* How many of the first n items are d.
HowMany(s, n, d) == Cardinality({q \in 1..n : s[q] = d})

LEMMA HowManyMore ==
  ASSUME NEW s, NEW n \in Nat, NEW d
  PROVE  /\ HowMany(s, n, d) \in Nat
         /\ HowMany(s, n + 1, d) = HowMany(s, n, d) + (IF s[n + 1] = d THEN 1 ELSE 0)
<1> DEFINE S == {q \in 1..n : s[q] = d}
           T == {q \in 1..(n + 1) : s[q] = d}
<1>1. IsFiniteSet(S) /\ Cardinality(S) \in Nat
  <2>1. S \in SUBSET (1..n) /\ IsFiniteSet(1..n)
    BY IntervalSize
  <2> HIDE DEF S
  <2> QED
    BY <2>1, FS_Subset, FS_CardinalityType
<1>2. n + 1 \notin S
  OBVIOUS
<1>3. T = IF s[n + 1] = d THEN S \cup {n + 1} ELSE S
  OBVIOUS
<1> HIDE DEF S, T
<1>4. Cardinality(S \cup {n + 1}) = Cardinality(S) + 1
  BY <1>1, <1>2, FS_AddElement
<1>5. Cardinality(T) = Cardinality(S) + (IF s[n + 1] = d THEN 1 ELSE 0)
  <2>1. CASE s[n + 1] = d
    BY <1>3, <1>4, <2>1
  <2>2. CASE s[n + 1] # d
    <3>1. Cardinality(T) = Cardinality(S)
      BY <1>3, <2>2
    <3> QED
      BY <1>1, <2>2, <3>1
  <2> QED
    BY <2>1, <2>2
<1> QED
  BY <1>1, <1>5 DEF HowMany, S, T

\* One delay takes its place.
DelayStates == [index : 1..FitPoints, buckets : [1..FitPoints -> Seq(Nat)]]

LEMMA PlaceDelayIs ==
  ASSUME NEW left \in Nat, NEW right \in Nat, left <= right,
         NEW s \in DelayStates, NEW d \in Nat, d <= Power(10, right)
  PROVE  LET t == PlaceDelay(s, d, left, right)
         IN  /\ t \in DelayStates /\ t.index \in s.index..FitPoints
             /\ t.buckets[t.index] = Append(s.buckets[t.index], d)
             /\ \A b \in 1..FitPoints : b # t.index => t.buckets[b] = s.buckets[b]
             /\ ~Above(d, t.index, left, right)
             /\ \A j \in s.index..(t.index - 1) : Above(d, j, left, right)
<1> DEFINE i == NextBucket(d, s.index, left, right)
           t == PlaceDelay(s, d, left, right)
           more == Append(s.buckets[i], d)
<1>1. s.index \in 1..FitPoints /\ s.buckets \in [1..FitPoints -> Seq(Nat)]
  BY DEF DelayStates
<1>2. i \in s.index..FitPoints /\ ~Above(d, i, left, right) /\ \A j \in s.index..(i - 1) : Above(d, j, left, right)
  BY <1>1, NextBucketIs
<1>3. t = [index |-> i, buckets |-> [s.buckets EXCEPT ![i] = more]]
  BY DEF PlaceDelay
<1> HIDE DEF i, t
<1>4. i \in 1..FitPoints
  BY <1>1, <1>2, FitPointsAssumption
<1>5. more \in Seq(Nat)
  <2>1. s.buckets[i] \in Seq(Nat)
    BY <1>1, <1>4
  <2> QED
    BY <2>1, AppendProperties
<1> HIDE DEF more
<1>6. t.index = i /\ t.buckets = [s.buckets EXCEPT ![i] = more]
  BY <1>3
<1>7. /\ t.buckets \in [1..FitPoints -> Seq(Nat)] /\ t.buckets[i] = more
      /\ \A b \in 1..FitPoints : b # i => t.buckets[b] = s.buckets[b]
  BY <1>1, <1>4, <1>5, <1>6
<1>8. t \in DelayStates
  BY <1>3, <1>4, <1>6, <1>7 DEF DelayStates
<1>9. t.buckets[t.index] = Append(s.buckets[t.index], d)
  BY <1>6, <1>7 DEF more
<1> QED
  BY <1>2, <1>6, <1>7, <1>8, <1>9, Zenon DEF t

\* The buckets after k of the delays: each delay is in its own, as often as it came.
BinsRight(s, k, delays, left, right) ==
  /\ s.index > 1 => \E j \in 1..k : Above(delays[j], s.index - 1, left, right)
  /\ \A b \in 1..FitPoints : \A q \in 1..Len(s.buckets[b]) :
       s.buckets[b][q] \in Nat /\ InBin(s.buckets[b][q], b, left, right) /\ \E j \in 1..k : s.buckets[b][q] = delays[j]
  /\ \A b \in 1..FitPoints, d \in Nat :
       InBin(d, b, left, right) => HowMany(s.buckets[b], Len(s.buckets[b]), d) = HowMany(delays, k, d)

\* The next delay is not smaller, so the bounds it passed stay passed.
LEMMA BinsTurn ==
  ASSUME NEW left \in Nat, NEW right \in Nat, left <= right, NEW n \in Nat, NEW delays \in [1..n -> Nat],
         Sorted(delays), NEW k \in 1..n, delays[k] <= Power(10, right),
         NEW s \in DelayStates, BinsRight(s, k - 1, delays, left, right)
  PROVE  BinsRight(PlaceDelay(s, delays[k], left, right), k, delays, left, right)
<1> DEFINE d == delays[k]
           t == PlaceDelay(s, d, left, right)
           i == t.index
<1>1. d \in Nat /\ k - 1 \in Nat /\ (k - 1) + 1 = k /\ k \in Nat /\ FitPoints \in Nat
  BY FitPointsAssumption
<1>2. /\ t \in DelayStates /\ i \in s.index..FitPoints
      /\ t.buckets[i] = Append(s.buckets[i], d)
      /\ \A b \in 1..FitPoints : b # i => t.buckets[b] = s.buckets[b]
      /\ ~Above(d, i, left, right)
      /\ \A j \in s.index..(i - 1) : Above(d, j, left, right)
  BY <1>1, PlaceDelayIs
<1> HIDE DEF t
<1>3. s.index \in 1..FitPoints /\ i \in 1..FitPoints /\ s.buckets \in [1..FitPoints -> Seq(Nat)]
  BY <1>2 DEF DelayStates
<1> HIDE DEF d, i
<1>4. InBin(d, i, left, right)
  <2> SUFFICES ASSUME i > 1 PROVE Above(d, i - 1, left, right)
    BY <1>2 DEF InBin
  <2>1. CASE i = s.index
    <3>1. PICK j \in 1..(k - 1) : Above(delays[j], s.index - 1, left, right)
      BY <2>1 DEF BinsRight
    <3>2. j \in 1..n /\ j <= k /\ delays[j] \in Nat
      BY <1>1
    <3>3. delays[j] <= d
      BY <3>2 DEF d, Sorted
    <3>4. i - 1 \in Nat /\ i - 1 <= i - 1
      BY <1>3
    <3> QED
      BY <1>1, <2>1, <3>1, <3>2, <3>3, <3>4, AboveMoves
  <2>2. CASE i # s.index
    <3>1. i - 1 \in s.index..(i - 1)
      <4>1. i \in s.index..FitPoints /\ s.index \in Int /\ i \in Int
        BY <1>2, <1>3
      <4> QED
        BY <2>2, <4>1
    <3> QED
      BY <1>2, <3>1
  <2> QED
    BY <2>1, <2>2
<1>5. i > 1 => \E j \in 1..k : Above(delays[j], i - 1, left, right)
  <2>1. k \in 1..k
    BY <1>1
  <2> QED
    BY <1>4, <2>1 DEF InBin, d
<1>6. \A b \in 1..FitPoints :
        /\ Len(s.buckets[b]) \in Nat
        /\ Len(t.buckets[b]) = IF b = i THEN Len(s.buckets[b]) + 1 ELSE Len(s.buckets[b])
        /\ \A q \in 1..Len(s.buckets[b]) : t.buckets[b][q] = s.buckets[b][q]
        /\ b = i => t.buckets[b][Len(s.buckets[b]) + 1] = d
  <2> SUFFICES ASSUME NEW b \in 1..FitPoints
               PROVE  /\ Len(s.buckets[b]) \in Nat
                      /\ Len(t.buckets[b]) = IF b = i THEN Len(s.buckets[b]) + 1 ELSE Len(s.buckets[b])
                      /\ \A q \in 1..Len(s.buckets[b]) : t.buckets[b][q] = s.buckets[b][q]
                      /\ b = i => t.buckets[b][Len(s.buckets[b]) + 1] = d
    OBVIOUS
  <2> DEFINE bucket == s.buckets[b]
  <2>1. bucket \in Seq(Nat)
    BY <1>3
  <2> HIDE DEF bucket
  <2>2. /\ Len(bucket) \in Nat /\ Len(Append(bucket, d)) = Len(bucket) + 1
        /\ \A q \in 1..Len(bucket) : Append(bucket, d)[q] = bucket[q]
        /\ Append(bucket, d)[Len(bucket) + 1] = d
    BY <1>1, <2>1, LenProperties, AppendProperties
  <2>3. CASE b = i
    <3>1. t.buckets[b] = Append(bucket, d)
      BY <1>2, <2>3 DEF bucket
    <3> QED
      BY <2>2, <2>3, <3>1 DEF bucket
  <2>4. CASE b # i
    <3>1. t.buckets[b] = bucket
      BY <1>2, <2>4 DEF bucket
    <3> QED
      BY <2>2, <2>4, <3>1 DEF bucket
  <2> QED
    BY <2>3, <2>4
<1>7. \A b \in 1..FitPoints : \A q \in 1..Len(t.buckets[b]) :
        t.buckets[b][q] \in Nat /\ InBin(t.buckets[b][q], b, left, right) /\ \E j \in 1..k : t.buckets[b][q] = delays[j]
  <2> SUFFICES ASSUME NEW b \in 1..FitPoints, NEW q \in 1..Len(t.buckets[b])
               PROVE  t.buckets[b][q] \in Nat /\ InBin(t.buckets[b][q], b, left, right) /\ \E j \in 1..k : t.buckets[b][q] = delays[j]
    OBVIOUS
  <2>1. q \in 1..Len(s.buckets[b]) \/ (b = i /\ q = Len(s.buckets[b]) + 1)
    <3> DEFINE m == Len(s.buckets[b])
               n1 == Len(t.buckets[b])
    <3>1. m \in Nat /\ n1 = IF b = i THEN m + 1 ELSE m
      BY <1>6
    <3>2. q \in 1..n1
      OBVIOUS
    <3> HIDE DEF m, n1
    <3>3. q \in 1..m \/ (b = i /\ q = m + 1)
      BY <3>1, <3>2
    <3> QED
      BY <3>3 DEF m
  <2>2. CASE q \in 1..Len(s.buckets[b])
    <3>1. /\ s.buckets[b][q] \in Nat /\ InBin(s.buckets[b][q], b, left, right)
          /\ \E j \in 1..(k - 1) : s.buckets[b][q] = delays[j]
      BY <2>2 DEF BinsRight
    <3>2. \A j \in 1..(k - 1) : j \in 1..k
      BY <1>1
    <3> QED
      BY <1>6, <2>2, <3>1, <3>2
  <2>3. CASE b = i /\ q = Len(s.buckets[b]) + 1
    <3>1. t.buckets[b][q] = d /\ k \in 1..k
      BY <1>1, <1>6, <2>3
    <3> QED
      BY <1>1, <1>4, <2>3, <3>1 DEF d
  <2> QED
    BY <2>1, <2>2, <2>3
<1>8. \A b \in 1..FitPoints, e \in Nat :
        InBin(e, b, left, right) => HowMany(t.buckets[b], Len(t.buckets[b]), e) = HowMany(delays, k, e)
  <2> SUFFICES ASSUME NEW b \in 1..FitPoints, NEW e \in Nat, InBin(e, b, left, right)
               PROVE  HowMany(t.buckets[b], Len(t.buckets[b]), e) = HowMany(delays, k, e)
    OBVIOUS
  <2> DEFINE m == Len(s.buckets[b])
  <2>1. /\ m \in Nat /\ \A q \in 1..m : t.buckets[b][q] = s.buckets[b][q]
        /\ Len(t.buckets[b]) = IF b = i THEN m + 1 ELSE m
        /\ b = i => t.buckets[b][m + 1] = d
    BY <1>6
  <2>2. HowMany(s.buckets[b], m, e) = HowMany(delays, k - 1, e)
    BY DEF BinsRight
  <2> HIDE DEF m
  <2>3. HowMany(t.buckets[b], m, e) = HowMany(s.buckets[b], m, e)
    <3>1. {q \in 1..m : t.buckets[b][q] = e} = {q \in 1..m : s.buckets[b][q] = e}
      BY <2>1
    <3> QED
      BY <3>1 DEF HowMany
  <2>4. HowMany(delays, k, e) = HowMany(delays, k - 1, e) + (IF d = e THEN 1 ELSE 0) /\ HowMany(delays, k - 1, e) \in Nat
    <3>1. HowMany(delays, (k - 1) + 1, e) = HowMany(delays, k - 1, e) + (IF delays[(k - 1) + 1] = e THEN 1 ELSE 0)
      <4> DEFINE before == k - 1
      <4>1. before \in Nat
        BY <1>1
      <4> HIDE DEF before
      <4>2. \A r \in Nat : HowMany(delays, r + 1, e) = HowMany(delays, r, e) + (IF delays[r + 1] = e THEN 1 ELSE 0)
        BY HowManyMore, Zenon
      <4> QED
        BY <4>1, <4>2 DEF before
    <3>2. HowMany(delays, k - 1, e) \in Nat
      BY <1>1, HowManyMore
    <3> QED
      BY <1>1, <3>1, <3>2 DEF d
  <2>5. CASE b = i
    <3>1. HowMany(t.buckets[b], m + 1, e) = HowMany(t.buckets[b], m, e) + (IF t.buckets[b][m + 1] = e THEN 1 ELSE 0)
      BY <2>1, HowManyMore
    <3> QED
      BY <2>1, <2>2, <2>3, <2>4, <2>5, <3>1
  <2>6. CASE b # i
    <3>1. d # e
      BY <1>1, <1>3, <1>4, <2>6, OneBin
    <3>2. HowMany(delays, k, e) = HowMany(delays, k - 1, e)
      BY <2>4, <3>1
    <3> QED
      BY <2>1, <2>2, <2>3, <2>6, <3>2
  <2> QED
    BY <2>5, <2>6
<1>9. BinsRight(t, k, delays, left, right)
  BY <1>5, <1>7, <1>8 DEF BinsRight, i
<1> QED
  BY <1>9 DEF t, d

\* make_processing takes the delays one by one.
Bins0 == [index |-> 1, buckets |-> [i \in 1..FitPoints |-> << >>]]

LEMMA DelayRuns ==
  ASSUME NEW pairs, Delays(pairs) # << >>,
         LET delays == Delays(pairs)
             n == Len(delays)
             left == Floor10(delays[1])
             right == Ceiling10(delays[n])
         IN  /\ n \in Nat /\ left \in Nat /\ right \in Nat /\ left <= right
             /\ \A k \in 1..n : delays[k] \in Nat /\ delays[k] <= Power(10, right)
  PROVE  LET delays == Delays(pairs)
             n == Len(delays)
             left == Floor10(delays[1])
             right == Ceiling10(delays[n])
         IN  \E g :
               /\ g[0] = Bins0
               /\ \A k \in 0..n : g[k] \in DelayStates
               /\ \A k \in 1..n : g[k] = PlaceDelay(g[k - 1], delays[k], left, right)
               /\ MakeProcessing(pairs) = Filled(g[n].buckets)
<1> DEFINE delays == Delays(pairs)
           n == Len(delays)
           left == Floor10(delays[1])
           right == Ceiling10(delays[n])
           D == [k \in 1..n |-> [s \in DelayStates |-> PlaceDelay(s, delays[k], left, right)]]
           Turns(g) == g = [k \in 0..n |-> IF k = 0 THEN Bins0 ELSE PlaceDelay(g[k - 1], delays[k], left, right)]
           g == CHOOSE g : Turns(g)
<1>1. MakeProcessing(pairs) = IF delays = << >> THEN << >> ELSE Filled(g[n].buckets)
  BY Zenon DEF MakeProcessing, Bins0, Loop
<1>2. /\ n \in Nat /\ left \in Nat /\ right \in Nat /\ left <= right /\ delays # << >>
      /\ \A k \in 1..n : delays[k] \in Nat /\ delays[k] <= Power(10, right)
  OBVIOUS
<1> HIDE DEF n, left, right, delays
<1>3. Bins0 \in DelayStates
  <2>1. << >> \in Seq(Nat) /\ 1 \in 1..FitPoints
    BY FitPointsAssumption, EmptySeq
  <2> QED
    BY <2>1 DEF Bins0, DelayStates
<1>4. \A s \in DelayStates, k \in 1..n : PlaceDelay(s, delays[k], left, right) \in DelayStates
  BY <1>2, PlaceDelayIs
<1>5. PICK f : Runs(f, n, DelayStates, Bins0, D)
  <2>1. D \in [1..n -> [DelayStates -> DelayStates]]
    BY <1>2, <1>4
  <2> HIDE DEF D, g
  <2> QED
    BY <1>2, <1>3, <2>1, LoopRuns
<1>6. Turns(f)
  <2> HIDE DEF g
  <2>1. f \in [0..n -> DelayStates] /\ f[0] = Bins0 /\ \A k \in 1..n : f[k] = D[k][f[k - 1]]
    BY <1>5 DEF Runs
  <2>2. ASSUME NEW k \in 1..n PROVE f[k] = PlaceDelay(f[k - 1], delays[k], left, right)
    <3>1. k - 1 \in 0..n
      BY <1>2
    <3>2. f[k - 1] \in DelayStates
      BY <2>1, <3>1
    <3> QED
      BY <2>1, <3>2
  <2>3. \A k \in 0..n : k = 0 \/ k \in 1..n
    BY <1>2
  <2>4. \A k \in 0..n : f[k] = IF k = 0 THEN Bins0 ELSE PlaceDelay(f[k - 1], delays[k], left, right)
    <3>1. \A k \in 1..n : k # 0
      OBVIOUS
    <3> QED
      BY <2>1, <2>2, <2>3, <3>1
  <2> QED
    BY <2>1, <2>4
<1>7. Turns(g)
  <2> HIDE DEF Turns
  <2> QED
    BY <1>6
<1> HIDE DEF g
<1>8. g[0] = Bins0 /\ \A k \in 1..n : g[k] = PlaceDelay(g[k - 1], delays[k], left, right)
  <2>1. 0 \in 0..n /\ \A k \in 1..n : k \in 0..n /\ k # 0
    BY <1>2
  <2> QED
    BY <1>7, <2>1
<1>9. \A k \in 0..n : g[k] \in DelayStates
  <2> DEFINE P == {k \in Nat : g[k] \in DelayStates}
  <2>1. 0 \in P
    BY <1>3, <1>8
  <2>2. ASSUME NEW k \in 1..n, k - 1 \in P PROVE k \in P
    <3>1. g[k - 1] \in DelayStates /\ k \in Nat
      BY <1>2, <2>2
    <3> QED
      BY <1>2, <1>4, <1>8, <3>1
  <2>3. P \in SUBSET Nat
    OBVIOUS
  <2> HIDE DEF P
  <2>4. 0..n \subseteq P
    BY <1>2, <2>1, <2>2, <2>3, Upwards
  <2> QED
    BY <2>4 DEF P
<1>10. MakeProcessing(pairs) = Filled(g[n].buckets)
  BY <1>1, <1>2
<1>11. \E h : /\ h[0] = Bins0
              /\ \A k \in 0..n : h[k] \in DelayStates
              /\ \A k \in 1..n : h[k] = PlaceDelay(h[k - 1], delays[k], left, right)
              /\ MakeProcessing(pairs) = Filled(h[n].buckets)
  BY <1>8, <1>9, <1>10, Zenon
<1> QED
  BY <1>11, Zenon DEF n, left, right, delays

\* No delay is in a bucket yet.
LEMMA BinsNone ==
  ASSUME NEW delays, NEW left, NEW right
  PROVE  BinsRight(Bins0, 0, delays, left, right)
<1>1. /\ Bins0.index = 1
      /\ \A b \in 1..FitPoints : Bins0.buckets[b] = << >> /\ Len(Bins0.buckets[b]) = 0
  BY DEF Bins0
<1>2. \A s, d : HowMany(s, 0, d) = 0
  <2> SUFFICES ASSUME NEW s, NEW d PROVE HowMany(s, 0, d) = 0
    OBVIOUS
  <2>1. {q \in 1..0 : s[q] = d} = {}
    OBVIOUS
  <2> QED
    BY <2>1, FS_EmptySet DEF HowMany
<1>3. ~(Bins0.index > 1)
  BY <1>1
<1>4. \A b \in 1..FitPoints : 1..Len(Bins0.buckets[b]) = {}
  BY <1>1
<1>5. \A b \in 1..FitPoints, d \in Nat : HowMany(Bins0.buckets[b], Len(Bins0.buckets[b]), d) = HowMany(delays, 0, d)
  BY <1>1, <1>2
<1> QED
  BY <1>3, <1>4, <1>5 DEF BinsRight

\* In the end every delay is in its bucket.
LEMMA DelayBins ==
  ASSUME NEW pairs, SoundDelays(pairs), Delays(pairs) # << >>
  PROVE  LET delays == Delays(pairs)
             n == Len(delays)
             left == Floor10(delays[1])
             right == Ceiling10(delays[n])
         IN  /\ left \in Nat /\ right \in Nat /\ left <= right
             /\ \E s \in DelayStates :
                  /\ MakeProcessing(pairs) = Filled(s.buckets)
                  /\ BinsRight(s, n, delays, left, right)
<1> DEFINE delays == Delays(pairs)
           n == Len(delays)
           left == Floor10(delays[1])
           right == Ceiling10(delays[n])
<1>1. delays \in Seq(Nat \ {0}) /\ n \in Nat /\ Sorted(delays) /\ delays # << >>
  BY DelaysAre
<1>2. n # 0 /\ DOMAIN delays = 1..n /\ \A k \in 1..n : delays[k] \in Nat \ {0}
  <2> HIDE DEF delays
  <2>1. n # 0
    BY <1>1, EmptySeq
  <2> QED
    BY <1>1, <2>1, LenProperties, ElementOfSeq
<1>3. delays \in [1..n -> Nat]
  <2> HIDE DEF delays
  <2>1. delays = [k \in DOMAIN delays |-> delays[k]]
    BY <1>1
  <2> QED
    BY <1>2, <2>1
<1>4. 1 \in 1..n /\ n \in 1..n /\ \A k \in 1..n : delays[1] <= delays[k] /\ delays[k] <= delays[n]
  <2> HIDE DEF delays, n
  <2>1. 1 \in 1..n /\ n \in 1..n /\ \A k \in 1..n : 1 <= k /\ k <= n
    BY <1>1, <1>2
  <2> QED
    BY <1>1, <1>2, <2>1 DEF Sorted
<1> HIDE DEF delays, n
<1>5. left \in Nat /\ right \in Nat /\ left <= right /\ delays[n] <= Power(10, right)
  BY <1>2, <1>4, CeilingIs, FloorIs, FloorBelow
<1>6. \A k \in 1..n : delays[k] \in Nat /\ delays[k] <= Power(10, right)
  <2>1. Power(10, right) \in Nat
    BY <1>5, PowerMore
  <2> HIDE DEF right
  <2> QED
    BY <1>2, <1>4, <1>5, <2>1
<1>7. PICK g : /\ g[0] = Bins0
               /\ \A k \in 0..n : g[k] \in DelayStates
               /\ \A k \in 1..n : g[k] = PlaceDelay(g[k - 1], delays[k], left, right)
               /\ MakeProcessing(pairs) = Filled(g[n].buckets)
  <2>1. LET ds == Delays(pairs)
            m == Len(ds)
            l == Floor10(ds[1])
            r == Ceiling10(ds[m])
        IN  /\ m \in Nat /\ l \in Nat /\ r \in Nat /\ l <= r
            /\ \A k \in 1..m : ds[k] \in Nat /\ ds[k] <= Power(10, r)
    BY <1>1, <1>5, <1>6, Zenon DEF n, left, right, delays
  <2>2. LET ds == Delays(pairs)
            m == Len(ds)
            l == Floor10(ds[1])
            r == Ceiling10(ds[m])
        IN  \E g : /\ g[0] = Bins0
                   /\ \A k \in 0..m : g[k] \in DelayStates
                   /\ \A k \in 1..m : g[k] = PlaceDelay(g[k - 1], ds[k], l, r)
                   /\ MakeProcessing(pairs) = Filled(g[m].buckets)
    BY <2>1, DelayRuns
  <2> QED
    BY <2>2, Zenon DEF n, left, right, delays
<1> HIDE DEF left, right
<1>8. \A k \in 0..n : BinsRight(g[k], k, delays, left, right)
  <2> DEFINE P == {k \in Nat : BinsRight(g[k], k, delays, left, right)}
  <2>1. 0 \in P
    BY <1>7, BinsNone
  <2>2. ASSUME NEW k \in 1..n, k - 1 \in P PROVE k \in P
    <3>1. k - 1 \in 0..n /\ k \in Nat
      BY <1>1
    <3>2. g[k - 1] \in DelayStates /\ BinsRight(g[k - 1], k - 1, delays, left, right)
      BY <1>7, <2>2, <3>1
    <3>3. BinsRight(PlaceDelay(g[k - 1], delays[k], left, right), k, delays, left, right)
      BY <1>1, <1>3, <1>5, <1>6, <3>2, BinsTurn
    <3> QED
      BY <1>7, <3>1, <3>3
  <2>3. P \in SUBSET Nat
    OBVIOUS
  <2> HIDE DEF P
  <2>4. 0..n \subseteq P
    BY <1>1, <2>1, <2>2, <2>3, Upwards
  <2> QED
    BY <2>4 DEF P
<1>9. g[n] \in DelayStates /\ BinsRight(g[n], n, delays, left, right) /\ MakeProcessing(pairs) = Filled(g[n].buckets)
  <2>1. n \in 0..n
    BY <1>1
  <2> QED
    BY <1>7, <1>8, <2>1
<1>10. \E s \in DelayStates : MakeProcessing(pairs) = Filled(s.buckets) /\ BinsRight(s, n, delays, left, right)
  BY <1>9
<1> QED
  BY <1>5, <1>10, Zenon DEF delays, n, left, right

\* The points are the buckets from the first to the last that has a delay.
FilledFrom(buckets, lo, hi, points) ==
  /\ lo \in 1..FitPoints /\ hi \in 1..FitPoints /\ lo <= hi
  /\ buckets[lo] # << >> /\ buckets[hi] # << >>
  /\ \A i \in 1..FitPoints : buckets[i] # << >> => i \in lo..hi
  /\ DOMAIN points = 1..(hi - lo + 1) /\ Len(points) = hi - lo + 1
  /\ \A p \in 1..(hi - lo + 1) : points[p].at = lo - 1 + p /\ points[p].delays = buckets[lo - 1 + p]

LEMMA FilledPoints ==
  ASSUME NEW buckets \in [1..FitPoints -> Seq(Nat)], NEW some \in 1..FitPoints, buckets[some] # << >>
  PROVE  \E lo, hi : FilledFrom(buckets, lo, hi, Filled(buckets))
<1> DEFINE filled == {i \in 1..FitPoints : buckets[i] # << >>}
           Point(i) == [at |-> i, delays |-> buckets[i], y |-> IF Len(buckets[i]) > 1 THEN Len(buckets[i]) ELSE 0]
           all == [i \in 1..FitPoints |-> Point(i)]
           lo == Min(filled)
           hi == Max(filled)
           down == {FitPoints - i : i \in filled}
           points == Filled(buckets)
<1>1. FitPoints \in Nat /\ filled \subseteq 1..FitPoints /\ some \in filled
  BY FitPointsAssumption
<1>2. points = SubSeq(all, lo, hi)
  BY Zenon DEF Filled
<1>3. \A i \in 1..FitPoints : i \in filled <=> buckets[i] # << >>
  OBVIOUS
<1> HIDE DEF filled
<1>4. lo \in filled /\ \A i \in filled : lo <= i
  <2>1. filled \in SUBSET Nat /\ filled # {}
    BY <1>1
  <2>2. \E i \in filled : \A j \in filled : i <= j
    BY <2>1, Least
  <2> QED
    BY <2>2 DEF Min
<1>5. hi \in filled /\ \A i \in filled : i <= hi
  <2>1. down \in SUBSET Nat /\ FitPoints - some \in down
    BY <1>1
  <2> HIDE DEF down
  <2>2. PICK d \in down : \A e \in down : d <= e
    BY <2>1, Least
  <2>3. PICK i \in filled : d = FitPoints - i
    BY DEF down
  <2>4. ASSUME NEW j \in filled PROVE i >= j
    <3>1. FitPoints - j \in down
      BY DEF down
    <3>2. FitPoints - i <= FitPoints - j
      BY <2>2, <2>3, <3>1
    <3> QED
      BY <1>1, <3>2
  <2>5. \E k \in filled : \A j \in filled : k >= j
    BY <2>4
  <2>6. hi \in filled /\ \A j \in filled : hi >= j
    BY <2>5 DEF Max
  <2> QED
    BY <1>1, <2>6
<1> HIDE DEF lo, hi
<1>6. lo \in 1..FitPoints /\ hi \in 1..FitPoints /\ lo <= hi
  BY <1>1, <1>4, <1>5
<1> DEFINE n == hi - lo + 1
           o == lo - 1
           E == {Point(i) : i \in 1..FitPoints}
<1>7. o \in Nat /\ n \in Nat /\ o + 1 = lo /\ o + n = hi /\ o + n <= FitPoints
  BY <1>1, <1>6
<1>8. all \in Seq(E) /\ Len(all) = FitPoints
  <2>1. all \in [1..FitPoints -> E]
    OBVIOUS
  <2> HIDE DEF all, E
  <2> QED
    BY <1>1, <2>1, Tabulated
<1>9. \A k \in 1..FitPoints : all[k].at = k /\ all[k].delays = buckets[k]
  OBVIOUS
<1> HIDE DEF all, E, points, n, o
<1>10. points \in Seq(E) /\ Len(points) = n /\ \A k \in 1..n : points[k] = all[o + k]
  <2>1. points = SubSeq(all, o + 1, o + n)
    BY <1>2, <1>7
  <2>2. o + n <= Len(all)
    BY <1>7, <1>8
  <2>3. /\ SubSeq(all, o + 1, o + n) \in Seq(E) /\ Len(SubSeq(all, o + 1, o + n)) = n
        /\ \A k \in 1..n : SubSeq(all, o + 1, o + n)[k] = all[o + k]
    BY <1>7, <1>8, <2>2, SliceItems
  <2> QED
    BY <2>1, <2>3
<1>11. DOMAIN points = 1..n
  BY <1>10, LenProperties
<1>12. ASSUME NEW p \in 1..n PROVE points[p].at = o + p /\ points[p].delays = buckets[o + p]
  <2>1. o + p \in 1..FitPoints
    BY <1>1, <1>7
  <2> QED
    BY <1>9, <1>10, <2>1
<1>13. \A i \in 1..FitPoints : buckets[i] # << >> => i \in lo..hi
  BY <1>1, <1>3, <1>4, <1>5, <1>6
<1>14. buckets[lo] # << >> /\ buckets[hi] # << >>
  BY <1>3, <1>4, <1>5, <1>6
<1>15. FilledFrom(buckets, lo, hi, points)
  BY <1>6, <1>10, <1>11, <1>12, <1>13, <1>14 DEF FilledFrom, n, o
<1> QED
  BY <1>15 DEF points

\* The delays are those of the replies, each as often.
Delayed(pairs, d) == {j \in Answered(pairs) : pairs[j][3] = d}

LEMMA SameDelays ==
  ASSUME NEW pairs, NEW s, Len(s) \in Nat, NEW g, DelaysFrom(g, s, pairs), NEW d
  PROVE  HowMany(s, Len(s), d) = Cardinality(Delayed(pairs, d))
<1> DEFINE S == {q \in 1..Len(s) : s[q] = d}
           T == Delayed(pairs, d)
           f == [q \in S |-> g[q]]
<1>1. /\ g \in [1..Len(s) -> Answered(pairs)]
      /\ \A p \in 1..Len(s) : s[p] = pairs[g[p]][3]
      /\ \A p, q \in 1..Len(s) : g[p] = g[q] => p = q
      /\ \A k \in Answered(pairs) : \E p \in 1..Len(s) : g[p] = k
  BY DEF DelaysFrom
<1>2. \A q \in 1..Len(s) : g[q] \in T <=> q \in S
  BY <1>1 DEF Delayed
<1>3. IsFiniteSet(S)
  <2>1. S \in SUBSET (1..Len(s)) /\ IsFiniteSet(1..Len(s))
    BY IntervalSize
  <2> HIDE DEF S
  <2> QED
    BY <2>1, FS_Subset
<1>4. S \subseteq 1..Len(s) /\ T \subseteq Answered(pairs)
  BY DEF Delayed
<1> HIDE DEF S, T
<1>5. f \in [S -> T] /\ \A p, q \in S : f[p] = f[q] => p = q
  BY <1>1, <1>2, <1>4
<1>6. \A k \in T : \E p \in S : f[p] = k
  <2> SUFFICES ASSUME NEW k \in T PROVE \E p \in S : f[p] = k
    OBVIOUS
  <2>1. PICK p \in 1..Len(s) : g[p] = k
    BY <1>1, <1>4
  <2>2. p \in S
    BY <1>2, <2>1
  <2> QED
    BY <2>1, <2>2
<1> HIDE DEF f
<1>7. f \in Bijection(S, T)
  BY <1>5, <1>6 DEF Bijection, Injection, Surjection, IsInjective, Range
<1>8. ExistsBijection(S, T)
  BY <1>7 DEF ExistsBijection
<1>9. Cardinality(T) = Cardinality(S)
  BY <1>3, <1>8, FS_Bijection
<1> QED
  BY <1>9 DEF HowMany, S, T

\* A delay has a bucket.
LEMMA HasBin ==
  ASSUME NEW left \in Nat, NEW right \in Nat, left <= right, NEW d \in Nat, d <= Power(10, right)
  PROVE  \E b \in 1..FitPoints : InBin(d, b, left, right)
<1> DEFINE b == NextBucket(d, 1, left, right)
<1>1. 1 \in 1..FitPoints /\ FitPoints \in Nat
  BY FitPointsAssumption
<1>2. b \in 1..FitPoints /\ ~Above(d, b, left, right) /\ \A j \in 1..(b - 1) : Above(d, j, left, right)
  BY <1>1, NextBucketIs
<1> HIDE DEF b
<1>3. b > 1 => b - 1 \in 1..(b - 1)
  BY <1>1, <1>2
<1>4. InBin(d, b, left, right)
  BY <1>2, <1>3 DEF InBin
<1> QED
  BY <1>2, <1>4

\* A delay is among the first n items if they hold it at all.
LEMMA HeldItems ==
  ASSUME NEW s, NEW n \in Nat, NEW d
  PROVE  HowMany(s, n, d) # 0 <=> \E q \in 1..n : s[q] = d
<1> DEFINE S == {q \in 1..n : s[q] = d}
<1>1. IsFiniteSet(S)
  <2>1. S \in SUBSET (1..n) /\ IsFiniteSet(1..n)
    BY IntervalSize
  <2> HIDE DEF S
  <2> QED
    BY <2>1, FS_Subset
<1>2. S # {} <=> \E q \in 1..n : s[q] = d
  OBVIOUS
<1> HIDE DEF S
<1>3. Cardinality(S) = 0 <=> S = {}
  BY <1>1, FS_EmptySet
<1> QED
  BY <1>2, <1>3 DEF HowMany, S

\* The extremes of the delays are the first and the last.
LEMMA DelayEnds ==
  ASSUME NEW s \in Seq(Nat \ {0}), s # << >>, Sorted(s), NEW all, all = {s[k] : k \in 1..Len(s)}
  PROVE  Min(all) = s[1] /\ Max(all) = s[Len(s)] /\ s[1] \in all /\ s[Len(s)] \in all
<1> DEFINE n == Len(s)
<1>1. n \in Nat /\ n # 0 /\ DOMAIN s = 1..n /\ \A k \in 1..n : s[k] \in Nat
  BY LenProperties, EmptySeq, ElementOfSeq
<1>2. 1 \in 1..n /\ n \in 1..n /\ \A k \in 1..n : 1 <= k /\ k <= n
  BY <1>1
<1>3. \A k \in 1..n : s[1] <= s[k] /\ s[k] <= s[n]
  BY <1>1, <1>2 DEF Sorted
<1> HIDE DEF n
<1>4. s[1] \in all /\ s[n] \in all /\ \A x \in all : x \in Int /\ s[1] <= x /\ x <= s[n]
  BY <1>1, <1>2, <1>3 DEF n
<1>5. Min(all) \in all /\ Min(all) <= s[1]
  BY <1>4 DEF Min
<1>6. Max(all) \in all /\ Max(all) >= s[n]
  <2>1. \A x \in all : s[n] >= x
    BY <1>4
  <2> QED
    BY <1>4, <2>1 DEF Max
<1>7. Min(all) = s[1] /\ Max(all) = s[n]
  <2> DEFINE min == Min(all)
             max == Max(all)
             first == s[1]
             last == s[n]
  <2>1. min \in Int /\ first <= min /\ min <= first /\ max \in Int /\ max <= last /\ max >= last
    BY <1>4, <1>5, <1>6
  <2>2. first \in Int /\ last \in Int
    BY <1>4
  <2> HIDE DEF min, max, first, last
  <2>3. min = first /\ max = last
    BY <2>1, <2>2
  <2> QED
    BY <2>3 DEF min, max, first, last
<1> QED
  BY <1>4, <1>7 DEF n

\* What the latency chart shows of a report.
Binned(pairs, points) ==
  LET answered == Answered(pairs)
      all == {pairs[k][3] : k \in answered}
      left == Floor10(Min(all))
      right == Ceiling10(Max(all))
      In(p, delay) == Cardinality({k \in DOMAIN points[p].delays : points[p].delays[k] = delay})
  IN  IF answered = {} THEN points = << >>
      ELSE /\ points[1].delays # << >> /\ points[Len(points)].delays # << >>
           /\ \A p \in 2..Len(points) : points[p].at = points[p - 1].at + 1
           /\ \A p \in DOMAIN points : \A k \in DOMAIN points[p].delays :
                LET delay == points[p].delays[k] IN
                  /\ ~Above(delay, points[p].at, left, right)
                  /\ points[p].at > 1 => Above(delay, points[p].at - 1, left, right)
                  /\ In(p, delay) = Cardinality({j \in answered : pairs[j][3] = delay})
           /\ all = UNION {Range(points[p].delays) : p \in DOMAIN points}

LEMMA DelaysBinned ==
  ASSUME NEW pairs, SoundDelays(pairs)
  PROVE  Binned(pairs, MakeProcessing(pairs))
<1> DEFINE answered == Answered(pairs)
           all == {pairs[k][3] : k \in answered}
           delays == Delays(pairs)
           n == Len(delays)
           left == Floor10(Min(all))
           right == Ceiling10(Max(all))
           points == MakeProcessing(pairs)
<1>1. /\ delays \in Seq(Nat \ {0}) /\ n \in Nat /\ Sorted(delays)
      /\ \E g : DelaysFrom(g, delays, pairs)
  BY DelaysAre
<1>2. PICK g : DelaysFrom(g, delays, pairs)
  BY <1>1
<1>3. /\ \A p \in 1..n : g[p] \in answered /\ delays[p] = pairs[g[p]][3]
      /\ \A k \in answered : \E p \in 1..n : g[p] = k
  <2> HIDE DEF answered, delays
  <2> QED
    BY <1>2 DEF DelaysFrom, answered
<1>4. \A p \in 1..n : delays[p] \in Nat
  <2> HIDE DEF delays
  <2> QED
    BY <1>1, ElementOfSeq
<1> HIDE DEF answered, delays, n, points
<1>5. all = {delays[k] : k \in 1..n}
  BY <1>3
<1>6. CASE answered = {}
  <2>1. n = 0
    BY <1>1, <1>3, <1>6
  <2>2. delays = << >>
    BY <1>1, <2>1, EmptySeq DEF n
  <2>3. points = << >>
    BY <2>2, Zenon DEF MakeProcessing, delays, points
  <2> QED
    BY <1>6, <2>3 DEF Binned, answered, points
<1>7. CASE answered # {}
  <2>1. delays # << >>
    <3>1. n # 0
      BY <1>3, <1>7
    <3> QED
      BY <3>1 DEF n
  <2>2. Min(all) = delays[1] /\ Max(all) = delays[n] /\ Min(all) \in all /\ Max(all) \in all
    <3> HIDE DEF all
    <3> QED
      BY <1>1, <1>5, <2>1, DelayEnds DEF n
  <2>3. /\ left \in Nat /\ right \in Nat /\ left <= right
        /\ \E s \in DelayStates : points = Filled(s.buckets) /\ BinsRight(s, n, delays, left, right)
    <3>1. LET ds == Delays(pairs)
              m == Len(ds)
              l == Floor10(ds[1])
              r == Ceiling10(ds[m])
          IN  /\ l \in Nat /\ r \in Nat /\ l <= r
              /\ \E s \in DelayStates :
                   /\ MakeProcessing(pairs) = Filled(s.buckets)
                   /\ BinsRight(s, m, ds, l, r)
      BY <2>1, DelayBins DEF delays
    <3>2. left = Floor10(delays[1]) /\ right = Ceiling10(delays[n])
      BY <2>2
    <3> HIDE DEF left, right
    <3> QED
      BY <3>1, <3>2, Zenon DEF delays, n, points
  <2>4. PICK s \in DelayStates : points = Filled(s.buckets) /\ BinsRight(s, n, delays, left, right)
    BY <2>3
  <2>5. \A k \in 1..n : delays[k] <= Power(10, right)
    <3>1. Max(all) \in Nat /\ Max(all) <= Power(10, right)
      BY <1>4, <1>5, <2>2, CeilingIs
    <3>2. \A k \in 1..n : delays[k] <= delays[n]
      <4>1. DOMAIN delays = 1..n /\ \A k \in 1..n : n \in 1..n /\ k <= n
        BY <1>1, LenProperties DEF n
      <4> QED
        BY <4>1, <1>1 DEF Sorted
    <3>3. Power(10, right) \in Nat
      BY <2>3, PowerMore
    <3> HIDE DEF right
    <3> QED
      BY <1>4, <2>2, <3>1, <3>2, <3>3
  <2> HIDE DEF left, right
  <2> DEFINE buckets == s.buckets
  <2>6. buckets \in [1..FitPoints -> Seq(Nat)]
    BY DEF DelayStates
  <2>7. /\ \A b \in 1..FitPoints : \A q \in 1..Len(buckets[b]) :
             buckets[b][q] \in Nat /\ InBin(buckets[b][q], b, left, right) /\ \E j \in 1..n : buckets[b][q] = delays[j]
        /\ \A b \in 1..FitPoints, d \in Nat :
             InBin(d, b, left, right) => HowMany(buckets[b], Len(buckets[b]), d) = HowMany(delays, n, d)
    BY <2>4 DEF BinsRight
  <2>8. points = Filled(buckets)
    BY <2>4
  <2> HIDE DEF buckets
  <2>9. \A b \in 1..FitPoints : Len(buckets[b]) \in Nat /\ DOMAIN buckets[b] = 1..Len(buckets[b])
    BY <2>6, LenProperties
  <2>10. \A k \in 1..n : \E b \in 1..FitPoints : \E q \in 1..Len(buckets[b]) : buckets[b][q] = delays[k]
    <3> SUFFICES ASSUME NEW k \in 1..n
                 PROVE  \E b \in 1..FitPoints : \E q \in 1..Len(buckets[b]) : buckets[b][q] = delays[k]
      OBVIOUS
    <3>1. PICK b \in 1..FitPoints : InBin(delays[k], b, left, right)
      BY <1>4, <2>3, <2>5, HasBin
    <3>2. HowMany(delays, n, delays[k]) # 0
      BY <1>1, HeldItems
    <3>3. HowMany(buckets[b], Len(buckets[b]), delays[k]) # 0
      BY <1>4, <2>7, <3>1, <3>2
    <3> QED
      BY <2>9, <3>3, HeldItems
  <2>11. \A b \in 1..FitPoints : \A q \in 1..Len(buckets[b]) : buckets[b] # << >>
    BY <2>9, EmptySeq
  <2>12. PICK lo, hi : FilledFrom(buckets, lo, hi, points)
    <3>1. 1 \in 1..n
      <4>1. n # 0
        BY <1>1, <2>1, EmptySeq DEF n
      <4> QED
        BY <1>1, <4>1
    <3>2. PICK b \in 1..FitPoints : \E q \in 1..Len(buckets[b]) : buckets[b][q] = delays[1]
      BY <2>10, <3>1
    <3>3. buckets[b] # << >>
      BY <2>11, <3>2
    <3> QED
      BY <2>6, <2>8, <3>3, FilledPoints
  <2> DEFINE m == hi - lo + 1
             of(p) == lo - 1 + p
  <2>13. /\ lo \in 1..FitPoints /\ hi \in 1..FitPoints /\ lo <= hi
         /\ buckets[lo] # << >> /\ buckets[hi] # << >>
         /\ \A i \in 1..FitPoints : buckets[i] # << >> => i \in lo..hi
         /\ DOMAIN points = 1..m /\ Len(points) = m
         /\ \A p \in 1..m : points[p].at = of(p) /\ points[p].delays = buckets[of(p)]
    BY <2>12 DEF FilledFrom
  <2>14. /\ m \in Nat /\ 1 \in 1..m /\ m \in 1..m /\ of(1) = lo /\ of(m) = hi
         /\ \A p \in 1..m : of(p) \in 1..FitPoints
         /\ \A p \in 2..m : p \in 1..m /\ p - 1 \in 1..m /\ of(p) = of(p - 1) + 1
         /\ \A i \in lo..hi : i - lo + 1 \in 1..m /\ of(i - lo + 1) = i
    BY <2>13, FitPointsAssumption
  <2> HIDE DEF m, of
  <2>15. points[1].delays # << >> /\ points[Len(points)].delays # << >>
    BY <2>13, <2>14
  <2>16. \A p \in 2..Len(points) : points[p].at = points[p - 1].at + 1
    BY <2>13, <2>14
  <2>17. \A p \in DOMAIN points : \A k \in DOMAIN points[p].delays :
           LET delay == points[p].delays[k] IN
             /\ ~Above(delay, points[p].at, left, right)
             /\ points[p].at > 1 => Above(delay, points[p].at - 1, left, right)
             /\ Cardinality({i \in DOMAIN points[p].delays : points[p].delays[i] = delay})
                = Cardinality({j \in answered : pairs[j][3] = delay})
    <3> SUFFICES ASSUME NEW p \in 1..m, NEW k \in DOMAIN points[p].delays
                 PROVE  LET delay == points[p].delays[k] IN
                          /\ ~Above(delay, points[p].at, left, right)
                          /\ points[p].at > 1 => Above(delay, points[p].at - 1, left, right)
                          /\ Cardinality({i \in DOMAIN points[p].delays : points[p].delays[i] = delay})
                             = Cardinality({j \in answered : pairs[j][3] = delay})
      BY <2>13
    <3> DEFINE b == of(p)
               delay == buckets[b][k]
    <3>1. b \in 1..FitPoints /\ points[p].at = b /\ points[p].delays = buckets[b] /\ k \in 1..Len(buckets[b])
      BY <2>9, <2>13, <2>14
    <3> HIDE DEF b
    <3>2. delay \in Nat /\ InBin(delay, b, left, right)
      BY <2>7, <3>1
    <3>3. HowMany(buckets[b], Len(buckets[b]), delay) = HowMany(delays, n, delay)
      BY <2>7, <3>1, <3>2
    <3>4. HowMany(delays, n, delay) = Cardinality({j \in answered : pairs[j][3] = delay})
      <4> HIDE DEF delay
      <4>1. Len(delays) \in Nat
        BY <1>1 DEF n
      <4>2. HowMany(delays, Len(delays), delay) = Cardinality(Delayed(pairs, delay))
        BY <1>2, <4>1, SameDelays
      <4> QED
        BY <4>2 DEF answered, n, Delayed
    <3>5. Cardinality({i \in DOMAIN buckets[b] : buckets[b][i] = delay}) = HowMany(buckets[b], Len(buckets[b]), delay)
      BY <2>9, <3>1 DEF HowMany
    <3> HIDE DEF delay
    <3>6. points[p].delays[k] = delay
      BY <3>1 DEF delay
    <3> QED
      BY <3>1, <3>2, <3>3, <3>4, <3>5, <3>6 DEF InBin
  <2>18. all = UNION {Range(points[p].delays) : p \in DOMAIN points}
    <3>1. ASSUME NEW y \in all PROVE \E p \in DOMAIN points : y \in Range(points[p].delays)
      <4>1. PICK j \in 1..n : y = delays[j]
        BY <1>5
      <4>2. PICK b \in 1..FitPoints, q \in Nat : q \in 1..Len(buckets[b]) /\ buckets[b][q] = y
        BY <2>10, <4>1
      <4>3. b \in lo..hi
        BY <2>11, <2>13, <4>2
      <4>4. PICK p \in 1..m : of(p) = b
        BY <2>14, <4>3
      <4>5. points[p].delays = buckets[b] /\ q \in DOMAIN buckets[b]
        BY <2>9, <2>13, <4>2, <4>4
      <4> QED
        BY <2>13, <4>2, <4>5 DEF Range
    <3>2. ASSUME NEW p \in DOMAIN points, NEW y \in Range(points[p].delays) PROVE y \in all
      <4> DEFINE b == of(p)
      <4>1. b \in 1..FitPoints /\ points[p].delays = buckets[b]
        BY <2>13, <2>14
      <4>2. PICK q \in 1..Len(buckets[b]) : buckets[b][q] = y
        BY <2>9, <3>2, <4>1 DEF Range
      <4>3. \E j \in 1..n : y = delays[j]
        BY <2>7, <4>1, <4>2
      <4> QED
        BY <1>5, <4>3
    <3> HIDE DEF all
    <3> QED
      BY <3>1, <3>2
  <2> HIDE DEF all
  <2> QED
    BY <1>7, <2>15, <2>16, <2>17, <2>18 DEF Binned, answered, all, left, right, points
<1> QED
  BY <1>6, <1>7 DEF answered

\* The latency chart of a report shows its delays.
LEMMA DelaysAreInBins == GrinderInv => LatencyBinned
<1> SUFFICES ASSUME GrinderInv, NEW l \in DOMAIN processing
             PROVE  Binned(Part(processing[l].input).pairs, processing[l].values)
  BY Zenon DEF LatencyBinned, Binned, Answered
<1> DEFINE line == processing[l]
           pairs == Part(line.input).pairs
<1>1. arguments \in Arguments /\ inputs[line.input].data \in Reports /\ line.values = MakeProcessing(pairs)
  BY DEF GrinderInv, LinesDrawn, DelayLine, Drawn
<1>2. SoundPart(Part(line.input))
  BY <1>1, CutSound DEF Part
<1>3. SoundDelays(pairs)
  BY <1>2 DEF SoundPart, SoundDelays, Answered
<1> HIDE DEF pairs
<1>4. Binned(pairs, MakeProcessing(pairs))
  BY <1>3, DelaysBinned
<1> QED
  BY <1>1, <1>4 DEF pairs

\* Every delay is drawn in the one bucket it belongs in, as often as it came, from the first
\* bucket with a delay to the last (grinder.py:239-272).
THEOREM DelaysAreBinned == Spec => []LatencyBinned
BY LinesAreDrawn, DelaysAreInBins, PTL

-----------------------------------------------------------------------------
(* Rates over a whole run.                                                 *)

\* What the pair of the i-th and the j-th message says against the rate c/d.
Against(t, i, j, c, d) == (t[j] - t[i]) * (d * (j - i) - c * (t[j] - t[i]))

\* The sums of a regression, up to each message.
Regression(t, n, tk, tt, st, sk) ==
  /\ Sums(tk, n, [k \in 1..n |-> t[k] * k]) /\ Sums(tt, n, [k \in 1..n |-> t[k] * t[k]])
  /\ Sums(st, n, [k \in 1..n |-> t[k]]) /\ Sums(sk, n, [k \in 1..n |-> k])

\* What each of the sums begins with and adds.
Adding(t, n, tk, tt, st, sk) ==
  /\ tk[0] = 0 /\ tt[0] = 0 /\ st[0] = 0 /\ sk[0] = 0
  /\ \A i \in 0..n : tk[i] \in Int /\ tt[i] \in Int /\ st[i] \in Int /\ sk[i] \in Int
  /\ \A i \in 1..n : tk[i] = tk[i - 1] + t[i] * i
  /\ \A i \in 1..n : tt[i] = tt[i - 1] + t[i] * t[i]
  /\ \A i \in 1..n : st[i] = st[i - 1] + t[i]
  /\ \A i \in 1..n : sk[i] = sk[i - 1] + i

\* They do.
LEMMA RegressionTurn ==
  ASSUME NEW n \in Nat, NEW t \in [1..n -> Int], NEW tk, NEW tt, NEW st, NEW sk,
         Regression(t, n, tk, tt, st, sk)
  PROVE  Adding(t, n, tk, tt, st, sk)
<1>1. tk[0] = 0 /\ tt[0] = 0 /\ st[0] = 0 /\ sk[0] = 0
  BY DEF Regression, Sums
<1>2. \A i \in 0..n : tk[i] \in Int /\ tt[i] \in Int /\ st[i] \in Int /\ sk[i] \in Int
  BY DEF Regression, Sums
<1>3. \A i \in 1..n : tk[i] = tk[i - 1] + t[i] * i
  BY DEF Regression, Sums
<1>4. \A i \in 1..n : tt[i] = tt[i - 1] + t[i] * t[i]
  BY DEF Regression, Sums
<1>5. \A i \in 1..n : st[i] = st[i - 1] + t[i]
  BY DEF Regression, Sums
<1>6. \A i \in 1..n : sk[i] = sk[i - 1] + i
  BY DEF Regression, Sums
<1> QED
  BY <1>1, <1>2, <1>3, <1>4, <1>5, <1>6 DEF Adding

\* What the pairs of the messages up to i with the m-th say, in sums.
WithLast(t, m, i, c, d, tk, tt, st, sk) ==
  d * (tk[i] + i * t[m] * m - st[i] * m - t[m] * sk[i]) - c * (tt[i] + i * t[m] * t[m] - 2 * t[m] * st[i])

\* What all pairs up to m say.
AmongAll(m, c, d, tk, tt, st, sk) ==
  d * (m * tk[m] - st[m] * sk[m]) - c * (m * tt[m] - st[m] * st[m])

\* The algebra of one pair more.
LEMMA PairAdds ==
  ASSUME NEW a \in Int, NEW b \in Int, NEW s \in Int, NEW k \in Int, NEW i \in Int, NEW m \in Int,
         NEW x \in Int, NEW y \in Int, NEW c \in Int, NEW d \in Int
  PROVE  d * ((a + x * i) + i * y * m - (s + x) * m - y * (k + i)) - c * ((b + x * x) + i * y * y - 2 * y * (s + x))
         = (d * (a + (i - 1) * y * m - s * m - y * k) - c * (b + (i - 1) * y * y - 2 * y * s))
           + (y - x) * (d * (m - i) - c * (y - x))
OBVIOUS

\* The algebra of one message more.
LEMMA MessageAdds ==
  ASSUME NEW a \in Int, NEW b \in Int, NEW s \in Int, NEW k \in Int, NEW m \in Int,
         NEW y \in Int, NEW c \in Int, NEW d \in Int
  PROVE  d * (m * (a + y * m) - (s + y) * (k + m)) - c * (m * (b + y * y) - (s + y) * (s + y))
         = (d * ((m - 1) * a - s * k) - c * ((m - 1) * b - s * s))
           + (d * (a + (m - 1) * y * m - s * m - y * k) - c * (b + (m - 1) * y * y - 2 * y * s))
OBVIOUS


\* What the pairs with the m-th message say adds up to nothing against a rate none of
\* them speaks against, and to more if one of them speaks for it.
LEMMA LastPairs ==
  ASSUME NEW n \in Nat, NEW t \in [1..n -> Int], NEW tk, NEW tt, NEW st, NEW sk,
         Regression(t, n, tk, tt, st, sk), NEW c \in Int, NEW d \in Int,
         \A i, j \in 1..n : i < j => Against(t, i, j, c, d) >= 0, NEW m \in 1..n
  PROVE  /\ WithLast(t, m, m - 1, c, d, tk, tt, st, sk) \in Int
         /\ WithLast(t, m, m - 1, c, d, tk, tt, st, sk) >= 0
         /\ \A i \in 1..(m - 1) : Against(t, i, m, c, d) > 0 =>
              WithLast(t, m, m - 1, c, d, tk, tt, st, sk) > 0
<1> DEFINE F(i) == WithLast(t, m, i, c, d, tk, tt, st, sk)
           W(i) == Against(t, i, m, c, d)
           P == {i \in Nat : i <= m - 1 => F(i) >= 0 /\ \A l \in 1..i : W(l) > 0 => F(i) > 0}
<1>1. /\ tk[0] = 0 /\ tt[0] = 0 /\ st[0] = 0 /\ sk[0] = 0
      /\ \A i \in 0..n : tk[i] \in Int /\ tt[i] \in Int /\ st[i] \in Int /\ sk[i] \in Int
      /\ \A i \in 1..n : /\ tk[i] = tk[i - 1] + t[i] * i /\ tt[i] = tt[i - 1] + t[i] * t[i]
                         /\ st[i] = st[i - 1] + t[i] /\ sk[i] = sk[i - 1] + i
  <2>1. Adding(t, n, tk, tt, st, sk)
    <3> HIDE DEF F, W, P
    <3> QED
      BY RegressionTurn
  <2> HIDE DEF F, W, P
  <2> QED
    BY <2>1 DEF Adding
<1>2. m \in Int /\ m <= n /\ m - 1 \in Nat /\ t[m] \in Int
  OBVIOUS
<1>3. ASSUME NEW i \in 1..(m - 1)
      PROVE  F(i) = F(i - 1) + W(i) /\ W(i) >= 0 /\ W(i) \in Int
  <2>1. i \in 1..n /\ i - 1 \in 0..n /\ i \in Int /\ i < m
    BY <1>2
  <2>2. t[i] \in Int /\ tk[i - 1] \in Int /\ tt[i - 1] \in Int /\ st[i - 1] \in Int /\ sk[i - 1] \in Int
    BY <1>1, <2>1
  <2>3. /\ tk[i] = tk[i - 1] + t[i] * i /\ tt[i] = tt[i - 1] + t[i] * t[i]
        /\ st[i] = st[i - 1] + t[i] /\ sk[i] = sk[i - 1] + i
    BY <1>1, <2>1
  <2> DEFINE a == tk[i - 1]
             b == tt[i - 1]
             s == st[i - 1]
             k == sk[i - 1]
             x == t[i]
             y == t[m]
  <2>4. /\ F(i) = d * ((a + x * i) + i * y * m - (s + x) * m - y * (k + i)) - c * ((b + x * x) + i * y * y - 2 * y * (s + x))
        /\ F(i - 1) = d * (a + (i - 1) * y * m - s * m - y * k) - c * (b + (i - 1) * y * y - 2 * y * s)
        /\ W(i) = (y - x) * (d * (m - i) - c * (y - x))
    BY <2>3 DEF WithLast, Against
  <2>5. a \in Int /\ b \in Int /\ s \in Int /\ k \in Int /\ x \in Int /\ y \in Int
    BY <1>2, <2>2
  <2> HIDE DEF a, b, s, k, x, y, F, W
  <2>6. F(i) = F(i - 1) + W(i)
    BY <1>2, <2>1, <2>4, <2>5, PairAdds
  <2>7. W(i) >= 0
    BY <2>1, <1>2 DEF W
  <2>8. W(i) \in Int
    BY <1>2, <2>1, <2>4, <2>5
  <2> QED
    BY <2>6, <2>7, <2>8
<1>4. \A i \in 0..(m - 1) : F(i) \in Int
  <2> SUFFICES ASSUME NEW i \in 0..(m - 1) PROVE F(i) \in Int
    OBVIOUS
  <2>1. i \in Int /\ tk[i] \in Int /\ tt[i] \in Int /\ st[i] \in Int /\ sk[i] \in Int
    BY <1>1, <1>2
  <2> QED
    <3> DEFINE a == tk[i] + i * t[m] * m - st[i] * m - t[m] * sk[i]
               b == tt[i] + i * t[m] * t[m] - 2 * t[m] * st[i]
    <3>1. a \in Int /\ b \in Int
      <4> DEFINE y == t[m]
                 u == i * y
                 v == st[i]
                 w == sk[i]
                 p == tk[i]
                 q == tt[i]
      <4>1. y \in Int /\ v \in Int /\ w \in Int /\ p \in Int /\ q \in Int
        BY <1>2, <2>1
      <4>2. u \in Int
        BY <2>1, <4>1
      <4>3. a = p + u * m - v * m - y * w /\ b = q + u * y - 2 * y * v
        OBVIOUS
      <4> HIDE DEF a, b, u, v, w, p, q, y
      <4>4. u * m \in Int /\ v * m \in Int /\ y * w \in Int /\ u * y \in Int /\ 2 * y \in Int
        BY <1>2, <4>1, <4>2
      <4>5. 2 * y * v \in Int
        BY <4>1, <4>4
      <4>6. \A e, f, g, h \in Int : e + f - g - h \in Int /\ e + f - g \in Int
        OBVIOUS
      <4>7. p + u * m - v * m - y * w \in Int
        BY <4>1, <4>4, <4>6
      <4>8. q + u * y - 2 * y * v \in Int
        BY <4>1, <4>4, <4>5, <4>6
      <4> QED
        BY <4>3, <4>7, <4>8
    <3>2. F(i) = d * a - c * b
      BY DEF WithLast
    <3> HIDE DEF a, b, F
    <3> QED
      BY <3>1, <3>2
<1>5. F(0) = 0
  BY <1>1, <1>2 DEF WithLast
<1> HIDE DEF F, W
<1>6. 0 \in P
  BY <1>5
<1>7. ASSUME NEW i \in 1..(m - 1), i - 1 \in P PROVE i \in P
  <2>1. i - 1 <= m - 1 /\ i \in Nat /\ i - 1 \in 0..(m - 1) /\ i \in 0..(m - 1)
    BY <1>2
  <2>2. F(i - 1) >= 0 /\ \A l \in 1..(i - 1) : W(l) > 0 => F(i - 1) > 0
    BY <1>7, <2>1
  <2>3. F(i) = F(i - 1) + W(i) /\ W(i) >= 0 /\ W(i) \in Int /\ F(i - 1) \in Int /\ F(i) \in Int
    BY <1>3, <1>4, <2>1
  <2>4. F(i) >= 0
    BY <2>2, <2>3
  <2>5. ASSUME NEW l \in 1..i, W(l) > 0 PROVE F(i) > 0
    <3>1. CASE l = i
      BY <2>2, <2>3, <2>5, <3>1
    <3>2. CASE l # i
      <4>1. l \in 1..(i - 1)
        BY <3>2
      <4> QED
        BY <2>2, <2>3, <2>5, <4>1
    <3> QED
      BY <3>1, <3>2
  <2> QED
    BY <2>1, <2>4, <2>5
<1>8. m - 1 \in P
  <2>1. P \in SUBSET Nat
    OBVIOUS
  <2> HIDE DEF P
  <2>2. 0..(m - 1) \subseteq P
    BY <1>2, <1>6, <1>7, <2>1, Upwards
  <2> QED
    BY <1>2, <2>2
<1>9. m - 1 \in 0..(m - 1)
  BY <1>2
<1>10. F(m - 1) \in Int
  BY <1>4, <1>9
<1>11. F(m - 1) >= 0 /\ \A l \in 1..(m - 1) : W(l) > 0 => F(m - 1) > 0
  BY <1>2, <1>8
<1> QED
  BY <1>10, <1>11 DEF F, W

\* So do all pairs.
LEMMA AllPairs ==
  ASSUME NEW n \in Nat, NEW t \in [1..n -> Int], NEW tk, NEW tt, NEW st, NEW sk,
         Regression(t, n, tk, tt, st, sk), NEW c \in Int, NEW d \in Int,
         \A i, j \in 1..n : i < j => Against(t, i, j, c, d) >= 0
  PROVE  /\ AmongAll(n, c, d, tk, tt, st, sk) \in Int
         /\ AmongAll(n, c, d, tk, tt, st, sk) >= 0
         /\ \A i, j \in 1..n : i < j /\ Against(t, i, j, c, d) > 0 =>
              AmongAll(n, c, d, tk, tt, st, sk) > 0
<1> DEFINE E(m) == AmongAll(m, c, d, tk, tt, st, sk)
           F(m) == WithLast(t, m, m - 1, c, d, tk, tt, st, sk)
           W(i, j) == Against(t, i, j, c, d)
           P == {m \in Nat : m <= n => E(m) >= 0 /\ \A j \in 1..m : \A i \in 1..(j - 1) : W(i, j) > 0 => E(m) > 0}
<1>1. /\ tk[0] = 0 /\ tt[0] = 0 /\ st[0] = 0 /\ sk[0] = 0
      /\ \A i \in 0..n : tk[i] \in Int /\ tt[i] \in Int /\ st[i] \in Int /\ sk[i] \in Int
      /\ \A i \in 1..n : /\ tk[i] = tk[i - 1] + t[i] * i /\ tt[i] = tt[i - 1] + t[i] * t[i]
                         /\ st[i] = st[i - 1] + t[i] /\ sk[i] = sk[i - 1] + i
  <2>1. Adding(t, n, tk, tt, st, sk)
    <3> HIDE DEF E, F, W, P
    <3> QED
      BY RegressionTurn
  <2> HIDE DEF E, F, W, P
  <2> QED
    BY <2>1 DEF Adding
<1>2. ASSUME NEW m \in 1..n
      PROVE  /\ F(m) \in Int /\ F(m) >= 0
             /\ \A i \in 1..(m - 1) : W(i, m) > 0 => F(m) > 0
  BY LastPairs
<1>3. ASSUME NEW m \in 1..n PROVE E(m) = E(m - 1) + F(m)
  <2>1. m - 1 \in 0..n /\ m \in Int /\ t[m] \in Int
    OBVIOUS
  <2>2. tk[m - 1] \in Int /\ tt[m - 1] \in Int /\ st[m - 1] \in Int /\ sk[m - 1] \in Int
    BY <1>1, <2>1
  <2>3. /\ tk[m] = tk[m - 1] + t[m] * m /\ tt[m] = tt[m - 1] + t[m] * t[m]
        /\ st[m] = st[m - 1] + t[m] /\ sk[m] = sk[m - 1] + m
    BY <1>1
  <2> DEFINE a == tk[m - 1]
             b == tt[m - 1]
             s == st[m - 1]
             k == sk[m - 1]
             y == t[m]
  <2>4. /\ E(m) = d * (m * (a + y * m) - (s + y) * (k + m)) - c * (m * (b + y * y) - (s + y) * (s + y))
        /\ E(m - 1) = d * ((m - 1) * a - s * k) - c * ((m - 1) * b - s * s)
        /\ F(m) = d * (a + (m - 1) * y * m - s * m - y * k) - c * (b + (m - 1) * y * y - 2 * y * s)
    BY <2>3 DEF WithLast, AmongAll
  <2>5. a \in Int /\ b \in Int /\ s \in Int /\ k \in Int /\ y \in Int
    BY <2>1, <2>2
  <2> HIDE DEF a, b, s, k, y, E, F
  <2> QED
    BY <2>1, <2>4, <2>5, MessageAdds
<1>4. \A m \in 0..n : E(m) \in Int
  <2> SUFFICES ASSUME NEW m \in 0..n PROVE E(m) \in Int
    OBVIOUS
  <2>1. m \in Int /\ tk[m] \in Int /\ tt[m] \in Int /\ st[m] \in Int /\ sk[m] \in Int
    BY <1>1
  <2> QED
    <3> DEFINE a == m * tk[m] - st[m] * sk[m]
               b == m * tt[m] - st[m] * st[m]
    <3>1. \A x, y \in Int : x * y \in Int
      OBVIOUS
    <3>2. /\ m * tk[m] \in Int /\ st[m] * sk[m] \in Int
          /\ m * tt[m] \in Int /\ st[m] * st[m] \in Int
      BY <2>1, <3>1
    <3>3. a \in Int /\ b \in Int
      <4> DEFINE q == m * tk[m]
                 r == st[m] * sk[m]
                 u == m * tt[m]
                 v == st[m] * st[m]
      <4>1. q \in Int /\ r \in Int /\ u \in Int /\ v \in Int
        BY <3>2
      <4>2. a = q - r /\ b = u - v
        OBVIOUS
      <4> HIDE DEF a, b, q, r, u, v
      <4> QED
        BY <4>1, <4>2
    <3>4. E(m) = d * a - c * b
      BY DEF AmongAll
    <3> HIDE DEF a, b, E
    <3> QED
      BY <3>3, <3>4
<1>5. E(0) = 0
  BY <1>1 DEF AmongAll
<1> HIDE DEF E, F, W
<1>6. 0 \in P
  BY <1>5
<1>7. ASSUME NEW m \in 1..n, m - 1 \in P PROVE m \in P
  <2>1. m - 1 <= n /\ m \in Nat /\ m - 1 \in 0..n /\ m \in 0..n
    OBVIOUS
  <2>2. E(m - 1) >= 0 /\ \A j \in 1..(m - 1) : \A i \in 1..(j - 1) : W(i, j) > 0 => E(m - 1) > 0
    BY <1>7, <2>1
  <2>3. E(m) = E(m - 1) + F(m) /\ F(m) >= 0 /\ F(m) \in Int /\ E(m - 1) \in Int
    BY <1>2, <1>3, <1>4, <2>1
  <2>4. E(m) >= 0
    BY <2>2, <2>3
  <2>5. ASSUME NEW j \in 1..m, NEW i \in 1..(j - 1), W(i, j) > 0 PROVE E(m) > 0
    <3>1. CASE j = m
      <4>1. F(m) > 0
        BY <1>2, <2>5, <3>1
      <4> QED
        BY <2>2, <2>3, <4>1
    <3>2. CASE j # m
      <4>1. j \in 1..(m - 1)
        BY <3>2
      <4>2. E(m - 1) > 0
        BY <2>2, <2>5, <4>1
      <4> QED
        BY <2>3, <4>2
    <3> QED
      BY <3>1, <3>2
  <2> QED
    BY <2>1, <2>4, <2>5
<1>8. n \in P
  <2>1. P \in SUBSET Nat
    OBVIOUS
  <2> HIDE DEF P
  <2>2. 0..n \subseteq P
    BY <1>6, <1>7, <2>1, Upwards
  <2> QED
    BY <2>2
<1>9. E(n) \in Int
  BY <1>4
<1>10. E(n) >= 0 /\ \A j \in 1..n : \A i \in 1..(j - 1) : W(i, j) > 0 => E(n) > 0
  BY <1>8
<1>11. ASSUME NEW i \in 1..n, NEW j \in 1..n, i < j, W(i, j) > 0 PROVE E(n) > 0
  <2>1. i \in 1..(j - 1)
    BY <1>11
  <2> QED
    BY <1>10, <1>11, <2>1
<1> QED
  BY <1>9, <1>10, <1>11 DEF E, W


\* Rates as fractions.
Rates == AnyRate \cup [num : Int, den : Nat \ {0}]

\* They are.
LEMMA RatesAre ==
  ASSUME NEW slope \in Rates
  PROVE  slope.num \in Int /\ slope.den \in Nat \ {0}
<1>1. CASE slope \in AnyRate
  BY <1>1, AnyRateAssumption
<1>2. CASE slope \in [num : Int, den : Nat \ {0}]
  BY <1>2
<1> QED
  BY <1>1, <1>2 DEF Rates

\* The rates of a fit, from its sums.
Slopes(n, sum_tk, sum_tt, sum_t, sum_k) ==
  LET den == n * sum_tt - sum_t * sum_t
  IN  IF n < 2 THEN {}
      ELSE IF den = 0 THEN AnyRate
      ELSE {[num |-> n * sum_tk - sum_t * sum_k, den |-> den]}

\* That is what Fit returns.
LEMMA FitSums ==
  ASSUME NEW n \in Nat, NEW times \in [1..n -> Nat], Len(times) = n, NEW t \in [1..n -> Int],
         \A k \in 1..n : t[k] = times[k] - times[1]
  PROVE  Fit(times) = Slopes(n, Total([k \in 1..n |-> t[k] * k]), Total([k \in 1..n |-> t[k] * t[k]]),
                             Total([k \in 1..n |-> t[k]]), Total([k \in 1..n |-> k]))
<1>1. /\ [k \in 1..n |-> (times[k] - times[1]) * k] = [k \in 1..n |-> t[k] * k]
      /\ [k \in 1..n |-> (times[k] - times[1]) * (times[k] - times[1])] = [k \in 1..n |-> t[k] * t[k]]
      /\ [k \in 1..n |-> times[k] - times[1]] = [k \in 1..n |-> t[k]]
  BY Zenon
<1> DEFINE sum_tk == Total([k \in 1..n |-> (times[k] - times[1]) * k])
           sum_tt == Total([k \in 1..n |-> (times[k] - times[1]) * (times[k] - times[1])])
           sum_t == Total([k \in 1..n |-> times[k] - times[1]])
           sum_k == Total([k \in 1..n |-> k])
<1>2. Fit(times) = Slopes(n, sum_tk, sum_tt, sum_t, sum_k)
  BY DEF Fit, Slopes
<1>3. /\ sum_tk = Total([k \in 1..n |-> t[k] * k]) /\ sum_tt = Total([k \in 1..n |-> t[k] * t[k]])
      /\ sum_t = Total([k \in 1..n |-> t[k]])
  BY <1>1
<1> HIDE DEF sum_tk, sum_tt, sum_t, sum_k
<1> QED
  BY <1>2, <1>3 DEF sum_k

\* The sums exist.
LEMMA Regressions ==
  ASSUME NEW n \in Nat, NEW t \in [1..n -> Int]
  PROVE  \E tk, tt, st, sk :
           /\ Regression(t, n, tk, tt, st, sk)
           /\ tk[n] = Total([k \in 1..n |-> t[k] * k]) /\ tt[n] = Total([k \in 1..n |-> t[k] * t[k]])
           /\ st[n] = Total([k \in 1..n |-> t[k]]) /\ sk[n] = Total([k \in 1..n |-> k])
<1> DEFINE a == [k \in 1..n |-> t[k] * k]
           b == [k \in 1..n |-> t[k] * t[k]]
           c == [k \in 1..n |-> t[k]]
           d == [k \in 1..n |-> k]
<1>1. a \in [1..n -> Int] /\ b \in [1..n -> Int] /\ c \in [1..n -> Int] /\ d \in [1..n -> Int]
  OBVIOUS
<1> HIDE DEF a, b, c, d
<1>2. PICK tk : Sums(tk, n, a) /\ Total(a) = tk[n]
  BY <1>1, TotalRuns
<1>3. PICK tt : Sums(tt, n, b) /\ Total(b) = tt[n]
  BY <1>1, TotalRuns
<1>4. PICK st : Sums(st, n, c) /\ Total(c) = st[n]
  BY <1>1, TotalRuns
<1>5. PICK sk : Sums(sk, n, d) /\ Total(d) = sk[n]
  BY <1>1, TotalRuns
<1>6. /\ Regression(t, n, tk, tt, st, sk)
      /\ tk[n] = Total([k \in 1..n |-> t[k] * k]) /\ tt[n] = Total([k \in 1..n |-> t[k] * t[k]])
      /\ st[n] = Total([k \in 1..n |-> t[k]]) /\ sk[n] = Total([k \in 1..n |-> k])
  BY <1>2, <1>3, <1>4, <1>5 DEF a, b, c, d, Regression
<1> QED
  BY <1>6

\* The slope of the regression is a rate, and neither smaller nor larger than all
\* rates of two messages: it is their mean, weighted by the squares of their
\* distances.
LEMMA FitIs ==
  ASSUME NEW times \in Seq(Nat), Sorted(times), NEW slope \in Fit(times)
  PROVE  times # << >> /\ slope \in Rates /\ Plausible(slope, times)
<1> DEFINE n == Len(times)
           t == [k \in 1..n |-> times[k] - times[1]]
<1>1. n \in Nat /\ DOMAIN times = 1..n /\ times \in [1..n -> Nat]
  BY LenProperties, ElementOfSeq
<1>2. PICK tk, tt, st, sk :
        /\ Regression(t, n, tk, tt, st, sk)
        /\ tk[n] = Total([k \in 1..n |-> t[k] * k]) /\ tt[n] = Total([k \in 1..n |-> t[k] * t[k]])
        /\ st[n] = Total([k \in 1..n |-> t[k]]) /\ sk[n] = Total([k \in 1..n |-> k])
  <2>1. t \in [1..n -> Int]
    BY <1>1
  <2> HIDE DEF t, n
  <2> QED
    BY <1>1, <2>1, Regressions
<1> DEFINE den == n * tt[n] - st[n] * st[n]
           num == n * tk[n] - st[n] * sk[n]
<1>3. Fit(times) = IF n < 2 THEN {} ELSE IF den = 0 THEN AnyRate ELSE {[num |-> num, den |-> den]}
  <2> DEFINE u == t
  <2>1. Len(times) = n /\ u \in [1..n -> Int] /\ \A k \in 1..n : u[k] = times[k] - times[1]
    BY <1>1
  <2> HIDE DEF n, u
  <2>2. Fit(times) = Slopes(n, Total([k \in 1..n |-> u[k] * k]), Total([k \in 1..n |-> u[k] * u[k]]),
                            Total([k \in 1..n |-> u[k]]), Total([k \in 1..n |-> k]))
    <3> HIDE DEF t, num, den
    <3> QED
      BY <1>1, <2>1, FitSums
  <2> QED
    BY <1>2, <2>2 DEF u, Slopes
<1>4. n >= 2
  <2> HIDE DEF n, num, den
  <2>1. n < 2 => Fit(times) = {}
    BY <1>3
  <2> QED
    BY <1>1, <2>1
<1>5. times # << >>
  BY <1>4
<1>6. /\ t \in [1..n -> Int]
      /\ \A i, j \in 1..n : /\ t[i] \in Int /\ t[j] \in Int /\ t[j] - t[i] = times[j] - times[i]
                            /\ i < j => t[i] <= t[j]
                            /\ times[i] < times[j] => i < j
  <2>1. \A i, j \in 1..n : i <= j => times[i] <= times[j]
    BY <1>1 DEF Sorted
  <2>2. \A i \in 1..n : t[i] = times[i] - times[1] /\ times[i] \in Nat /\ times[1] \in Nat
    BY <1>1, <1>4
  <2>3. t \in [1..n -> Int]
    BY <2>2
  <2>4. ASSUME NEW i \in 1..n, NEW j \in 1..n
        PROVE  /\ t[i] \in Int /\ t[j] \in Int /\ t[j] - t[i] = times[j] - times[i]
               /\ i < j => t[i] <= t[j]
               /\ times[i] < times[j] => i < j
    <3> HIDE DEF t, n
    <3>1. t[i] = times[i] - times[1] /\ t[j] = times[j] - times[1] /\ times[i] \in Nat /\ times[j] \in Nat /\ times[1] \in Nat
      BY <2>2
    <3>2. i \in Int /\ j \in Int /\ (i <= j => times[i] <= times[j]) /\ (j <= i => times[j] <= times[i])
      BY <1>1, <2>1
    <3> DEFINE x == times[i]
               y == times[j]
    <3> HIDE DEF x, y
    <3>3. x <= y \/ ~(i <= j)
      BY <3>2 DEF x, y
    <3>4. x < y => i < j
      <4>1. x \in Nat /\ y \in Nat /\ (j <= i => y <= x)
        BY <3>1, <3>2 DEF x, y
      <4> QED
        BY <3>2, <4>1
    <3>5. i < j => t[i] <= t[j]
      BY <3>1, <3>2
    <3>6. times[i] < times[j] => i < j
      BY <3>4 DEF x, y
    <3>7. t[i] \in Int /\ t[j] \in Int /\ t[j] - t[i] = times[j] - times[i]
      BY <3>1, SMTT(30)
    <3> QED
      BY <3>5, <3>6, <3>7
  <2> HIDE DEF t, n
  <2> QED
    BY <2>3, <2>4
<1> HIDE DEF t, n
<1>7. den \in Int /\ num \in Int
  <2>1. Adding(t, n, tk, tt, st, sk)
    <3> HIDE DEF den, num
    <3> QED
      BY <1>1, <1>2, <1>6, RegressionTurn
  <2>2. n \in 0..n
    BY <1>1
  <2>3. tk[n] \in Int /\ tt[n] \in Int /\ st[n] \in Int /\ sk[n] \in Int
    BY <2>1, <2>2 DEF Adding
  <2> QED
    BY <1>1, <2>3
<1>8. ASSUME NEW c \in Int, NEW d \in Int,
             \A i, j \in 1..n : i < j => Against(t, i, j, c, d) >= 0
      PROVE  /\ d * num - c * den >= 0
             /\ \A i, j \in 1..n : i < j /\ Against(t, i, j, c, d) > 0 => d * num - c * den > 0
  <2>1. AmongAll(n, c, d, tk, tt, st, sk) = d * num - c * den
    BY DEF AmongAll
  <2> HIDE DEF num, den
  <2>2. AmongAll(n, c, d, tk, tt, st, sk) >= 0
    BY <1>1, <1>2, <1>6, <1>8, AllPairs
  <2>3. \A i, j \in 1..n : i < j /\ Against(t, i, j, c, d) > 0 => AmongAll(n, c, d, tk, tt, st, sk) > 0
    BY <1>1, <1>2, <1>6, <1>8, AllPairs
  <2> QED
    BY <2>1, <2>2, <2>3
<1> HIDE DEF num, den
<1>9. den >= 0 /\ \A i, j \in 1..n : times[i] < times[j] => den > 0
  <2>1. ASSUME NEW i \in 1..n, NEW j \in 1..n
        PROVE  Against(t, i, j, -1, 0) = (t[j] - t[i]) * (t[j] - t[i]) /\ t[j] - t[i] \in Int
    BY <1>1, <1>6 DEF Against
  <2>2. \A x \in Int : x * x >= 0 /\ (x > 0 => x * x > 0)
    OBVIOUS
  <2>3. \A i, j \in 1..n : i < j => Against(t, i, j, -1, 0) >= 0
    BY <2>1, <2>2
  <2>4. \A i, j \in 1..n : times[i] < times[j] => i < j /\ Against(t, i, j, -1, 0) > 0
    <3> SUFFICES ASSUME NEW i \in 1..n, NEW j \in 1..n, times[i] < times[j]
                 PROVE  i < j /\ Against(t, i, j, -1, 0) > 0
      OBVIOUS
    <3>1. t[j] - t[i] > 0 /\ i < j
      BY <1>1, <1>6
    <3> QED
      BY <2>1, <2>2, <3>1
  <2>5. /\ 0 * num - (-1) * den >= 0
        /\ \A i, j \in 1..n : i < j /\ Against(t, i, j, -1, 0) > 0 => 0 * num - (-1) * den > 0
    BY <1>8, <2>3
  <2>6. 0 * num - (-1) * den = den
    BY <1>7
  <2> QED
    BY <2>4, <2>5, <2>6
<1>10. slope \in Rates
  <2>1. CASE den = 0
    BY <1>3, <1>4, <1>1, <2>1 DEF Rates
  <2>2. CASE den # 0
    <3>1. den \in Nat \ {0}
      BY <1>7, <1>9, <2>2
    <3>2. slope = [num |-> num, den |-> den]
      BY <1>1, <1>3, <1>4, <2>2
    <3> QED
      BY <1>7, <3>1, <3>2 DEF Rates
  <2> QED
    BY <2>1, <2>2
<1>11. ASSUME NEW i \in 1..n, NEW j \in 1..n, times[i] < times[j]
       PROVE  slope.num = num /\ slope.den = den /\ den > 0
  <2>1. den > 0
    BY <1>9, <1>11
  <2>2. slope = [num |-> num, den |-> den]
    BY <1>1, <1>3, <1>4, <1>7, <2>1
  <2> QED
    BY <2>1, <2>2
<1>12. ASSUME PairRates(times) # {}
       PROVE  /\ \E r \in PairRates(times) : ~Slower(slope, r)
              /\ \E r \in PairRates(times) : ~Slower(r, slope)
  <2> DEFINE r(i, j) == [num |-> j - i, den |-> times[j] - times[i]]
  <2>1. /\ \A i, j \in 1..n : times[i] < times[j] => r(i, j) \in PairRates(times)
        /\ \E i, j \in 1..n : times[i] < times[j]
    <3>1. PairRates(times) = {[num |-> p[2] - p[1], den |-> times[p[2]] - times[p[1]]] :
                                p \in {q \in (1..n) \X (1..n) : times[q[1]] < times[q[2]]}}
      BY <1>1 DEF PairRates
    <3>2. ASSUME NEW i \in 1..n, NEW j \in 1..n, times[i] < times[j] PROVE r(i, j) \in PairRates(times)
      <4>1. <<i, j>> \in {q \in (1..n) \X (1..n) : times[q[1]] < times[q[2]]}
        BY <3>2
      <4> QED
        BY <3>1, <4>1
    <3>3. \E i, j \in 1..n : times[i] < times[j]
      BY <1>12, <3>1
    <3> QED
      BY <3>2, <3>3
  <2>2. PICK a \in 1..n, b \in 1..n : times[a] < times[b]
    BY <2>1
  <2>3. slope.num = num /\ slope.den = den /\ den > 0
    BY <1>11, <2>2
  <2>4. ASSUME NEW c \in Int, NEW d \in Int, d * num - c * den = 0,
               \A i, j \in 1..n : times[i] < times[j] => c * (times[j] - times[i]) < d * (j - i)
        PROVE  FALSE
    <3>1. ASSUME NEW i \in 1..n, NEW j \in 1..n, i < j
          PROVE  Against(t, i, j, c, d) >= 0 /\ (times[i] < times[j] => Against(t, i, j, c, d) > 0)
      <4> DEFINE x == times[j] - times[i]
                 y == d * (j - i) - c * x
      <4>1. /\ Against(t, i, j, c, d) = x * y
            /\ i \in Int /\ j \in Int /\ x \in Int /\ 0 <= x
            /\ times[i] < times[j] <=> 0 < x
            /\ x = 0 \/ 0 < x
        <5>1. Against(t, i, j, c, d) = x * y
          BY <1>6 DEF Against
        <5>2. i \in Int /\ j \in Int /\ times[i] \in Int /\ times[j] \in Int
          BY <1>1
        <5>3. x = t[j] - t[i] /\ t[i] \in Int /\ t[j] \in Int /\ t[i] <= t[j]
          BY <1>6, <3>1
        <5> HIDE DEF x, y
        <5>4. x \in Int /\ 0 <= x
          BY <5>3
        <5>5. times[i] < times[j] <=> 0 < x
          BY <5>2 DEF x
        <5> QED
          BY <5>1, <5>2, <5>4, <5>5
      <4>2. y \in Int /\ (0 < x => 0 < y)
        <5>1. d * (j - i) \in Int /\ c * x \in Int
          BY <4>1
        <5>2. 0 < x => c * x < d * (j - i)
          BY <2>4, <4>1
        <5> QED
          BY <5>1, <5>2
      <4> HIDE DEF x, y
      <4>3. \A e, f \in Int : (0 < e /\ 0 < f => e * f > 0) /\ 0 * f = 0
        OBVIOUS
      <4>4. 0 < x => x * y > 0
        BY <4>1, <4>2, <4>3
      <4>5. x = 0 => x * y = 0
        BY <4>2, <4>3
      <4> DEFINE z == x * y
      <4>6. /\ Against(t, i, j, c, d) = z /\ (x = 0 \/ 0 < x) /\ (0 < x => z > 0) /\ (x = 0 => z = 0)
            /\ times[i] < times[j] <=> 0 < x
        BY <4>1, <4>4, <4>5
      <4> HIDE DEF z
      <4>7. z >= 0
        <5>1. z \in Int
          BY <4>1, <4>2 DEF z
        <5> QED
          BY <4>6, <5>1
      <4> QED
        BY <4>6, <4>7
    <3>2. a < b
      BY <1>6, <2>2
    <3>3. \A i, j \in 1..n : i < j /\ Against(t, i, j, c, d) > 0 => d * num - c * den > 0
      BY <1>8, <3>1
    <3>4. d * num - c * den > 0
      BY <2>2, <3>1, <3>2, <3>3
    <3> QED
      BY <2>4, <3>4
  <2>5. \A i, j \in 1..n : r(i, j).num = j - i /\ r(i, j).den = times[j] - times[i]
    OBVIOUS
  <2> HIDE DEF r
  <2>6. ASSUME \A q \in PairRates(times) : Slower(slope, q) PROVE FALSE
    <3>1. den * num - num * den = 0
      BY <1>7
    <3>2. ASSUME NEW i \in 1..n, NEW j \in 1..n, times[i] < times[j]
          PROVE  num * (times[j] - times[i]) < den * (j - i)
      <4>1. Slower(slope, r(i, j))
        BY <2>1, <2>6, <3>2
      <4>2. num * (times[j] - times[i]) < (j - i) * den
        BY <2>3, <2>5, <4>1 DEF Slower
      <4>3. (j - i) * den = den * (j - i)
        BY <1>7
      <4> QED
        BY <4>2, <4>3
    <3> QED
      BY <1>7, <2>4, <3>1, <3>2
  <2>7. ASSUME \A q \in PairRates(times) : Slower(q, slope) PROVE FALSE
    <3>1. (-den) * num - (-num) * den = 0 /\ -den \in Int /\ -num \in Int
      BY <1>7
    <3>2. ASSUME NEW i \in 1..n, NEW j \in 1..n, times[i] < times[j]
          PROVE  (-num) * (times[j] - times[i]) < (-den) * (j - i)
      <4>1. Slower(r(i, j), slope)
        BY <2>1, <2>7, <3>2
      <4>2. (j - i) * den < num * (times[j] - times[i])
        BY <2>3, <2>5, <4>1 DEF Slower
      <4>3. times[j] - times[i] \in Int /\ j - i \in Int
        BY <1>1
      <4> DEFINE x == times[j] - times[i]
                 y == j - i
      <4> HIDE DEF x, y
      <4>4. x \in Int /\ y \in Int /\ y * den < num * x
        BY <4>2, <4>3 DEF x, y
      <4>5. (-num) * x < (-den) * y
        BY <1>7, <4>4
      <4> QED
        BY <4>5 DEF x, y
    <3> QED
      BY <1>7, <2>4, <3>1, <3>2
  <2> QED
    BY <2>6, <2>7
<1> QED
  BY <1>5, <1>10, <1>12 DEF Plausible


\* Fractions compare as numbers do.
LEMMA SlowerOrders ==
  ASSUME NEW a \in Rates, NEW b \in Rates, NEW c \in Rates
  PROVE  /\ ~Slower(a, a)
         /\ Slower(a, b) => ~Slower(b, a)
         /\ ~Slower(b, a) /\ ~Slower(c, b) => ~Slower(c, a)
<1> DEFINE an == a.num
           ad == a.den
           bn == b.num
           bd == b.den
           cn == c.num
           cd == c.den
<1>1. /\ an \in Int /\ bn \in Int /\ cn \in Int
      /\ ad \in Nat \ {0} /\ bd \in Nat \ {0} /\ cd \in Nat \ {0}
  BY RatesAre
<1>2. /\ Slower(a, b) <=> an * bd < bn * ad
      /\ Slower(b, a) <=> bn * ad < an * bd
      /\ Slower(c, b) <=> cn * bd < bn * cd
      /\ Slower(c, a) <=> cn * ad < an * cd
      /\ Slower(a, a) <=> an * ad < an * ad
  BY DEF Slower
<1> HIDE DEF an, ad, bn, bd, cn, cd
<1>3. /\ an * bd \in Int /\ bn * ad \in Int /\ cn * bd \in Int /\ bn * cd \in Int /\ cn * ad \in Int
      /\ an * cd \in Int /\ an * ad \in Int
  BY <1>1
<1>4. ~Slower(a, a)
  BY <1>2, <1>3
<1>5. Slower(a, b) => ~Slower(b, a)
  BY <1>2, <1>3
<1>6. ASSUME ~Slower(b, a), ~Slower(c, b), Slower(c, a) PROVE FALSE
  <2>1. an * bd <= bn * ad /\ bn * cd <= cn * bd /\ cn * ad < an * cd
    BY <1>2, <1>3, <1>6
  <2>2. \A x, y \in Int, z \in Nat \ {0} : (x <= y => x * z <= y * z) /\ (x < y => x * z < y * z)
    OBVIOUS
  <2>3. /\ (an * bd) * cd <= (bn * ad) * cd /\ (bn * cd) * ad <= (cn * bd) * ad
        /\ (cn * ad) * bd < (an * cd) * bd
    BY <1>1, <1>3, <2>1, <2>2
  <2>4. /\ (an * bd) * cd = (an * cd) * bd /\ (bn * ad) * cd = (bn * cd) * ad
        /\ (cn * bd) * ad = (cn * ad) * bd
    BY <1>1
  <2> DEFINE x == (an * bd) * cd
             y == (bn * ad) * cd
             z == (cn * bd) * ad
  <2>5. x \in Int /\ y \in Int /\ z \in Int
    BY <1>1, <1>3
  <2>6. x <= y /\ y <= z /\ z < x
    BY <2>3, <2>4
  <2> HIDE DEF x, y, z
  <2> QED
    BY <2>5, <2>6
<1> QED
  BY <1>4, <1>5, <1>6

\* What comes before what in the rate chart.
ByRate(series) ==
  {e \in (DOMAIN series) \X (DOMAIN series) :
     Slower(series[e[1]].x, series[e[2]].x) \/ (~Slower(series[e[2]].x, series[e[1]].x) /\ e[1] < e[2])}

\* It is an order of the places.
LEMMA ByRateOrders ==
  ASSUME NEW n \in Nat, NEW series, DOMAIN series = 1..n, \A k \in 1..n : series[k].x \in Rates
  PROVE  Orders(ByRate(series), 1..n)
<1> DEFINE x(k) == series[k].x
           R == ByRate(series)
<1>1. \A i, j \in 1..n : <<i, j>> \in R <=> Slower(x(i), x(j)) \/ (~Slower(x(j), x(i)) /\ i < j)
  <2> SUFFICES ASSUME NEW i \in 1..n, NEW j \in 1..n
               PROVE  <<i, j>> \in R <=> Slower(x(i), x(j)) \/ (~Slower(x(j), x(i)) /\ i < j)
    OBVIOUS
  <2>1. R = {e \in (1..n) \X (1..n) : Slower(x(e[1]), x(e[2])) \/ (~Slower(x(e[2]), x(e[1])) /\ e[1] < e[2])}
    BY DEF ByRate
  <2>2. <<i, j>> \in (1..n) \X (1..n) /\ <<i, j>>[1] = i /\ <<i, j>>[2] = j
    OBVIOUS
  <2> HIDE DEF R, x
  <2> QED
    BY <2>1, <2>2
<1>2. \A i \in 1..n : x(i) \in Rates
  OBVIOUS
<1> HIDE DEF x, R
<1>3. /\ \A i, j \in 1..n : ~Slower(x(i), x(i)) /\ (Slower(x(i), x(j)) => ~Slower(x(j), x(i)))
      /\ \A i, j, k \in 1..n : ~Slower(x(j), x(i)) /\ ~Slower(x(k), x(j)) => ~Slower(x(k), x(i))
  BY <1>2, SlowerOrders
<1>4. \A i, j, k \in 1..n : i \in Int /\ j \in Int /\ k \in Int
  OBVIOUS
<1>5. ASSUME NEW i \in 1..n, NEW j \in 1..n, NEW k \in 1..n, <<i, j>> \in R, <<j, k>> \in R
      PROVE  <<i, k>> \in R
  <2>1. ~Slower(x(j), x(i)) /\ ~Slower(x(k), x(j))
    BY <1>1, <1>3, <1>5
  <2>2. ~Slower(x(k), x(i))
    BY <1>3, <2>1
  <2>3. CASE Slower(x(i), x(j)) \/ Slower(x(j), x(k))
    <3>1. ASSUME ~Slower(x(i), x(k)) PROVE FALSE
      <4>1. Slower(x(i), x(j)) => FALSE
        BY <1>3, <2>1, <3>1
      <4>2. Slower(x(j), x(k)) => FALSE
        BY <1>3, <2>1, <3>1
      <4> QED
        BY <2>3, <4>1, <4>2
    <3> QED
      BY <1>1, <3>1
  <2>4. CASE ~Slower(x(i), x(j)) /\ ~Slower(x(j), x(k))
    <3>1. i < j /\ j < k
      BY <1>1, <1>5, <2>4
    <3>2. i < k
      BY <3>1
    <3> QED
      BY <1>1, <2>2, <3>2
  <2> QED
    BY <2>3, <2>4
<1>6. \A i \in 1..n : <<i, i>> \notin R
  <2> SUFFICES ASSUME NEW i \in 1..n PROVE <<i, i>> \notin R
    OBVIOUS
  <2>1. ~(i < i) /\ ~Slower(x(i), x(i))
    BY <1>3
  <2> QED
    BY <1>1, <2>1
<1>7. ASSUME NEW i \in 1..n, NEW j \in 1..n PROVE i = j \/ <<i, j>> \in R \/ <<j, i>> \in R
  <2>1. i = j \/ i < j \/ j < i
    OBVIOUS
  <2>2. Slower(x(i), x(j)) => <<i, j>> \in R
    BY <1>1
  <2>3. Slower(x(j), x(i)) => <<j, i>> \in R
    BY <1>1
  <2>4. ~Slower(x(j), x(i)) /\ i < j => <<i, j>> \in R
    BY <1>1
  <2>5. ~Slower(x(i), x(j)) /\ j < i => <<j, i>> \in R
    BY <1>1
  <2> QED
    BY <2>1, <2>2, <2>3, <2>4, <2>5
<1> QED
  BY <1>5, <1>6, <1>7 DEF Orders, R

\* Where sorting by rate takes the k-th point from.
Chosen(series) ==
  [p \in DOMAIN series |->
     CHOOSE k \in DOMAIN series :
       Cardinality({j \in DOMAIN series :
         Slower(series[j].x, series[k].x) \/ (~Slower(series[k].x, series[j].x) /\ j <= k)}) = p]

\* Sorting by rate puts every point somewhere, the slower ones first.
LEMMA RatesSorted ==
  ASSUME NEW n \in Nat, NEW series, DOMAIN series = 1..n, \A k \in 1..n : series[k].x \in Rates
  PROVE  /\ SortedByRate(series) = [p \in 1..n |-> series[Chosen(series)[p]]]
         /\ Chosen(series) \in [1..n -> 1..n]
         /\ \A p \in 2..n : ~Slower(series[Chosen(series)[p]].x, series[Chosen(series)[p - 1]].x)
         /\ \A a \in 1..n : \E p \in 1..n : Chosen(series)[p] = a
         /\ \A p \in 1..n : Before(1..n, ByRate(series), Chosen(series)[p]) + 1 = p
<1> DEFINE S == 1..n
           R == ByRate(series)
           o == Chosen(series)
           P(k) == {j \in S : Slower(series[j].x, series[k].x) \/ (~Slower(series[k].x, series[j].x) /\ j <= k)}
<1>1. Orders(R, S)
  BY ByRateOrders
<1>2. o = [p \in S |-> CHOOSE k \in S : Cardinality(P(k)) = p]
  BY DEF Chosen
<1>3. SortedByRate(series) = [p \in S |-> series[o[p]]]
  BY DEF SortedByRate, Chosen
<1>4. ASSUME NEW k \in S PROVE Cardinality(P(k)) = Before(S, R, k) + 1
  <2> DEFINE T == {j \in S : <<j, k>> \in R}
  <2>1. R = {e \in S \X S : Slower(series[e[1]].x, series[e[2]].x)
                            \/ (~Slower(series[e[2]].x, series[e[1]].x) /\ e[1] < e[2])}
    BY DEF ByRate
  <2>2. ASSUME NEW j \in S
        PROVE  <<j, k>> \in R <=> Slower(series[j].x, series[k].x) \/ (~Slower(series[k].x, series[j].x) /\ j < k)
    <3>1. <<j, k>> \in S \X S /\ <<j, k>>[1] = j /\ <<j, k>>[2] = k
      OBVIOUS
    <3> HIDE DEF R, S
    <3> QED
      BY <2>1, <3>1
  <2>3. ~Slower(series[k].x, series[k].x)
    BY SlowerOrders
  <2>4. \A j \in S : j \in P(k) <=> j \in T \/ j = k
    <3> SUFFICES ASSUME NEW j \in S PROVE j \in P(k) <=> j \in T \/ j = k
      OBVIOUS
    <3>1. (j <= k <=> j < k \/ j = k) /\ k <= k
      OBVIOUS
    <3>2. j \in T <=> Slower(series[j].x, series[k].x) \/ (~Slower(series[k].x, series[j].x) /\ j < k)
      BY <2>2
    <3>3. j \in P(k) <=> Slower(series[j].x, series[k].x) \/ (~Slower(series[k].x, series[j].x) /\ j <= k)
      OBVIOUS
    <3> HIDE DEF T, P, R, S
    <3> QED
      BY <2>3, <3>1, <3>2, <3>3
  <2>5. P(k) = T \cup {k}
    <3>1. P(k) \subseteq S /\ T \subseteq S
      OBVIOUS
    <3> HIDE DEF P, T, S, R
    <3> QED
      BY <2>4, <3>1
  <2>6. k \notin T /\ IsFiniteSet(T)
    <3>1. k \notin T
      BY <1>1 DEF Orders
    <3>2. IsFiniteSet(S) /\ T \in SUBSET S
      BY IntervalSize
    <3> HIDE DEF T, S
    <3> QED
      BY <3>1, <3>2, FS_Subset
  <2> HIDE DEF T, P
  <2>7. Cardinality(T \cup {k}) = Cardinality(T) + 1
    BY <2>6, FS_AddElement
  <2> QED
    BY <2>5, <2>7 DEF Before, T
<1>5. ASSUME NEW p \in S, NEW k \in S, Before(S, R, k) + 1 = p
      PROVE  o[p] \in S /\ Before(S, R, o[p]) + 1 = p
  <2>1. Cardinality(P(k)) = p
    BY <1>4, <1>5
  <2>2. o[p] = CHOOSE j \in S : Cardinality(P(j)) = p
    BY <1>2
  <2> HIDE DEF o, P, S, R
  <2>3. o[p] \in S /\ Cardinality(P(o[p])) = p
    BY <2>1, <2>2
  <2> QED
    BY <1>4, <2>3
<1>6. o = [p \in S |-> o[p]]
  BY <1>2
<1> HIDE DEF o, P, R
<1>7. /\ o \in [1..n -> 1..n]
      /\ \A j, k \in 1..n : j < k => <<o[j], o[k]>> \in R
      /\ \A a \in 1..n : \E k \in 1..n : o[k] = a
      /\ \A p \in 1..n : Before(1..n, R, o[p]) + 1 = p
  <2>1. \A p \in 1..n : (\E k \in 1..n : Before(1..n, R, k) + 1 = p) =>
          o[p] \in 1..n /\ Before(1..n, R, o[p]) + 1 = p
    BY <1>5
  <2>2. o = [p \in 1..n |-> o[p]] /\ Orders(R, 1..n)
    BY <1>1, <1>6
  <2>3. Placing(o, n, R)
    BY <2>1, <2>2 DEF Placing
  <2>4. InPlace(o, n, R)
    BY <2>2, <2>3, PlacesOrdered
  <2> QED
    BY <2>4 DEF InPlace
<1>8. ASSUME NEW p \in 2..n PROVE ~Slower(series[o[p]].x, series[o[p - 1]].x)
  <2> DEFINE a == o[p - 1]
             b == o[p]
  <2>1. p \in 1..n /\ p - 1 \in 1..n /\ p - 1 < p
    OBVIOUS
  <2>2. a \in 1..n /\ b \in 1..n /\ <<a, b>> \in R
    BY <1>7, <2>1
  <2> HIDE DEF a, b
  <2>3. Slower(series[a].x, series[b].x) \/ ~Slower(series[b].x, series[a].x)
    <3>1. <<a, b>>[1] = a /\ <<a, b>>[2] = b
      OBVIOUS
    <3> QED
      BY <2>2, <3>1 DEF R, ByRate
  <2>4. ~Slower(series[b].x, series[a].x)
    BY <2>2, <2>3, SlowerOrders
  <2> QED
    BY <2>4 DEF a, b
<1> QED
  BY <1>3, <1>7, <1>8 DEF o, R


\* Two series with the same rates are sorted alike.
LEMMA SortedAlike ==
  ASSUME NEW n \in Nat, NEW s, NEW u, DOMAIN s = 1..n, DOMAIN u = 1..n,
         \A k \in 1..n : s[k].x \in Rates /\ s[k].x = u[k].x, NEW p \in 1..n
  PROVE  Chosen(s)[p] = Chosen(u)[p]
<1> DEFINE S == 1..n
           a == Chosen(s)[p]
           b == Chosen(u)[p]
           R == ByRate(s)
<1>1. ByRate(s) = ByRate(u)
  <2>1. /\ ByRate(s) = {e \in S \X S : Slower(s[e[1]].x, s[e[2]].x) \/ (~Slower(s[e[2]].x, s[e[1]].x) /\ e[1] < e[2])}
        /\ ByRate(u) = {e \in S \X S : Slower(u[e[1]].x, u[e[2]].x) \/ (~Slower(u[e[2]].x, u[e[1]].x) /\ e[1] < e[2])}
    BY DEF ByRate
  <2>2. \A e \in S \X S : s[e[1]].x = u[e[1]].x /\ s[e[2]].x = u[e[2]].x
    OBVIOUS
  <2> HIDE DEF S
  <2> QED
    BY <2>1, <2>2
<1>2. a \in S /\ Before(S, R, a) + 1 = p
  <2>1. Chosen(s) \in [1..n -> 1..n]
    BY RatesSorted
  <2>2. \A q \in 1..n : Before(1..n, ByRate(s), Chosen(s)[q]) + 1 = q
    BY RatesSorted
  <2> QED
    BY <2>1, <2>2
<1>3. b \in S /\ Before(S, R, b) + 1 = p
  <2>1. Chosen(u) \in [1..n -> 1..n]
    BY RatesSorted
  <2>2. \A q \in 1..n : Before(1..n, ByRate(u), Chosen(u)[q]) + 1 = q
    BY RatesSorted
  <2> QED
    BY <1>1, <2>1, <2>2
<1>4. Orders(R, S) /\ IsFiniteSet(S) /\ Cardinality(S) = n
  BY ByRateOrders, IntervalSize
<1> HIDE DEF a, b, S, R
<1>5. Before(S, R, a) = Before(S, R, b)
  <2>1. \A k \in S : Before(S, R, k) \in 0..(Cardinality(S) - 1)
    BY <1>4, Ranked
  <2>2. Before(S, R, a) \in Int /\ Before(S, R, b) \in Int
    BY <1>2, <1>3, <1>4, <2>1
  <2> QED
    BY <1>2, <1>3, <2>2
<1>6. a = b
  <2>1. \A i, j \in S : Before(S, R, i) = Before(S, R, j) => i = j
    BY <1>4, Ranked
  <2> QED
    BY <1>2, <1>3, <1>5, <2>1
<1> QED
  BY <1>6 DEF a, b

\* Sorting what is sorted moves nothing.
LEMMA SortedStays ==
  ASSUME NEW n \in Nat, NEW keys \in [1..n -> Int], \A j, k \in 1..n : j <= k => keys[j] <= keys[k]
  PROVE  \A p \in 1..n : Order(keys)[p] = p
<1>1. ASSUME NEW k \in 1..n PROVE PlaceOf(keys, k) = k
  <2>1. {j \in 1..n : keys[j] < keys[k] \/ (keys[j] = keys[k] /\ j <= k)} = 1..k
    <3>1. ASSUME NEW j \in 1..n
          PROVE  keys[j] < keys[k] \/ (keys[j] = keys[k] /\ j <= k) <=> j <= k
      <4>1. j \in Int /\ k \in Int /\ keys[j] \in Int /\ keys[k] \in Int
        OBVIOUS
      <4>2. (j <= k => keys[j] <= keys[k]) /\ (k <= j => keys[k] <= keys[j])
        OBVIOUS
      <4>3. CASE j <= k
        BY <4>1, <4>2, <4>3
      <4>4. CASE ~(j <= k)
        BY <4>1, <4>2, <4>4
      <4> QED
        BY <4>3, <4>4
    <3>2. \A j : j \in 1..k <=> j \in 1..n /\ j <= k
      OBVIOUS
    <3> QED
      BY <3>1, <3>2
  <2>2. Cardinality(1..k) = k
    <3>1. k \in Nat
      OBVIOUS
    <3> QED
      BY <3>1, IntervalSize
  <2> QED
    BY <2>1, <2>2 DEF PlaceOf
<1>2. ASSUME NEW p \in 1..n PROVE Order(keys)[p] = p
  <2>1. Order(keys)[p] = CHOOSE k \in 1..n : PlaceOf(keys, k) = p
    BY DEF Order
  <2>2. Order(keys)[p] \in 1..n /\ PlaceOf(keys, Order(keys)[p]) = p
    <3>1. PlaceOf(keys, p) = p
      BY <1>1
    <3> QED
      BY <2>1, <3>1
  <2> QED
    BY <1>1, <2>2
<1> QED
  BY <1>2

\* Either no input has a speed, or all have and they come in its order.
SpeedsRight(files) ==
  \/ \A k \in DOMAIN files : files[k].speed = None
  \/ \A k \in DOMAIN files : /\ files[k].speed # None /\ files[k].speed \in Nat
                             /\ \A j \in 1..k : files[j].speed <= files[k].speed

\* speed_translation and the sort before it see to that.
LEMMA SpeedsAreRight ==
  ASSUME NEW files \in Seq(Files)
  PROVE  SpeedsRight(TranslateSpeeds(files))
<1> DEFINE m == Len(files)
           keys == [k \in DOMAIN files |-> files[k].speed]
<1>1. m \in Nat /\ DOMAIN files = 1..m /\ \A k \in 1..m : files[k] \in Files
  BY LenProperties, ElementOfSeq
<1>2. CASE \E k \in DOMAIN files : files[k].speed = None
  <2>1. TranslateSpeeds(files) = [k \in 1..m |-> [files[k] EXCEPT !.speed = None]]
    BY <1>1, <1>2 DEF TranslateSpeeds
  <2>2. \A k \in 1..m : [files[k] EXCEPT !.speed = None].speed = None
    BY <1>1 DEF Files
  <2>3. \A k \in DOMAIN TranslateSpeeds(files) : TranslateSpeeds(files)[k].speed = None
    BY <2>1, <2>2
  <2> QED
    BY <2>3 DEF SpeedsRight
<1>3. CASE ~\E k \in DOMAIN files : files[k].speed = None
  <2> DEFINE o == Order(keys)
             u == TranslateSpeeds(files)
  <2>1. u = [p \in 1..m |-> files[o[p]]]
    BY <1>1, <1>3 DEF TranslateSpeeds, SortedBy
  <2>2. \A k \in 1..m : files[k].speed \in Nat /\ files[k].speed # None
    BY <1>1, <1>3 DEF Files
  <2>3. keys \in [1..m -> Int] /\ \A k \in 1..m : keys[k] = files[k].speed
    BY <1>1, <2>2
  <2>4. /\ o \in [1..m -> 1..m]
        /\ \A j, k \in 1..m : j < k => keys[o[j]] < keys[o[k]] \/ (keys[o[j]] = keys[o[k]] /\ o[j] < o[k])
    <3> HIDE DEF keys, m
    <3>1. o \in [1..m -> 1..m]
      BY <1>1, <2>3, OrderPlaces
    <3>2. \A j, k \in 1..m : j < k =>
            LET a == Order(keys)[j]
                b == Order(keys)[k]
            IN  keys[a] < keys[b] \/ (keys[a] = keys[b] /\ a < b)
      BY <1>1, <2>3, OrderPlaces
    <3> QED
      BY <3>1, <3>2
  <2> HIDE DEF o, u, keys, m
  <2>5. ASSUME NEW k \in 1..m
        PROVE  /\ u[k].speed # None /\ u[k].speed \in Nat
               /\ \A j \in 1..k : u[j].speed <= u[k].speed
    <3>1. u[k] = files[o[k]] /\ o[k] \in 1..m
      BY <2>1, <2>4
    <3>2. u[k].speed = keys[o[k]] /\ u[k].speed \in Nat /\ u[k].speed # None
      BY <2>2, <2>3, <3>1
    <3>3. ASSUME NEW j \in 1..k PROVE u[j].speed <= u[k].speed
      <4>1. j \in 1..m /\ (j = k \/ j < k)
        BY <1>1
      <4>2. u[j] = files[o[j]] /\ o[j] \in 1..m
        BY <2>1, <2>4, <4>1
      <4>3. u[j].speed = keys[o[j]] /\ u[j].speed \in Nat
        BY <2>2, <2>3, <4>2
      <4>4. j < k => keys[o[j]] <= keys[o[k]]
        <5>1. keys[o[j]] \in Nat /\ keys[o[k]] \in Nat
          BY <3>2, <4>3
        <5>2. j < k => keys[o[j]] < keys[o[k]] \/ keys[o[j]] = keys[o[k]]
          BY <2>4, <4>1
        <5> QED
          BY <5>1, <5>2
      <4>5. CASE j = k
        BY <3>2, <4>5
      <4>6. CASE j < k
        BY <3>2, <4>3, <4>4, <4>6
      <4> QED
        BY <4>1, <4>5, <4>6
    <3> QED
      BY <3>2, <3>3
  <2>6. DOMAIN u = 1..m
    BY <2>1
  <2> QED
    BY <2>5, <2>6 DEF SpeedsRight, u
<1> QED
  BY <1>2, <1>3


Points == [x : Rates, y : Rates]
Labels == [x : Nat, y : Rates]

AllLabelled == \A k \in DOMAIN inputs : inputs[k].speed # None

\* The rate chart has a point for each of the first m inputs, with rates fitted to them.
RatesSoFar(m) ==
  /\ reference_series \in Seq(Points) /\ Len(reference_series) = m
  /\ receiving_series \in Seq(Points) /\ Len(receiving_series) = m
  /\ \A k \in 1..m :
       /\ inputs[k].data \in Reports
       /\ reference_series[k].x = receiving_series[k].x
       /\ receiving_series[k].x \in Fit(Part(k).sends) /\ receiving_series[k].y \in Fit(Part(k).receives)

\* So have its labels, or there are none.
LabelsSoFar(m) ==
  /\ sending_labels_series \in Seq(Labels) /\ receiving_labels_series \in Seq(Labels)
  /\ Len(sending_labels_series) = (IF AllLabelled THEN m ELSE 0)
  /\ Len(receiving_labels_series) = (IF AllLabelled THEN m ELSE 0)
  /\ AllLabelled =>
       \A k \in 1..m :
         /\ sending_labels_series[k].x = inputs[k].speed /\ receiving_labels_series[k].x = inputs[k].speed
         /\ sending_labels_series[k].y \in Fit(Part(k).sends)
         /\ receiving_labels_series[k].y \in Fit(Part(k).receives)

\* How many inputs the chart knows.
Known == IF pc = "draw" THEN next ELSE next - 1

\* The inductive invariant of the rate chart.
RatesInv ==
  /\ pc = "finish" => next = Len(inputs) + 1
  /\ pc = "collect" => next = 1
  /\ pc = "collect" \/ SpeedsRight(inputs)
  /\ arguments.build_rates /\ pc \in {"collect", "load", "fit", "draw", "finish"} =>
       RatesSoFar(Known) /\ LabelsSoFar(Known)
  /\ RatesAgree

\* What is drawn of an input is sound.
LEMMA PartSound ==
  ASSUME arguments \in Arguments, NEW k, inputs[k].data \in Reports
  PROVE  SoundPart(Part(k))
<1> DEFINE r == inputs[k].data
<1>1. r \in Reports
  OBVIOUS
<1> HIDE DEF r
<1>2. SoundPart(Cut(JLoad(r)))
  BY <1>1, CutSound
<1> QED
  BY <1>2 DEF r, Part

\* One point more.
LEMMA PointAppended ==
  ASSUME NEW E, NEW s \in Seq(E), NEW e \in E, NEW m \in Nat, Len(s) = m
  PROVE  /\ Append(s, e) \in Seq(E) /\ Len(Append(s, e)) = m + 1
         /\ \A k \in 1..m : Append(s, e)[k] = s[k]
         /\ Append(s, e)[m + 1] = e
  BY AppendProperties

\* No input is known at the start.
LEMMA RatesInvInit == Init => RatesInv
<1> SUFFICES ASSUME Init PROVE RatesInv
  OBVIOUS
<1>1. /\ pc = "collect" /\ next = 1 /\ inputs = << >>
      /\ reference_series = << >> /\ receiving_series = << >>
      /\ sending_labels_series = << >> /\ receiving_labels_series = << >>
  BY DEF Init
<1>2. Known = 0
  BY <1>1 DEF Known
<1>3. << >> \in Seq(Points) /\ << >> \in Seq(Labels) /\ Len(<< >>) = 0 /\ \A k \in 1..0 : FALSE
  OBVIOUS
<1>4. RatesSoFar(0)
  BY <1>1, <1>3 DEF RatesSoFar
<1>5. LabelsSoFar(0)
  BY <1>1, <1>3 DEF LabelsSoFar
<1>6. RatesAgree
  BY <1>1 DEF RatesAgree
<1> QED
  BY <1>1, <1>2, <1>4, <1>5, <1>6 DEF RatesInv

\* An iteration of main adds the rates of its input.
LEMMA RatesAdded ==
  ASSUME GrinderInv, RatesInv, AddRates
  PROVE  RatesSoFar(next)' /\ LabelsSoFar(next)'
<1> DEFINE m == next - 1
<1>1. /\ pc = "fit" /\ arguments \in Arguments /\ inputs \in Seq(Files) /\ next \in DOMAIN inputs
      /\ inputs[next].data \in Reports /\ report = Part(next)
      /\ RatesSoFar(m) /\ LabelsSoFar(m) /\ SpeedsRight(inputs)
      /\ UNCHANGED <<arguments, inputs, next>>
  BY DEF GrinderInv, RatesInv, Known, AddRates
<1>2. m \in Nat /\ next = m + 1 /\ next \in Nat \ {0} /\ inputs[next] \in Files
  BY <1>1, LenProperties, ElementOfSeq DEF GrinderInv
<1>3. \A k : Part(k)' = Part(k)
  BY <1>1 DEF Part, Cut, Slice
<1>4. PICK sent \in Fit(report.sends), received \in Fit(report.receives) :
        /\ reference_series' = Append(reference_series, [x |-> sent, y |-> sent])
        /\ receiving_series' = Append(receiving_series, [x |-> sent, y |-> received])
        /\ sending_labels_series' = IF inputs[next].speed = None THEN sending_labels_series
                                    ELSE Append(sending_labels_series, [x |-> inputs[next].speed, y |-> sent])
        /\ receiving_labels_series' = IF inputs[next].speed = None THEN receiving_labels_series
                                      ELSE Append(receiving_labels_series, [x |-> inputs[next].speed, y |-> received])
  BY DEF AddRates
<1>5. sent \in Rates /\ received \in Rates
  <2>1. SoundPart(report)
    BY <1>1, PartSound
  <2>2. /\ report.sends \in Seq(Nat) /\ Sorted(report.sends)
        /\ report.receives \in Seq(Nat) /\ Sorted(report.receives)
    BY <2>1 DEF SoundPart
  <2> QED
    BY <2>2, FitIs
<1> DEFINE a == [x |-> sent, y |-> sent]
           b == [x |-> sent, y |-> received]
<1>6. a \in Points /\ b \in Points /\ a.x = sent /\ b.x = sent /\ b.y = received
  BY <1>5 DEF Points
<1>7. reference_series' = Append(reference_series, a) /\ receiving_series' = Append(receiving_series, b)
  BY <1>4
<1> HIDE DEF a, b
<1>8. RatesSoFar(next)'
  <2>1. /\ reference_series \in Seq(Points) /\ Len(reference_series) = m
        /\ receiving_series \in Seq(Points) /\ Len(receiving_series) = m
        /\ \A k \in 1..m :
             /\ inputs[k].data \in Reports
             /\ reference_series[k].x = receiving_series[k].x
             /\ receiving_series[k].x \in Fit(Part(k).sends) /\ receiving_series[k].y \in Fit(Part(k).receives)
    BY <1>1 DEF RatesSoFar
  <2> HIDE DEF m
  <2>2. /\ reference_series' \in Seq(Points) /\ Len(reference_series') = m + 1
        /\ \A k \in 1..m : reference_series'[k] = reference_series[k]
        /\ reference_series'[m + 1] = a
    BY <1>2, <1>6, <1>7, <2>1, PointAppended
  <2>3. /\ receiving_series' \in Seq(Points) /\ Len(receiving_series') = m + 1
        /\ \A k \in 1..m : receiving_series'[k] = receiving_series[k]
        /\ receiving_series'[m + 1] = b
    BY <1>2, <1>6, <1>7, <2>1, PointAppended
  <2>4. ASSUME NEW k \in 1..next
        PROVE  /\ inputs'[k].data \in Reports
               /\ reference_series'[k].x = receiving_series'[k].x
               /\ receiving_series'[k].x \in Fit(Part(k)'.sends) /\ receiving_series'[k].y \in Fit(Part(k)'.receives)
    <3>1. CASE k = m + 1
      BY <1>1, <1>2, <1>3, <1>4, <1>6, <2>2, <2>3, <3>1
    <3>2. CASE k # m + 1
      <4>1. k \in 1..m
        BY <1>2, <3>2
      <4> QED
        BY <1>1, <1>3, <2>1, <2>2, <2>3, <4>1
    <3> QED
      BY <3>1, <3>2
  <2> QED
    BY <1>1, <1>2, <2>2, <2>3, <2>4 DEF RatesSoFar
<1>9. LabelsSoFar(next)'
  <2>1. /\ sending_labels_series \in Seq(Labels) /\ receiving_labels_series \in Seq(Labels)
        /\ Len(sending_labels_series) = (IF AllLabelled THEN m ELSE 0)
        /\ Len(receiving_labels_series) = (IF AllLabelled THEN m ELSE 0)
        /\ AllLabelled =>
             \A k \in 1..m :
               /\ sending_labels_series[k].x = inputs[k].speed /\ receiving_labels_series[k].x = inputs[k].speed
               /\ sending_labels_series[k].y \in Fit(Part(k).sends)
               /\ receiving_labels_series[k].y \in Fit(Part(k).receives)
    BY <1>1 DEF LabelsSoFar
  <2>2. AllLabelled' <=> AllLabelled
    BY <1>1 DEF AllLabelled
  <2>3. AllLabelled <=> inputs[next].speed # None
    BY <1>1 DEF AllLabelled, SpeedsRight
  <2>4. CASE ~AllLabelled
    <3>1. sending_labels_series' = sending_labels_series /\ receiving_labels_series' = receiving_labels_series
      BY <1>4, <2>3, <2>4
    <3> QED
      BY <2>1, <2>2, <2>4, <3>1 DEF LabelsSoFar
  <2>5. CASE AllLabelled
    <3> DEFINE speed == inputs[next].speed
               c == [x |-> speed, y |-> sent]
               d == [x |-> speed, y |-> received]
    <3>1. speed \in Nat
      BY <1>2, <2>3, <2>5 DEF Files
    <3>2. c \in Labels /\ d \in Labels /\ c.x = speed /\ d.x = speed /\ c.y = sent /\ d.y = received
      <4> HIDE DEF speed
      <4> QED
        BY <1>5, <3>1 DEF Labels
    <3>3. /\ sending_labels_series' = Append(sending_labels_series, c)
          /\ receiving_labels_series' = Append(receiving_labels_series, d)
      BY <1>4, <2>3, <2>5
    <3>4. Len(sending_labels_series) = m /\ Len(receiving_labels_series) = m
      BY <2>1, <2>5
    <3> HIDE DEF m, c, d, speed
    <3>5. /\ sending_labels_series' \in Seq(Labels) /\ Len(sending_labels_series') = m + 1
          /\ \A k \in 1..m : sending_labels_series'[k] = sending_labels_series[k]
          /\ sending_labels_series'[m + 1] = c
      BY <1>2, <2>1, <3>2, <3>3, <3>4, PointAppended
    <3>6. /\ receiving_labels_series' \in Seq(Labels) /\ Len(receiving_labels_series') = m + 1
          /\ \A k \in 1..m : receiving_labels_series'[k] = receiving_labels_series[k]
          /\ receiving_labels_series'[m + 1] = d
      BY <1>2, <2>1, <3>2, <3>3, <3>4, PointAppended
    <3>7. ASSUME NEW k \in 1..next
          PROVE  /\ sending_labels_series'[k].x = inputs'[k].speed /\ receiving_labels_series'[k].x = inputs'[k].speed
                 /\ sending_labels_series'[k].y \in Fit(Part(k)'.sends)
                 /\ receiving_labels_series'[k].y \in Fit(Part(k)'.receives)
      <4>1. CASE k = m + 1
        BY <1>1, <1>2, <1>3, <1>4, <3>2, <3>5, <3>6, <4>1 DEF speed
      <4>2. CASE k # m + 1
        <5>1. k \in 1..m
          BY <1>2, <4>2
        <5> QED
          BY <1>1, <1>3, <2>1, <2>5, <3>5, <3>6, <5>1
      <4> QED
        BY <4>1, <4>2
    <3> QED
      BY <1>1, <1>2, <2>2, <2>5, <3>5, <3>6, <3>7 DEF LabelsSoFar
  <2> QED
    BY <2>4, <2>5
<1> QED
  BY <1>8, <1>9


\* What main sorts at the end agrees with fit.py.
LEMMA RatesFinished ==
  ASSUME GrinderInv, RatesInv, Finish
  PROVE  RatesAgree'
<1> SUFFICES ASSUME arguments.build_rates PROVE RatesAgree'
  <2>1. arguments' = arguments
    BY DEF Finish
  <2> QED
    BY <2>1 DEF RatesAgree
<1> DEFINE n == Len(inputs)
           ref == reference_series
           rec == receiving_series
           o == Chosen(rec)
<1>1. /\ arguments \in Arguments /\ inputs \in Seq(Files) /\ SpeedsRight(inputs)
      /\ RatesSoFar(n) /\ LabelsSoFar(n)
      /\ UNCHANGED <<arguments, inputs>>
  <2>1. pc = "finish" /\ UNCHANGED <<arguments, inputs>>
    BY DEF Finish
  <2>2. arguments \in Arguments /\ inputs \in Seq(Files) /\ next \in Nat
    BY DEF GrinderInv
  <2>3. /\ SpeedsRight(inputs) /\ next = Len(inputs) + 1
        /\ RatesSoFar(Known) /\ LabelsSoFar(Known)
    BY <2>1 DEF RatesInv
  <2>4. Known = n
    BY <2>1, <2>2, <2>3, LenProperties DEF Known
  <2> QED
    BY <2>1, <2>2, <2>3, <2>4
<1>2. n \in Nat /\ DOMAIN inputs = 1..n /\ \A k \in 1..n : inputs[k] \in Files
  BY <1>1, LenProperties, ElementOfSeq
<1>3. /\ DOMAIN ref = 1..n /\ DOMAIN rec = 1..n
      /\ \A k \in 1..n : ref[k] \in Points /\ rec[k] \in Points
      /\ \A k \in 1..n :
           /\ inputs[k].data \in Reports
           /\ ref[k].x = rec[k].x
           /\ rec[k].x \in Fit(Part(k).sends) /\ rec[k].y \in Fit(Part(k).receives)
  <2>1. /\ ref \in Seq(Points) /\ Len(ref) = n /\ rec \in Seq(Points) /\ Len(rec) = n
        /\ \A k \in 1..n :
             /\ inputs[k].data \in Reports
             /\ ref[k].x = rec[k].x
             /\ rec[k].x \in Fit(Part(k).sends) /\ rec[k].y \in Fit(Part(k).receives)
    BY <1>1 DEF RatesSoFar
  <2> HIDE DEF n, ref, rec
  <2> QED
    BY <2>1, LenProperties, ElementOfSeq
<1>4. \A k : Part(k)' = Part(k)
  BY <1>1 DEF Part, Cut, Slice
<1>5. reference_series' = SortedByRate(ref) /\ receiving_series' = SortedByRate(rec)
  BY DEF Finish
<1> HIDE DEF n, ref, rec
<1>6. \A k \in 1..n : ref[k].x \in Rates /\ rec[k].x \in Rates
  BY <1>3 DEF Points
<1>7. /\ SortedByRate(rec) = [p \in 1..n |-> rec[o[p]]]
      /\ o \in [1..n -> 1..n]
      /\ \A p \in 2..n : ~Slower(rec[o[p]].x, rec[o[p - 1]].x)
      /\ \A a \in 1..n : \E p \in 1..n : o[p] = a
  BY <1>2, <1>3, <1>6, RatesSorted
<1>8. SortedByRate(ref) = [p \in 1..n |-> ref[o[p]]]
  <2>1. SortedByRate(ref) = [p \in 1..n |-> ref[Chosen(ref)[p]]]
    BY <1>2, <1>3, <1>6, RatesSorted
  <2>2. \A p \in 1..n : Chosen(ref)[p] = o[p]
    BY <1>2, <1>3, <1>6, SortedAlike
  <2> QED
    BY <2>1, <2>2
<1> HIDE DEF o
<1>9. /\ Len(reference_series') = n /\ Len(receiving_series') = n
      /\ DOMAIN receiving_series' = 1..n
      /\ \A p \in 1..n : reference_series'[p] = ref[o[p]] /\ receiving_series'[p] = rec[o[p]]
  <2>1. /\ reference_series' = [p \in 1..n |-> ref[o[p]]]
        /\ receiving_series' = [p \in 1..n |-> rec[o[p]]]
    BY <1>5, <1>7, <1>8
  <2>2. reference_series' \in [1..n -> Points] /\ receiving_series' \in [1..n -> Points]
    BY <1>3, <1>7, <2>1
  <2>3. Len(reference_series') = n /\ Len(receiving_series') = n
    BY <1>2, <2>2, Tabulated
  <2> QED
    BY <2>1, <2>3
<1>10. ASSUME NEW p \in 1..n
       PROVE  /\ ~Slower(reference_series'[p].x, receiving_series'[p].x)
              /\ ~Slower(receiving_series'[p].x, reference_series'[p].x)
              /\ p > 1 => ~Slower(receiving_series'[p].x, receiving_series'[p - 1].x)
  <2> DEFINE x == rec[o[p]].x
  <2>1. o[p] \in 1..n /\ reference_series'[p].x = x /\ receiving_series'[p].x = x
    BY <1>3, <1>7, <1>9
  <2>2. x \in Rates
    BY <1>6, <2>1
  <2> HIDE DEF x
  <2>3. ~Slower(x, x)
    BY <2>2, SlowerOrders
  <2>4. ASSUME p > 1 PROVE ~Slower(receiving_series'[p].x, receiving_series'[p - 1].x)
    <3>1. p \in 2..n /\ p - 1 \in 1..n
      BY <1>2, <2>4
    <3>2. receiving_series'[p] = rec[o[p]] /\ receiving_series'[p - 1] = rec[o[p - 1]]
      BY <1>9, <3>1
    <3> QED
      BY <1>7, <3>1, <3>2
  <2> QED
    BY <2>1, <2>3, <2>4
<1>11. ASSUME NEW k \in 1..n
       PROVE  \E p \in DOMAIN receiving_series', s \in Summary(Part(k)) :
                /\ receiving_series'[p] = [x |-> s.send, y |-> s.recv]
                /\ Plausible(s.send, Part(k).sends) /\ Plausible(s.recv, Part(k).receives)
  <2> DEFINE part == Part(k)
             send == rec[k].x
             recv == rec[k].y
             s == [send |-> send, recv |-> recv, lost |-> Lost(part)]
  <2>1. send \in Fit(part.sends) /\ recv \in Fit(part.receives)
    BY <1>3
  <2>2. rec[k] = [x |-> send, y |-> recv]
    BY <1>3 DEF Points
  <2>3. PICK p \in 1..n : o[p] = k
    BY <1>7
  <2>4. receiving_series'[p] = [x |-> send, y |-> recv] /\ p \in DOMAIN receiving_series'
    BY <1>9, <2>2, <2>3
  <2>5. SoundPart(part)
    BY <1>1, <1>3, PartSound
  <2> HIDE DEF part, send, recv
  <2>6. /\ part.sends \in Seq(Nat) /\ Sorted(part.sends) /\ part.receives \in Seq(Nat) /\ Sorted(part.receives)
    BY <2>5 DEF SoundPart
  <2>7. Plausible(send, part.sends)
    BY <2>1, <2>6, FitIs
  <2>8. Plausible(recv, part.receives) /\ part.receives # << >>
    BY <2>1, <2>6, FitIs
  <2>9. s \in Summary(part)
    <3> DEFINE recvs == IF part.receives = << >> THEN {[num |-> 0, den |-> 1]} ELSE Fit(part.receives)
               sends == Fit(part.sends)
               lost_k == Lost(part)
    <3>1. recv \in recvs /\ send \in sends
      BY <2>1, <2>8
    <3>2. Summary(part) = {[send |-> a, recv |-> b, lost |-> lost_k] : a \in sends, b \in recvs}
      BY DEF Summary
    <3> HIDE DEF recvs, sends, lost_k
    <3>3. [send |-> send, recv |-> recv, lost |-> lost_k] \in Summary(part)
      BY <3>1, <3>2
    <3> QED
      BY <3>3 DEF lost_k
  <2>10. s.send = send /\ s.recv = recv
    OBVIOUS
  <2> HIDE DEF s
  <2>11. /\ receiving_series'[p] = [x |-> s.send, y |-> s.recv]
         /\ Plausible(s.send, part.sends) /\ Plausible(s.recv, part.receives)
    BY <2>4, <2>7, <2>8, <2>10
  <2>12. \E q \in DOMAIN receiving_series', u \in Summary(part) :
           /\ receiving_series'[q] = [x |-> u.send, y |-> u.recv]
           /\ Plausible(u.send, part.sends) /\ Plausible(u.recv, part.receives)
    BY <2>4, <2>9, <2>11
  <2> QED
    BY <2>12 DEF part
<1> DEFINE labelled == {k \in DOMAIN inputs : inputs[k].speed # None}
<1>12. labelled = IF AllLabelled THEN 1..n ELSE {}
  <2>1. SpeedsRight(inputs) /\ DOMAIN inputs = 1..n
    BY <1>1, <1>2
  <2>2. (\A k \in 1..n : inputs[k].speed = None) \/ (\A k \in 1..n : inputs[k].speed # None)
    BY <2>1 DEF SpeedsRight
  <2> QED
    BY <2>1, <2>2 DEF AllLabelled
<1>13. /\ DOMAIN sending_labels_series' = labelled /\ DOMAIN receiving_labels_series' = labelled
       /\ \A k \in labelled : /\ sending_labels_series'[k].x = inputs[k].speed
                              /\ sending_labels_series'[k].y \in Fit(Part(k).sends)
                              /\ receiving_labels_series'[k].y \in Fit(Part(k).receives)
  <2> DEFINE snd == sending_labels_series
             rcv == receiving_labels_series
             m == IF AllLabelled THEN n ELSE 0
             Sort(series) == [p \in DOMAIN series |-> series[Order([k \in DOMAIN series |-> series[k].x])[p]]]
  <2>1. sending_labels_series' = Sort(snd) /\ receiving_labels_series' = Sort(rcv)
    BY DEF Finish, SortedBy
  <2>2. /\ snd \in Seq(Labels) /\ rcv \in Seq(Labels) /\ Len(snd) = m /\ Len(rcv) = m
        /\ AllLabelled =>
             \A k \in 1..n : /\ snd[k].x = inputs[k].speed /\ rcv[k].x = inputs[k].speed
                             /\ snd[k].y \in Fit(Part(k).sends) /\ rcv[k].y \in Fit(Part(k).receives)
    BY <1>1 DEF LabelsSoFar
  <2>3. m \in Nat /\ 1..m = labelled /\ \A k \in 1..m : AllLabelled /\ k \in 1..n
    BY <1>2, <1>12
  <2>4. \A j, k \in 1..m : j <= k => inputs[j].speed <= inputs[k].speed
    <3> SUFFICES ASSUME NEW j \in 1..m, NEW k \in 1..m, j <= k PROVE inputs[j].speed <= inputs[k].speed
      OBVIOUS
    <3>1. AllLabelled /\ k \in DOMAIN inputs /\ j \in 1..k
      BY <1>2, <2>3
    <3> QED
      BY <1>1, <3>1 DEF SpeedsRight, AllLabelled
  <2> HIDE DEF m, labelled
  <2>5. ASSUME NEW series \in Seq(Labels), Len(series) = m, \A k \in 1..m : series[k].x = inputs[k].speed
        PROVE  DOMAIN Sort(series) = 1..m /\ \A p \in 1..m : Sort(series)[p] = series[p]
    <3> DEFINE keys == [k \in 1..m |-> series[k].x]
    <3>1. DOMAIN series = 1..m /\ \A k \in 1..m : series[k] \in Labels
      BY <2>3, <2>5, LenProperties, ElementOfSeq
    <3>2. keys \in [1..m -> Int]
      BY <3>1 DEF Labels
    <3>3. \A j, k \in 1..m : j <= k => keys[j] <= keys[k]
      BY <2>4, <2>5
    <3>4. Sort(series) = [p \in 1..m |-> series[Order(keys)[p]]]
      BY <3>1
    <3> HIDE DEF keys
    <3>5. \A p \in 1..m : Order(keys)[p] = p
      BY <2>3, <3>2, <3>3, SortedStays
    <3> QED
      BY <3>4, <3>5
  <2>6. \A k \in 1..m : snd[k].x = inputs[k].speed /\ rcv[k].x = inputs[k].speed
    BY <2>2, <2>3
  <2> HIDE DEF snd, rcv, Sort
  <2>7. DOMAIN Sort(snd) = 1..m /\ \A p \in 1..m : Sort(snd)[p] = snd[p]
    BY <2>2, <2>5, <2>6
  <2>8. DOMAIN Sort(rcv) = 1..m /\ \A p \in 1..m : Sort(rcv)[p] = rcv[p]
    BY <2>2, <2>5, <2>6
  <2> QED
    BY <2>1, <2>2, <2>3, <2>7, <2>8
<1>14. labelled \in {{}, DOMAIN inputs}
  BY <1>2, <1>12
<1> HIDE DEF labelled
<1>15. labelled' = labelled /\ DOMAIN inputs' = 1..n /\ Len(inputs') = n
  BY <1>1, <1>2 DEF labelled, n
<1>16. \A k \in DOMAIN inputs' : \E p \in DOMAIN receiving_series', s \in Summary(Part(k)') :
                /\ receiving_series'[p] = [x |-> s.send, y |-> s.recv]
                /\ Plausible(s.send, Part(k)'.sends) /\ Plausible(s.recv, Part(k)'.receives)
  BY <1>4, <1>11, <1>15
<1>17. /\ labelled' \in {{}, DOMAIN inputs'}
       /\ DOMAIN sending_labels_series' = labelled' /\ DOMAIN receiving_labels_series' = labelled'
       /\ \A k \in labelled' : /\ sending_labels_series'[k].x = inputs'[k].speed
                               /\ sending_labels_series'[k].y \in Fit(Part(k)'.sends)
                               /\ receiving_labels_series'[k].y \in Fit(Part(k)'.receives)
  BY <1>1, <1>2, <1>4, <1>13, <1>14, <1>15
<1>18. /\ Len(reference_series') = Len(inputs') /\ Len(receiving_series') = Len(inputs')
       /\ \A p \in DOMAIN receiving_series' :
            /\ ~Slower(reference_series'[p].x, receiving_series'[p].x)
            /\ ~Slower(receiving_series'[p].x, reference_series'[p].x)
            /\ p > 1 => ~Slower(receiving_series'[p].x, receiving_series'[p - 1].x)
  BY <1>9, <1>10, <1>15
<1> QED
  BY <1>16, <1>17, <1>18 DEF RatesAgree, labelled

\* What the chart knows stays what it is while nothing is added.
LEMMA RatesStay ==
  ASSUME NEW m, UNCHANGED <<arguments, inputs, seriesVars>>, RatesSoFar(m), LabelsSoFar(m)
  PROVE  RatesSoFar(m)' /\ LabelsSoFar(m)'
<1>1. UNCHANGED <<arguments, inputs, reference_series, receiving_series, sending_labels_series, receiving_labels_series>>
  BY DEF seriesVars
<1>2. \A k : Part(k)' = Part(k)
  BY <1>1 DEF Part, Cut, Slice
<1>3. AllLabelled' <=> AllLabelled
  BY <1>1 DEF AllLabelled
<1>4. RatesSoFar(m)'
  BY <1>1, <1>2 DEF RatesSoFar
<1>5. LabelsSoFar(m)'
  BY <1>1, <1>2, <1>3 DEF LabelsSoFar
<1> QED
  BY <1>4, <1>5

\* Every step of main keeps the rates.
LEMMA RatesInvStep ==
  ASSUME GrinderInv, RatesInv, [Next]_vars
  PROVE  RatesInv'
<1>1. CASE Collect
  <2>1. /\ inputs' = TranslateSpeeds(EnumerateInputs(arguments.inputs)) /\ pc' = StartDrawing(1) /\ pc = "collect"
        /\ UNCHANGED <<arguments, next, seriesVars>>
    BY <1>1 DEF Collect
  <2>2. next = 1 /\ arguments \in Arguments /\ inputs' \in Seq(Files) /\ SpeedsRight(inputs')
    BY <2>1, InputFiles, SpeedsAreRight DEF GrinderInv
  <2>3. /\ pc' = IF 1 <= Len(inputs') THEN "load" ELSE "finish"
        /\ Len(inputs') \in Nat
    BY <2>1, <2>2, LenProperties DEF StartDrawing
  <2>4. pc' # "collect" /\ pc' # "written" /\ pc' # "draw" /\ (pc' = "finish" => next' = Len(inputs') + 1)
    BY <2>1, <2>2, <2>3
  <2>5. Known = 0 /\ Known' = 0
    BY <2>1, <2>2, <2>4 DEF Known
  <2>6. arguments'.build_rates => RatesSoFar(Known)' /\ LabelsSoFar(Known)'
    <3> SUFFICES ASSUME arguments'.build_rates PROVE RatesSoFar(Known)' /\ LabelsSoFar(Known)'
      OBVIOUS
    <3>1. RatesSoFar(0) /\ LabelsSoFar(0)
      BY <2>1, <2>5 DEF RatesInv
    <3>2. UNCHANGED <<reference_series, receiving_series, sending_labels_series, receiving_labels_series>>
      BY <2>1 DEF seriesVars
    <3>3. \A k \in 1..0 : FALSE
      OBVIOUS
    <3>4. RatesSoFar(0)'
      BY <3>1, <3>2, <3>3 DEF RatesSoFar
    <3>5. LabelsSoFar(0)'
      BY <3>1, <3>2, <3>3 DEF LabelsSoFar
    <3>6. (RatesSoFar(0)' <=> RatesSoFar(Known)') /\ (LabelsSoFar(0)' <=> LabelsSoFar(Known)')
      BY <2>5 DEF RatesSoFar, LabelsSoFar
    <3> QED
      BY <3>4, <3>5, <3>6
  <2>7. RatesAgree'
    BY <2>4 DEF RatesAgree
  <2> QED
    BY <2>2, <2>4, <2>6, <2>7 DEF RatesInv
<1>2. ASSUME UNCHANGED <<arguments, inputs, seriesVars>>, Known' = Known,
             pc \in {"load", "fit", "draw"}, pc' \in {"load", "fit", "draw", "finish"},
             pc' = "finish" => next' = Len(inputs) + 1
      PROVE  RatesInv'
  <2>1. SpeedsRight(inputs') /\ pc' # "collect" /\ pc' # "written"
    BY <1>2 DEF RatesInv
  <2>2. arguments'.build_rates => RatesSoFar(Known)' /\ LabelsSoFar(Known)'
    <3> SUFFICES ASSUME arguments'.build_rates PROVE RatesSoFar(Known)' /\ LabelsSoFar(Known)'
      OBVIOUS
    <3> DEFINE m == Known
    <3>1. RatesSoFar(Known) /\ LabelsSoFar(Known)
      BY <1>2 DEF RatesInv
    <3>2. PICK l : l = Known
      OBVIOUS
    <3>3. RatesSoFar(l) /\ LabelsSoFar(l)
      BY <3>1, <3>2 DEF RatesSoFar, LabelsSoFar
    <3>4. RatesSoFar(l)' /\ LabelsSoFar(l)'
      BY <1>2, <3>3, RatesStay
    <3>5. Known' = l
      BY <1>2, <3>2
    <3> QED
      BY <3>4, <3>5 DEF RatesSoFar, LabelsSoFar
  <2>3. RatesAgree'
    BY <2>1 DEF RatesAgree
  <2> QED
    BY <1>2, <2>1, <2>2, <2>3 DEF RatesInv
<1>3. CASE Load
  <2>1. /\ pc = "load" /\ pc' = "fit" /\ UNCHANGED <<arguments, inputs, next, seriesVars>>
    BY <1>3 DEF Load
  <2>2. Known' = Known
    BY <2>1 DEF Known
  <2> QED
    BY <1>2, <2>1, <2>2
<1>4. CASE Draw
  <2>1. /\ pc = "draw" /\ next' = next + 1 /\ pc' = (IF next' <= Len(inputs) THEN "load" ELSE "finish")
        /\ UNCHANGED <<arguments, inputs, seriesVars>>
    BY <1>4 DEF Draw
  <2>2. next \in Nat /\ next \in DOMAIN inputs /\ Len(inputs) \in Nat /\ DOMAIN inputs = 1..Len(inputs)
    BY <2>1, LenProperties DEF GrinderInv
  <2>3. Known' = Known
    BY <2>1, <2>2 DEF Known
  <2>4. pc' = "finish" => next' = Len(inputs) + 1
    BY <2>1, <2>2
  <2> QED
    BY <1>2, <2>1, <2>3, <2>4
<1>5. CASE SkipRates
  <2>1. /\ pc = "fit" /\ pc' = "draw" /\ ~arguments.build_rates
        /\ UNCHANGED <<arguments, inputs>>
    BY <1>5 DEF SkipRates
  <2> QED
    BY <2>1 DEF RatesInv, RatesAgree
<1>6. CASE AddRates
  <2>1. pc' = "draw" /\ pc = "fit" /\ UNCHANGED <<arguments, inputs, next>>
    BY <1>6 DEF AddRates
  <2>2. RatesSoFar(next)' /\ LabelsSoFar(next)'
    BY <1>6, RatesAdded
  <2>3. Known' = next'
    BY <2>1 DEF Known
  <2>4. RatesSoFar(Known)' /\ LabelsSoFar(Known)'
    BY <2>2, <2>3 DEF RatesSoFar, LabelsSoFar
  <2> QED
    BY <2>1, <2>4 DEF RatesInv, RatesAgree
<1>7. CASE Finish
  <2>1. RatesAgree'
    BY <1>7, RatesFinished
  <2>2. pc = "finish" /\ pc' = "written" /\ UNCHANGED <<arguments, inputs, next>>
    BY <1>7 DEF Finish
  <2> QED
    BY <2>1, <2>2 DEF RatesInv
<1>8. CASE LoadRaises \/ FitRaises \/ DrawRaises \/ FinishRaises
  <2>1. pc' \in {"raised", "unwritten"} /\ pc # "collect" /\ UNCHANGED inputs
    BY <1>8 DEF LoadRaises, FitRaises, DrawRaises, FinishRaises, Leave
  <2> QED
    BY <2>1 DEF RatesInv, RatesAgree
<1>9. CASE UNCHANGED vars
  <2>1. UNCHANGED <<pc, arguments, inputs, next, seriesVars>>
    BY <1>9 DEF vars
  <2>2. UNCHANGED <<reference_series, receiving_series, sending_labels_series, receiving_labels_series>>
    BY <2>1 DEF seriesVars
  <2>3. \A k : Part(k)' = Part(k)
    BY <2>1 DEF Part, Cut, Slice
  <2>4. RatesAgree'
    <3>1. RatesAgree
      BY DEF RatesInv
    <3> QED
      BY <2>1, <2>2, <2>3, <3>1 DEF RatesAgree
  <2>5. Known' = Known
    BY <2>1 DEF Known
  <2>6. arguments'.build_rates /\ pc' \in {"collect", "load", "fit", "draw", "finish"} =>
          RatesSoFar(Known)' /\ LabelsSoFar(Known)'
    <3> SUFFICES ASSUME arguments'.build_rates, pc' \in {"collect", "load", "fit", "draw", "finish"}
                 PROVE  RatesSoFar(Known)' /\ LabelsSoFar(Known)'
      OBVIOUS
    <3>1. RatesSoFar(Known) /\ LabelsSoFar(Known)
      BY <2>1 DEF RatesInv
    <3>2. PICK l : l = Known
      OBVIOUS
    <3>3. RatesSoFar(l) /\ LabelsSoFar(l)
      BY <3>1, <3>2 DEF RatesSoFar, LabelsSoFar
    <3>4. RatesSoFar(l)' /\ LabelsSoFar(l)'
      BY <2>1, <3>3, RatesStay
    <3>5. Known' = l
      BY <2>5, <3>2
    <3> QED
      BY <3>4, <3>5 DEF RatesSoFar, LabelsSoFar
  <2> QED
    BY <2>1, <2>4, <2>6 DEF RatesInv
<1> QED
  BY <1>1, <1>3, <1>4, <1>5, <1>6, <1>7, <1>8, <1>9 DEF Next

\* The rate chart has a point for each input with the rates fit.py prints of it, in the order
\* of the sending rates and with the inputs' speeds, and no rate is steeper or flatter
\* than all pairs of its messages (grinder.py:486-530).
THEOREM RatesOfTheInputs == Spec => []RatesAgree
<1>1. Init => GrinderInv /\ RatesInv
  BY GrinderInvInit, RatesInvInit
<1>2. GrinderInv /\ RatesInv /\ [Next]_vars => (GrinderInv /\ RatesInv)'
  BY GrinderInvStep, RatesInvStep
<1>3. RatesInv => RatesAgree
  BY DEF RatesInv
<1> QED
  BY <1>1, <1>2, <1>3, PTL DEF Spec

-----------------------------------------------------------------------------
(* The search for the largest rate: for all limits of two digits, and      *)
(* whatever the server, the client and chance make of them.                *)

(* Scales.                                                                 *)

\* Powers of ten.
LEMMA Powers ==
  /\ \A i \in 0..7 : Power(10, i) \in Nat \ {0}
  /\ \A i \in 1..7 : Power(10, i) = 10 * Power(10, i - 1)
  /\ Power(10, 0) = 1
<1>1. ASSUME NEW i \in 0..7 PROVE Power(10, i) \in Nat \ {0}
  <2>1. i \in Nat
    OBVIOUS
  <2>2. i < Power(10, i) /\ Power(10, i) \in Nat
    BY <2>1, TenGrows, PowerMore
  <2> QED
    BY <2>1, <2>2
<1>2. ASSUME NEW i \in 1..7 PROVE Power(10, i) = 10 * Power(10, i - 1)
  <2> DEFINE e == i - 1
  <2>1. e \in Nat /\ e + 1 = i
    OBVIOUS
  <2> HIDE DEF e
  <2>2. Power(10, e + 1) = Power(10, e) * 10 /\ Power(10, e) \in Nat
    BY <2>1, PowerMore
  <2> QED
    BY <2>1, <2>2 DEF e
<1>3. Power(10, 0) = 1
  BY PowerMore
<1> QED
  BY <1>1, <1>2, <1>3

\* A larger power has all smaller ones in it ten times.
LEMMA PowersGrow == ASSUME NEW i \in 0..7, NEW j \in 0..(i - 1) PROVE 10 * Power(10, j) <= Power(10, i)
<1>1. j \in Nat /\ j + 1 \in Nat /\ i \in Nat /\ j + 1 <= i /\ 10 \in Nat \ {0}
  OBVIOUS
<1>2. Power(10, j + 1) = Power(10, j) * 10 /\ Power(10, j) \in Nat
  BY <1>1, PowerMore
<1>3. Power(10, j + 1) <= Power(10, i)
  BY <1>1, PowerRises
<1> QED
  BY <1>2, <1>3

\* A number with i zeroes is one with fewer zeroes.
LEMMA PowersDivide ==
  ASSUME NEW j \in 0..7, NEW i \in 0..j
  PROVE  Power(10, j) = Power(10, j - i) * Power(10, i) /\ j - i \in 0..7
<1> DEFINE d == j - i
<1>1. d \in Nat /\ i \in Nat /\ d + i = j /\ d \in 0..7
  OBVIOUS
<1> HIDE DEF d
<1>2. Power(10, d + i) = Power(10, d) * Power(10, i)
  BY <1>1, PowerOfSum
<1> QED
  BY <1>1, <1>2 DEF d

\* What fixes the scale of r2: i divisions are enough, and fewer are not.
Scales(r2, i) == r2 <= 200 * Power(10, i) /\ \A j \in 0..(i - 1) : r2 > 200 * Power(10, j)

\* Every number in range has a scale.
LEMMA ScaleExists ==
  ASSUME NEW r2 \in 0..(200 * Power(10, 7))
  PROVE  Scale(r2) \in 0..7 /\ Scales(r2, Scale(r2))
<1>1. \E i \in 0..7 : r2 <= 200 * Power(10, i) /\ \A j \in 0..(i - 1) : r2 > 200 * Power(10, j)
  <2> DEFINE Enough(i) == r2 <= 200 * Power(10, i)
  <2>1. Enough(7)
    BY Powers
  <2> HIDE DEF Enough
  <2>2. \E i \in 0..7 : Enough(i) /\ \A j \in 0..(i - 1) : ~Enough(j)
    <3>1. CASE Enough(0)
      BY <3>1
    <3>2. CASE ~Enough(0) /\ Enough(1)
      BY <3>2
    <3>3. CASE ~Enough(0) /\ ~Enough(1) /\ Enough(2)
      <4>1. \A j \in 0..1 : j = 0 \/ j = 1
        OBVIOUS
      <4> QED
        BY <3>3, <4>1
    <3>4. CASE ~Enough(0) /\ ~Enough(1) /\ ~Enough(2) /\ Enough(3)
      <4>1. \A j \in 0..2 : j = 0 \/ j = 1 \/ j = 2
        OBVIOUS
      <4> QED
        BY <3>4, <4>1
    <3>5. CASE ~Enough(0) /\ ~Enough(1) /\ ~Enough(2) /\ ~Enough(3) /\ Enough(4)
      <4>1. \A j \in 0..3 : j = 0 \/ j = 1 \/ j = 2 \/ j = 3
        OBVIOUS
      <4> QED
        BY <3>5, <4>1
    <3>6. CASE ~Enough(0) /\ ~Enough(1) /\ ~Enough(2) /\ ~Enough(3) /\ ~Enough(4) /\ Enough(5)
      <4>1. \A j \in 0..4 : j = 0 \/ j = 1 \/ j = 2 \/ j = 3 \/ j = 4
        OBVIOUS
      <4> QED
        BY <3>6, <4>1
    <3>7. CASE ~Enough(0) /\ ~Enough(1) /\ ~Enough(2) /\ ~Enough(3) /\ ~Enough(4) /\ ~Enough(5) /\ Enough(6)
      <4>1. \A j \in 0..5 : j = 0 \/ j = 1 \/ j = 2 \/ j = 3 \/ j = 4 \/ j = 5
        OBVIOUS
      <4> QED
        BY <3>7, <4>1
    <3>8. CASE ~Enough(0) /\ ~Enough(1) /\ ~Enough(2) /\ ~Enough(3) /\ ~Enough(4) /\ ~Enough(5) /\ ~Enough(6)
      <4>1. \A j \in 0..6 : j = 0 \/ j = 1 \/ j = 2 \/ j = 3 \/ j = 4 \/ j = 5 \/ j = 6
        OBVIOUS
      <4> QED
        BY <3>8, <4>1, <2>1
    <3> QED
      BY <3>1, <3>2, <3>3, <3>4, <3>5, <3>6, <3>7, <3>8
  <2>3. \A i \in 0..7 : \A j \in 0..(i - 1) : ~Enough(j) => r2 > 200 * Power(10, j)
    BY Powers DEF Enough
  <2> QED
    BY <2>2, <2>3 DEF Enough
<1> QED
  BY <1>1 DEF Scale, Scales

\* It has only one.
LEMMA ScaleUnique ==
  ASSUME NEW r2 \in 0..(200 * Power(10, 7)), NEW i \in 0..7, Scales(r2, i)
  PROVE  Scale(r2) = i
<1>1. Scale(r2) \in 0..7 /\ Scales(r2, Scale(r2))
  BY ScaleExists
<1>2. \A k \in 0..7 : Power(10, k) \in Nat
  BY Powers
<1>3. ~(Scale(r2) < i) /\ ~(i < Scale(r2))
  <2>1. ASSUME NEW k \in 0..7, NEW l \in 0..7, Scales(r2, k), Scales(r2, l), k < l
        PROVE  FALSE
    <3>1. k \in 0..(l - 1) /\ 200 * Power(10, k) \in Nat
      BY <1>2, <2>1
    <3> QED
      BY <2>1, <3>1 DEF Scales
  <2> QED
    BY <1>1, <2>1
<1> QED
  BY <1>1, <1>3
-----------------------------------------------------------------------------
(* Rounding.                                                               *)

\* The multiple of b below a, or at it.
LEMMA Quotient ==
  ASSUME NEW a \in Nat, NEW b \in Nat \ {0}
  PROVE  /\ a \div b \in Nat
         /\ b * (a \div b) <= a /\ a < b * (a \div b) + b
OBVIOUS

\* The multiple that is nearest is the only one as near.
LEMMA QuotientIs ==
  ASSUME NEW a \in Nat, NEW b \in Nat \ {0}, NEW n \in Nat, b * n <= a, a < b * n + b
  PROVE  a \div b = n
<1> DEFINE q == a \div b
<1>1. q \in Nat /\ b * q <= a /\ a < b * q + b
  BY Quotient
<1> HIDE DEF q
<1>2. ~(q < n)
  <2>1. ASSUME q < n PROVE b * (q + 1) <= b * n
    BY <1>1, <2>1
  <2> QED
    BY <1>1, <2>1
<1>3. ~(n < q)
  <2>1. ASSUME n < q PROVE b * (n + 1) <= b * q
    BY <1>1, <2>1
  <2> QED
    BY <1>1, <2>1
<1>4. q = n
  BY <1>1, <1>2, <1>3
<1> QED
  BY <1>4 DEF q

\* The rounded half of r2 is n units, and half a unit or less away from it.
LEMMA RoundsToUnits ==
  ASSUME NEW r2 \in 0..(200 * Power(10, 7))
  PROVE  \E n \in 0..100 :
           LET i == Scale(r2)
               u == Power(10, i) IN
           /\ i \in 0..7 /\ Scales(r2, i) /\ RateRound(r2) = n * u
           /\ 2 * u * n <= r2 + u /\ r2 + u < 2 * u * n + 2 * u
           /\ i > 0 => n >= 10
<1> DEFINE i == Scale(r2)
           u == Power(10, i)
           n == (r2 + u) \div (2 * u)
<1>1. i \in 0..7 /\ Scales(r2, i) 
  BY ScaleExists
<1>2. u \in Nat \ {0} /\ r2 \in Nat
  BY <1>1, Powers
<1>3. RateRound(r2) = n * u
  BY DEF RateRound
<1> HIDE DEF i, u
<1>4. n \in Nat /\ 2 * u * n <= r2 + u /\ r2 + u < 2 * u * n + 2 * u
  <2>1. r2 + u \in Nat /\ 2 * u \in Nat \ {0}
    BY <1>2
  <2> QED
    BY <2>1, Quotient
<1> HIDE DEF n
<1>5. n \in 0..100
  <2>1. r2 <= 200 * u
    BY <1>1 DEF Scales, u
  <2>2. ASSUME n > 100 PROVE FALSE
    <3>1. 2 * u * n >= 2 * u * 101
      BY <1>2, <1>4, <2>2
    <3> QED
      BY <1>2, <1>4, <2>1, <3>1
  <2> QED
    BY <1>4, <2>2
<1>6. ASSUME i > 0 PROVE n >= 10
  <2>1. r2 > 200 * Power(10, i - 1) /\ u = 10 * Power(10, i - 1) /\ Power(10, i - 1) \in Nat
    BY <1>1, <1>6, Powers DEF Scales, u
  <2>2. r2 > 20 * u
    BY <2>1
  <2>3. ASSUME n < 10 PROVE FALSE
    <3>1. 2 * u * n <= 2 * u * 9
      BY <1>2, <1>4, <2>3
    <3> QED
      BY <1>2, <1>4, <2>2, <3>1
  <2> QED
    BY <1>4, <2>3
<1> QED
  BY <1>1, <1>3, <1>4, <1>5, <1>6 DEF i, u

\* The numbers of two digits in range.
LEMMA TwoDigitsBounded == ASSUME NEW b, TwoDigits(b) PROVE b \in 0..(100 * Power(10, 7))
<1>1. PICK n \in 0..100, i \in 0..7 : b = n * Power(10, i)
  BY DEF TwoDigits
<1>2. Power(10, i) \in Nat /\ Power(10, 7) \in Nat /\ Power(10, i) <= Power(10, 7)
  <2>1. CASE i = 7
    BY <2>1, Powers
  <2>2. CASE i # 7
    <3>1. i \in 0..6 /\ Power(10, i) \in Nat /\ Power(10, 7) \in Nat
      BY <2>2, Powers
    <3>2. 10 * Power(10, i) <= Power(10, 7)
      BY <3>1, PowersGrow
    <3> QED
      BY <3>1, <3>2
  <2> QED
    BY <2>1, <2>2
<1>3. n * Power(10, i) \in Nat /\ n * Power(10, i) <= 100 * Power(10, i)
  BY <1>2
<1> QED
  BY <1>1, <1>2, <1>3

\* rate_round leaves two digits.
LEMMA RoundedHasTwoDigits ==
  ASSUME NEW r2 \in 0..(200 * Power(10, 7)) PROVE TwoDigits(RateRound(r2))
BY RoundsToUnits DEF TwoDigits

\* A number of two digits is a multiple of the unit of every smaller one.
LEMMA Multiple ==
  ASSUME NEW b, TwoDigits(b), NEW r2 \in 0..(2 * b)
  PROVE  /\ r2 \in 0..(200 * Power(10, 7))
         /\ \E c \in Nat : b = c * Power(10, Scale(r2))
<1>1. b \in 0..(100 * Power(10, 7)) /\ Power(10, 7) \in Nat
  BY TwoDigitsBounded, Powers
<1>2. r2 \in 0..(200 * Power(10, 7))
  BY <1>1
<1>3. PICK n \in 0..100, j \in 0..7 : b = n * Power(10, j)
  BY DEF TwoDigits
<1>4. Scale(r2) \in 0..7 /\ Scales(r2, Scale(r2))
  BY <1>2, ScaleExists
<1>5. Scale(r2) \in 0..j
  <2>1. ASSUME j < Scale(r2) PROVE FALSE
    <3>1. r2 > 200 * Power(10, j) /\ Power(10, j) \in Nat
      BY <1>4, <2>1, Powers DEF Scales
    <3>2. n * Power(10, j) <= 100 * Power(10, j)
      BY <3>1
    <3> QED
      BY <1>1, <1>3, <3>1, <3>2
  <2> QED
    BY <1>4, <2>1
<1>6. /\ Power(10, j) = Power(10, j - Scale(r2)) * Power(10, Scale(r2))
      /\ Power(10, j - Scale(r2)) \in Nat /\ Power(10, Scale(r2)) \in Nat
  BY <1>4, <1>5, PowersDivide, Powers
<1>7. /\ n * Power(10, j - Scale(r2)) \in Nat
      /\ b = (n * Power(10, j - Scale(r2))) * Power(10, Scale(r2))
  BY <1>3, <1>6
<1> QED
  BY <1>2, <1>7

\* Between a number and a greater one of two digits, half way is rounded to something
\* between: the unit is the greater one's, or a finer one.
LEMMA RoundsUpTo ==
  ASSUME NEW a \in Nat, NEW b, TwoDigits(b), a <= b
  PROVE  a <= RateRound(a + b) /\ RateRound(a + b) <= b /\ TwoDigits(RateRound(a + b))
<1> DEFINE r2 == a + b
           u == Power(10, Scale(r2))
<1>1. b \in Nat /\ r2 \in 0..(2 * b)
  BY TwoDigitsBounded, Powers
<1>2. r2 = a + b
  OBVIOUS
<1> HIDE DEF r2
<1>3. r2 \in 0..(200 * Power(10, 7))
  BY <1>1, Multiple
<1>4. PICK c \in Nat : b = c * u
  BY <1>1, Multiple
<1>5. PICK n \in 0..100 :
        /\ Scale(r2) \in 0..7 /\ RateRound(r2) = n * u
        /\ 2 * u * n <= r2 + u /\ r2 + u < 2 * u * n + 2 * u
  BY <1>3, RoundsToUnits
<1>6. u \in Nat \ {0}
  BY <1>5, Powers
<1> HIDE DEF u
<1>7. n <= c
  <2>1. ASSUME c + 1 <= n PROVE FALSE
    <3>1. 2 * u * (c + 1) <= 2 * u * n
      BY <1>6, <2>1
    <3>2. 2 * u * (c + 1) = 2 * b + 2 * u
      BY <1>4, <1>6
    <3> QED
      BY <1>1, <1>5, <1>6, <3>1, <3>2
  <2> QED
    BY <2>1
<1>8. n * u <= b
  BY <1>4, <1>6, <1>7
<1>9. a <= n * u
  <2>1. CASE n = c
    BY <1>4, <2>1
  <2>2. CASE n # c
    <3>1. (n + 1) * u <= c * u
      BY <1>6, <1>7, <2>2
    <3>2. n * u + u <= b
      BY <1>4, <1>6, <3>1
    <3>3. 2 * u * n = 2 * (n * u) /\ n * u \in Nat
      BY <1>6
    <3> QED
      BY <1>1, <1>2, <1>5, <1>6, <3>2, <3>3
  <2> QED
    BY <2>1, <2>2
<1>10. TwoDigits(RateRound(r2))
  BY <1>3, RoundedHasTwoDigits
<1> QED
  BY <1>5, <1>8, <1>9, <1>10 DEF r2

\* What has been rounded stays as it is.
LEMMA RoundsOnce ==
  ASSUME NEW r2 \in 0..(200 * Power(10, 7))
  PROVE  RateRound(2 * RateRound(r2)) = RateRound(r2)
<1> DEFINE i == Scale(r2)
           u == Power(10, i)
<1>1. PICK n \in 0..100 : i \in 0..7 /\ RateRound(r2) = n * u /\ (i > 0 => n >= 10)
  BY RoundsToUnits
<1>2. u \in Nat \ {0}
  BY <1>1, Powers
<1> DEFINE m == n * u
<1>3. m \in Nat /\ 2 * m \in 0..(200 * Power(10, 7)) /\ 2 * m <= 200 * u
  <2>1. TwoDigits(m)
    BY <1>1 DEF TwoDigits
  <2>2. m \in 0..(100 * Power(10, 7)) /\ Power(10, 7) \in Nat
    BY <2>1, TwoDigitsBounded, Powers
  <2> HIDE DEF i, u
  <2>3. n * u <= 100 * u
    BY <1>2
  <2> QED
    BY <1>2, <2>2, <2>3
<1>4. \A j \in 0..(i - 1) : 200 * Power(10, j) <= 20 * u
  BY <1>1, <1>2, PowersGrow, Powers
<1>5. CASE i = 0 \/ n > 10
  <2>1. Scales(2 * m, i)
    <3>1. ASSUME NEW j \in 0..(i - 1) PROVE 2 * m > 200 * Power(10, j)
      <4>1. n > 10 /\ 200 * Power(10, j) <= 20 * u
        BY <1>1, <1>4, <1>5
      <4>2. Power(10, j) \in Nat
        BY <1>1, Powers
      <4> HIDE DEF i, u
      <4>3. n * u >= 11 * u
        BY <1>2, <4>1
      <4> QED
        BY <1>2, <1>3, <4>1, <4>2, <4>3
    <3> QED
      BY <1>3, <3>1 DEF Scales
  <2>2. Scale(2 * m) = i
    BY <1>1, <1>3, <2>1, ScaleUnique
  <2>3. (2 * m + u) \div (2 * u) = n
    <3> HIDE DEF i, u
    <3>1. /\ (2 * u) * n = 2 * m /\ 2 * u \in Nat \ {0}
          /\ 2 * m + u \in Nat
      BY <1>2, <1>3
    <3>2. (2 * u) * n <= 2 * m + u /\ 2 * m + u < (2 * u) * n + 2 * u
      BY <1>2, <1>3, <3>1
    <3> DEFINE a == 2 * m + u
               b == 2 * u
    <3>3. a \in Nat /\ b \in Nat \ {0} /\ n \in Nat /\ b * n <= a /\ a < b * n + b
      BY <3>1, <3>2
    <3> HIDE DEF a, b
    <3>4. a \div b = n
      BY <3>3, QuotientIs
    <3> QED
      BY <3>4 DEF a, b
  <2> QED
    BY <1>1, <2>2, <2>3 DEF RateRound
<1>6. CASE i > 0 /\ n = 10
  <2> DEFINE v == Power(10, i - 1)
  <2>1. u = 10 * v /\ v \in Nat \ {0} /\ i - 1 \in 0..7
    BY <1>1, <1>6, Powers
  <2>2. 2 * m = 200 * v
    BY <1>6, <2>1
  <2>3. Scales(2 * m, i - 1)
    <3>1. ASSUME NEW j \in 0..((i - 1) - 1) PROVE 2 * m > 200 * Power(10, j)
      <4>1. 10 * Power(10, j) <= v /\ Power(10, j) \in Nat \ {0}
        BY <1>1, <2>1, PowersGrow, Powers
      <4> QED
        BY <2>1, <2>2, <4>1
    <3>2. 2 * m <= 200 * v
      BY <2>1, <2>2
    <3> QED
      BY <3>1, <3>2 DEF Scales
  <2>4. Scale(2 * m) = i - 1
    BY <1>3, <2>1, <2>3, ScaleUnique
  <2>5. (2 * m + v) \div (2 * v) = 100
    <3> HIDE DEF v, m
    <3>1. /\ (2 * v) * 100 <= 2 * m + v /\ 2 * m + v < (2 * v) * 100 + 2 * v
          /\ 2 * v \in Nat \ {0} /\ 2 * m + v \in Nat
      BY <2>1, <2>2
    <3> QED
      BY <3>1, QuotientIs
  <2>6. RateRound(2 * m) = 100 * v
    BY <2>4, <2>5 DEF RateRound
  <2> QED
    BY <1>1, <1>6, <2>1, <2>6
<1> QED
  BY <1>1, <1>5, <1>6
-----------------------------------------------------------------------------
(* The search.                                                             *)

\* What is halfway between two numbers of two digits stays between them when rounded.
LEMMA RoundsBetween ==
  ASSUME NEW a, NEW b, TwoDigits(a), TwoDigits(b)
  PROVE  Between(RateRound(a + b), b, a) /\ TwoDigits(RateRound(a + b))
<1>1. a \in Nat /\ b \in Nat
  BY TwoDigitsBounded, Powers
<1>2. CASE a <= b
  BY <1>1, <1>2, RoundsUpTo DEF Between
<1>3. CASE b <= a
  <2>1. a + b = b + a
    BY <1>1
  <2> QED
    BY <1>1, <1>3, <2>1, RoundsUpTo DEF Between
<1> QED
  BY <1>1, <1>2, <1>3

\* The limits that the operator gives preview have two digits: those he began with
\* do, and so does every proposal.  A run is no faster than its limit.
LimitsOK == TwoDigits(low) /\ TwoDigits(test) /\ (high = Unknown \/ TwoDigits(high))

ControlOK ==
  /\ stage \in {"measure", "preview", "adjust"} /\ client \in Nat
  /\ stage = "preview" => rate \in 0..test
  /\ stage = "adjust" => TwoDigits(proposed)

SearchInv == LimitsOK /\ ControlOK /\ TestsInside

\* The limits a search begins with have two digits.
LEMMA SearchInvInit == ASSUME SearchInit PROVE SearchInv
<1>1. TwoDigits(0)
  <2>1. 0 = 0 * Power(10, 0) /\ 0 \in 0..100 /\ 0 \in 0..7
    BY Powers
  <2> QED
    BY <2>1 DEF TwoDigits
<1>2. LimitsOK
  BY <1>1, LimitsAssumption DEF SearchInit, LimitsOK
<1>3. stage = "measure" /\ client \in Nat
  BY ClientAssumption DEF SearchInit
<1> QED
  BY <1>2, <1>3 DEF SearchInv, ControlOK, TestsInside

\* A test changes no limit.
LEMMA MeasureStays == ASSUME SearchInv, Measure PROVE SearchInv'
<1>1. rate' \in 0..test
  <2>1. test \in Nat /\ client \in Nat /\ rate' = IF test < client THEN test ELSE client
    BY TwoDigitsBounded, Powers DEF SearchInv, LimitsOK, ControlOK, Measure
  <2> QED
    BY <2>1
<1>2. stage' = "preview" /\ UNCHANGED <<low, high, test, client>>
  BY DEF Measure
<1> QED
  BY <1>1, <1>2 DEF SearchInv, LimitsOK, ControlOK, TestsInside

\* preview moves one limit to the rate tested, and proposes what lies between.
LEMMA PreviewStays == ASSUME SearchInv, Preview PROVE SearchInv'
<1> DEFINE other == IF lost THEN low ELSE IF high = Unknown THEN rate ELSE high
<1>1. /\ stage = "preview" /\ stage' = "adjust" /\ rate \in 0..test
      /\ UNCHANGED <<low, high, test, rate, lost, client>>
  BY DEF Preview, SearchInv, ControlOK
<1>2. proposed' = RateRound(other + test)
  <2>1. high = Unknown <=> high < 0
    <3>1. Unknown < 0 /\ Unknown \notin Nat
      BY ClientAssumption
    <3>2. CASE TwoDigits(high)
      <4>1. high \in Nat
        BY <3>2, TwoDigitsBounded, Powers
      <4> QED
        BY <3>1, <4>1
    <3>3. high = Unknown \/ TwoDigits(high)
      BY DEF SearchInv, LimitsOK
    <3> QED
      BY <3>1, <3>2, <3>3
  <2>2. proposed' = NextRate(IF high < 0 THEN rate ELSE high)
    BY DEF Preview
  <2> QED
    BY <2>1, <2>2 DEF NextRate
<1>3. test \in Nat /\ rate \in Nat /\ TwoDigits(test) /\ rate <= test
  BY <1>1, TwoDigitsBounded, Powers DEF SearchInv, LimitsOK
<1>4. Between(proposed', test, other) /\ TwoDigits(proposed') /\ other + test \in 0..(200 * Power(10, 7))
  <2>1. CASE TwoDigits(other)
    <3> HIDE DEF other
    <3>1. other \in 0..(100 * Power(10, 7)) /\ test \in 0..(100 * Power(10, 7)) /\ Power(10, 7) \in Nat
      BY <1>3, <2>1, TwoDigitsBounded, Powers
    <3>2. other + test = test + other /\ other + test \in 0..(200 * Power(10, 7))
      BY <3>1
    <3>3. Between(RateRound(test + other), other, test) /\ TwoDigits(RateRound(test + other))
      BY <1>3, <2>1, RoundsBetween
    <3> QED
      BY <1>2, <3>2, <3>3 DEF Between
  <2>2. CASE other = rate
    <3>1. other \in Nat /\ other <= test
      BY <1>3, <2>2
    <3> HIDE DEF other
    <3>2. other <= proposed' /\ proposed' <= test /\ TwoDigits(proposed')
      BY <1>2, <1>3, <3>1, RoundsUpTo
    <3>3. test \in 0..(100 * Power(10, 7)) /\ Power(10, 7) \in Nat
      BY <1>3, TwoDigitsBounded, Powers
    <3> QED
      BY <3>1, <3>2, <3>3 DEF Between
  <2>3. TwoDigits(other) \/ other = rate
    BY DEF SearchInv, LimitsOK
  <2> QED
    BY <2>1, <2>2, <2>3
<1> HIDE DEF other
<1>5. proposed' = RateRound(2 * proposed')
  BY <1>2, <1>4, RoundsOnce
<1>6. other' = other
  BY <1>1 DEF other
<1>7. TestsInside'
  BY <1>1, <1>4, <1>5, <1>6 DEF TestsInside, other
<1> QED
  BY <1>1, <1>4, <1>7 DEF SearchInv, LimitsOK, ControlOK

\* The next test is at the proposal.
LEMMA AdjustStays == ASSUME SearchInv, Adjust PROVE SearchInv'
<1>1. stage' = "measure" /\ test' = proposed /\ client' = client /\ TwoDigits(proposed)
  BY DEF Adjust, SearchInv, ControlOK
<1>2. LimitsOK'
  BY <1>1 DEF Adjust, SearchInv, LimitsOK
<1> QED
  BY <1>1, <1>2 DEF SearchInv, ControlOK, TestsInside

\* Every step of the search keeps the invariant.
LEMMA SearchInvStep == ASSUME SearchInv, [SearchNext]_searchVars PROVE SearchInv'
<1>1. CASE SearchNext
  BY <1>1, MeasureStays, PreviewStays, AdjustStays DEF SearchNext
<1>2. CASE UNCHANGED searchVars
  BY <1>2 DEF searchVars, SearchInv, LimitsOK, ControlOK, TestsInside
<1> QED
  BY <1>1, <1>2

\* Limits have two digits throughout, and a run keeps to its limit.
THEOREM SearchInvariant == SearchSpec => []SearchInv
BY SearchInvInit, SearchInvStep, PTL DEF SearchSpec

\* No proposal of preview leaves the limits it halves, whatever scale they are
\* rounded at (preview.py:45-69).
THEOREM ProposesInside == SearchSpec => []TestsInside
<1>1. SearchInv => TestsInside
  BY DEF SearchInv
<1> QED
  BY <1>1, SearchInvariant, PTL

=============================================================================
