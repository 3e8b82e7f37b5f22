---------------------------- MODULE DomainsProofs ----------------------------
(***************************************************************************)
(* Proofs about get_domains, for every file, alphabet and label limit.     *)
(***************************************************************************)
EXTENDS Domains, SequenceTheorems, FiniteSetTheorems, WellFoundedInduction, TLAPS

LEMMA TextType ==
  ASSUME TypeOK
  PROVE  /\ Len(text) \in Nat
         /\ \A k \in 1..Len(text) : text[k] \in 0..255
<1>1. text \in Seq(Letters \cup {Newline, Dot})
  BY DEF TypeOK
<1>2. \A k \in 1..Len(text) : text[k] \in Letters \cup {Newline, Dot}
  BY <1>1, ElementOfSeq
<1>3. Letters \cup {Newline, Dot} \subseteq 0..255
  BY LettersAssumption DEF Byte, Newline, Dot
<1> QED
  BY <1>1, <1>2, <1>3, LenProperties

\* What is written behind the names.
LEMMA Written ==
  ASSUME NEW ns \in Seq(0..255), NEW more \in Seq(0..255)
  PROVE  ns \o more \in Seq(0..255) /\ Len(ns \o more) = Len(ns) + Len(more)
BY ConcatProperties

\* A label is stored in as many bytes as it has, and one more.
LEMMA LabelSize ==
  ASSUME TypeOK, Counters
  PROVE  Label \in Seq(0..255) /\ Len(Label) = zone_count + 1
<1>1. zone_count \in Nat /\ src \in Nat /\ src + zone_count <= Len(text)
  BY TextType DEF TypeOK, Counters
<1>2. \A k \in (src + 1)..(src + zone_count) : text[k] \in 0..255
  <2>1. \A k \in (src + 1)..(src + zone_count) : k \in 1..Len(text)
    BY <1>1, TextType
  <2> QED
    BY <2>1, TextType
<1>3. /\ SubSeq(text, src + 1, src + zone_count) \in Seq(0..255)
      /\ Len(SubSeq(text, src + 1, src + zone_count)) = zone_count
  <2>1. src + 1 \in Int /\ src + zone_count \in Int
    BY <1>1
  <2> QED
    BY <1>1, <1>2, <2>1, SubSeqProperties
<1>4. <<zone_count % 256>> \in Seq(0..255) /\ Len(<<zone_count % 256>>) = 1
  BY <1>1
<1> QED
  BY <1>1, <1>3, <1>4, ConcatProperties DEF Label

\* The block is half as large again as the text, rounded up, and one byte more.
LEMMA BlockSize ==
  ASSUME TypeOK
  PROVE  /\ Allocated \in Nat
         /\ Len(text) % 2 = 1 => 2 * Allocated = 3 * Len(text) + 5
         /\ Len(text) % 2 # 1 => 2 * Allocated = 3 * Len(text) + 2
BY TextType DEF Allocated

\* What is written until the text has been read fits.
LEMMA RoomFits ==
  TypeOK /\ Counters /\ Room => Len(names) <= Allocated
<1> SUFFICES ASSUME TypeOK, Counters, Room PROVE Len(names) <= Allocated
  OBVIOUS
<1>1. Len(names) \in Nat /\ zone_count \in Nat /\ length \in Nat /\ i \in Nat /\ i <= Len(text)
  BY TextType, LenProperties DEF TypeOK
<1>2. 2 * Len(names) <= 3 * Len(text)
  BY <1>1, TextType DEF Counters, Room
<1> QED
  BY <1>1, <1>2, TextType, BlockSize

LEMMA FitsInPlace ==
  TypeOK /\ Len(names) <= Allocated => NamesFitButForOneByte
BY BlockSize, LenProperties DEF NamesFitButForOneByte, TypeOK

LEMMA Initially == Init => IInv
<1> SUFFICES ASSUME Init PROVE IInv
  OBVIOUS
<1>1. text \in Seq(Letters \cup {Newline, Dot})
  BY TextsAssumption DEF Init
<1>2. Len(text) \in Nat
  BY <1>1, LenProperties
<1>3. names = << >> /\ Len(names) = 0 /\ names \in Seq(0..255)
  BY EmptySeq DEF Init
<1>4. TypeOK
  BY <1>1, <1>2, <1>3, LimitAssumption DEF Init, TypeOK
<1>5. Counters /\ Room /\ count + length <= i
  BY <1>3 DEF Init, Counters, Room
<1> QED
  BY <1>4, <1>5, RoomFits, FitsInPlace DEF IInv

\* While the text is read, what is to show of a step is what it does to the
\* counters and to the room that is left.
LEMMA Scanning ==
  ASSUME TypeOK', Counters', Room', (count + length <= i)'
  PROVE  IInv'
<1>1. (TypeOK /\ Counters /\ Room => Len(names) <= Allocated)'
  BY RoomFits, PTL
<1>2. (TypeOK /\ Len(names) <= Allocated => NamesFitButForOneByte)'
  BY FitsInPlace, PTL
<1> QED
  BY <1>1, <1>2 DEF IInv

\* A rejected file leaves no names.
LEMMA RejectStep == IInv /\ Reject => IInv'
<1> SUFFICES ASSUME IInv, Reject PROVE IInv'
  OBVIOUS
<1>1. names' = << >> /\ Len(names') = 0 /\ names' \in Seq(0..255)
  BY EmptySeq DEF Reject
<1>2. TypeOK'
  BY <1>1 DEF IInv, TypeOK, Reject, scanVars
<1>3. (Len(names) <= Allocated)'
  <2>1. Allocated' = Allocated
    BY DEF Reject, Allocated
  <2> QED
    BY <1>1, <2>1, BlockSize DEF IInv
<1>4. (TypeOK /\ Len(names) <= Allocated => NamesFitButForOneByte)'
  BY FitsInPlace, PTL
<1> QED
  BY <1>2, <1>3, <1>4 DEF IInv, Reject

\* A byte that adds nothing to the names.
LEMMA LetterStep == IInv /\ Letter => IInv'
<1> SUFFICES ASSUME IInv, Letter PROVE IInv'
  OBVIOUS
<1> USE DEF Letter, AtLetter
<1>1. /\ zone_count \in Nat /\ length \in Nat /\ i \in Nat /\ src \in Nat /\ count \in Nat /\ line \in Nat
      /\ Len(text) \in Nat /\ Len(names) \in Nat /\ MaxLabel \in Nat
      /\ Counters /\ Room /\ count + length <= i /\ TypeOK
  BY TextType, LenProperties, LimitAssumption DEF IInv, TypeOK
<1>2. text[i + 1] # Newline
  BY LettersAssumption
<1>3. TypeOK'
  BY <1>1 DEF TypeOK, Counters
<1>4. Counters'
  BY <1>1, <1>2 DEF Counters
<1>5. Room' /\ (count + length <= i)'
  BY <1>1 DEF Room
<1> QED
  BY <1>3, <1>4, <1>5, Scanning

LEMMA BlankLineStep == IInv /\ BlankLine => IInv'
<1> SUFFICES ASSUME IInv, BlankLine PROVE IInv'
  OBVIOUS
<1> USE DEF BlankLine, AtNewline
<1>1. /\ zone_count \in Nat /\ length \in Nat /\ i \in Nat /\ src \in Nat /\ count \in Nat /\ line \in Nat
      /\ Len(text) \in Nat /\ Len(names) \in Nat /\ MaxLabel \in Nat
      /\ Counters /\ Room /\ count + length <= i /\ TypeOK
  BY TextType, LenProperties, LimitAssumption DEF IInv, TypeOK
<1>2. TypeOK'
  BY <1>1 DEF TypeOK, Counters
<1>3. Counters' /\ Room' /\ (count + length <= i)'
  BY <1>1 DEF Counters, Room
<1> QED
  BY <1>2, <1>3, Scanning

LEMMA EndLabelStep == IInv /\ EndLabel => IInv'
<1> SUFFICES ASSUME IInv, EndLabel PROVE IInv'
  OBVIOUS
<1> USE DEF EndLabel, AtDot
<1>1. /\ zone_count \in Nat /\ length \in Nat /\ i \in Nat /\ src \in Nat /\ count \in Nat /\ line \in Nat
      /\ Len(text) \in Nat /\ Len(names) \in Nat /\ MaxLabel \in Nat
      /\ Counters /\ Room /\ count + length <= i /\ TypeOK
  BY TextType, LenProperties, LimitAssumption DEF IInv, TypeOK
<1>2. names' \in Seq(0..255) /\ Len(names') = Len(names) + zone_count + 1
  <2>0. names \in Seq(0..255)
    BY <1>1 DEF TypeOK
  <2>1. Label \in Seq(0..255) /\ Len(Label) = zone_count + 1
    BY <1>1, LabelSize
  <2>2. names \o Label \in Seq(0..255) /\ Len(names \o Label) = Len(names) + Len(Label)
    BY <2>1, <2>0, Written
  <2>3. names' = names \o Label
    OBVIOUS
  <2> QED
    BY <1>1, <2>1, <2>2, <2>3
<1>3. text[i + 1] # Newline
  BY DEF Dot, Newline
<1>4. TypeOK'
  BY <1>1, <1>2 DEF TypeOK, Counters
<1>5. Counters'
  BY <1>1, <1>3 DEF Counters
<1>6. Room' /\ (count + length <= i)'
  BY <1>1, <1>2 DEF Room, Counters
<1> QED
  BY <1>4, <1>5, <1>6, Scanning

\* The line that ends here took one byte more than it has, and it has at
\* least two.
LEMMA EndNameStep == IInv /\ EndName => IInv'
<1> SUFFICES ASSUME IInv, EndName PROVE IInv'
  OBVIOUS
<1> USE DEF EndName, AtNewline
<1>1. /\ zone_count \in Nat /\ length \in Nat /\ i \in Nat /\ src \in Nat /\ count \in Nat /\ line \in Nat
      /\ Len(text) \in Nat /\ Len(names) \in Nat /\ MaxLabel \in Nat
      /\ Counters /\ Room /\ count + length <= i /\ TypeOK
  BY TextType, LenProperties, LimitAssumption DEF IInv, TypeOK
<1>2. names' \in Seq(0..255) /\ Len(names') = Len(names) + zone_count + 2
  <2>0. names \in Seq(0..255)
    BY <1>1 DEF TypeOK
  <2>1. Label \in Seq(0..255) /\ Len(Label) = zone_count + 1
    BY <1>1, LabelSize
  <2>2. <<Nul>> \in Seq(0..255) /\ Len(<<Nul>>) = 1
    BY DEF Nul
  <2>3. names \o Label \in Seq(0..255) /\ Len(names \o Label) = Len(names) + Len(Label)
    BY <2>1, <2>0, Written
  <2>4. /\ (names \o Label) \o <<Nul>> \in Seq(0..255)
        /\ Len((names \o Label) \o <<Nul>>) = Len(names \o Label) + Len(<<Nul>>)
    BY <2>2, <2>3, Written
  <2>5. names' = (names \o Label) \o <<Nul>>
    OBVIOUS
  <2> QED
    BY <1>1, <2>1, <2>2, <2>3, <2>4, <2>5
<1>3. TypeOK'
  BY <1>1, <1>2, SMTT(30) DEF TypeOK, Counters
<1>4. Counters'
  BY <1>1 DEF Counters
<1>5. Room' /\ (count + length <= i)'
  BY <1>1, <1>2 DEF Room, Counters
<1> QED
  BY <1>3, <1>4, <1>5, Scanning

\* Without a newline at the end the last line takes three bytes more than it
\* has, of which it brings at least one.
LEMMA FinishNameStep == IInv /\ FinishName => IInv'
<1> SUFFICES ASSUME IInv, FinishName PROVE IInv'
  OBVIOUS
<1> USE DEF FinishName, AtEnd, scanVars
<1>1. /\ zone_count \in Nat /\ length \in Nat /\ i \in Nat /\ src \in Nat /\ count \in Nat /\ line \in Nat
      /\ Len(text) \in Nat /\ Len(names) \in Nat /\ MaxLabel \in Nat
      /\ Counters /\ Room /\ count + length <= i /\ TypeOK
  BY TextType, LenProperties, LimitAssumption DEF IInv, TypeOK
<1>2. names' \in Seq(0..255) /\ Len(names') = Len(names) + zone_count + 3
  <2>0. names \in Seq(0..255)
    BY <1>1 DEF TypeOK
  <2>1. Label \in Seq(0..255) /\ Len(Label) = zone_count + 1
    BY <1>1, LabelSize
  <2>2. <<Nul, Nul>> \in Seq(0..255) /\ Len(<<Nul, Nul>>) = 2
    BY DEF Nul
  <2>3. names \o Label \in Seq(0..255) /\ Len(names \o Label) = Len(names) + Len(Label)
    BY <2>1, <2>0, Written
  <2>4. /\ (names \o Label) \o <<Nul, Nul>> \in Seq(0..255)
        /\ Len((names \o Label) \o <<Nul, Nul>>) = Len(names \o Label) + Len(<<Nul, Nul>>)
    BY <2>2, <2>3, Written
  <2>5. names' = (names \o Label) \o <<Nul, Nul>>
    OBVIOUS
  <2> QED
    BY <1>1, <2>1, <2>2, <2>3, <2>4, <2>5
<1>3. TypeOK'
  BY <1>1, <1>2 DEF TypeOK, Counters
<1>4. 2 * Len(names') <= 3 * Len(text) + 5
  BY <1>1, <1>2 DEF Room
<1>5. text[Len(text)] # Newline
  BY <1>1 DEF Counters
<1>6. NamesFitButForOneByte'
  <2>1. Allocated' = Allocated
    BY DEF Allocated
  <2> QED
    BY <1>1, <1>2, <1>4, <1>5, <2>1, BlockSize DEF NamesFitButForOneByte
<1> QED
  BY <1>3, <1>6 DEF IInv

LEMMA FinishStep == IInv /\ Finish => IInv'
<1> SUFFICES ASSUME IInv, Finish PROVE IInv'
  OBVIOUS
<1> USE DEF Finish, AtEnd, scanVars
<1>1. /\ zone_count \in Nat /\ length \in Nat /\ i \in Nat
      /\ Len(text) \in Nat /\ Len(names) \in Nat
      /\ Counters /\ Room /\ TypeOK
  BY TextType, LenProperties, LimitAssumption DEF IInv, TypeOK
<1>2. names' \in Seq(0..255) /\ Len(names') = Len(names) + 1
  BY AppendProperties DEF TypeOK, Nul, IInv
<1>3. TypeOK'
  BY <1>1, <1>2 DEF TypeOK
<1>4. 2 * Len(names') <= 3 * Len(text) + 2
  BY <1>1, <1>2 DEF Room, Counters
<1>5. Len(names') <= Allocated'
  <2>1. Allocated' = Allocated
    BY DEF Allocated
  <2> QED
    BY <1>1, <1>2, <1>4, <2>1, BlockSize
<1>6. (TypeOK /\ Len(names) <= Allocated => NamesFitButForOneByte)'
  BY FitsInPlace, PTL
<1> QED
  BY <1>3, <1>5, <1>6 DEF IInv

LEMMA LoadStep == IInv /\ (Load \/ LoadFails) => IInv'
BY DEF IInv, Load, LoadFails, TypeOK, scanVars, Counters, Room, NamesFitButForOneByte, Allocated

LEMMA StutterStep == IInv /\ UNCHANGED vars => IInv'
BY DEF IInv, vars, TypeOK, scanVars, Counters, Room, NamesFitButForOneByte, Allocated

LEMMA Inductive == IInv /\ [Next]_vars => IInv'
BY LoadStep, StutterStep, RejectStep, LetterStep, BlankLineStep, EndLabelStep, EndNameStep,
   FinishNameStep, FinishStep
   DEF Next, RejectLabel, RejectName, RejectLetter, RejectLast

\* get_domains (main.c:376-553) keeps the invariant, whatever the file.
THEOREM Invariant == Spec => []IInv
BY Initially, Inductive, PTL DEF Spec

\* Offsets stay inside the text, lengths inside a byte.
THEOREM TypeCorrect == Spec => []TypeOK
<1>1. IInv => TypeOK
  BY DEF IInv
<1> QED
  BY <1>1, Invariant, PTL

\* main.c:433: the names of a file of odd size, or with a newline at its end,
\* fit the block, and those of any other end at most one byte beyond it.
THEOREM Fits == Spec => []NamesFitButForOneByte
<1>1. IInv => NamesFitButForOneByte
  BY DEF IInv
<1> QED
  BY <1>1, Invariant, PTL
-----------------------------------------------------------------------------
(* Where a sequence is cut.                                                *)

\* c and d follow each other among the cuts.
Adjacent(cuts, c, d) == c \in cuts /\ d \in cuts /\ c < d /\ \A e \in cuts : e <= c \/ d <= e

LEMMA CutsType ==
  ASSUME NEW E, NEW s \in Seq(E), NEW sep
  PROVE  /\ Cuts(s, sep) \subseteq 0..(Len(s) + 1) /\ IsFiniteSet(Cuts(s, sep))
         /\ 0 \in Cuts(s, sep) /\ Len(s) + 1 \in Cuts(s, sep) /\ Len(s) \in Nat
<1>1. Len(s) \in Nat /\ DOMAIN s = 1..Len(s)
  BY LenProperties
<1>2. Cuts(s, sep) \subseteq 0..(Len(s) + 1)
  BY <1>1 DEF Cuts
<1>3. IsFiniteSet(0..(Len(s) + 1))
  BY <1>1, FS_Interval
<1> QED
  BY <1>1, <1>2, <1>3, FS_Subset DEF Cuts

\* Later cuts have higher ranks.
LEMMA RankGrows ==
  ASSUME NEW cuts \in SUBSET Nat, IsFiniteSet(cuts), NEW c \in cuts
  PROVE  /\ Rank(cuts, c) \in 0..(Cardinality(cuts) - 1) /\ Cardinality(cuts) \in Nat
         /\ \A d \in cuts : c < d => Rank(cuts, c) < Rank(cuts, d)
<1>1. ASSUME NEW S \in SUBSET cuts
      PROVE  IsFiniteSet(S) /\ Cardinality(S) \in Nat /\ Cardinality(S) <= Cardinality(cuts)
  BY FS_Subset, FS_CardinalityType
<1> DEFINE Before(d) == {e \in cuts : e < d}
<1>2. ASSUME NEW S \in SUBSET cuts, Before(c) \cup {c} \subseteq S
      PROVE  Cardinality(Before(c)) < Cardinality(S)
  <2>1. Cardinality(Before(c) \cup {c}) = Cardinality(Before(c)) + 1
    <3>1. c \notin Before(c) /\ IsFiniteSet(Before(c))
      BY <1>1
    <3> HIDE DEF Before
    <3> QED
      BY <3>1, FS_AddElement
  <2>2. Cardinality(Before(c) \cup {c}) <= Cardinality(S)
    BY <1>1, <1>2, FS_Subset
  <2> QED
    BY <1>1, <2>1, <2>2
<1>3. Cardinality(Before(c)) < Cardinality(cuts) /\ Cardinality(Before(c)) \in Nat
  BY <1>1, <1>2
<1>4. ASSUME NEW d \in cuts, c < d PROVE Cardinality(Before(c)) < Cardinality(Before(d))
  <2>1. \A e \in cuts : e \in Int
    OBVIOUS
  <2>2. Before(c) \cup {c} \subseteq Before(d)
    <3>1. \A e \in cuts : e < c \/ e = c => e < d
      BY <1>4, <2>1
    <3> QED
      BY <3>1
  <2> QED
    BY <1>2, <2>2
<1> QED
  BY <1>1, <1>3, <1>4 DEF Rank

LEMMA RankInjective ==
  ASSUME NEW cuts \in SUBSET Nat, IsFiniteSet(cuts), NEW c \in cuts, NEW d \in cuts,
         Rank(cuts, c) = Rank(cuts, d)
  PROVE  c = d
<1>1. c < d => Rank(cuts, c) < Rank(cuts, d)
  BY RankGrows
<1>2. d < c => Rank(cuts, d) < Rank(cuts, c)
  BY RankGrows
<1>3. Rank(cuts, c) \in Int /\ Rank(cuts, d) \in Int
  BY RankGrows
<1> QED
  BY <1>1, <1>2, <1>3

\* There is a cut of every rank.
LEMMA RankOnto ==
  ASSUME NEW cuts \in SUBSET Nat, IsFiniteSet(cuts), NEW k \in 0..(Cardinality(cuts) - 1)
  PROVE  \E c \in cuts : Rank(cuts, c) = k
<1> DEFINE N == Cardinality(cuts)
           f == [c \in cuts |-> Rank(cuts, c)]
<1>1. N \in Nat
  BY FS_CardinalityType
<1>2. IsFiniteSet(0..(N - 1)) /\ Cardinality(0..(N - 1)) = N
  <2>1. 0 \in Int /\ N - 1 \in Int
    BY <1>1
  <2>2. /\ IsFiniteSet(0..(N - 1))
        /\ Cardinality(0..(N - 1)) = IF 0 > N - 1 THEN 0 ELSE (N - 1) - 0 + 1
    BY <2>1, FS_Interval
  <2> QED
    BY <1>1, <2>2
<1>3. f \in Injection(cuts, 0..(N - 1))
  <2>1. f \in [cuts -> 0..(N - 1)]
    BY RankGrows
  <2>2. \A c, d \in cuts : f[c] = f[d] => c = d
    BY RankInjective
  <2> QED
    BY <2>1, <2>2 DEF Injection, IsInjective
<1> HIDE DEF f, N
<1>4. f \in Surjection(cuts, 0..(N - 1))
  BY <1>2, <1>3, FS_Injection DEF N
<1>5. \E c \in cuts : f[c] = k
  BY <1>4 DEF Surjection, N
<1> QED
  BY <1>5 DEF f

LEMMA CutOfRank ==
  ASSUME NEW cuts \in SUBSET Nat, IsFiniteSet(cuts)
  PROVE  /\ \A k \in 0..(Cardinality(cuts) - 1) : Nth(cuts, k) \in cuts /\ Rank(cuts, Nth(cuts, k)) = k
         /\ \A c \in cuts : Nth(cuts, Rank(cuts, c)) = c
<1>1. ASSUME NEW k \in 0..(Cardinality(cuts) - 1)
      PROVE  Nth(cuts, k) \in cuts /\ Rank(cuts, Nth(cuts, k)) = k
  BY RankOnto DEF Nth
<1>2. ASSUME NEW c \in cuts PROVE Nth(cuts, Rank(cuts, c)) = c
  <2>1. Rank(cuts, c) \in 0..(Cardinality(cuts) - 1)
    BY RankGrows
  <2>2. Nth(cuts, Rank(cuts, c)) \in cuts /\ Rank(cuts, Nth(cuts, Rank(cuts, c))) = Rank(cuts, c)
    BY <1>1, <2>1
  <2> DEFINE e == Nth(cuts, Rank(cuts, c))
  <2> HIDE DEF e
  <2>3. e \in cuts /\ Rank(cuts, e) = Rank(cuts, c)
    BY <2>2 DEF e
  <2>4. e = c
    BY <2>3, RankInjective
  <2> QED
    BY <2>4 DEF e
<1> QED
  BY <1>1, <1>2

\* Cuts follow each other if their ranks do.
LEMMA AdjacentRanks ==
  ASSUME NEW cuts \in SUBSET Nat, IsFiniteSet(cuts), NEW c \in cuts, NEW d \in cuts
  PROVE  Adjacent(cuts, c, d) <=> Rank(cuts, d) = Rank(cuts, c) + 1
<1>1. \A e \in cuts : Rank(cuts, e) \in Nat
  BY RankGrows
<1>2. ASSUME Adjacent(cuts, c, d) PROVE Rank(cuts, d) = Rank(cuts, c) + 1
  <2> DEFINE S == {e \in cuts : e < c}
  <2>1. {e \in cuts : e < d} = S \cup {c} /\ c \notin S
    <3>1. \A e \in cuts : e \in Int
      OBVIOUS
    <3>2. \A e \in cuts : e < d <=> e < c \/ e = c
      BY <1>2, <3>1 DEF Adjacent
    <3>3. ~(c < c)
      BY <3>1
    <3> QED
      BY <3>2, <3>3
  <2>2. IsFiniteSet(S)
    BY FS_Subset
  <2> HIDE DEF S
  <2>3. Cardinality(S \cup {c}) = Cardinality(S) + 1
    BY <2>1, <2>2, FS_AddElement
  <2> QED
    BY <2>1, <2>3 DEF Rank, S
<1>3. ASSUME Rank(cuts, d) = Rank(cuts, c) + 1 PROVE Adjacent(cuts, c, d)
  <2>1. ~(d < c) /\ c # d
    <3>1. d < c => Rank(cuts, d) < Rank(cuts, c)
      BY RankGrows
    <3> QED
      BY <1>1, <1>3, <3>1
  <2>2. ASSUME NEW e \in cuts, c < e, e < d PROVE FALSE
    <3>1. Rank(cuts, c) < Rank(cuts, e) /\ Rank(cuts, e) < Rank(cuts, d)
      BY <2>2, RankGrows
    <3> QED
      BY <1>1, <1>3, <3>1
  <2>3. c < d
    BY <2>1
  <2>4. \A e \in cuts : e <= c \/ d <= e
    BY <2>2
  <2> QED
    BY <2>3, <2>4 DEF Adjacent
<1> QED
  BY <1>2, <1>3

LEMMA NextCut ==
  ASSUME NEW cuts \in SUBSET Nat, IsFiniteSet(cuts), NEW c \in cuts, NEW e \in cuts, c < e
  PROVE  \E d \in cuts : Adjacent(cuts, c, d)
<1>1. /\ Rank(cuts, c) \in Nat /\ Rank(cuts, c) < Rank(cuts, e)
      /\ Rank(cuts, e) \in 0..(Cardinality(cuts) - 1) /\ Cardinality(cuts) \in Nat
  BY RankGrows
<1>2. Rank(cuts, c) + 1 \in 0..(Cardinality(cuts) - 1)
  BY <1>1
<1>3. PICK d \in cuts : Rank(cuts, d) = Rank(cuts, c) + 1
  BY <1>2, RankOnto
<1> QED
  BY <1>3, AdjacentRanks

\* The pieces are what lies between cuts that follow each other.
LEMMA PieceBetween ==
  ASSUME NEW E, NEW s \in Seq(E), NEW sep
  PROVE  LET cuts == Cuts(s, sep)
             Piece(c, d) == SubSeq(s, c + 1, d - 1) IN
         /\ \A k \in DOMAIN Pieces(s, sep) : \E c, d \in cuts :
              Adjacent(cuts, c, d) /\ Rank(cuts, c) = k - 1 /\ Pieces(s, sep)[k] = Piece(c, d)
         /\ \A c, d \in cuts : Adjacent(cuts, c, d) =>
              /\ Rank(cuts, c) + 1 \in DOMAIN Pieces(s, sep)
              /\ Pieces(s, sep)[Rank(cuts, c) + 1] = Piece(c, d)
         /\ DOMAIN Pieces(s, sep) \subseteq Nat
<1> DEFINE cuts == Cuts(s, sep)
           N == Cardinality(cuts)
           Piece(c, d) == SubSeq(s, c + 1, d - 1)
<1>1. cuts \in SUBSET Nat /\ IsFiniteSet(cuts) /\ N \in Nat
  BY CutsType, FS_CardinalityType
<1>2. Pieces(s, sep) = [k \in 1..(N - 1) |-> Piece(Nth(cuts, k - 1), Nth(cuts, k))]
  BY DEF Pieces
<1> HIDE DEF cuts, N
<1>3. ASSUME NEW k \in 1..(N - 1)
      PROVE  \E c, d \in cuts :
               Adjacent(cuts, c, d) /\ Rank(cuts, c) = k - 1 /\ Pieces(s, sep)[k] = Piece(c, d)
  <2> DEFINE c == Nth(cuts, k - 1)
             d == Nth(cuts, k)
  <2>1. k - 1 \in 0..(N - 1) /\ k \in 0..(N - 1) /\ k = (k - 1) + 1
    BY <1>1
  <2>2. c \in cuts /\ d \in cuts /\ Rank(cuts, c) = k - 1 /\ Rank(cuts, d) = k
    BY <1>1, <2>1, CutOfRank DEF N
  <2>3. Pieces(s, sep)[k] = Piece(c, d)
    BY <1>2
  <2> HIDE DEF c, d
  <2>4. Adjacent(cuts, c, d)
    BY <1>1, <2>1, <2>2, AdjacentRanks
  <2> QED
    BY <2>2, <2>3, <2>4
<1>4. ASSUME NEW c \in cuts, NEW d \in cuts, Adjacent(cuts, c, d)
      PROVE  Rank(cuts, c) + 1 \in 1..(N - 1) /\ Pieces(s, sep)[Rank(cuts, c) + 1] = Piece(c, d)
  <2>1. /\ Rank(cuts, c) \in 0..(N - 1) /\ Rank(cuts, d) \in 0..(N - 1)
        /\ Rank(cuts, d) = Rank(cuts, c) + 1
    BY <1>1, <1>4, RankGrows, AdjacentRanks DEF N
  <2>2. Nth(cuts, Rank(cuts, c)) = c /\ Nth(cuts, Rank(cuts, d)) = d
    BY <1>1, CutOfRank
  <2>3. Rank(cuts, c) + 1 \in 1..(N - 1) /\ (Rank(cuts, c) + 1) - 1 = Rank(cuts, c)
    BY <1>1, <2>1
  <2> QED
    BY <1>2, <2>1, <2>2, <2>3
<1>5. DOMAIN Pieces(s, sep) = 1..(N - 1) /\ 1..(N - 1) \subseteq Nat
  BY <1>1, <1>2
<1> QED
  BY <1>3, <1>4, <1>5 DEF cuts
-----------------------------------------------------------------------------
(* Lines and labels by their place in the text.                            *)

LineCuts == Cuts(text, Newline)
TextCuts == LineCuts \cup Cuts(text, Dot)

WellSized(c, d) == d - c - 1 \in 1..MaxLabel

\* The line between the cuts a and b holds a label that is empty or too long.
IllLine(a, b) ==
  /\ b # a + 1
  /\ \E c, d \in TextCuts : Adjacent(TextCuts, c, d) /\ a <= c /\ d <= b /\ ~WellSized(c, d)

WellBefore(c) == \A a, b \in LineCuts : Adjacent(LineCuts, a, b) /\ b <= c => ~IllLine(a, b)

LineStart == i - length
LabelStart == i - zone_count

\* What the scan knows of the text up to at: its line, the n-th, begins at start and
\* its label at label, no line before is ill-formed, and no label of this one.
ScannedTo(at, start, label, n) ==
  /\ start \in LineCuts /\ Rank(LineCuts, start) = n - 1
  /\ \A c \in LineCuts : c <= start \/ at < c
  /\ label \in TextCuts /\ \A c \in TextCuts : c <= label \/ at < c
  /\ WellBefore(start)
  /\ \A c, d \in TextCuts :
       Adjacent(TextCuts, c, d) /\ start <= c /\ d <= at => WellSized(c, d)

Scanned == ScannedTo(i, LineStart, LabelStart, line)

\* The current line is ill-formed, and the first that is.
FirstIll ==
  /\ Rank(LineCuts, LineStart) = line - 1 /\ WellBefore(LineStart)
  /\ \E b \in LineCuts : Adjacent(LineCuts, LineStart, b) /\ IllLine(LineStart, b)

ScanInv ==
  /\ result \in {"load", "parse"} => Scanned
  /\ result = "ok" => WellBefore(Len(text) + 1)
  /\ result = "rejected" => FirstIll

LEMMA TextCutsType ==
  ASSUME TypeOK
  PROVE  /\ LineCuts \in SUBSET Nat /\ IsFiniteSet(LineCuts)
         /\ TextCuts \in SUBSET Nat /\ IsFiniteSet(TextCuts)
         /\ \A c \in TextCuts : c \in 0..(Len(text) + 1)
         /\ LineCuts \subseteq TextCuts /\ 0 \in LineCuts /\ Len(text) + 1 \in LineCuts
         /\ Len(text) \in Nat
<1>1. text \in Seq(Letters \cup {Newline, Dot})
  BY DEF TypeOK
<1>2. /\ LineCuts \subseteq 0..(Len(text) + 1) /\ IsFiniteSet(LineCuts)
      /\ 0 \in LineCuts /\ Len(text) + 1 \in LineCuts /\ Len(text) \in Nat
      /\ Cuts(text, Dot) \subseteq 0..(Len(text) + 1) /\ IsFiniteSet(Cuts(text, Dot))
  BY <1>1, CutsType DEF LineCuts
<1>3. IsFiniteSet(TextCuts)
  BY <1>2, FS_Union DEF TextCuts
<1>4. 0..(Len(text) + 1) \subseteq Nat
  BY <1>2
<1> QED
  BY <1>2, <1>3, <1>4 DEF TextCuts

\* A byte of the text is a cut if it is a separator.
LEMMA ByteCuts ==
  ASSUME TypeOK, NEW k \in 1..Len(text)
  PROVE  /\ k \in LineCuts <=> text[k] = Newline
         /\ k \in TextCuts <=> text[k] \in {Newline, Dot}
<1>1. Len(text) \in Nat /\ DOMAIN text = 1..Len(text)
  BY LenProperties DEF TypeOK
<1>2. k # 0 /\ k # Len(text) + 1
  BY <1>1
<1> QED
  BY <1>1, <1>2 DEF TextCuts, LineCuts, Cuts

\* The name on the line between a and b, and its cuts.
LEMMA NameCuts ==
  ASSUME TypeOK, NEW a, NEW b, Adjacent(LineCuts, a, b)
  PROVE  LET name == SubSeq(text, a + 1, b - 1) IN
         /\ a \in Nat /\ b \in Nat /\ a < b
         /\ name \in Seq(Letters \cup {Newline, Dot}) /\ Len(name) = b - a - 1
         /\ \A p \in Nat : p \in Cuts(name, Dot) <=> p <= b - a /\ a + p \in TextCuts
<1> DEFINE name == SubSeq(text, a + 1, b - 1)
           E == Letters \cup {Newline, Dot}
<1>1. /\ a \in Nat /\ b \in Nat /\ a < b /\ b <= Len(text) + 1 /\ Len(text) \in Nat
      /\ a \in LineCuts /\ b \in LineCuts /\ LineCuts \subseteq TextCuts
  <2>1. a \in LineCuts /\ b \in LineCuts /\ a < b
    BY DEF Adjacent
  <2> QED
    BY <2>1, TextCutsType
<1>2. \A k \in (a + 1)..(b - 1) : k \in 1..Len(text) /\ text[k] \in E
  <2>1. \A k \in (a + 1)..(b - 1) : k \in 1..Len(text)
    BY <1>1
  <2> QED
    BY <2>1, ElementOfSeq DEF TypeOK
<1>3. /\ name \in Seq(E) /\ Len(name) = b - a - 1
      /\ \A k \in 1..(b - a - 1) : name[k] = text[a + k]
  <2>1. a + 1 \in Int /\ b - 1 \in Int
    BY <1>1
  <2>2. /\ name \in Seq(E) /\ Len(name) = IF a + 1 <= b - 1 THEN (b - 1) - (a + 1) + 1 ELSE 0
        /\ \A k \in 1..((b - 1) - (a + 1) + 1) : name[k] = text[(a + 1) + k - 1]
    BY <1>2, <2>1, SubSeqProperties
  <2>3. (b - 1) - (a + 1) + 1 = b - a - 1 /\ \A k \in Int : (a + 1) + k - 1 = a + k
    BY <1>1
  <2> QED
    BY <1>1, <2>2, <2>3
<1> HIDE DEF name
<1>4. ASSUME NEW p \in Nat
      PROVE  p \in Cuts(name, Dot) <=> p <= b - a /\ a + p \in TextCuts
  <2>1. DOMAIN name = 1..(b - a - 1)
    BY <1>3, LenProperties
  <2>2. CASE p = 0 \/ p = b - a
    <3>1. p \in Cuts(name, Dot)
      BY <1>1, <1>3, <2>2 DEF Cuts
    <3>2. p <= b - a /\ (a + p = a \/ a + p = b)
      BY <1>1, <2>2
    <3> QED
      BY <1>1, <3>1, <3>2
  <2>3. CASE p \in 1..(b - a - 1)
    <3>1. p \in Cuts(name, Dot) <=> text[a + p] = Dot
      <4>1. p # 0 /\ p # Len(name) + 1
        BY <1>1, <1>3, <2>3
      <4> QED
        BY <1>3, <2>1, <2>3, <4>1 DEF Cuts
    <3>2. a + p \in (a + 1)..(b - 1) /\ a < a + p /\ a + p < b /\ p <= b - a
      BY <1>1, <2>3
    <3>3. a + p \notin LineCuts
      BY <1>1, <3>2 DEF Adjacent
    <3>4. a + p \in TextCuts <=> text[a + p] = Dot
      BY <1>2, <3>2, <3>3, ByteCuts
    <3> QED
      BY <3>1, <3>2, <3>4
  <2>4. CASE p > b - a
    <3>1. p \notin Cuts(name, Dot)
      BY <1>1, <1>3, <2>1, <2>4 DEF Cuts
    <3> QED
      BY <1>1, <2>4, <3>1
  <2> QED
    BY <1>1, <2>2, <2>3, <2>4
<1> QED
  BY <1>1, <1>3, <1>4 DEF name

\* What follows each other in a name does so in the text.
LEMMA NameAdjacent ==
  ASSUME TypeOK, NEW a, NEW b, Adjacent(LineCuts, a, b), NEW p \in Nat, NEW q \in Nat
  PROVE  LET cuts == Cuts(SubSeq(text, a + 1, b - 1), Dot) IN
         Adjacent(cuts, p, q) <=> q <= b - a /\ Adjacent(TextCuts, a + p, a + q)
<1> DEFINE cuts == Cuts(SubSeq(text, a + 1, b - 1), Dot)
<1>1. /\ a \in Nat /\ b \in Nat /\ a < b
      /\ \A e \in Nat : e \in cuts <=> e <= b - a /\ a + e \in TextCuts
  BY NameCuts
<1>2. a \in TextCuts /\ b \in TextCuts /\ \A e \in TextCuts : e \in Nat
  BY TextCutsType DEF Adjacent
<1>3. \A e \in cuts : e \in Nat
  <2>1. SubSeq(text, a + 1, b - 1) \in Seq(Letters \cup {Newline, Dot})
    BY NameCuts
  <2>2. cuts \subseteq 0..(Len(SubSeq(text, a + 1, b - 1)) + 1)
    BY <2>1, CutsType
  <2> QED
    BY <2>1, <2>2, CutsType
<1> HIDE DEF cuts
<1>4. ASSUME Adjacent(cuts, p, q) PROVE q <= b - a /\ Adjacent(TextCuts, a + p, a + q)
  <2>1. p \in cuts /\ q \in cuts /\ p < q
    BY <1>4 DEF Adjacent
  <2>2. a + p \in TextCuts /\ a + q \in TextCuts /\ q <= b - a /\ a + p < a + q
    BY <1>1, <2>1
  <2>3. ASSUME NEW e \in TextCuts PROVE e <= a + p \/ a + q <= e
    <3>1. e \in Nat
      BY <1>2
    <3>2. CASE e < a
      BY <1>1, <3>1, <3>2
    <3>3. CASE e > b
      BY <1>1, <2>2, <3>1, <3>3
    <3>4. CASE a <= e /\ e <= b
      <4>1. e - a \in Nat /\ e - a <= b - a /\ a + (e - a) = e
        BY <1>1, <3>1, <3>4
      <4>2. e - a \in cuts
        BY <1>1, <4>1
      <4>3. e - a <= p \/ q <= e - a
        BY <1>4, <4>2 DEF Adjacent
      <4> QED
        BY <1>1, <3>1, <4>3
    <3> QED
      BY <1>1, <3>1, <3>2, <3>3, <3>4
  <2> QED
    BY <2>2, <2>3 DEF Adjacent
<1>5. ASSUME q <= b - a, Adjacent(TextCuts, a + p, a + q) PROVE Adjacent(cuts, p, q)
  <2>1. a + p \in TextCuts /\ a + q \in TextCuts /\ a + p < a + q
    BY <1>5 DEF Adjacent
  <2>2. p < q /\ p <= b - a
    BY <1>1, <1>5, <2>1
  <2>3. p \in cuts /\ q \in cuts
    BY <1>1, <1>5, <2>1, <2>2
  <2>4. ASSUME NEW e \in cuts PROVE e <= p \/ q <= e
    <3>1. e \in Nat /\ a + e \in TextCuts
      BY <1>1, <1>3
    <3>2. a + e <= a + p \/ a + q <= a + e
      BY <1>5, <3>1 DEF Adjacent
    <3> QED
      BY <1>1, <3>1, <3>2
  <2> QED
    BY <2>2, <2>3, <2>4 DEF Adjacent
<1>6. Adjacent(cuts, p, q) <=> q <= b - a /\ Adjacent(TextCuts, a + p, a + q)
  BY <1>4, <1>5
<1> QED
  BY <1>6 DEF cuts

LEMMA LabelLength ==
  ASSUME NEW E, NEW s \in Seq(E), NEW sep, NEW p, NEW q, Adjacent(Cuts(s, sep), p, q)
  PROVE  /\ p \in Nat /\ q \in Nat /\ p < q
         /\ Len(SubSeq(s, p + 1, q - 1)) = q - p - 1
<1>1. p \in 0..(Len(s) + 1) /\ q \in 0..(Len(s) + 1) /\ p < q /\ Len(s) \in Nat
  BY CutsType DEF Adjacent
<1>2. \A k \in (p + 1)..(q - 1) : s[k] \in E
  <2>1. \A k \in (p + 1)..(q - 1) : k \in 1..Len(s)
    BY <1>1
  <2> QED
    BY <2>1, ElementOfSeq
<1>3. Len(SubSeq(s, p + 1, q - 1)) = IF p + 1 <= q - 1 THEN (q - 1) - (p + 1) + 1 ELSE 0
  <2>1. p + 1 \in Int /\ q - 1 \in Int
    BY <1>1
  <2> QED
    BY <1>2, <2>1, SubSeqProperties
<1> QED
  BY <1>1, <1>3

\* A line is ill-formed if and only if it is so by its labels' places in the text.
LEMMA IllFormedByPlace ==
  ASSUME TypeOK, NEW a, NEW b, Adjacent(LineCuts, a, b)
  PROVE  IllFormed(SubSeq(text, a + 1, b - 1)) <=> IllLine(a, b)
<1> DEFINE name == SubSeq(text, a + 1, b - 1)
           cuts == Cuts(name, Dot)
           E == Letters \cup {Newline, Dot}
<1>1. /\ a \in Nat /\ b \in Nat /\ a < b
      /\ name \in Seq(E) /\ Len(name) = b - a - 1
  BY NameCuts
<1>2. name # << >> <=> b # a + 1
  <2>1. name = << >> <=> Len(name) = 0
    BY <1>1, EmptySeq
  <2> QED
    BY <1>1, <2>1
<1>3. \A p, q \in Nat : Adjacent(cuts, p, q) <=> q <= b - a /\ Adjacent(TextCuts, a + p, a + q)
  BY NameAdjacent
<1>4. \A p, q : Adjacent(cuts, p, q) =>
        p \in Nat /\ q \in Nat /\ p < q /\ Len(SubSeq(name, p + 1, q - 1)) = q - p - 1
  BY <1>1, LabelLength
<1>5. /\ \A k \in DOMAIN Pieces(name, Dot) : \E p, q \in cuts :
           Adjacent(cuts, p, q) /\ Pieces(name, Dot)[k] = SubSeq(name, p + 1, q - 1)
      /\ \A p, q \in cuts : Adjacent(cuts, p, q) =>
           \E k \in DOMAIN Pieces(name, Dot) : Pieces(name, Dot)[k] = SubSeq(name, p + 1, q - 1)
  <2>1. /\ \A k \in DOMAIN Pieces(name, Dot) : \E p, q \in cuts :
             /\ Adjacent(cuts, p, q) /\ Rank(cuts, p) = k - 1
             /\ Pieces(name, Dot)[k] = SubSeq(name, p + 1, q - 1)
        /\ \A p, q \in cuts : Adjacent(cuts, p, q) =>
             /\ Rank(cuts, p) + 1 \in DOMAIN Pieces(name, Dot)
             /\ Pieces(name, Dot)[Rank(cuts, p) + 1] = SubSeq(name, p + 1, q - 1)
    <3>1. name \in Seq(E)
      BY <1>1
    <3> HIDE DEF name, E
    <3> QED
      BY <3>1, PieceBetween
  <2> HIDE DEF name, cuts
  <2> QED
    BY <2>1
<1> HIDE DEF name, cuts
<1>6. ASSUME IllFormed(name) PROVE IllLine(a, b)
  <2>1. PICK k \in DOMAIN Pieces(name, Dot) : Len(Pieces(name, Dot)[k]) \notin 1..MaxLabel
    BY <1>6 DEF IllFormed, ToSet
  <2>2. PICK p, q \in cuts : Adjacent(cuts, p, q) /\ Pieces(name, Dot)[k] = SubSeq(name, p + 1, q - 1)
    BY <1>5
  <2>3. p \in Nat /\ q \in Nat /\ q - p - 1 \notin 1..MaxLabel
    BY <1>4, <2>1, <2>2
  <2>4. Adjacent(TextCuts, a + p, a + q) /\ q <= b - a
    BY <1>3, <2>2, <2>3
  <2>5. /\ a <= a + p /\ a + q <= b /\ (a + q) - (a + p) - 1 = q - p - 1
        /\ a + p \in TextCuts /\ a + q \in TextCuts
    BY <1>1, <2>3, <2>4 DEF Adjacent
  <2>6. ~WellSized(a + p, a + q)
    BY <2>3, <2>5 DEF WellSized
  <2>7. b # a + 1
    BY <1>2, <1>6 DEF IllFormed
  <2> QED
    BY <2>4, <2>5, <2>6, <2>7 DEF IllLine
<1>7. ASSUME IllLine(a, b) PROVE IllFormed(name)
  <2>1. PICK c, d \in TextCuts : Adjacent(TextCuts, c, d) /\ a <= c /\ d <= b /\ ~WellSized(c, d)
    BY <1>7 DEF IllLine
  <2>2. c \in Nat /\ d \in Nat /\ c < d
    BY <2>1, TextCutsType DEF Adjacent
  <2>3. /\ c - a \in Nat /\ d - a \in Nat /\ d - a <= b - a
        /\ a + (c - a) = c /\ a + (d - a) = d /\ (d - a) - (c - a) - 1 = d - c - 1
    BY <1>1, <2>1, <2>2
  <2>4. Adjacent(cuts, c - a, d - a)
    BY <1>3, <2>1, <2>3
  <2>5. PICK k \in DOMAIN Pieces(name, Dot) :
          Pieces(name, Dot)[k] = SubSeq(name, (c - a) + 1, (d - a) - 1)
    BY <1>5, <2>4 DEF Adjacent
  <2>6. Len(Pieces(name, Dot)[k]) = (d - a) - (c - a) - 1
    BY <1>4, <2>4, <2>5
  <2>7. Len(Pieces(name, Dot)[k]) \notin 1..MaxLabel
    BY <2>1, <2>3, <2>6 DEF WellSized
  <2>8. Pieces(name, Dot)[k] \in ToSet(Pieces(name, Dot))
    BY DEF ToSet
  <2>9. name # << >>
    BY <1>2, <1>7 DEF IllLine
  <2> QED
    BY <2>7, <2>8, <2>9 DEF IllFormed
<1>8. IllFormed(name) <=> IllLine(a, b)
  BY <1>6, <1>7
<1> QED
  BY <1>8 DEF name

LEMMA ScanRejects == TypeOK /\ ScanInv => RejectsFirstIllFormed
<1> SUFFICES ASSUME TypeOK, ScanInv PROVE RejectsFirstIllFormed
  OBVIOUS
<1>1. /\ LineCuts \in SUBSET Nat /\ IsFiniteSet(LineCuts)
      /\ \A c \in LineCuts : c \in Nat /\ c <= Len(text) + 1 /\ Len(text) \in Nat
  BY TextCutsType
<1>2. text \in Seq(Letters \cup {Newline, Dot})
  BY DEF TypeOK
<1>3. \A k \in DOMAIN Lines : \E a, b \in LineCuts :
        /\ Adjacent(LineCuts, a, b) /\ Rank(LineCuts, a) = k - 1
        /\ Lines[k] = SubSeq(text, a + 1, b - 1)
  BY <1>2, PieceBetween DEF Lines, LineCuts
<1>4. \A a, b \in LineCuts : Adjacent(LineCuts, a, b) =>
        Lines[Rank(LineCuts, a) + 1] = SubSeq(text, a + 1, b - 1)
  BY <1>2, PieceBetween DEF Lines, LineCuts
<1>5. ASSUME result = "ok", NEW k \in DOMAIN Lines
      PROVE  ~IllFormed(Lines[k])
  <2>1. PICK a, b \in LineCuts : Adjacent(LineCuts, a, b) /\ Lines[k] = SubSeq(text, a + 1, b - 1)
    BY <1>3
  <2>2. ~IllLine(a, b)
    BY <1>1, <1>5, <2>1 DEF ScanInv, WellBefore
  <2> QED
    BY <2>1, <2>2, IllFormedByPlace
<1>6. ASSUME result = "rejected"
      PROVE  IllFormed(Lines[line]) /\ \A k \in 1..(line - 1) : ~IllFormed(Lines[k])
  <2>1. FirstIll /\ line \in Nat
    BY <1>6, <1>1 DEF ScanInv, TypeOK
  <2>2. PICK b \in LineCuts : Adjacent(LineCuts, LineStart, b) /\ IllLine(LineStart, b)
    BY <2>1 DEF FirstIll
  <2>3. LineStart \in LineCuts /\ Rank(LineCuts, LineStart) = line - 1
    BY <2>1, <2>2 DEF Adjacent, FirstIll
  <2>4. IllFormed(Lines[line])
    <3>1. Rank(LineCuts, LineStart) + 1 = line
      BY <2>1, <2>3
    <3> QED
      BY <1>4, <2>2, <2>3, <3>1, IllFormedByPlace
  <2>5. ASSUME NEW k \in 1..(line - 1) PROVE ~IllFormed(Lines[k])
    <3>1. k - 1 \in 0..(Cardinality(LineCuts) - 1) /\ k \in 0..(Cardinality(LineCuts) - 1)
      BY <1>1, <2>1, <2>3, RankGrows
    <3>2. PICK a \in LineCuts : Rank(LineCuts, a) = k - 1
      BY <1>1, <3>1, RankOnto
    <3>3. PICK d \in LineCuts : Rank(LineCuts, d) = k
      BY <1>1, <3>1, RankOnto
    <3>4. Adjacent(LineCuts, a, d)
      BY <1>1, <3>2, <3>3, AdjacentRanks
    <3>5. d <= LineStart
      <4>1. LineStart < d => Rank(LineCuts, LineStart) < Rank(LineCuts, d)
        BY <1>1, <2>3, RankGrows
      <4>2. LineStart \in Nat /\ d \in Nat
        BY <1>1, <2>3
      <4> QED
        BY <2>1, <2>3, <3>3, <4>1, <4>2
    <3>6. ~IllLine(a, d)
      BY <2>1, <3>4, <3>5 DEF FirstIll, WellBefore
    <3>7. Lines[k] = SubSeq(text, a + 1, d - 1)
      <4>1. Rank(LineCuts, a) + 1 = k
        BY <3>2
      <4> QED
        BY <1>4, <3>4, <4>1
    <3> QED
      BY <3>4, <3>6, <3>7, IllFormedByPlace
  <2> QED
    BY <2>4, <2>5
<1> QED
  BY <1>5, <1>6 DEF RejectsFirstIllFormed
-----------------------------------------------------------------------------
(* The scan keeps what it knows of the text.                               *)

\* The text stays what it is.
LEMMA SameText ==
  ASSUME text' = text
  PROVE  /\ LineCuts' = LineCuts /\ TextCuts' = TextCuts
         /\ \A a, b : IllLine(a, b)' <=> IllLine(a, b)
         /\ \A c : WellBefore(c)' <=> WellBefore(c)
<1>1. LineCuts' = LineCuts /\ TextCuts' = TextCuts
  BY DEF LineCuts, TextCuts
<1>2. \A a, b : IllLine(a, b)' <=> IllLine(a, b)
  BY <1>1 DEF IllLine
<1>3. \A c : WellBefore(c)' <=> WellBefore(c)
  BY <1>1, <1>2 DEF WellBefore
<1> QED
  BY <1>1, <1>2, <1>3

LEMMA ScanMoves ==
  ASSUME text' = text, ScannedTo(i', i' - length', i' - zone_count', line')
  PROVE  Scanned'
<1>1. /\ i' - length' \in LineCuts /\ Rank(LineCuts, i' - length') = line' - 1
      /\ \A c \in LineCuts : c <= i' - length' \/ i' < c
      /\ i' - zone_count' \in TextCuts /\ \A c \in TextCuts : c <= i' - zone_count' \/ i' < c
      /\ WellBefore(i' - length')
      /\ \A c, d \in TextCuts :
           Adjacent(TextCuts, c, d) /\ i' - length' <= c /\ d <= i' => WellSized(c, d)
  BY DEF ScannedTo
<1>2. LineCuts' = LineCuts /\ TextCuts' = TextCuts /\ \A c : WellBefore(c)' <=> WellBefore(c)
  BY SameText
<1>3. WellBefore(i - length)'
  BY <1>1, <1>2, SameText DEF WellBefore, IllLine
<1> QED
  BY <1>1, <1>2, <1>3 DEF Scanned, ScannedTo, LineStart, LabelStart

\* Where the scan is.
LEMMA Places ==
  ASSUME TypeOK, Counters
  PROVE  /\ i \in Nat /\ i <= Len(text) /\ zone_count \in Nat /\ length \in Nat /\ line \in Nat
         /\ LineStart \in Nat /\ LabelStart \in Nat /\ LineStart <= LabelStart /\ LabelStart <= i
         /\ LineStart = i - length /\ LabelStart = i - zone_count
<1>1. /\ i \in Nat /\ i <= Len(text) /\ zone_count \in Nat /\ length \in Nat /\ line \in Nat
      /\ zone_count <= length /\ length <= i
  BY TextType DEF TypeOK, Counters
<1> QED
  BY <1>1 DEF LineStart, LabelStart

\* A label that ends at i + 1 is the current one.
LEMMA LastLabel ==
  ASSUME TypeOK, Counters, Scanned, i + 1 \in TextCuts
  PROVE  \A c \in TextCuts :
           Adjacent(TextCuts, c, i + 1) => c = LabelStart /\ (i + 1) - c - 1 = zone_count
<1> SUFFICES ASSUME NEW c \in TextCuts, Adjacent(TextCuts, c, i + 1)
             PROVE  c = LabelStart /\ (i + 1) - c - 1 = zone_count
  OBVIOUS
<1>1. c \in Nat /\ LabelStart \in TextCuts /\ (c <= LabelStart \/ i < c)
  BY TextCutsType DEF Scanned, ScannedTo
<1>2. c < i + 1 /\ (LabelStart <= c \/ i + 1 <= LabelStart)
  BY <1>1 DEF Adjacent
<1> QED
  BY <1>1, <1>2, Places

\* The labels of the line up to i + 1 are well-sized if the current one is.
LEMMA LabelsToHere ==
  ASSUME TypeOK, Counters, Scanned, i + 1 \in TextCuts => zone_count > 0
  PROVE  \A c, d \in TextCuts :
           Adjacent(TextCuts, c, d) /\ LineStart <= c /\ d <= i + 1 => WellSized(c, d)
<1> SUFFICES ASSUME NEW c \in TextCuts, NEW d \in TextCuts,
                    Adjacent(TextCuts, c, d), LineStart <= c, d <= i + 1
             PROVE  WellSized(c, d)
  OBVIOUS
<1>1. d \in Nat /\ i \in Nat
  BY TextCutsType, Places
<1>2. CASE d <= i
  BY <1>2 DEF Scanned, ScannedTo
<1>3. CASE d = i + 1
  <2>1. d - c - 1 = zone_count
    BY <1>3, LastLabel
  <2>2. zone_count \in 1..MaxLabel
    <3>1. zone_count \in 0..MaxLabel
      BY DEF TypeOK
    <3> QED
      BY <1>3, <3>1, LimitAssumption
  <2> QED
    BY <2>1, <2>2 DEF WellSized
<1> QED
  BY <1>1, <1>2, <1>3

\* A line that ends here is blank or has a last label: it is no ill-formed one.
LEMMA EndOfLine ==
  ASSUME TypeOK, Counters, Scanned, i + 1 \in LineCuts, length = 0 \/ zone_count > 0
  PROVE  WellBefore(i + 1) /\ Rank(LineCuts, i + 1) = line
<1>1. /\ LineCuts \in SUBSET Nat /\ IsFiniteSet(LineCuts) /\ i + 1 \in TextCuts
      /\ LineStart \in LineCuts /\ Rank(LineCuts, LineStart) = line - 1
      /\ \A c \in LineCuts : c \in Nat /\ (c <= LineStart \/ i < c)
  BY TextCutsType DEF Scanned, ScannedTo
<1>2. Adjacent(LineCuts, LineStart, i + 1)
  <2>1. \A c \in LineCuts : c <= LineStart \/ i + 1 <= c
    BY <1>1, Places
  <2>2. LineStart < i + 1
    BY Places
  <2> QED
    BY <1>1, <2>1, <2>2 DEF Adjacent
<1>3. Rank(LineCuts, i + 1) = line
  <2>1. Rank(LineCuts, i + 1) = Rank(LineCuts, LineStart) + 1
    BY <1>1, <1>2, AdjacentRanks
  <2> QED
    BY <1>1, <2>1, Places
<1>4. ASSUME NEW a \in LineCuts, NEW b \in LineCuts, Adjacent(LineCuts, a, b), b <= i + 1
      PROVE  ~IllLine(a, b)
  <2>1. CASE b <= LineStart
    BY <1>4, <2>1 DEF Scanned, ScannedTo, WellBefore
  <2>2. CASE i < b
    <3>1. b = i + 1
      BY <1>1, <1>4, <2>2, Places
    <3>2. a = LineStart
      <4>1. a < i + 1 /\ (LineStart <= a \/ i + 1 <= LineStart) /\ (a <= LineStart \/ i < a)
        BY <1>1, <1>4, <3>1 DEF Adjacent
      <4> QED
        BY <1>1, <4>1, Places
    <3>3. CASE length = 0
      <4>1. b = a + 1
        BY <3>1, <3>2, <3>3, Places
      <4> QED
        BY <4>1 DEF IllLine
    <3>4. CASE zone_count > 0
      BY <3>1, <3>2, <3>4, LabelsToHere DEF IllLine
    <3> QED
      BY <3>3, <3>4
  <2> QED
    BY <1>1, <2>1, <2>2
<1> QED
  BY <1>3, <1>4 DEF WellBefore

LEMMA NextLine ==
  ASSUME TypeOK, Counters, Scanned, i + 1 \in LineCuts, length = 0 \/ zone_count > 0
  PROVE  ScannedTo(i + 1, i + 1, i + 1, line + 1)
<1>1. /\ i + 1 \in TextCuts /\ i \in Nat /\ line \in Nat
      /\ \A c \in TextCuts : c \in Nat
      /\ \A c \in LineCuts : c \in Nat
  BY TextCutsType, Places
<1>2. WellBefore(i + 1) /\ Rank(LineCuts, i + 1) = line
  BY EndOfLine
<1>3. line = (line + 1) - 1
  BY <1>1
<1>4. \A c, d \in TextCuts : ~(Adjacent(TextCuts, c, d) /\ i + 1 <= c /\ d <= i + 1)
  BY <1>1 DEF Adjacent
<1>5. /\ \A c \in TextCuts : c <= i + 1 \/ i + 1 < c
      /\ \A c \in LineCuts : c <= i + 1 \/ i + 1 < c
  BY <1>1
<1> QED
  BY <1>1, <1>2, <1>3, <1>4, <1>5 DEF ScannedTo

\* A line is refused for its current label: it is empty and ends here, or it is as long
\* as a label may be and goes on.
LEMMA RefusedLine ==
  ASSUME TypeOK, Counters, Scanned,
         \/ zone_count = 0 /\ i + 1 \in TextCuts
         \/ zone_count = MaxLabel /\ i + 1 \notin TextCuts,
         length > 0 \/ i + 1 \notin LineCuts
  PROVE  FirstIll
<1>1. /\ LineCuts \in SUBSET Nat /\ IsFiniteSet(LineCuts)
      /\ TextCuts \in SUBSET Nat /\ IsFiniteSet(TextCuts)
      /\ LineCuts \subseteq TextCuts /\ Len(text) + 1 \in LineCuts /\ Len(text) \in Nat
      /\ LineStart \in LineCuts /\ LabelStart \in TextCuts
      /\ \A c \in LineCuts : c \in Nat /\ (c <= LineStart \/ i < c)
      /\ \A c \in TextCuts : c \in Nat /\ (c <= LabelStart \/ i < c)
  BY TextCutsType DEF Scanned, ScannedTo
<1>2. LineStart < Len(text) + 1 /\ LabelStart < Len(text) + 1
  BY <1>1, Places
<1>3. PICK b \in LineCuts : Adjacent(LineCuts, LineStart, b)
  BY <1>1, <1>2, NextCut
<1>4. PICK d \in TextCuts : Adjacent(TextCuts, LabelStart, d)
  BY <1>1, <1>2, NextCut
<1>5. i + 1 <= b /\ i + 1 <= d
  <2>1. LineStart < b /\ LabelStart < d
    BY <1>3, <1>4 DEF Adjacent
  <2>2. (b <= LineStart \/ i < b) /\ (d <= LabelStart \/ i < d) /\ b \in Nat /\ d \in Nat
    BY <1>1
  <2> QED
    BY <2>1, <2>2, Places
<1>6. d <= b
  <2>1. b <= LabelStart \/ d <= b
    BY <1>1, <1>4 DEF Adjacent
  <2> QED
    BY <1>1, <1>5, <2>1, Places
<1>7. ~WellSized(LabelStart, d)
  <2>1. CASE zone_count = 0 /\ i + 1 \in TextCuts
    <3>1. i + 1 <= LabelStart \/ d <= i + 1
      BY <1>4, <2>1 DEF Adjacent
    <3>2. d - LabelStart - 1 = 0
      <4>1. d \in Nat /\ i \in Nat /\ LabelStart = i
        BY <1>1, <2>1, Places
      <4> QED
        BY <1>5, <3>1, <4>1
    <3> QED
      BY <3>2 DEF WellSized
  <2>2. CASE zone_count = MaxLabel /\ i + 1 \notin TextCuts
    <3>1. d # i + 1 /\ d \in Nat /\ i \in Nat /\ LabelStart = i - zone_count
      BY <1>1, <2>2, Places
    <3>2. i + 2 <= d
      BY <1>5, <3>1
    <3>3. MaxLabel \in Nat
      BY LimitAssumption
    <3>4. d - LabelStart - 1 > MaxLabel
      BY <2>2, <3>1, <3>2, <3>3
    <3>5. d - LabelStart - 1 \notin 1..MaxLabel
      BY <3>1, <3>3, <3>4
    <3> QED
      BY <3>5 DEF WellSized
  <2> QED
    BY <2>1, <2>2
<1>8. b # LineStart + 1
  <2>1. i + 1 \notin LineCuts => i + 2 <= b
    BY <1>1, <1>5, Places
  <2> QED
    BY <1>1, <1>5, <2>1, Places
<1>9. IllLine(LineStart, b)
  BY <1>1, <1>4, <1>6, <1>7, <1>8, Places DEF IllLine
<1> QED
  BY <1>3, <1>9 DEF FirstIll, Scanned, ScannedTo

\* A step of the scan keeps ScanInv if it goes on with a text scanned so far.
LEMMA KeepsScanning ==
  ASSUME text' = text, result' = result, result = "parse",
         ScannedTo(i', i' - length', i' - zone_count', line')
  PROVE  ScanInv'
<1>1. Scanned'
  BY ScanMoves
<1> QED
  BY <1>1 DEF ScanInv

\* What an action of the scan finds.
LEMMA InScan ==
  ASSUME IInv, ScanInv, result = "parse"
  PROVE  TypeOK /\ Counters /\ Scanned
BY DEF IInv, ScanInv

LEMMA ScanBegins == Init => ScanInv
<1> SUFFICES ASSUME Init PROVE ScanInv
  OBVIOUS
<1>1. TypeOK /\ i = 0 /\ LineStart = 0 /\ LabelStart = 0 /\ line = 1 /\ result = "load"
  BY Initially DEF Init, IInv, LineStart, LabelStart
<1>2. /\ LineCuts \in SUBSET Nat /\ LineCuts \subseteq TextCuts /\ 0 \in LineCuts
      /\ TextCuts \in SUBSET Nat
  BY <1>1, TextCutsType
<1>3. \A c \in TextCuts : c \in Nat /\ (c <= 0 \/ 0 < c)
  BY <1>2
<1>4. Rank(LineCuts, 0) = 0
  <2>1. {d \in LineCuts : d < 0} = {}
    <3>1. \A d \in LineCuts : d \in Nat
      BY <1>2
    <3>2. \A d \in LineCuts : ~(d < 0)
      BY <3>1
    <3> QED
      BY <3>2
  <2> QED
    BY <2>1, FS_EmptySet DEF Rank
<1>5. \A a, b \in TextCuts : Adjacent(TextCuts, a, b) => ~(b <= 0)
  BY <1>3 DEF Adjacent
<1>6. WellBefore(0)
  <2>1. \A a, b \in LineCuts : Adjacent(LineCuts, a, b) => ~(b <= 0)
    BY <1>2, <1>3 DEF Adjacent
  <2> QED
    BY <2>1 DEF WellBefore
<1>7. ScannedTo(0, 0, 0, 1)
  BY <1>2, <1>3, <1>4, <1>5, <1>6 DEF ScannedTo
<1> QED
  BY <1>1, <1>7 DEF ScanInv, Scanned

\* A letter makes the label longer.
LEMMA LetterScans == IInv /\ ScanInv /\ Letter => ScanInv'
<1> SUFFICES ASSUME IInv, ScanInv, Letter PROVE ScanInv'
  OBVIOUS
<1>1. /\ result = "parse" /\ text' = text /\ result' = result /\ i < Len(text)
      /\ i' = i + 1 /\ length' = length + 1 /\ zone_count' = zone_count + 1 /\ line' = line
  BY DEF Letter, AtLetter
<1>2. TypeOK /\ Counters /\ Scanned
  BY <1>1, InScan
<1>3. i + 1 \notin TextCuts
  <2>1. i + 1 \in 1..Len(text)
    BY <1>1, <1>2, Places, TextType
  <2>2. text[i + 1] \notin {Newline, Dot}
    BY LettersAssumption DEF Letter, AtLetter
  <2> QED
    BY <1>2, <2>1, <2>2, ByteCuts
<1>4. \A c \in TextCuts : c \in Nat /\ (i < c => i + 1 < c) /\ (c <= i + 1 => c <= i)
  BY <1>2, <1>3, TextCutsType, Places
<1>5. ScannedTo(i + 1, LineStart, LabelStart, line)
  BY <1>2, <1>4, TextCutsType DEF Scanned, ScannedTo
<1>6. i' - length' = LineStart /\ i' - zone_count' = LabelStart
  <2>1. /\ i \in Int /\ length \in Int /\ zone_count \in Int
        /\ LineStart = i - length /\ LabelStart = i - zone_count
    BY <1>2, Places
  <2>2. (i + 1) - (length + 1) = LineStart /\ (i + 1) - (zone_count + 1) = LabelStart
    BY <2>1
  <2> QED
    BY <1>1, <2>2
<1> QED
  BY <1>1, <1>5, <1>6, KeepsScanning

\* A dot ends a label of the line.
LEMMA EndLabelScans == IInv /\ ScanInv /\ EndLabel => ScanInv'
<1> SUFFICES ASSUME IInv, ScanInv, EndLabel PROVE ScanInv'
  OBVIOUS
<1>1. /\ result = "parse" /\ text' = text /\ result' = result /\ i < Len(text)
      /\ text[i + 1] = Dot /\ zone_count > 0
      /\ i' = i + 1 /\ length' = length + 1 /\ zone_count' = 0 /\ line' = line
  BY DEF EndLabel, AtDot
<1>2. TypeOK /\ Counters /\ Scanned
  BY <1>1, InScan
<1>3. i + 1 \in TextCuts /\ i + 1 \notin LineCuts
  <2>1. i + 1 \in 1..Len(text)
    BY <1>1, <1>2, Places, TextType
  <2>2. text[i + 1] # Newline
    BY <1>1 DEF Dot, Newline
  <2> QED
    BY <1>1, <1>2, <2>1, <2>2, ByteCuts
<1>4. /\ \A c \in TextCuts : c \in Nat /\ (c <= i + 1 \/ i + 1 < c)
      /\ \A c \in LineCuts : c \in Nat /\ (i < c => i + 1 < c)
  BY <1>2, <1>3, TextCutsType, Places
<1>5. \A c, d \in TextCuts :
        Adjacent(TextCuts, c, d) /\ LineStart <= c /\ d <= i + 1 => WellSized(c, d)
  BY <1>1, <1>2, LabelsToHere
<1>6. ScannedTo(i + 1, LineStart, i + 1, line)
  BY <1>2, <1>3, <1>4, <1>5 DEF Scanned, ScannedTo
<1>7. i' - length' = LineStart /\ i' - zone_count' = i + 1
  BY <1>1, <1>2, Places
<1> QED
  BY <1>1, <1>6, <1>7, KeepsScanning

\* A newline ends a name or a blank line.
LEMMA LineScans == IInv /\ ScanInv /\ (BlankLine \/ EndName) => ScanInv'
<1> SUFFICES ASSUME IInv, ScanInv, BlankLine \/ EndName PROVE ScanInv'
  OBVIOUS
<1>1. /\ result = "parse" /\ text' = text /\ result' = result /\ i < Len(text)
      /\ text[i + 1] = Newline /\ (length = 0 \/ zone_count > 0)
      /\ i' = i + 1 /\ line' = line + 1
  BY DEF BlankLine, EndName, AtNewline
<1>2. TypeOK /\ Counters /\ Scanned
  BY <1>1, InScan
<1>3. i + 1 \in LineCuts
  <2>1. i + 1 \in 1..Len(text)
    BY <1>1, <1>2, Places, TextType
  <2> QED
    BY <1>1, <1>2, <2>1, ByteCuts
<1>4. ScannedTo(i + 1, i + 1, i + 1, line + 1)
  BY <1>1, <1>2, <1>3, NextLine
<1>5. length' = 0 /\ zone_count' = 0
  <2>1. CASE BlankLine
    <3>1. length = 0 /\ length' = length /\ zone_count' = zone_count
      BY <2>1 DEF BlankLine
    <3> QED
      BY <1>2, <3>1, Places DEF Counters
  <2>2. CASE EndName
    BY <2>2 DEF EndName
  <2> QED
    BY <2>1, <2>2
<1>6. i' - length' = i + 1 /\ i' - zone_count' = i + 1
  BY <1>1, <1>2, <1>5, Places
<1> QED
  BY <1>1, <1>4, <1>6, KeepsScanning

\* The text ends with its last line.
LEMMA EndScans == IInv /\ ScanInv /\ (FinishName \/ Finish) => ScanInv'
<1> SUFFICES ASSUME IInv, ScanInv, FinishName \/ Finish PROVE ScanInv'
  OBVIOUS
<1>1. /\ result = "parse" /\ result' = "ok" /\ text' = text /\ i = Len(text)
      /\ length = 0 \/ zone_count > 0
  BY DEF FinishName, Finish, AtEnd
<1>2. TypeOK /\ Counters /\ Scanned
  BY <1>1, InScan
<1>3. WellBefore(Len(text) + 1)
  BY <1>1, <1>2, TextCutsType, EndOfLine
<1>4. WellBefore(Len(text) + 1)'
  <2>1. LineCuts' = LineCuts /\ (\A a, b : IllLine(a, b)' <=> IllLine(a, b)) /\ Len(text)' = Len(text)
    BY <1>1, SameText
  <2> QED
    BY <1>3, <2>1 DEF WellBefore
<1> QED
  BY <1>1, <1>4 DEF ScanInv

\* A refusal is for the current line, which is the first ill-formed one.
LEMMA RejectScans ==
  IInv /\ ScanInv /\ (RejectLabel \/ RejectName \/ RejectLetter \/ RejectLast) => ScanInv'
<1> SUFFICES ASSUME IInv, ScanInv, RejectLabel \/ RejectName \/ RejectLetter \/ RejectLast
             PROVE  ScanInv'
  OBVIOUS
<1>1. /\ result = "parse" /\ result' = "rejected" /\ text' = text /\ UNCHANGED scanVars
  BY DEF RejectLabel, RejectName, RejectLetter, RejectLast, Reject, AtDot, AtNewline, AtLetter, AtEnd
<1>2. TypeOK /\ Counters /\ Scanned
  BY <1>1, InScan
<1>3. FirstIll
  <2>1. CASE RejectLabel
    <3>1. i < Len(text) /\ text[i + 1] = Dot /\ zone_count = 0
      BY <2>1 DEF RejectLabel, AtDot
    <3>2. i + 1 \in 1..Len(text) /\ Dot # Newline
      BY <1>2, <3>1, Places, TextType DEF Dot, Newline
    <3>3. i + 1 \in TextCuts /\ i + 1 \notin LineCuts
      BY <1>2, <3>1, <3>2, ByteCuts
    <3> QED
      BY <1>2, <3>1, <3>3, RefusedLine
  <2>2. CASE RejectName
    <3>1. i < Len(text) /\ text[i + 1] = Newline /\ zone_count = 0 /\ length > 0
      BY <2>2 DEF RejectName, AtNewline
    <3>2. i + 1 \in 1..Len(text)
      BY <1>2, <3>1, Places, TextType
    <3>3. i + 1 \in TextCuts
      BY <1>2, <3>1, <3>2, ByteCuts
    <3> QED
      BY <1>2, <3>1, <3>3, RefusedLine
  <2>3. CASE RejectLetter
    <3>1. i < Len(text) /\ text[i + 1] \in Letters /\ zone_count = MaxLabel
      BY <2>3 DEF RejectLetter, AtLetter
    <3>2. i + 1 \in 1..Len(text) /\ text[i + 1] \notin {Newline, Dot}
      BY <1>2, <3>1, LettersAssumption, Places, TextType
    <3>3. i + 1 \notin TextCuts
      BY <1>2, <3>2, ByteCuts
    <3>4. length > 0
      <4>1. zone_count > 0
        BY <3>1, LimitAssumption
      <4>2. zone_count \in Nat /\ length \in Nat /\ zone_count <= length
        BY <1>2, Places DEF Counters
      <4> QED
        BY <4>1, <4>2
    <3> QED
      BY <1>2, <3>1, <3>3, <3>4, RefusedLine
  <2>4. CASE RejectLast
    <3>1. i = Len(text) /\ zone_count = 0 /\ length > 0
      BY <2>4 DEF RejectLast, AtEnd
    <3>2. i + 1 \in TextCuts
      BY <1>2, <3>1, TextCutsType
    <3> QED
      BY <1>2, <3>1, <3>2, RefusedLine
  <2> QED
    BY <2>1, <2>2, <2>3, <2>4
<1>4. FirstIll'
  <2>1. LineStart' = LineStart /\ line' = line
    BY <1>1 DEF LineStart, scanVars
  <2>2. /\ LineCuts' = LineCuts
        /\ (\A a, b : IllLine(a, b)' <=> IllLine(a, b))
    BY <1>1, SameText
  <2> QED
    BY <1>3, <2>1, <2>2 DEF FirstIll, WellBefore
<1> QED
  BY <1>1, <1>4 DEF ScanInv

\* The file is read, or nothing happens.
LEMMA LoadScans ==
  ScanInv /\ (Load \/ LoadFails \/ UNCHANGED vars) => ScanInv'
<1> SUFFICES ASSUME ScanInv, Load \/ LoadFails \/ UNCHANGED vars PROVE ScanInv'
  OBVIOUS
<1>1. /\ text' = text /\ i' = i /\ length' = length /\ zone_count' = zone_count /\ line' = line
      /\ \/ result = "load" /\ result' \in {"parse", "failed"}
         \/ result' = result
  BY DEF Load, LoadFails, vars, scanVars
<1>2. Scanned => Scanned'
  <2>1. Scanned => ScannedTo(i', i' - length', i' - zone_count', line')
    BY <1>1 DEF Scanned, LineStart, LabelStart
  <2> QED
    BY <1>1, <2>1, ScanMoves
<1>3. /\ WellBefore(Len(text) + 1) => WellBefore(Len(text) + 1)'
      /\ FirstIll => FirstIll'
  <2>1. LineStart' = LineStart /\ line' = line /\ Len(text)' = Len(text)
    BY <1>1 DEF LineStart
  <2>2. /\ LineCuts' = LineCuts
        /\ (\A a, b : IllLine(a, b)' <=> IllLine(a, b))
    BY <1>1, SameText
  <2> QED
    BY <2>1, <2>2 DEF FirstIll, WellBefore
<1> QED
  BY <1>1, <1>2, <1>3 DEF ScanInv

\* RejectsFirstIllFormed: get_domains accepts a file if and only if every line of it is a
\* name or blank, and "Invalid domain name at line" gives the first line that is not
\* (main.c:461, 487, 516 and 530).
THEOREM RejectsFirst == Spec => []RejectsFirstIllFormed
<1>1. IInv /\ ScanInv /\ [Next]_vars => ScanInv'
  BY LetterScans, EndLabelScans, LineScans, EndScans, RejectScans, LoadScans DEF Next
<1>2. IInv => TypeOK
  BY DEF IInv
<1> QED
  BY <1>1, <1>2, ScanBegins, Invariant, ScanRejects, PTL DEF Spec
-----------------------------------------------------------------------------
(* Where labels are copied from.                                           *)

\* The offset that the next label is copied from is where the label begins, unless
\* some line is blank.
SourceKept == result \in {"load", "parse"} /\ ~HasBlankLine => src = LabelStart

\* A blank line is passed over only where one precedes another line.
LEMMA PassesBlankLine == IInv /\ ScanInv /\ BlankLine => HasBlankLine
<1> SUFFICES ASSUME IInv, ScanInv, BlankLine PROVE HasBlankLine
  OBVIOUS
<1>1. result = "parse" /\ i < Len(text) /\ text[i + 1] = Newline /\ length = 0
  BY DEF BlankLine, AtNewline
<1>2. TypeOK /\ Counters /\ Scanned
  BY <1>1, InScan
<1>3. /\ LineCuts \in SUBSET Nat /\ IsFiniteSet(LineCuts)
      /\ Len(text) + 1 \in LineCuts /\ Len(text) \in Nat
  BY <1>2, TextCutsType
<1>4. i + 1 \in LineCuts
  <2>1. i + 1 \in 1..Len(text)
    BY <1>1, <1>2, Places, TextType
  <2> QED
    BY <1>1, <1>2, <2>1, ByteCuts
<1>5. i \in LineCuts /\ Rank(LineCuts, i) = line - 1 /\ line \in Nat /\ i \in Nat
  <2>1. LineStart = i /\ line \in Nat /\ i \in Nat
    BY <1>1, <1>2, Places
  <2> QED
    BY <1>2, <2>1 DEF Scanned, ScannedTo
<1>6. Rank(LineCuts, i + 1) = line
  BY <1>1, <1>2, <1>4, EndOfLine
<1>7. Adjacent(LineCuts, i, i + 1)
  <2>1. Rank(LineCuts, i + 1) = Rank(LineCuts, i) + 1
    BY <1>5, <1>6
  <2> QED
    BY <1>3, <1>4, <1>5, <2>1, AdjacentRanks
<1>8. PICK d \in LineCuts : Adjacent(LineCuts, i + 1, d)
  <2>1. i + 1 < Len(text) + 1
    BY <1>1, <1>3, <1>5
  <2> QED
    BY <1>3, <1>4, <2>1, NextCut
<1>9. /\ line \in DOMAIN Lines /\ Lines[line] = SubSeq(text, i + 1, (i + 1) - 1)
      /\ line + 1 \in DOMAIN Lines
  <2>1. \A a, b \in LineCuts : Adjacent(LineCuts, a, b) =>
          /\ Rank(LineCuts, a) + 1 \in DOMAIN Lines
          /\ Lines[Rank(LineCuts, a) + 1] = SubSeq(text, a + 1, b - 1)
    <3>1. text \in Seq(Letters \cup {Newline, Dot})
      BY <1>2 DEF TypeOK
    <3> QED
      BY <3>1, PieceBetween DEF Lines, LineCuts
  <2>2. Rank(LineCuts, i) + 1 = line
    BY <1>5
  <2> QED
    BY <1>4, <1>5, <1>6, <1>7, <1>8, <2>1, <2>2
<1>10. Lines[line] = << >>
  <2> DEFINE name == SubSeq(text, i + 1, (i + 1) - 1)
  <2>1. name \in Seq(Letters \cup {Newline, Dot}) /\ Len(name) = (i + 1) - i - 1
    BY <1>2, <1>7, NameCuts
  <2>2. (i + 1) - i - 1 = 0
    BY <1>5
  <2>3. Lines[line] = name
    BY <1>9
  <2> HIDE DEF name
  <2> QED
    BY <2>1, <2>2, <2>3, EmptySeq
<1>11. line \in 1..(Len(Lines) - 1)
  <2> DEFINE n == Cardinality(LineCuts) - 1
             Piece(k) == SubSeq(text, Nth(LineCuts, k - 1) + 1, Nth(LineCuts, k) - 1)
  <2>1. Lines = [k \in 1..n |-> Piece(k)]
    BY DEF Lines, Pieces, LineCuts
  <2>2. n \in Nat /\ DOMAIN Lines = 1..n
    <3>1. Cardinality(LineCuts) \in Nat /\ DOMAIN Lines = 1..n
      BY <1>3, <2>1, FS_CardinalityType
    <3>2. line + 1 \in 1..n
      BY <1>9, <3>1
    <3> QED
      BY <1>5, <3>1, <3>2
  <2>3. Len(Lines) = n
    <3>1. Lines \in [1..n -> {Piece(k) : k \in 1..n}]
      BY <2>1
    <3>2. Lines \in Seq({Piece(k) : k \in 1..n})
      BY <2>2, <3>1, SeqDef
    <3>3. Len(Lines) \in Nat /\ DOMAIN Lines = 1..Len(Lines)
      BY <3>2, LenProperties
    <3> HIDE DEF n
    <3> QED
      BY <2>2, <3>3
  <2> HIDE DEF n
  <2>4. line \in 1..n /\ line + 1 \in 1..n
    BY <1>9, <2>2
  <2> QED
    BY <1>5, <2>2, <2>3, <2>4
<1> QED
  BY <1>10, <1>11 DEF HasBlankLine

LEMMA SourceMoves == IInv /\ ScanInv /\ SourceKept /\ [Next]_vars => SourceKept'
<1> SUFFICES ASSUME IInv, ScanInv, SourceKept, [Next]_vars, ~HasBlankLine',
                    result' \in {"load", "parse"}
             PROVE  src' = LabelStart'
  BY DEF SourceKept
<1>1. text' = text
  BY DEF Next, vars, LoadFails, Load, EndLabel, RejectLabel, BlankLine, EndName, RejectName,
         Letter, RejectLetter, FinishName, RejectLast, Finish, Reject
<1>2. ~HasBlankLine
  BY <1>1 DEF HasBlankLine, Lines
<1>3. CASE Load \/ LoadFails \/ UNCHANGED vars
  <2>1. result \in {"load", "parse"} /\ src' = src /\ i' = i /\ zone_count' = zone_count
    BY <1>3 DEF Load, LoadFails, vars, scanVars
  <2> QED
    BY <1>2, <2>1 DEF SourceKept, LabelStart
<1>4. CASE Letter
  <2>1. /\ result = "parse" /\ src' = src /\ i' = i + 1 /\ zone_count' = zone_count + 1
    BY <1>4 DEF Letter, AtLetter
  <2>2. i \in Nat /\ zone_count \in Nat /\ src = i - zone_count
    BY <1>2, <2>1, InScan, Places DEF SourceKept
  <2>3. src = (i + 1) - (zone_count + 1)
    BY <2>2
  <2> QED
    BY <2>1, <2>3 DEF LabelStart
<1>5. CASE EndLabel \/ EndName
  <2>1. /\ result = "parse" /\ src' = i + 1 /\ i' = i + 1 /\ zone_count' = 0
    BY <1>5 DEF EndLabel, EndName, AtDot, AtNewline
  <2>2. i \in Nat
    BY <2>1, InScan, Places
  <2> QED
    BY <2>1, <2>2 DEF LabelStart
<1>6. ~BlankLine
  BY <1>2, PassesBlankLine
<1>7. ~(RejectLabel \/ RejectName \/ RejectLetter \/ RejectLast \/ FinishName \/ Finish)
  BY DEF RejectLabel, RejectName, RejectLetter, RejectLast, FinishName, Finish, Reject
<1> QED
  BY <1>3, <1>4, <1>5, <1>6, <1>7 DEF Next

\* In a file where no blank line precedes another, every label is copied from where it
\* stands in the text (main.c:456-510).
THEOREM CopiesFromPlace == Spec => []SourceKept
<1>1. Init => SourceKept
  BY DEF Init, SourceKept, LabelStart
<1>2. IInv /\ ScanInv /\ [Next]_vars => ScanInv'
  BY LetterScans, EndLabelScans, LineScans, EndScans, RejectScans, LoadScans DEF Next
<1> QED
  BY <1>1, <1>2, ScanBegins, SourceMoves, Invariant, PTL DEF Spec
-----------------------------------------------------------------------------
(* What has been written of the text.                                      *)

\* The n-th line's byte p, or the length of the label after it, is in the bytes ns.
ByteHeld(ns, n, p) ==
  IF p \in TextCuts THEN \A d \in TextCuts : Adjacent(TextCuts, p, d) => ns[p + n] = d - p - 1
                    ELSE ns[p + n] = text[p]

\* So are the bytes of the line after a, up to "to"; and that is the end of its name.
LineHeld(ns, a, to) == \A p \in a..(to - 1) : ByteHeld(ns, Rank(LineCuts, a) + 1, p)
NameHeld(ns, a, b) == LineHeld(ns, a, b) /\ ns[b + Rank(LineCuts, a) + 1] = Nul
NamesHeld(ns, to) == \A a, b \in LineCuts : Adjacent(LineCuts, a, b) /\ b <= to => NameHeld(ns, a, b)

\* The names of the lines before c have been written, and a zero byte after them;
\* what follows c is empty.
NamesComplete(c) ==
  /\ c \in LineCuts /\ count = Rank(LineCuts, c) /\ NamesHeld(names, c)
  /\ Len(names) = c + count + 1 /\ names[c + count + 1] = Nul
  /\ c = IF Len(text) \in LineCuts THEN Len(text) ELSE Len(text) + 1

\* Without a blank line before another, the names are the lines read so far, and of
\* this one the labels.
NamesKept ==
  ~HasBlankLine =>
    /\ result \in {"load", "parse"} =>
         /\ count = line - 1 /\ Len(names) = LabelStart + line - 1
         /\ NamesHeld(names, LineStart) /\ LineHeld(names, LineStart, LabelStart)
    /\ result = "ok" => \E c \in LineCuts : NamesComplete(c)

LEMMA Tabulated ==
  ASSUME NEW E, NEW n \in Nat, NEW s \in [1..n -> E]
  PROVE  s \in Seq(E) /\ Len(s) = n /\ DOMAIN s = 1..n
<1>1. s \in Seq(E)
  BY SeqDef
<1>2. Len(s) \in Nat /\ DOMAIN s = 1..Len(s) /\ DOMAIN s = 1..n
  BY <1>1, LenProperties
<1> QED
  BY <1>1, <1>2

LEMMA ConcatItems ==
  ASSUME NEW E, NEW s \in Seq(E), NEW t \in Seq(E)
  PROVE  /\ s \o t \in Seq(E) /\ Len(s \o t) = Len(s) + Len(t)
         /\ \A k \in 1..Len(s) : (s \o t)[k] = s[k]
         /\ \A k \in 1..Len(t) : (s \o t)[Len(s) + k] = t[k]
<1>1. Len(s) \in Nat /\ Len(t) \in Nat
  BY LenProperties
<1>2. /\ s \o t \in Seq(E) /\ Len(s \o t) = Len(s) + Len(t)
      /\ \A k \in 1..(Len(s) + Len(t)) : (s \o t)[k] = IF k <= Len(s) THEN s[k] ELSE t[k - Len(s)]
  BY ConcatProperties
<1>3. \A k \in 1..Len(t) :
        /\ Len(s) + k \in 1..(Len(s) + Len(t)) /\ ~(Len(s) + k <= Len(s)) /\ (Len(s) + k) - Len(s) = k
  BY <1>1
<1>4. \A k \in 1..Len(s) : k \in 1..(Len(s) + Len(t)) /\ k <= Len(s)
  BY <1>1
<1> QED
  BY <1>2, <1>3, <1>4

LEMMA SliceItems ==
  ASSUME NEW E, NEW s \in Seq(E), NEW o \in Nat, NEW n \in Nat, o + n <= Len(s)
  PROVE  /\ SubSeq(s, o + 1, o + n) \in Seq(E) /\ Len(SubSeq(s, o + 1, o + n)) = n
         /\ \A k \in 1..n : SubSeq(s, o + 1, o + n)[k] = s[o + k]
<1> DEFINE t == SubSeq(s, o + 1, o + n)
<1>1. \A k \in (o + 1)..(o + n) : s[k] \in E
  <2>1. \A k \in (o + 1)..(o + n) : k \in 1..Len(s)
    BY LenProperties
  <2> QED
    BY <2>1, ElementOfSeq
<1>2. /\ t \in Seq(E) /\ Len(t) = IF o + 1 <= o + n THEN (o + n) - (o + 1) + 1 ELSE 0
      /\ \A k \in 1..((o + n) - (o + 1) + 1) : t[k] = s[(o + 1) + k - 1]
  <2>1. o + 1 \in Int /\ o + n \in Int
    OBVIOUS
  <2> QED
    BY <1>1, <2>1, SubSeqProperties
<1>3. (o + n) - (o + 1) + 1 = n /\ (o + 1 <= o + n <=> n > 0) /\ \A k \in Int : (o + 1) + k - 1 = o + k
  OBVIOUS
<1> HIDE DEF t
<1>4. t \in Seq(E) /\ Len(t) = n /\ \A k \in 1..n : t[k] = s[o + k]
  BY <1>2, <1>3
<1> QED
  BY <1>4 DEF t

\* More bytes behind them leave those that hold something as they are.
LEMMA ByteStays ==
  ASSUME NEW ns \in Seq(0..255), NEW more \in Seq(0..255), NEW n \in Nat, NEW p \in Nat,
         p + n \in 1..Len(ns), ByteHeld(ns, n, p)
  PROVE  ByteHeld(ns \o more, n, p)
<1>1. (ns \o more)[p + n] = ns[p + n]
  BY ConcatItems
<1> QED
  BY <1>1 DEF ByteHeld

LEMMA LineStays ==
  ASSUME TypeOK, NEW ns \in Seq(0..255), NEW more \in Seq(0..255), NEW a \in LineCuts, NEW to \in Nat,
         to + Rank(LineCuts, a) <= Len(ns), LineHeld(ns, a, to)
  PROVE  LineHeld(ns \o more, a, to)
<1>1. a \in Nat /\ Rank(LineCuts, a) \in Nat /\ Len(ns) \in Nat
  BY TextCutsType, RankGrows, LenProperties
<1>2. ASSUME NEW p \in a..(to - 1) PROVE ByteHeld(ns \o more, Rank(LineCuts, a) + 1, p)
  <2>1. p \in Nat /\ Rank(LineCuts, a) + 1 \in Nat /\ p + (Rank(LineCuts, a) + 1) \in 1..Len(ns)
    BY <1>1
  <2> QED
    BY <2>1, ByteStays DEF LineHeld
<1> QED
  BY <1>2 DEF LineHeld

LEMMA NamesStay ==
  ASSUME TypeOK, NEW ns \in Seq(0..255), NEW more \in Seq(0..255), NEW c \in LineCuts,
         c + Rank(LineCuts, c) <= Len(ns), NamesHeld(ns, c)
  PROVE  NamesHeld(ns \o more, c)
<1>1. /\ LineCuts \in SUBSET Nat /\ IsFiniteSet(LineCuts)
      /\ \A e \in LineCuts : e \in Nat /\ Rank(LineCuts, e) \in Nat
      /\ Len(ns) \in Nat
  BY TextCutsType, RankGrows, LenProperties
<1>2. ASSUME NEW a \in LineCuts, NEW b \in LineCuts, Adjacent(LineCuts, a, b), b <= c
      PROVE  NameHeld(ns \o more, a, b)
  <2>1. Rank(LineCuts, b) = Rank(LineCuts, a) + 1
    BY <1>1, <1>2, AdjacentRanks
  <2>2. Rank(LineCuts, b) <= Rank(LineCuts, c)
    <3>1. b < c => Rank(LineCuts, b) < Rank(LineCuts, c)
      BY <1>1, RankGrows
    <3> QED
      BY <1>1, <1>2, <3>1
  <2>3. b + Rank(LineCuts, a) + 1 \in 1..Len(ns) /\ b + Rank(LineCuts, a) <= Len(ns)
    BY <1>1, <2>1, <2>2, <1>2
  <2>4. LineHeld(ns, a, b) /\ ns[b + Rank(LineCuts, a) + 1] = Nul
    BY <1>2 DEF NamesHeld, NameHeld
  <2>5. LineHeld(ns \o more, a, b)
    BY <1>1, <2>3, <2>4, LineStays
  <2>6. (ns \o more)[b + Rank(LineCuts, a) + 1] = ns[b + Rank(LineCuts, a) + 1]
    BY <2>3, ConcatItems
  <2> QED
    BY <2>4, <2>5, <2>6 DEF NameHeld
<1> QED
  BY <1>2 DEF NamesHeld

\* A separator after a label has the label and its length stored.
LEMMA LabelHeld ==
  ASSUME TypeOK, Counters, Scanned, src = LabelStart, Len(names) = LabelStart + line - 1,
         LineHeld(names, LineStart, LabelStart), i + 1 \in TextCuts
  PROVE  /\ names \o Label \in Seq(0..255) /\ Len(names \o Label) = i + line
         /\ LineHeld(names \o Label, LineStart, i + 1)
<1> DEFINE ns == names \o Label
<1>1. names \in Seq(0..255) /\ Label \in Seq(0..255) /\ Len(Label) = zone_count + 1
  BY LabelSize DEF TypeOK
<1>2. /\ LineStart \in LineCuts /\ Rank(LineCuts, LineStart) = line - 1
      /\ LabelStart \in TextCuts /\ \A c \in TextCuts : c <= LabelStart \/ i < c
  BY DEF Scanned, ScannedTo
<1>3. /\ i \in Nat /\ zone_count \in Nat /\ line \in Nat /\ LabelStart \in Nat /\ LineStart \in Nat
      /\ i = LabelStart + zone_count /\ i <= Len(text) /\ Len(text) \in Nat
      /\ Rank(LineCuts, LineStart) + 1 = line
  <2>1. i = LabelStart + zone_count
    BY Places
  <2>2. Rank(LineCuts, LineStart) + 1 = line
    BY <1>2, Places
  <2> QED
    BY <2>1, <2>2, Places, TextType
<1>4. zone_count \in 0..255 /\ zone_count % 256 = zone_count
  <2>1. zone_count \in 0..MaxLabel /\ MaxLabel \in 1..255
    BY LimitAssumption DEF TypeOK
  <2>2. zone_count \in 0..255
    BY <2>1
  <2> QED
    BY <2>2
<1>5. /\ ns \in Seq(0..255) /\ Len(ns) = i + line
      /\ \A k \in 1..(zone_count + 1) : ns[(LabelStart + line - 1) + k] = Label[k]
  <2>1. /\ ns \in Seq(0..255) /\ Len(ns) = Len(names) + Len(Label)
        /\ \A k \in 1..Len(Label) : ns[Len(names) + k] = Label[k]
    <3>1. \A s, t \in Seq(0..255) :
            /\ s \o t \in Seq(0..255) /\ Len(s \o t) = Len(s) + Len(t)
            /\ \A k \in 1..Len(t) : (s \o t)[Len(s) + k] = t[k]
      BY ConcatItems
    <3> QED
      BY <1>1, <3>1
  <2>2. (LabelStart + line - 1) + (zone_count + 1) = i + line
    BY <1>3
  <2> QED
    BY <1>1, <2>1, <2>2
<1>6. Label[1] = zone_count /\ \A k \in 1..zone_count : Label[1 + k] = text[LabelStart + k]
  <2> DEFINE bytes == SubSeq(text, LabelStart + 1, LabelStart + zone_count)
  <2>1. /\ bytes \in Seq(0..255) /\ Len(bytes) = zone_count
        /\ \A k \in 1..zone_count : bytes[k] = text[LabelStart + k]
    <3>1. text \in Seq(0..255)
      <4>1. text \in [1..Len(text) -> Letters \cup {Newline, Dot}]
        BY LenProperties DEF TypeOK
      <4>2. Len(text) \in Nat /\ \A k \in 1..Len(text) : text[k] \in 0..255
        BY TextType
      <4>3. text \in [1..Len(text) -> 0..255]
        BY <4>1, <4>2
      <4> QED
        BY <4>2, <4>3, Tabulated
    <3>2. \A o, n \in Nat : o + n <= Len(text) =>
            /\ SubSeq(text, o + 1, o + n) \in Seq(0..255) /\ Len(SubSeq(text, o + 1, o + n)) = n
            /\ \A k \in 1..n : SubSeq(text, o + 1, o + n)[k] = text[o + k]
      BY <3>1, SliceItems
    <3>3. LabelStart + zone_count <= Len(text)
      BY <1>3
    <3> QED
      BY <1>3, <3>2, <3>3
  <2>2. Label = <<zone_count>> \o bytes
    BY <1>4 DEF Label
  <2> HIDE DEF bytes
  <2>3. <<zone_count>> \in Seq(0..255) /\ Len(<<zone_count>>) = 1 /\ <<zone_count>>[1] = zone_count
    BY <1>4
  <2> QED
    BY <2>1, <2>2, <2>3, ConcatItems
<1>7. LineHeld(ns, LineStart, LabelStart)
  <2>1. LabelStart + Rank(LineCuts, LineStart) <= Len(names)
    BY <1>2, <1>3
  <2> QED
    BY <1>1, <1>2, <1>3, <2>1, LineStays
<1> HIDE DEF ns
<1>8. ASSUME NEW p \in LineStart..i PROVE ByteHeld(ns, line, p)
  <2>1. p \in Nat
    BY <1>3
  <2>2. CASE p < LabelStart
    <3>1. p \in LineStart..(LabelStart - 1)
      BY <1>3, <2>1, <2>2
    <3> QED
      BY <1>3, <1>7, <3>1 DEF LineHeld
  <2>3. CASE p = LabelStart
    <3>1. ns[p + line] = zone_count
      <4>1. (LabelStart + line - 1) + 1 = p + line /\ 1 \in 1..(zone_count + 1)
        BY <1>3, <2>3
      <4> QED
        BY <1>5, <1>6, <4>1
    <3>2. ASSUME NEW d \in TextCuts, Adjacent(TextCuts, p, d) PROVE zone_count = d - p - 1
      <4>1. d \in Nat /\ p < d /\ (d <= LabelStart \/ i < d) /\ (i + 1 <= p \/ d <= i + 1)
        BY <1>2, <3>2, TextCutsType DEF Adjacent
      <4>2. d = i + 1
        BY <1>3, <2>3, <4>1
      <4> QED
        BY <1>3, <2>3, <4>2
    <3> QED
      BY <1>2, <2>3, <3>1, <3>2 DEF ByteHeld
  <2>4. CASE p > LabelStart
    <3> DEFINE k == p - LabelStart
    <3>1. k \in 1..zone_count /\ LabelStart + k = p /\ 1 + k \in 1..(zone_count + 1)
      BY <1>3, <2>1, <2>4
    <3>2. (LabelStart + line - 1) + (1 + k) = p + line
      BY <1>3, <2>1
    <3>3. p \notin TextCuts
      <4>1. ~(p <= LabelStart) /\ ~(i < p)
        BY <1>3, <2>1, <2>4
      <4> QED
        BY <1>2, <4>1
    <3> HIDE DEF k
    <3>4. ns[p + line] = text[p]
      BY <1>5, <1>6, <3>1, <3>2
    <3> QED
      BY <3>3, <3>4 DEF ByteHeld
  <2> QED
    BY <1>3, <2>1, <2>2, <2>3, <2>4
<1>9. LineHeld(ns, LineStart, i + 1)
  <2>1. (i + 1) - 1 = i
    BY <1>3
  <2> QED
    BY <1>3, <1>8, <2>1 DEF LineHeld
<1> QED
  BY <1>5, <1>9 DEF ns

\* A step of the scan keeps NamesKept if the bytes after it hold the text after it.
LEMMA KeepsHolding ==
  ASSUME text' = text, result' \in {"load", "parse"}, count' = line' - 1,
         Len(names') = (i' - zone_count') + line' - 1,
         NamesHeld(names', i' - length'), LineHeld(names', i' - length', i' - zone_count')
  PROVE  NamesKept'
<1>1. LineCuts' = LineCuts /\ TextCuts' = TextCuts
  BY SameText
<1>2. LineHeld(names, i - length, i - zone_count)'
  BY <1>1 DEF LineHeld, ByteHeld
<1>3. NamesHeld(names, i - length)'
  BY <1>1 DEF NamesHeld, NameHeld, LineHeld, ByteHeld
<1>4. /\ count' = line' - 1 /\ Len(names') = LabelStart' + line' - 1
      /\ NamesHeld(names, LineStart)' /\ LineHeld(names, LineStart, LabelStart)'
  BY <1>2, <1>3 DEF LineStart, LabelStart
<1>5. result' # "ok"
  OBVIOUS
<1> QED
  BY <1>4, <1>5 DEF NamesKept

LEMMA EndsHolding ==
  ASSUME text' = text, result' = "ok", NEW c \in LineCuts, count' = Rank(LineCuts, c), NamesHeld(names', c),
         Len(names') = c + count' + 1, names'[c + count' + 1] = Nul,
         c = IF Len(text) \in LineCuts THEN Len(text) ELSE Len(text) + 1
  PROVE  NamesKept'
<1>1. LineCuts' = LineCuts /\ TextCuts' = TextCuts
  BY SameText
<1>2. (\E d \in LineCuts : NamesComplete(d))'
  <2>1. c \in LineCuts' /\ count' = Rank(LineCuts', c) /\ Len(names') = c + count' + 1 /\ names'[c + count' + 1] = Nul
    BY <1>1
  <2>2. c = IF Len(text') \in LineCuts' THEN Len(text') ELSE Len(text') + 1
    BY <1>1
  <2>3. \A a, b \in LineCuts' : Adjacent(LineCuts', a, b) /\ b <= c => NameHeld(names, a, b)'
    BY <1>1 DEF NamesHeld, NameHeld, LineHeld, ByteHeld
  <2> QED
    BY <2>1, <2>2, <2>3 DEF NamesComplete, NamesHeld
<1>3. result' \notin {"load", "parse"}
  OBVIOUS
<1> QED
  BY <1>2, <1>3 DEF NamesKept

\* What an action of the scan finds in the names.
LEMMA HoldingHere ==
  ASSUME IInv, ScanInv, SourceKept, NamesKept, result = "parse", ~HasBlankLine
  PROVE  /\ TypeOK /\ Counters /\ Scanned /\ names \in Seq(0..255)
         /\ src = LabelStart /\ count = line - 1 /\ Len(names) = LabelStart + line - 1
         /\ NamesHeld(names, LineStart) /\ LineHeld(names, LineStart, LabelStart)
         /\ LineStart \in LineCuts /\ Rank(LineCuts, LineStart) = line - 1
         /\ LineStart + Rank(LineCuts, LineStart) <= Len(names)
         /\ i \in Nat /\ i <= Len(text) /\ Len(text) \in Nat /\ line \in Nat
         /\ LineStart \in Nat /\ LabelStart \in Nat /\ zone_count \in Nat /\ length \in Nat
         /\ LineStart = i - length /\ LabelStart = i - zone_count /\ LineStart <= LabelStart
<1>1. TypeOK /\ Counters /\ Scanned
  BY InScan
<1>2. /\ src = LabelStart /\ count = line - 1 /\ Len(names) = LabelStart + line - 1
      /\ NamesHeld(names, LineStart) /\ LineHeld(names, LineStart, LabelStart)
  BY DEF SourceKept, NamesKept
<1>3. LineStart \in LineCuts /\ Rank(LineCuts, LineStart) = line - 1
  BY <1>1 DEF Scanned, ScannedTo
<1>4. LineStart + Rank(LineCuts, LineStart) <= Len(names)
  BY <1>1, <1>2, <1>3, Places
<1> QED
  BY <1>1, <1>2, <1>3, <1>4, Places, TextType DEF TypeOK

LEMMA LetterHeld ==
  ASSUME IInv, ScanInv, SourceKept, NamesKept, ~HasBlankLine, Letter
  PROVE  NamesKept'
<1>1. /\ result = "parse" /\ result' = "parse" /\ text' = text /\ names' = names /\ count' = count
      /\ line' = line /\ i' = i + 1 /\ zone_count' = zone_count + 1 /\ length' = length + 1
  BY DEF Letter, AtLetter
<1>2. /\ i' - length' = LineStart /\ i' - zone_count' = LabelStart
  <2>1. /\ i \in Nat /\ length \in Nat /\ zone_count \in Nat
        /\ LineStart = i - length /\ LabelStart = i - zone_count
    BY <1>1, HoldingHere
  <2> QED
    BY <1>1, <2>1
<1> QED
  BY <1>1, <1>2, HoldingHere, KeepsHolding

LEMMA EndLabelHeld ==
  ASSUME IInv, ScanInv, SourceKept, NamesKept, ~HasBlankLine, EndLabel
  PROVE  NamesKept'
<1>1. /\ result = "parse" /\ result' = "parse" /\ text' = text /\ names' = names \o Label /\ count' = count
      /\ line' = line /\ i' = i + 1 /\ zone_count' = 0 /\ length' = length + 1
      /\ i < Len(text) /\ text[i + 1] = Dot
  BY DEF EndLabel, AtDot
<1>2. /\ i' - length' = LineStart /\ i' - zone_count' = i + 1 /\ i + line = (i + 1) + line - 1
      /\ i + 1 \in 1..Len(text)
  <2>1. i \in Nat /\ length \in Nat /\ line \in Nat /\ LineStart = i - length /\ Len(text) \in Nat
    BY <1>1, HoldingHere
  <2> QED
    BY <1>1, <2>1
<1>3. i + 1 \in TextCuts
  BY <1>1, <1>2, HoldingHere, ByteCuts
<1>4. Len(names') = i + line /\ LineHeld(names', LineStart, i + 1)
  BY <1>1, <1>3, HoldingHere, LabelHeld
<1>5. NamesHeld(names', LineStart)
  BY <1>1, HoldingHere, LabelSize, NamesStay
<1> QED
  BY <1>1, <1>2, <1>4, <1>5, HoldingHere, KeepsHolding

\* A line that ends has its name stored, with a zero byte.
LEMMA NameEnds ==
  ASSUME IInv, ScanInv, SourceKept, NamesKept, ~HasBlankLine, result = "parse",
         i + 1 \in LineCuts, zone_count > 0, NEW more \in Seq(0..255), Len(more) > 0, more[1] = Nul
  PROVE  LET ns == names \o Label \o more IN
         /\ NamesHeld(ns, i + 1) /\ Rank(LineCuts, i + 1) = line
         /\ Len(ns) = i + line + Len(more)
         /\ \A k \in 1..Len(more) : ns[i + line + k] = more[k]
<1> DEFINE old == names \o Label
           ns == old \o more
<1>1. Rank(LineCuts, i + 1) = line
  BY HoldingHere, EndOfLine
<1>2. i + 1 \in TextCuts /\ LineCuts \in SUBSET Nat /\ IsFiniteSet(LineCuts) /\ Len(more) \in Nat
  BY HoldingHere, TextCutsType, LenProperties
<1>3. old \in Seq(0..255) /\ Len(old) = i + line /\ LineHeld(old, LineStart, i + 1)
  BY <1>2, HoldingHere, LabelHeld
<1>4. NamesHeld(old, LineStart)
  BY HoldingHere, LabelSize, NamesStay
<1>5. /\ i \in Nat /\ line \in Nat /\ LineStart \in Nat /\ LineStart \in LineCuts
      /\ Rank(LineCuts, LineStart) = line - 1 /\ LineStart <= i
  BY HoldingHere
<1> HIDE DEF old
<1>6. /\ Len(ns) = i + line + Len(more)
      /\ \A k \in 1..Len(more) : ns[i + line + k] = more[k]
  <2>1. \A s, t \in Seq(0..255) : Len(s \o t) = Len(s) + Len(t) /\ \A k \in 1..Len(t) : (s \o t)[Len(s) + k] = t[k]
    BY ConcatItems
  <2>2. /\ Len(old \o more) = Len(old) + Len(more)
        /\ \A k \in 1..Len(more) : (old \o more)[Len(old) + k] = more[k]
    BY <1>3, <2>1
  <2> QED
    BY <1>3, <2>2
<1>7. NamesHeld(ns, LineStart)
  <2>1. LineStart + Rank(LineCuts, LineStart) <= Len(old)
    BY <1>3, <1>5
  <2> QED
    BY <1>3, <1>4, <1>5, <2>1, HoldingHere, NamesStay
<1>8. LineHeld(ns, LineStart, i + 1)
  <2>1. (i + 1) + Rank(LineCuts, LineStart) <= Len(old) /\ i + 1 \in Nat
    BY <1>3, <1>5
  <2> QED
    BY <1>3, <1>5, <2>1, HoldingHere, LineStays
<1>9. ns[(i + 1) + Rank(LineCuts, LineStart) + 1] = Nul
  <2>1. (i + 1) + Rank(LineCuts, LineStart) + 1 = i + line + 1 /\ 1 \in 1..Len(more)
    BY <1>2, <1>5
  <2> QED
    BY <1>6, <2>1
<1> HIDE DEF ns
<1>10. ASSUME NEW a \in LineCuts, NEW b \in LineCuts, Adjacent(LineCuts, a, b), b <= i + 1
       PROVE  NameHeld(ns, a, b)
  <2>1. CASE b <= LineStart
    BY <1>7, <1>10, <2>1 DEF NamesHeld
  <2>2. CASE b > LineStart
    <3>1. b = i + 1
      <4>1. b <= LineStart \/ i < b
        BY HoldingHere DEF Scanned, ScannedTo
      <4>2. b \in Nat
        BY <1>2
      <4> QED
        BY <1>5, <1>10, <2>2, <4>1, <4>2
    <3>2. Rank(LineCuts, a) = Rank(LineCuts, LineStart)
      <4>1. Rank(LineCuts, b) = Rank(LineCuts, a) + 1 /\ Rank(LineCuts, a) \in Int
        BY <1>2, <1>10, AdjacentRanks, RankGrows
      <4> QED
        BY <1>1, <1>5, <3>1, <4>1
    <3>3. a = LineStart
      BY <1>2, <1>5, <3>2, RankInjective
    <3> QED
      BY <1>8, <1>9, <3>1, <3>3 DEF NameHeld
  <2> QED
    BY <1>2, <1>5, <2>1, <2>2
<1>11. NamesHeld(ns, i + 1)
  BY <1>10 DEF NamesHeld
<1> QED
  BY <1>1, <1>6, <1>11 DEF ns, old

LEMMA EndNameHeld ==
  ASSUME IInv, ScanInv, SourceKept, NamesKept, ~HasBlankLine, EndName
  PROVE  NamesKept'
<1>1. /\ result = "parse" /\ result' = "parse" /\ text' = text /\ names' = names \o Label \o <<Nul>>
      /\ count' = count + 1 /\ line' = line + 1 /\ i' = i + 1 /\ zone_count' = 0 /\ length' = 0
      /\ i < Len(text) /\ text[i + 1] = Newline /\ zone_count > 0
  BY DEF EndName, AtNewline
<1>2. i \in Nat /\ line \in Nat /\ Len(text) \in Nat /\ TypeOK /\ count = line - 1
  BY <1>1, HoldingHere
<1>3. i + 1 \in 1..Len(text)
  BY <1>1, <1>2
<1>4. i + 1 \in LineCuts
  BY <1>1, <1>2, <1>3, ByteCuts
<1>5. <<Nul>> \in Seq(0..255) /\ Len(<<Nul>>) = 1 /\ <<Nul>>[1] = Nul
  BY DEF Nul
<1>6. NamesHeld(names', i + 1) /\ Rank(LineCuts, i + 1) = line /\ Len(names') = i + line + 1
  <2> DEFINE more == <<Nul>>
  <2>1. more \in Seq(0..255) /\ Len(more) = 1 /\ Len(more) > 0 /\ more[1] = Nul
    BY <1>5
  <2>2. names' = names \o Label \o more
    BY <1>1
  <2> HIDE DEF more
  <2> QED
    BY <1>1, <1>4, <2>1, <2>2, NameEnds
<1>7. /\ i' - length' = i + 1 /\ i' - zone_count' = i + 1 /\ i + line + 1 = (i + 1) + (line + 1) - 1
      /\ (line - 1) + 1 = (line + 1) - 1 /\ ~(i + 1 <= i)
  BY <1>1, <1>2
<1>8. LineHeld(names', i + 1, i + 1)
  <2>1. \A p \in (i + 1)..((i + 1) - 1) : FALSE
    BY <1>2
  <2> QED
    BY <2>1 DEF LineHeld
<1> QED
  BY <1>1, <1>2, <1>6, <1>7, <1>8, KeepsHolding

LEMMA FinishNameHeld ==
  ASSUME IInv, ScanInv, SourceKept, NamesKept, ~HasBlankLine, FinishName
  PROVE  NamesKept'
<1>1. /\ result = "parse" /\ result' = "ok" /\ text' = text /\ names' = names \o Label \o <<Nul, Nul>>
      /\ count' = count + 1 /\ i = Len(text) /\ zone_count > 0
  BY DEF FinishName, AtEnd
<1>2. i \in Nat /\ line \in Nat /\ TypeOK /\ count = line - 1
  BY <1>1, HoldingHere
<1>3. i + 1 \in LineCuts /\ i + 1 = Len(text) + 1
  BY <1>1, <1>2, TextCutsType
<1>4. <<Nul, Nul>> \in Seq(0..255) /\ Len(<<Nul, Nul>>) = 2 /\ <<Nul, Nul>>[1] = Nul /\ <<Nul, Nul>>[2] = Nul
  BY DEF Nul
<1>5. /\ NamesHeld(names', i + 1) /\ Rank(LineCuts, i + 1) = line /\ Len(names') = i + line + 2
      /\ names'[i + line + 2] = Nul
  <2> DEFINE more == <<Nul, Nul>>
  <2>1. /\ more \in Seq(0..255) /\ Len(more) = 2 /\ Len(more) > 0 /\ more[1] = Nul /\ more[2] = Nul
        /\ 2 \in 1..2
    BY <1>4
  <2>2. names' = names \o Label \o more
    BY <1>1
  <2> HIDE DEF more
  <2> QED
    BY <1>1, <1>3, <2>1, <2>2, NameEnds
<1>6. count' = line /\ i + line + 2 = (i + 1) + line + 1
  BY <1>1, <1>2
<1>7. Len(text) \notin LineCuts
  <2>1. \A c \in LineCuts : c <= LineStart \/ i < c
    BY <1>1, HoldingHere DEF Scanned, ScannedTo
  <2>2. LineStart \in Nat /\ LineStart < i
    <3>1. /\ LineStart \in Nat /\ LabelStart \in Nat /\ LineStart <= LabelStart
          /\ zone_count \in Nat /\ LabelStart = i - zone_count
      BY <1>1, HoldingHere
    <3> QED
      BY <1>1, <1>2, <3>1
  <2>3. ~(i <= LineStart) /\ ~(i < i)
    BY <1>2, <2>2
  <2> QED
    BY <1>1, <2>1, <2>3
<1> QED
  BY <1>1, <1>3, <1>5, <1>6, <1>7, EndsHolding

LEMMA FinishHeld ==
  ASSUME IInv, ScanInv, SourceKept, NamesKept, ~HasBlankLine, Finish
  PROVE  NamesKept'
<1>1. /\ result = "parse" /\ result' = "ok" /\ text' = text /\ names' = Append(names, Nul)
      /\ count' = count /\ i = Len(text) /\ length = 0
  BY DEF Finish, AtEnd
<1>2. /\ i \in Nat /\ line \in Nat /\ LineStart = i /\ LabelStart = i /\ count = line - 1
      /\ Len(names) = LabelStart + line - 1
  <2>1. /\ i \in Nat /\ line \in Nat /\ length \in Nat /\ zone_count \in Nat
        /\ LineStart = i - length /\ LabelStart = i - zone_count /\ LineStart <= LabelStart
        /\ count = line - 1 /\ Len(names) = LabelStart + line - 1
    BY <1>1, HoldingHere
  <2> QED
    BY <1>1, <2>1
<1>3. /\ TypeOK /\ names \in Seq(0..255) /\ LineStart \in LineCuts /\ Rank(LineCuts, LineStart) = line - 1
      /\ NamesHeld(names, LineStart) /\ LineStart + Rank(LineCuts, LineStart) <= Len(names)
  BY <1>1, HoldingHere
<1>4. <<Nul>> \in Seq(0..255) /\ Nul \in 0..255
  BY DEF Nul
<1>5. /\ names' = names \o <<Nul>> /\ Len(names') = Len(names) + 1 /\ names'[Len(names) + 1] = Nul
  BY <1>1, <1>3, <1>4, AppendProperties, AppendIsConcat
<1>6. NamesHeld(names', LineStart)
  BY <1>3, <1>4, <1>5, NamesStay
<1>7. Len(text) \in LineCuts
  BY <1>1, <1>2, <1>3
<1>8. count' = line - 1 /\ Len(names') = i + (line - 1) + 1 /\ names'[i + (line - 1) + 1] = Nul
  <2>1. Len(names) + 1 = i + (line - 1) + 1
    BY <1>2
  <2> QED
    BY <1>1, <1>2, <1>5, <2>1
<1> QED
  BY <1>1, <1>2, <1>3, <1>6, <1>7, <1>8, EndsHolding

LEMMA NamesMove == IInv /\ ScanInv /\ SourceKept /\ NamesKept /\ [Next]_vars => NamesKept'
<1> SUFFICES ASSUME IInv, ScanInv, SourceKept, NamesKept, [Next]_vars PROVE NamesKept'
  OBVIOUS
<1>1. text' = text
  BY DEF Next, vars, LoadFails, Load, EndLabel, RejectLabel, BlankLine, EndName, RejectName,
         Letter, RejectLetter, FinishName, RejectLast, Finish, Reject
<1>2. HasBlankLine' <=> HasBlankLine
  BY <1>1 DEF HasBlankLine, Lines
<1>3. CASE HasBlankLine
  BY <1>2, <1>3 DEF NamesKept
<1>4. CASE ~HasBlankLine /\ (Letter \/ EndLabel \/ EndName \/ FinishName \/ Finish)
  BY <1>4, LetterHeld, EndLabelHeld, EndNameHeld, FinishNameHeld, FinishHeld
<1>5. CASE UNCHANGED vars
  <2>1. UNCHANGED <<text, i, src, zone_count, length, line, names, count, result>>
    BY <1>5 DEF vars, scanVars
  <2>2. CASE ~HasBlankLine /\ result \in {"load", "parse"}
    <3>1. /\ count = line - 1 /\ Len(names) = (i - zone_count) + line - 1
          /\ NamesHeld(names, i - length) /\ LineHeld(names, i - length, i - zone_count)
      BY <2>2 DEF NamesKept, LineStart, LabelStart
    <3> QED
      BY <2>1, <2>2, <3>1, KeepsHolding
  <2>3. CASE ~HasBlankLine /\ result = "ok"
    <3>1. PICK c \in LineCuts : NamesComplete(c)
      BY <2>3 DEF NamesKept
    <3> QED
      BY <2>1, <2>3, <3>1, EndsHolding DEF NamesComplete
  <2> QED
    BY <1>2, <2>1, <2>2, <2>3 DEF NamesKept
<1>6. CASE ~HasBlankLine /\ Load
  <2>1. /\ UNCHANGED <<text, i, src, zone_count, length, line, names, count>>
        /\ result = "load" /\ result' = "parse"
    BY <1>6 DEF Load, scanVars
  <2>2. /\ count = line - 1 /\ Len(names) = (i - zone_count) + line - 1
        /\ NamesHeld(names, i - length) /\ LineHeld(names, i - length, i - zone_count)
    BY <1>6, <2>1 DEF NamesKept, LineStart, LabelStart
  <2> QED
    BY <2>1, <2>2, KeepsHolding
<1>7. CASE ~HasBlankLine /\ BlankLine
  BY <1>7, PassesBlankLine
<1>8. CASE LoadFails \/ RejectLabel \/ RejectName \/ RejectLetter \/ RejectLast
  <2>1. result' \in {"failed", "rejected"}
    BY <1>8 DEF LoadFails, RejectLabel, RejectName, RejectLetter, RejectLast, Reject
  <2> QED
    BY <2>1 DEF NamesKept
<1> QED
  BY <1>3, <1>4, <1>5, <1>6, <1>7, <1>8 DEF Next

LEMMA NothingHeld == Init => NamesKept
<1> SUFFICES ASSUME Init PROVE NamesKept
  OBVIOUS
<1>1. /\ result = "load" /\ count = 0 /\ line = 1 /\ names = << >> /\ LineStart = 0 /\ LabelStart = 0
      /\ TypeOK
  BY Initially DEF Init, LineStart, LabelStart, IInv
<1>2. \A a, b \in LineCuts : Adjacent(LineCuts, a, b) => ~(b <= 0)
  <2>1. \A a \in LineCuts : a \in Nat
    BY <1>1, TextCutsType
  <2> QED
    BY <2>1 DEF Adjacent
<1>3. NamesHeld(names, LineStart) /\ LineHeld(names, LineStart, LabelStart)
  <2>1. \A p \in 0..(0 - 1) : FALSE
    OBVIOUS
  <2> QED
    BY <1>1, <1>2, <2>1 DEF NamesHeld, LineHeld
<1>4. count = line - 1 /\ Len(names) = LabelStart + line - 1
  BY <1>1
<1> QED
  BY <1>1, <1>3, <1>4 DEF NamesKept
-----------------------------------------------------------------------------
(* The walk of make_queries over the names.                                *)

\* What a sequence holds at its first n places is its first n items.
LEMMA KeptFirst ==
  ASSUME NEW s, NEW n \in Nat
  PROVE  Kept(s, 1..n) = [k \in 1..n |-> s[k]]
<1>1. 1..n \in SUBSET Nat /\ IsFiniteSet(1..n) /\ Cardinality(1..n) = n
  <2>1. Cardinality(1..n) = (IF 1 > n THEN 0 ELSE n - 1 + 1) /\ IsFiniteSet(1..n)
    BY FS_Interval
  <2> QED
    BY <2>1
<1>2. ASSUME NEW k \in 1..n PROVE Nth(1..n, k - 1) = k
  <2>1. {d \in 1..n : d < k} = 1..(k - 1)
    OBVIOUS
  <2>2. Cardinality(1..(k - 1)) = k - 1
    <3>1. k - 1 \in Nat /\ 1 \in Int
      OBVIOUS
    <3>2. Cardinality(1..(k - 1)) = IF 1 > k - 1 THEN 0 ELSE (k - 1) - 1 + 1
      BY <3>1, FS_Interval
    <3> QED
      BY <3>1, <3>2
  <2>3. Rank(1..n, k) = k - 1
    BY <2>1, <2>2 DEF Rank
  <2> QED
    BY <1>1, <2>3, CutOfRank
<1> QED
  BY <1>1, <1>2 DEF Kept

\* A line by its place: its number and its name.
LEMMA LinesByPlace ==
  ASSUME TypeOK
  PROVE  LET N == Cardinality(LineCuts) - 1 IN
         /\ N \in Nat /\ Rank(LineCuts, Len(text) + 1) = N
         /\ Len(Lines) = N /\ DOMAIN Lines = 1..N
         /\ \A k \in 1..N : \E a, b \in LineCuts :
              /\ Adjacent(LineCuts, a, b) /\ Rank(LineCuts, a) = k - 1 /\ Rank(LineCuts, b) = k
              /\ Lines[k] = SubSeq(text, a + 1, b - 1) /\ (Lines[k] = << >> <=> b = a + 1)
<1> DEFINE N == Cardinality(LineCuts) - 1
           Piece(k) == SubSeq(text, Nth(LineCuts, k - 1) + 1, Nth(LineCuts, k) - 1)
<1>1. /\ LineCuts \in SUBSET Nat /\ IsFiniteSet(LineCuts) /\ Cardinality(LineCuts) \in Nat
      /\ 0 \in LineCuts /\ Len(text) + 1 \in LineCuts /\ Len(text) \in Nat
      /\ \A c \in LineCuts : c \in 0..(Len(text) + 1)
      /\ text \in Seq(Letters \cup {Newline, Dot})
  BY TextCutsType, FS_CardinalityType DEF TypeOK
<1>2. N \in Nat
  <2>1. Rank(LineCuts, 0) \in 0..N
    BY <1>1, RankGrows
  <2> QED
    BY <1>1, <2>1
<1>3. Rank(LineCuts, Len(text) + 1) = N
  <2>1. Rank(LineCuts, Len(text) + 1) \in 0..N
    BY <1>1, RankGrows
  <2>2. PICK c \in LineCuts : Rank(LineCuts, c) = N
    <3>1. N \in 0..(Cardinality(LineCuts) - 1)
      BY <1>2
    <3> QED
      BY <1>1, <3>1, RankOnto
  <2>3. c < Len(text) + 1 => Rank(LineCuts, c) < Rank(LineCuts, Len(text) + 1)
    BY <1>1, RankGrows
  <2>4. c = Len(text) + 1 \/ c < Len(text) + 1
    BY <1>1
  <2> QED
    BY <1>2, <2>1, <2>2, <2>3, <2>4
<1>4. Lines = [k \in 1..N |-> Piece(k)]
  BY DEF Lines, Pieces, LineCuts
<1>5. Len(Lines) = N /\ DOMAIN Lines = 1..N
  <2>1. Lines \in [1..N -> {Piece(k) : k \in 1..N}]
    BY <1>4
  <2> HIDE DEF N
  <2> QED
    BY <1>2, <2>1, Tabulated
<1>6. ASSUME NEW k \in 1..N
      PROVE  \E a, b \in LineCuts :
               /\ Adjacent(LineCuts, a, b) /\ Rank(LineCuts, a) = k - 1 /\ Rank(LineCuts, b) = k
               /\ Lines[k] = SubSeq(text, a + 1, b - 1) /\ (Lines[k] = << >> <=> b = a + 1)
  <2>1. PICK a, b \in LineCuts :
          /\ Adjacent(LineCuts, a, b) /\ Rank(LineCuts, a) = k - 1
          /\ Lines[k] = SubSeq(text, a + 1, b - 1)
    BY <1>1, <1>5, PieceBetween DEF Lines, LineCuts
  <2>2. Rank(LineCuts, b) = k
    <3>1. Rank(LineCuts, b) = Rank(LineCuts, a) + 1
      BY <1>1, <2>1, AdjacentRanks
    <3> QED
      BY <2>1, <3>1
  <2>3. Lines[k] = << >> <=> b = a + 1
    <3> DEFINE name == SubSeq(text, a + 1, b - 1)
    <3>1. name \in Seq(Letters \cup {Newline, Dot}) /\ Len(name) = b - a - 1 /\ a \in Nat /\ b \in Nat
      BY <2>1, NameCuts
    <3> HIDE DEF name
    <3>2. name = << >> <=> Len(name) = 0
      BY <3>1, EmptySeq
    <3>3. Lines[k] = name
      BY <2>1 DEF name
    <3> QED
      BY <3>1, <3>2, <3>3
  <2> QED
    BY <2>1, <2>2, <2>3
<1> QED
  BY <1>2, <1>3, <1>5, <1>6

\* The names of the file are its lines, the last one left out if it is empty.
LEMMA FileNamesByPlace ==
  ASSUME TypeOK, ~HasBlankLine, NEW c \in LineCuts, NamesComplete(c)
  PROVE  /\ count \in Nat /\ Len(FileNames) = count
         /\ \A m \in 0..(count - 1) : \E a, b \in LineCuts :
              /\ Adjacent(LineCuts, a, b) /\ Rank(LineCuts, a) = m /\ Rank(LineCuts, b) = m + 1
              /\ b <= c /\ b # a + 1 /\ FileNames[m + 1] = SubSeq(text, a + 1, b - 1)
<1> DEFINE N == Cardinality(LineCuts) - 1
           P == {k \in DOMAIN Lines : Lines[k] # << >>}
<1>1. /\ LineCuts \in SUBSET Nat /\ IsFiniteSet(LineCuts) /\ Len(text) + 1 \in LineCuts /\ Len(text) \in Nat
      /\ \A d \in LineCuts : d \in Nat /\ d <= Len(text) + 1
  BY TextCutsType
<1>2. /\ N \in Nat /\ Rank(LineCuts, Len(text) + 1) = N /\ Len(Lines) = N /\ DOMAIN Lines = 1..N
      /\ \A k \in 1..N : \E a, b \in LineCuts :
           /\ Adjacent(LineCuts, a, b) /\ Rank(LineCuts, a) = k - 1 /\ Rank(LineCuts, b) = k
           /\ Lines[k] = SubSeq(text, a + 1, b - 1) /\ (Lines[k] = << >> <=> b = a + 1)
  BY LinesByPlace
<1>3. /\ count = Rank(LineCuts, c) /\ count \in 0..N
      /\ c = IF Len(text) \in LineCuts THEN Len(text) ELSE Len(text) + 1
  BY <1>1, RankGrows DEF NamesComplete
<1> HIDE DEF N
<1>4. ASSUME NEW k \in 1..N, NEW a \in LineCuts, NEW b \in LineCuts, Adjacent(LineCuts, a, b),
             Rank(LineCuts, a) = k - 1, Rank(LineCuts, b) = k, Lines[k] = << >> <=> b = a + 1
      PROVE  /\ k <= count <=> b <= c
             /\ k <= count <=> Lines[k] # << >>
  <2>1. a \in Nat /\ b \in Nat /\ c \in Nat /\ k \in Nat /\ count \in Nat /\ b <= Len(text) + 1 /\ a < b
    BY <1>1, <1>2, <1>3, <1>4 DEF Adjacent
  <2>2. k <= count <=> b <= c
    <3>1. (b < c => k < count) /\ (c < b => count < k) /\ (b = c => k = count)
      BY <1>1, <1>3, <1>4, RankGrows
    <3> QED
      BY <2>1, <3>1
  <2>3. CASE b <= c
    <3>1. k < N \/ k = N
      BY <1>2
    <3>2. ASSUME k < N PROVE Lines[k] # << >>
      <4>1. k \in 1..(Len(Lines) - 1)
        BY <1>2, <3>2
      <4> QED
        BY <4>1 DEF HasBlankLine
    <3>3. ASSUME k = N PROVE b # a + 1
      <4>1. b = Len(text) + 1
        <5> DEFINE e == Len(text) + 1
        <5>1. e \in LineCuts /\ Rank(LineCuts, b) = Rank(LineCuts, e)
          BY <1>1, <1>2, <1>4, <3>3
        <5> HIDE DEF e
        <5>2. b = e
          BY <1>1, <5>1, RankInjective
        <5> QED
          BY <5>2 DEF e
      <4>2. a # Len(text)
        BY <1>1, <1>3, <2>1, <2>3, <4>1
      <4> QED
        BY <1>1, <2>1, <4>1, <4>2
    <3> QED
      BY <1>4, <2>2, <2>3, <3>1, <3>2, <3>3
  <2>4. CASE c < b
    <3>1. c = Len(text) /\ b = Len(text) + 1
      BY <1>1, <1>3, <2>1, <2>4
    <3>2. c <= a
      <4>1. c <= a \/ b <= c
        BY <1>4 DEF Adjacent
      <4> QED
        BY <2>1, <2>4, <4>1
    <3>3. b = a + 1
      BY <1>1, <2>1, <3>1, <3>2
    <3>4. ~(b <= c)
      BY <2>1, <2>4
    <3> QED
      BY <1>4, <2>2, <3>3, <3>4
  <2> QED
    BY <2>1, <2>2, <2>3, <2>4
<1>5. P = 1..count
  <2>1. \A k \in 1..N : k <= count <=> Lines[k] # << >>
    BY <1>2, <1>4
  <2>2. \A k \in 1..count : k \in 1..N /\ k <= count
    BY <1>2, <1>3
  <2>3. \A k \in 1..N : k <= count => k \in 1..count
    BY <1>2, <1>3
  <2> QED
    BY <1>2, <2>1, <2>2, <2>3
<1>6. FileNames = [k \in 1..count |-> Lines[k]]
  <2>1. FileNames = Kept(Lines, P) /\ count \in Nat
    BY <1>2, <1>3 DEF FileNames
  <2> HIDE DEF P
  <2>2. Kept(Lines, 1..count) = [k \in 1..count |-> Lines[k]]
    BY <2>1, KeptFirst
  <2> QED
    BY <1>5, <2>1, <2>2
<1>7. count \in Nat /\ Len(FileNames) = count
  <2>1. FileNames \in [1..count -> {Lines[k] : k \in 1..count}] /\ count \in Nat
    BY <1>2, <1>3, <1>6
  <2> QED
    BY <2>1, Tabulated
<1>8. ASSUME NEW m \in 0..(count - 1)
      PROVE  \E a, b \in LineCuts :
               /\ Adjacent(LineCuts, a, b) /\ Rank(LineCuts, a) = m /\ Rank(LineCuts, b) = m + 1
               /\ b <= c /\ b # a + 1 /\ FileNames[m + 1] = SubSeq(text, a + 1, b - 1)
  <2>1. m + 1 \in 1..N /\ m + 1 \in 1..count /\ (m + 1) - 1 = m /\ m + 1 <= count
    BY <1>2, <1>3, <1>7
  <2>2. PICK a, b \in LineCuts :
          /\ Adjacent(LineCuts, a, b) /\ Rank(LineCuts, a) = (m + 1) - 1 /\ Rank(LineCuts, b) = m + 1
          /\ Lines[m + 1] = SubSeq(text, a + 1, b - 1) /\ (Lines[m + 1] = << >> <=> b = a + 1)
    BY <1>2, <2>1
  <2>3. b <= c /\ b # a + 1
    BY <1>4, <2>1, <2>2
  <2> QED
    BY <1>6, <2>1, <2>2, <2>3
<1> QED
  BY <1>7, <1>8

\* The name of a line that has been written: it ends at its zero byte, the first
\* after its start, and is the line in wire form.
LEMMA NameRead ==
  ASSUME TypeOK, WellBefore(Len(text) + 1), NEW a, NEW b, Adjacent(LineCuts, a, b), b # a + 1,
         NameHeld(names, a, b), b + Rank(LineCuts, a) + 1 < Len(names)
  PROVE  LET o == a + Rank(LineCuts, a) IN
         /\ NameSize(o) = b - a + 1 /\ names[o + 1] # Nul
         /\ SubSeq(names, o + 1, o + (b - a + 1)) = WireForm(SubSeq(text, a + 1, b - 1))
<1> DEFINE r == Rank(LineCuts, a)
           o == a + r
           n == b - a + 1
           name == SubSeq(text, a + 1, b - 1)
           cuts == Cuts(name, Dot)
<1>1. /\ LineCuts \in SUBSET Nat /\ IsFiniteSet(LineCuts) /\ TextCuts \in SUBSET Nat
      /\ a \in LineCuts /\ b \in LineCuts /\ a < b /\ a \in Nat /\ b \in Nat /\ b <= Len(text) + 1
      /\ Len(text) \in Nat /\ a \in TextCuts /\ b \in TextCuts
  BY TextCutsType DEF Adjacent
<1>2. r \in Nat /\ o \in Nat /\ n \in Nat /\ o + n < Len(names) /\ o + n = b + r + 1
  BY <1>1, RankGrows
<1>3. names \in Seq(0..255) /\ Len(names) \in Nat
  BY LenProperties DEF TypeOK
<1>4. /\ name \in Seq(Letters \cup {Newline, Dot}) /\ Len(name) = b - a - 1
      /\ \A p \in Nat : p \in cuts <=> p <= b - a /\ a + p \in TextCuts
  BY NameCuts
<1>5. \A p \in 1..(b - a - 1) : name[p] = text[a + p]
  <2>1. text \in Seq(Letters \cup {Newline, Dot}) /\ a \in Nat /\ b - a - 1 \in Nat
        /\ a + (b - a - 1) <= Len(text) /\ a + (b - a - 1) = b - 1
    BY <1>1 DEF TypeOK
  <2>2. \A k \in 1..(b - a - 1) : SubSeq(text, a + 1, a + (b - a - 1))[k] = text[a + k]
    BY <2>1, SliceItems
  <2> QED
    BY <2>1, <2>2
<1>6. cuts \in SUBSET Nat /\ IsFiniteSet(cuts) /\ b - a \in cuts
  <2>1. cuts \subseteq 0..(Len(name) + 1) /\ IsFiniteSet(cuts) /\ Len(name) \in Nat
    BY <1>4, CutsType
  <2>2. b - a \in Nat /\ a + (b - a) = b
    BY <1>1
  <2>3. b - a \in cuts
    BY <1>1, <1>4, <2>2
  <2> QED
    BY <2>1, <2>3
\* An item of the name that is not its last: a label's length or a letter.
<1>7. ASSUME NEW p \in 0..(b - a - 1)
      PROVE  /\ names[o + (p + 1)] = IF p \in cuts THEN Len(Pieces(name, Dot)[Rank(cuts, p) + 1]) ELSE name[p]
             /\ names[o + (p + 1)] # Nul
  <2>1. p \in Nat /\ p <= b - a /\ a + p \in a..(b - 1) /\ o + (p + 1) = (a + p) + (r + 1) /\ a + p \in Nat
    BY <1>1, <1>2
  <2>2. ByteHeld(names, r + 1, a + p)
    BY <2>1 DEF NameHeld, LineHeld
  <2>3. CASE p \in cuts
    <3>1. p < b - a
      BY <1>1
    <3>2. PICK q \in cuts : Adjacent(cuts, p, q)
      BY <1>6, <2>3, <3>1, NextCut
    <3>3. q \in Nat /\ q <= b - a /\ Adjacent(TextCuts, a + p, a + q)
      BY <1>6, <2>1, <3>2, NameAdjacent
    <3>4. a + p \in TextCuts /\ a + q \in TextCuts
      BY <3>3 DEF Adjacent
    <3>5. names[o + (p + 1)] = (a + q) - (a + p) - 1
      BY <2>1, <2>2, <3>3, <3>4 DEF ByteHeld
    <3>6. (a + q) - (a + p) - 1 = q - p - 1
      BY <1>1, <2>1, <3>3
    <3>7. Len(Pieces(name, Dot)[Rank(cuts, p) + 1]) = q - p - 1
      <4>1. Pieces(name, Dot)[Rank(cuts, p) + 1] = SubSeq(name, p + 1, q - 1)
        <5> HIDE DEF name
        <5> QED
          BY <1>4, <2>3, <3>2, PieceBetween
      <4>2. Len(SubSeq(name, p + 1, q - 1)) = q - p - 1
        <5> HIDE DEF name
        <5> QED
          BY <1>4, <3>2, LabelLength
      <4> QED
        BY <4>1, <4>2
    <3>8. WellSized(a + p, a + q)
      <4>1. ~IllLine(a, b)
        BY <1>1 DEF WellBefore
      <4>2. a <= a + p /\ a + q <= b
        BY <1>1, <2>1, <3>3
      <4> QED
        BY <3>3, <3>4, <4>1, <4>2 DEF IllLine
    <3>9. q - p - 1 \in 1..MaxLabel
      BY <3>6, <3>8 DEF WellSized
    <3>10. q - p - 1 # Nul
      BY <3>9, LimitAssumption DEF Nul
    <3> QED
      BY <2>3, <3>5, <3>6, <3>7, <3>10
  <2>4. CASE p \notin cuts
    <3>1. 0 \in cuts
      <4>1. 0 \in Nat /\ 0 <= b - a /\ a + 0 = a
        BY <1>1
      <4> QED
        BY <1>1, <1>4, <4>1
    <3>2. p \in 1..(b - a - 1) /\ a + p \in 1..Len(text)
      BY <1>1, <2>1, <2>4, <3>1
    <3>3. a + p \notin TextCuts
      BY <1>4, <2>1, <2>4
    <3>4. names[o + (p + 1)] = text[a + p]
      BY <2>1, <2>2, <3>3 DEF ByteHeld
    <3>5. text[a + p] # Nul
      <4>1. text[a + p] \in Letters \cup {Newline, Dot}
        BY <3>2, ElementOfSeq DEF TypeOK
      <4> QED
        BY <4>1, LettersAssumption DEF Byte, Newline, Dot, Nul
    <3> QED
      BY <1>5, <2>4, <3>2, <3>4, <3>5
  <2> QED
    BY <2>3, <2>4
<1>8. names[o + n] = Nul
  BY <1>2 DEF NameHeld
<1> HIDE DEF r, o, name, cuts
<1>9. \A m \in 1..(n - 1) : names[o + m] # Nul
  <2>1. \A m \in 1..(n - 1) : m - 1 \in 0..(b - a - 1) /\ (m - 1) + 1 = m
    BY <1>1
  <2> QED
    BY <1>7, <2>1
<1>10. NameSize(o) = n
  <2> HIDE DEF n
  <2>1. n \in 1..(Len(names) - o)
    <3>1. n > 0
      BY <1>1 DEF n
    <3> QED
      BY <1>2, <1>3, <3>1
  <2>2. ASSUME NEW k \in 1..(Len(names) - o), names[o + k] = Nul, \A m \in 1..(k - 1) : names[o + m] # Nul
        PROVE  k = n
    <3>1. ~(k \in 1..(n - 1)) /\ ~(n \in 1..(k - 1))
      BY <1>8, <1>9, <2>2
    <3> QED
      BY <1>2, <2>1, <3>1
  <2> QED
    BY <1>8, <1>9, <2>1, <2>2 DEF NameSize
<1>11. names[o + 1] # Nul
  <2>1. 1 \in 1..(n - 1)
    BY <1>1
  <2> QED
    BY <1>9, <2>1
<1>12. SubSeq(names, o + 1, o + n) = WireForm(name)
  <2> DEFINE item(m) == IF m = Len(name) + 2 THEN Nul
                        ELSE IF m - 1 \in cuts THEN Len(Pieces(name, Dot)[Rank(cuts, m - 1) + 1])
                        ELSE name[m - 1]
             read == SubSeq(names, o + 1, o + n)
             wire == WireForm(name)
  <2>1. wire = [m \in 1..n |-> item(m)]
    <3>1. Len(name) + 2 = n
      BY <1>1, <1>4
    <3> QED
      BY <3>1 DEF WireForm, cuts
  <2>2. read \in Seq(0..255) /\ Len(read) = n /\ \A m \in 1..n : read[m] = names[o + m]
    <3> HIDE DEF n
    <3>1. \A u, v \in Nat : u + v <= Len(names) =>
            /\ SubSeq(names, u + 1, u + v) \in Seq(0..255) /\ Len(SubSeq(names, u + 1, u + v)) = v
            /\ \A m \in 1..v : SubSeq(names, u + 1, u + v)[m] = names[u + m]
      BY <1>3, SliceItems
    <3>2. o + n <= Len(names) /\ o \in Nat /\ n \in Nat
      BY <1>2, <1>3
    <3> QED
      BY <3>1, <3>2
  <2>3. ASSUME NEW m \in 1..n PROVE names[o + m] = item(m)
    <3>1. CASE m = n
      <4>1. m = Len(name) + 2
        BY <1>1, <1>4, <3>1
      <4> QED
        BY <1>8, <3>1, <4>1
    <3>2. CASE m # n
      <4>1. m - 1 \in 0..(b - a - 1) /\ (m - 1) + 1 = m /\ m # Len(name) + 2
        BY <1>1, <1>4, <3>2
      <4> QED
        BY <1>7, <4>1
    <3> QED
      BY <3>1, <3>2
  <2> HIDE DEF item, read, wire, n
  <2>4. DOMAIN read = 1..n /\ read = [m \in DOMAIN read |-> read[m]]
    BY <2>2, LenProperties
  <2>5. read = wire
    BY <2>1, <2>2, <2>3, <2>4
  <2> QED
    BY <2>5 DEF read, wire
<1> QED
  BY <1>10, <1>11, <1>12 DEF o, r, name

\* A set of natural numbers has a least one.
LEMMA Least ==
  ASSUME NEW T \in SUBSET Nat, T # {}
  PROVE  \E x \in T : \A y \in T : x <= y
<1> DEFINE R == OpToRel(<, Nat)
<1>1. PICK x \in T : \A y \in T : ~(<<y, x>> \in R)
  BY NatLessThanWellFounded, WFMin
<1>2. \A y \in T : <<y, x>> \in R <=> y < x
  BY DEF OpToRel
<1> HIDE DEF R
<1>3. \A y \in T : ~(y < x)
  BY <1>1, <1>2
<1>4. \A y \in T : y \in Int
  OBVIOUS
<1> QED
  BY <1>3, <1>4

\* A remainder grows by one, or starts again at zero.
LEMMA NextRemainder ==
  ASSUME NEW c \in Nat \ {0}, NEW q \in Nat
  PROVE  /\ q % c \in 0..(c - 1)
         /\ (q + 1) % c = IF (q % c) + 1 < c THEN (q % c) + 1 ELSE 0
<1> DEFINE d == q \div c
           r == q % c
<1>1. q = (c * d) + r /\ r \in 0..(c - 1) /\ d \in Int
  BY SMT
<1>2. \A e \in Int, p \in 0..(c - 1) : ((c * e) + p) % c = p
  BY SMT
<1> HIDE DEF d, r
<1>3. CASE r + 1 < c
  <2>1. q + 1 = (c * d) + (r + 1) /\ r + 1 \in 0..(c - 1)
    BY <1>1, <1>3
  <2>2. (q + 1) % c = r + 1
    BY <1>1, <1>2, <2>1
  <2> QED
    BY <1>1, <1>3, <2>2 DEF r
<1>4. CASE r + 1 = c
  <2>1. q + 1 = (c * (d + 1)) + 0 /\ 0 \in 0..(c - 1) /\ d + 1 \in Int
    BY <1>1, <1>4
  <2>2. (q + 1) % c = 0
    BY <1>2, <2>1
  <2>3. ~(r + 1 < c)
    BY <1>1, <1>4
  <2> QED
    BY <1>1, <2>2, <2>3 DEF r
<1> QED
  BY <1>1, <1>3, <1>4

\* Where the name of line m + 1 starts.
NameStart(m) == Nth(LineCuts, m) + m

\* The names stand one behind the other, the zero byte after the last.
LEMMA NamesInRow ==
  ASSUME TypeOK, WellBefore(Len(text) + 1), ~HasBlankLine, NEW c \in LineCuts, NamesComplete(c)
  PROVE  /\ count \in Nat /\ Len(FileNames) = count /\ (count > 0 => NameStart(0) = 0)
         /\ \A m \in 0..(count - 1) :
              /\ NameStart(m) \in Nat /\ NameStart(m + 1) \in Nat
              /\ NameSize(NameStart(m)) = NameStart(m + 1) - NameStart(m)
              /\ names[NameStart(m) + 1] # Nul
              /\ SubSeq(names, NameStart(m) + 1, NameStart(m + 1)) = WireForm(FileNames[m + 1])
         /\ names[NameStart(count) + 1] = Nul
<1>1. /\ LineCuts \in SUBSET Nat /\ IsFiniteSet(LineCuts) /\ 0 \in LineCuts
      /\ \A d \in LineCuts : d \in Nat
  BY TextCutsType
<1>2. /\ count \in Nat /\ Len(FileNames) = count
      /\ \A m \in 0..(count - 1) : \E a, b \in LineCuts :
           /\ Adjacent(LineCuts, a, b) /\ Rank(LineCuts, a) = m /\ Rank(LineCuts, b) = m + 1
           /\ b <= c /\ b # a + 1 /\ FileNames[m + 1] = SubSeq(text, a + 1, b - 1)
  BY FileNamesByPlace
<1>3. \A d \in LineCuts : Nth(LineCuts, Rank(LineCuts, d)) = d
  BY <1>1, CutOfRank
<1>4. NameStart(0) = 0
  <2>1. Rank(LineCuts, 0) = 0
    <3>1. \A d \in LineCuts : ~(d < 0)
      BY <1>1
    <3>2. {d \in LineCuts : d < 0} = {}
      BY <3>1
    <3> QED
      BY <3>2, FS_EmptySet DEF Rank
  <2> QED
    BY <1>1, <1>3, <2>1 DEF NameStart
<1>5. names[NameStart(count) + 1] = Nul
  BY <1>3 DEF NamesComplete, NameStart
<1>6. ASSUME NEW m \in 0..(count - 1)
      PROVE  /\ NameStart(m) \in Nat /\ NameStart(m + 1) \in Nat
             /\ NameSize(NameStart(m)) = NameStart(m + 1) - NameStart(m)
             /\ names[NameStart(m) + 1] # Nul
             /\ SubSeq(names, NameStart(m) + 1, NameStart(m + 1)) = WireForm(FileNames[m + 1])
  <2>1. PICK a, b \in LineCuts :
          /\ Adjacent(LineCuts, a, b) /\ Rank(LineCuts, a) = m /\ Rank(LineCuts, b) = m + 1
          /\ b <= c /\ b # a + 1 /\ FileNames[m + 1] = SubSeq(text, a + 1, b - 1)
    BY <1>2
  <2>2. NameStart(m) = a + m /\ NameStart(m + 1) = b + (m + 1)
    BY <1>3, <2>1 DEF NameStart
  <2>3. a \in Nat /\ b \in Nat /\ c \in Nat /\ m \in Nat /\ m < count
    BY <1>1, <1>2
  <2>4. NameHeld(names, a, b)
    BY <2>1 DEF NamesComplete, NamesHeld
  <2>5. b + m + 1 < Len(names)
    <3>1. Len(names) = c + count + 1
      BY DEF NamesComplete
    <3> QED
      BY <1>2, <2>1, <2>3, <3>1
  <2>6. /\ NameSize(a + m) = b - a + 1 /\ names[a + m + 1] # Nul
        /\ SubSeq(names, a + m + 1, a + m + (b - a + 1)) = WireForm(SubSeq(text, a + 1, b - 1))
    BY <2>1, <2>4, <2>5, NameRead
  <2>7. a + m + (b - a + 1) = b + (m + 1) /\ b - a + 1 = (b + (m + 1)) - (a + m)
        /\ a + m \in Nat /\ b + (m + 1) \in Nat
    BY <2>3
  <2> QED
    BY <2>1, <2>2, <2>6, <2>7
<1> QED
  BY <1>2, <1>4, <1>5, <1>6

\* Query k is at the name of line k % count + 1: the walk starts again where it
\* meets the zero byte after the last name.
LEMMA WalkOffset ==
  ASSUME TypeOK, WellBefore(Len(text) + 1), ~HasBlankLine, NEW c \in LineCuts, NamesComplete(c),
         count > 0, NEW k \in Nat
  PROVE  NameOffset(k) = NameStart(k % count)
<1> DEFINE After(o) == LET next == o + NameSize(o) IN IF names[next + 1] = Nul THEN 0 ELSE next
           Step(f) == [q \in 0..k |-> IF q = 0 THEN 0 ELSE After(f[q - 1])]
           walk == [q \in 0..k |-> NameStart(q % count)]
<1>1. /\ count \in Nat \ {0} /\ NameStart(0) = 0 /\ names[NameStart(count) + 1] = Nul
      /\ \A m \in 0..(count - 1) :
           /\ NameStart(m) \in Nat /\ NameStart(m + 1) \in Nat
           /\ NameSize(NameStart(m)) = NameStart(m + 1) - NameStart(m)
           /\ names[NameStart(m) + 1] # Nul
  <2>1. /\ count \in Nat /\ (count > 0 => NameStart(0) = 0) /\ names[NameStart(count) + 1] = Nul
        /\ \A m \in 0..(count - 1) :
             /\ NameStart(m) \in Nat /\ NameStart(m + 1) \in Nat
             /\ NameSize(NameStart(m)) = NameStart(m + 1) - NameStart(m)
             /\ names[NameStart(m) + 1] # Nul
    BY NamesInRow
  <2> QED
    BY <2>1
<1>2. ASSUME NEW m \in 0..(count - 1)
      PROVE  After(NameStart(m)) = NameStart(IF m + 1 < count THEN m + 1 ELSE 0)
  <2>1. NameStart(m) + NameSize(NameStart(m)) = NameStart(m + 1)
    <3>1. NameStart(m) \in Nat /\ NameStart(m + 1) \in Nat
          /\ NameSize(NameStart(m)) = NameStart(m + 1) - NameStart(m)
      BY <1>1
    <3> QED
      BY <3>1
  <2>2. CASE m + 1 < count
    <3>1. m + 1 \in 0..(count - 1)
      BY <1>1, <2>2
    <3> QED
      BY <1>1, <2>1, <2>2, <3>1
  <2>3. CASE m + 1 = count
    <3>1. ~(m + 1 < count)
      BY <1>1, <2>3
    <3> QED
      BY <1>1, <2>1, <2>3, <3>1
  <2> QED
    BY <1>1, <2>2, <2>3
<1> HIDE DEF After
<1>3. ASSUME NEW q \in 1..k
      PROVE  After(NameStart((q - 1) % count)) = NameStart(q % count)
  <2>1. q - 1 \in Nat /\ (q - 1) + 1 = q
    OBVIOUS
  <2>2. /\ (q - 1) % count \in 0..(count - 1)
        /\ ((q - 1) + 1) % count = IF ((q - 1) % count) + 1 < count THEN ((q - 1) % count) + 1 ELSE 0
    BY <1>1, <2>1, NextRemainder
  <2>3. q % count = IF ((q - 1) % count) + 1 < count THEN ((q - 1) % count) + 1 ELSE 0
    BY <2>1, <2>2
  <2> QED
    BY <1>2, <2>2, <2>3
<1>4. 0 % count = 0
  BY <1>1
<1>5. walk = Step(walk)
  <2>1. \A q \in 0..k : q # 0 => q - 1 \in 0..k /\ q \in 1..k
    OBVIOUS
  <2>2. \A q \in 0..k : walk[q] = IF q = 0 THEN 0 ELSE After(walk[q - 1])
    BY <1>1, <1>3, <1>4, <2>1
  <2> QED
    BY <2>2
<1>6. ASSUME NEW f, f = Step(f)
      PROVE  \A q \in 0..k : f[q] = walk[q]
  <2> DEFINE T == {q \in 0..k : f[q] # walk[q]}
  <2>1. SUFFICES ASSUME T # {} PROVE FALSE
    BY <2>1
  <2>2. PICK q \in T : \A p \in T : q <= p
    <3>1. T \in SUBSET Nat
      OBVIOUS
    <3> HIDE DEF T
    <3> QED
      BY <2>1, <3>1, Least
  <2>3. f[0] = 0 /\ walk[0] = 0
    <3>1. 0 \in 0..k
      OBVIOUS
    <3> QED
      BY <1>5, <1>6, <3>1
  <2>4. q # 0
    BY <2>3
  <2>5. q \in 0..k /\ q - 1 \in 0..k /\ ~(q <= q - 1)
    BY <2>4
  <2>6. f[q - 1] = walk[q - 1]
    BY <2>2, <2>5
  <2>7. f[q] = After(f[q - 1]) /\ walk[q] = After(walk[q - 1])
    <3>1. f[q] = Step(f)[q] /\ walk[q] = Step(walk)[q]
      BY <1>5, <1>6
    <3> HIDE DEF walk
    <3>2. Step(f)[q] = After(f[q - 1]) /\ Step(walk)[q] = After(walk[q - 1])
      BY <2>4, <2>5
    <3> QED
      BY <3>1, <3>2
  <2> QED
    BY <2>6, <2>7
<1>7. NameOffset(k) = (CHOOSE f : f = Step(f))[k]
  BY DEF NameOffset, After
<1> HIDE DEF Step
<1>8. (CHOOSE f : f = Step(f)) = Step(CHOOSE f : f = Step(f))
  BY <1>5
<1>9. k \in 0..k
  OBVIOUS
<1>10. (CHOOSE f : f = Step(f))[k] = walk[k]
  BY <1>6, <1>8, <1>9
<1>11. walk[k] = NameStart(k % count)
  BY <1>9
<1> QED
  BY <1>7, <1>10, <1>11

\* Query k asks for the domain on line k, however often the file has been gone through.
EveryQuery ==
  result = "ok" /\ ~HasBlankLine /\ count > 0 =>
    \A k \in Nat : QueryName(k) = WireForm(FileNames[(k % count) + 1])

\* What has been kept is what make_queries asks for.
LEMMA KeptIsRead ==
  ASSUME TypeOK, ScanInv, NamesKept
  PROVE  NamesRead /\ EveryQuery
<1> SUFFICES ASSUME result = "ok", ~HasBlankLine
             PROVE  /\ count = Len(FileNames)
                    /\ count > 0 => \A k \in Nat : QueryName(k) = WireForm(FileNames[(k % count) + 1])
  <2>1. count \in Nat => \A k \in 0..(2 * count) : k \in Nat
    OBVIOUS
  <2>2. count \in Nat
    BY DEF TypeOK
  <2> QED
    BY <2>1, <2>2 DEF NamesRead, QueriesFollowFile, EveryQuery
<1>1. PICK c \in LineCuts : NamesComplete(c)
  BY DEF NamesKept
<1>2. WellBefore(Len(text) + 1)
  BY DEF ScanInv
<1>3. /\ count \in Nat /\ Len(FileNames) = count
      /\ \A m \in 0..(count - 1) :
           /\ NameStart(m) \in Nat /\ NameStart(m + 1) \in Nat
           /\ NameSize(NameStart(m)) = NameStart(m + 1) - NameStart(m)
           /\ SubSeq(names, NameStart(m) + 1, NameStart(m + 1)) = WireForm(FileNames[m + 1])
  BY <1>1, <1>2, NamesInRow
<1>4. ASSUME count > 0, NEW k \in Nat
      PROVE  QueryName(k) = WireForm(FileNames[(k % count) + 1])
  <2> DEFINE m == k % count
  <2>1. k \in Nat /\ count \in Nat \ {0}
    BY <1>3, <1>4
  <2>2. m \in 0..(count - 1)
    BY <2>1, NextRemainder
  <2>3. NameOffset(k) = NameStart(m)
    BY <1>1, <1>2, <1>4, <2>1, WalkOffset
  <2> HIDE DEF m
  <2>4. NameStart(m) + NameSize(NameStart(m)) = NameStart(m + 1)
    <3>1. NameStart(m) \in Nat /\ NameStart(m + 1) \in Nat
          /\ NameSize(NameStart(m)) = NameStart(m + 1) - NameStart(m)
      BY <1>3, <2>2
    <3> QED
      BY <3>1
  <2>5. QueryName(k) = SubSeq(names, NameStart(m) + 1, NameStart(m + 1))
    BY <2>3, <2>4 DEF QueryName
  <2>6. QueryName(k) = WireForm(FileNames[m + 1])
    BY <1>3, <2>2, <2>5
  <2> QED
    BY <2>6 DEF m
<1> QED
  BY <1>3, <1>4

\* At every moment of the scan, *domains holds the names of the lines before this one
\* and the finished labels of this one, each byte at the place its line and its offset
\* give it (main.c:456-540).
THEOREM NamesStored == Spec => []NamesKept
<1>1. IInv /\ ScanInv /\ [Next]_vars => ScanInv'
  BY LetterScans, EndLabelScans, LineScans, EndScans, RejectScans, LoadScans DEF Next
<1> QED
  BY <1>1, ScanBegins, CopiesFromPlace, NothingHeld, NamesMove, Invariant, PTL DEF Spec

\* README.md:32, main.c:53-119: once the file has been accepted, query k asks for the
\* name of its line, in wire form, and the file is gone through again and again, for
\* every file in which no blank line precedes a name.
THEOREM NamesAreRead == Spec => []NamesRead
<1>1. IInv /\ ScanInv /\ [Next]_vars => ScanInv'
  BY LetterScans, EndLabelScans, LineScans, EndScans, RejectScans, LoadScans DEF Next
<1>2. IInv => TypeOK
  BY DEF IInv
<1>3. TypeOK /\ ScanInv /\ NamesKept => NamesRead
  BY KeptIsRead
<1> QED
  BY <1>1, <1>2, <1>3, ScanBegins, NamesStored, Invariant, PTL DEF Spec

\* The same of every later query too, not only of the first two rounds a run looks at.
THEOREM QueriesGoRound == Spec => []EveryQuery
<1>1. IInv /\ ScanInv /\ [Next]_vars => ScanInv'
  BY LetterScans, EndLabelScans, LineScans, EndScans, RejectScans, LoadScans DEF Next
<1>2. IInv => TypeOK
  BY DEF IInv
<1>3. TypeOK /\ ScanInv /\ NamesKept => EveryQuery
  BY KeptIsRead
<1> QED
  BY <1>1, <1>2, <1>3, ScanBegins, NamesStored, Invariant, PTL DEF Spec
=============================================================================
