------------------------- MODULE MessageQueueProofs -------------------------
(***************************************************************************)
(* Proofs about the reply queue, for every buffer size, every set of       *)
(* messages, every size a message may have and every initial content of    *)
(* the buffer.                                                             *)
(***************************************************************************)
EXTENDS MessageQueue, SequenceTheorems, FiniteSetTheorems, TLAPS

\* The records take at least their flag byte.
LEMMA RecordSizeType == \A m \in Message : RecordSize[m] \in Nat /\ RecordSize[m] >= 1
BY RecordSizeAssumption DEF Cell

\* What TypeOK says of a queued record.
LEMMA RecordType ==
  ASSUME TypeOK, NEW i \in 1..Len(log)
  PROVE  /\ log[i].at \in Int /\ 0 <= log[i].at /\ log[i].at < Size
         /\ log[i].msg \in Message
         /\ End(log[i]) \in Int
         /\ log[i].at + 1 <= End(log[i])
         /\ End(log[i]) = log[i].at + RecordSize[log[i].msg]
<1>1. log[i] \in [at : Addr, msg : Message]
  BY ElementOfSeq DEF TypeOK
<1>2. log[i].at \in Addr /\ log[i].msg \in Message
  BY <1>1
<1>3. RecordSize[log[i].msg] \in Nat /\ RecordSize[log[i].msg] >= 1
  BY <1>2, RecordSizeType
<1> QED
  BY <1>2, <1>3, SizeAssumption DEF Addr, End

\* The invariant puts the head at the oldest record, or at the wrap flag that
\* leads to it: get_message finds that record and no other.
LEMMA OldestRecordRead == IInv => ReadsOldestRecord
<1> SUFFICES ASSUME IInv, log # << >> PROVE ReadFrom(head) = log[1].at /\ HeadMessage = log[1].msg
  BY DEF ReadsOldestRecord
<1>1. 1 \in 1..Len(log)
  BY DEF IInv, TypeOK
<1>2. mem[log[1].at] = log[1].msg /\ log[1].msg \in Message
  BY <1>1, RecordType DEF IInv, RecordsIntact
<1>3. log[1].msg # Wrap
  BY <1>2, FlagAssumption
<1>4. Link(head, log[1].at)
  BY DEF IInv, Chain
<1> QED
  BY <1>2, <1>3, <1>4 DEF Link, ReadFrom, HeadMessage

LEMMA InitInvariant == Init => IInv
<1> SUFFICES ASSUME Init PROVE IInv
  OBVIOUS
<1>1. Len(log) = 0 /\ 1..Len(log) = {}
  BY DEF Init
<1>2. TypeOK
  BY SizeAssumption, GarbageAssumption DEF Init, TypeOK, Addr
<1> QED
  BY <1>1, <1>2 DEF Init, IInv, EmptyWhenDrained, IsEmpty, Chain, Regions, Ordered, RecordsIntact
-----------------------------------------------------------------------------
(* What each step does to the bytes of the records already queued.         *)

\* Behind the tail, up to its limit, there is no byte of a queued record.
LEMMA FreeBehindTail ==
  ASSUME IInv, NEW i \in 1..Len(log)
  PROVE  End(log[i]) <= tail \/ TailLimit <= log[i].at
BY RecordType, SizeAssumption DEF IInv, TypeOK, Addr, Regions, High, Low, TailLimit

\* The bytes of a record are an interval of the buffer.
LEMMA BytesBetween ==
  ASSUME TypeOK, NEW i \in 1..Len(log), NEW a \in Bytes(log[i])
  PROVE  a \in Int /\ log[i].at <= a /\ a < End(log[i])
<1>1. log[i].at \in Int /\ RecordSize[log[i].msg] \in Int
  BY RecordType, RecordSizeType
<1> QED
  BY <1>1, RecordType DEF Bytes

\* WriteRecord writes its own bytes only.
LEMMA WriteRecordFrame ==
  ASSUME NEW cells, NEW m \in Message, NEW at \in Addr, NEW a \in Addr,
         a < at \/ a >= at + RecordSize[m]
  PROVE  WriteRecord(cells, at, m)[a] = cells[a]
BY RecordSizeType, SizeAssumption DEF WriteRecord, Addr

\* WriteRecord leaves one intact record.
LEMMA WriteRecordBytes ==
  ASSUME NEW cells, NEW m \in Message, NEW at \in Addr, at + RecordSize[m] <= Size
  PROVE  /\ WriteRecord(cells, at, m)[at] = m
         /\ \A a \in at..(at + RecordSize[m] - 1) \ {at} : WriteRecord(cells, at, m)[a] = Body
<1> DEFINE w == WriteRecord(cells, at, m)
<1>1. at..(at + RecordSize[m] - 1) \subseteq Addr
  BY RecordSizeType, SizeAssumption DEF Addr
<1>2. \A a \in Addr : w[a] = IF a = at THEN m
                             ELSE IF a \in (at + 1)..(at + RecordSize[m] - 1) THEN Body
                             ELSE cells[a]
  BY DEF WriteRecord
<1>3. \A a \in at..(at + RecordSize[m] - 1) : a # at => a \in (at + 1)..(at + RecordSize[m] - 1)
  BY RecordSizeType, SizeAssumption DEF Addr
<1> QED
  BY <1>1, <1>2, <1>3

LEMMA WriteRecordType ==
  ASSUME NEW cells \in [Addr -> Cell], NEW m \in Message, NEW at \in Addr
  PROVE  WriteRecord(cells, at, m) \in [Addr -> Cell]
BY DEF WriteRecord, Cell

\* What accepting a message does to the pointers and to the history.
LEMMA AcceptEffect ==
  ASSUME TypeOK, NEW m \in Message, NEW at \in Addr, at + RecordSize[m] < Size,
         Accept(m, at), mem' \in [Addr -> Cell]
  PROVE  /\ TypeOK'
         /\ head' = head /\ tail' = at + RecordSize[m]
         /\ log' # << >>
         /\ Len(log') = Len(log) + 1
         /\ \A i \in 1..Len(log) : log'[i] = log[i]
         /\ log'[Len(log) + 1] = [at |-> at, msg |-> m]
<1> DEFINE r == [at |-> at, msg |-> m]
<1>1. r \in [at : Addr, msg : Message] /\ log \in Seq([at : Addr, msg : Message])
  BY DEF TypeOK
<1>2. log' = Append(log, r) /\ head' = head /\ out' = out /\ tail' = at + RecordSize[m]
  BY DEF Accept
<1>3. tail' \in Addr
  BY <1>2, RecordSizeType, SizeAssumption DEF Addr
<1> HIDE DEF r
<1>4. /\ log' \in Seq([at : Addr, msg : Message]) /\ log' # << >> /\ Len(log') = Len(log) + 1
      /\ \A i \in 1..Len(log) : log'[i] = log[i]
      /\ log'[Len(log) + 1] = r
  BY <1>1, <1>2, AppendProperties
<1>5. TypeOK'
  BY <1>2, <1>3, <1>4 DEF TypeOK
<1> QED
  BY <1>2, <1>4, <1>5 DEF r

\* Writing a record clear of all queued records leaves every record intact.
LEMMA PushKeepsRecords ==
  ASSUME IInv, NEW m \in Message, NEW at \in Addr, at + RecordSize[m] < Size,
         Accept(m, at), mem' \in [Addr -> Cell],
         \A i \in 1..Len(log) : \A a \in Bytes(log[i]) : mem'[a] = mem[a],
         mem'[at] = m,
         \A a \in at..(at + RecordSize[m] - 1) \ {at} : mem'[a] = Body,
         \A i \in 1..Len(log) : End(log[i]) <= at \/ at + RecordSize[m] <= log[i].at
  PROVE  RecordsIntact'
<1> DEFINE n == Len(log)
           r == [at |-> at, msg |-> m]
<1>1. TypeOK /\ n \in Nat
  BY LenProperties DEF IInv, TypeOK
<1>2. /\ TypeOK' /\ Len(log') = n + 1
      /\ \A i \in 1..n : log'[i] = log[i]
      /\ log'[n + 1] = r
  BY <1>1, AcceptEffect
<1>3. /\ Bytes(r) = at..(at + RecordSize[m] - 1)
      /\ Bytes(r) \subseteq Addr
      /\ mem'[r.at] = r.msg
      /\ \A a \in Bytes(r) \ {r.at} : mem'[a] = Body
  BY RecordSizeType, SizeAssumption DEF Bytes, Addr
<1>4. ASSUME NEW i \in 1..n
      PROVE  /\ Bytes(log[i]) \subseteq Addr
             /\ mem'[log[i].at] = log[i].msg
             /\ \A a \in Bytes(log[i]) \ {log[i].at} : mem'[a] = Body
             /\ Bytes(log[i]) \cap Bytes(r) = {}
  <2>1. /\ Bytes(log[i]) \subseteq Addr
        /\ mem[log[i].at] = log[i].msg
        /\ \A a \in Bytes(log[i]) \ {log[i].at} : mem[a] = Body
    BY DEF IInv, RecordsIntact
  <2>2. log[i].at \in Bytes(log[i])
    BY <1>1, RecordType, RecordSizeType DEF Bytes
  <2>3. \A a \in Bytes(log[i]) : a \notin at..(at + RecordSize[m] - 1)
    <3> SUFFICES ASSUME NEW a \in Bytes(log[i]) PROVE ~(at <= a /\ a <= at + RecordSize[m] - 1)
      BY RecordSizeType, SizeAssumption DEF Addr
    <3>1. a \in Int /\ log[i].at <= a /\ a < End(log[i])
      BY <1>1, BytesBetween
    <3>2. log[i].at \in Int /\ End(log[i]) \in Int /\ at \in Int /\ RecordSize[m] \in Int
      BY <1>1, RecordType, RecordSizeType, SizeAssumption DEF Addr
    <3>3. End(log[i]) <= at \/ at + RecordSize[m] <= log[i].at
      OBVIOUS
    <3> QED
      BY <3>1, <3>2, <3>3
  <2> QED
    BY <1>3, <2>1, <2>2, <2>3
<1>5. \A i, j \in 1..n : i # j => Bytes(log[i]) \cap Bytes(log[j]) = {}
  BY DEF IInv, RecordsIntact
<1>6. ASSUME NEW i \in 1..(n + 1)
      PROVE  (i \in 1..n /\ log'[i] = log[i]) \/ (i = n + 1 /\ log'[i] = r)
  BY <1>1, <1>2
<1> HIDE DEF n, r
<1>7. ASSUME NEW i \in 1..(n + 1)
      PROVE  /\ Bytes(log'[i]) \subseteq Addr
             /\ mem'[log'[i].at] = log'[i].msg
             /\ \A a \in Bytes(log'[i]) \ {log'[i].at} : mem'[a] = Body
             /\ \A j \in 1..(n + 1) : i # j => Bytes(log'[i]) \cap Bytes(log'[j]) = {}
  BY <1>3, <1>4, <1>5, <1>6
<1> QED
  BY <1>2, <1>7 DEF RecordsIntact, Bytes
-----------------------------------------------------------------------------
LEMMA PushAtTailInvariant ==
  ASSUME IInv, NEW m \in Message, PushAtTail(m)
  PROVE  IInv'
<1>0. PICK n \in Nat : n = Len(log)
  BY LenProperties DEF IInv, TypeOK
<1>1. TypeOK /\ n = Len(log) /\ head \in Int /\ tail \in Addr /\ tail \in Int /\ Size \in Int
  BY <1>0, SizeAssumption DEF IInv, TypeOK, Addr
<1>2. RecordSize[m] \in Int /\ RecordSize[m] >= 1
  BY RecordSizeType
<1>3. TailLimit \in Int /\ TailLimit <= Size /\ tail + RecordSize[m] < TailLimit
  BY <1>1, SizeAssumption DEF PushAtTail, FitsAtTail, Fits, TailLimit, IInv, TypeOK, Addr
<1>4. mem' = WriteRecord(mem, tail, m) /\ mem' \in [Addr -> Cell] /\ Accept(m, tail)
  BY <1>1, WriteRecordType DEF PushAtTail, TypeOK
<1>5. /\ TypeOK' /\ head' = head /\ tail' = tail + RecordSize[m]
      /\ log' # << >> /\ Len(log') = n + 1
      /\ \A i \in 1..n : log'[i] = log[i]
      /\ log'[n + 1] = [at |-> tail, msg |-> m]
  BY <1>1, <1>2, <1>3, <1>4, AcceptEffect
<1>6. \A i \in 1..n : /\ log[i].at \in Int /\ 0 <= log[i].at
                      /\ End(log[i]) \in Int /\ log[i].at + 1 <= End(log[i])
                      /\ End(log[i]) <= tail \/ TailLimit <= log[i].at
  BY <1>1, RecordType, FreeBehindTail
<1>7. ASSUME NEW i \in 1..n, NEW a \in Bytes(log[i])
      PROVE  mem'[a] = mem[a]
  <2>1. a \in Addr /\ a \in Int /\ log[i].at <= a /\ a < End(log[i])
    BY <1>1, <1>7, BytesBetween DEF IInv, RecordsIntact
  <2>2. /\ log[i].at \in Int /\ End(log[i]) \in Int
        /\ End(log[i]) <= tail \/ TailLimit <= log[i].at
    BY <1>6, <1>7
  <2>3. a < tail \/ a >= tail + RecordSize[m]
    BY <2>1, <2>2, <1>1, <1>2, <1>3
  <2> QED
    BY <2>1, <2>3, <1>1, <1>4, WriteRecordFrame
<1>8. RecordsIntact'
  <2>1. /\ mem'[tail] = m
        /\ \A a \in tail..(tail + RecordSize[m] - 1) \ {tail} : mem'[a] = Body
    BY <1>1, <1>2, <1>3, <1>4, WriteRecordBytes
  <2>2. \A i \in 1..n : End(log[i]) <= tail \/ tail + RecordSize[m] <= log[i].at
    BY <1>1, <1>2, <1>3, <1>6
  <2> QED
    BY <1>1, <1>2, <1>3, <1>4, <1>7, <2>1, <2>2, PushKeepsRecords
<1>9. EmptyWhenDrained'
  BY <1>1, <1>2, <1>3, <1>5 DEF EmptyWhenDrained, IsEmpty, TailLimit
<1>10. End(log[n + 1])' = tail'
  BY <1>5 DEF End
<1>11. \A i \in 1..n : End(log[i])' = End(log[i]) /\ End(log[i]) \in Addr
  <2>1. \A i \in 1..n : End(log[i])' = End(log[i])
    BY <1>5 DEF End
  <2>2. \A i \in 1..n : End(log[i]) < Size
    BY <1>1, <1>6, SizeAssumption DEF IInv, Regions, High, Low, Addr
  <2> QED
    BY <1>1, <1>6, <2>1, <2>2 DEF Addr
<1>12. \A i \in 1..n : /\ High(log[i])' <=> High(log[i])
                       /\ Low(log[i])' <=> (End(log[i]) <= tail')
  BY <1>5, <1>11 DEF High, Low, End
<1>13. n = 0 <=> log = << >>
  BY <1>1 DEF TypeOK
<1>14. tail < head => tail' < head
  BY <1>3, <1>5 DEF TailLimit
<1>15. Chain'
  <2>1. ASSUME NEW p \in Addr, NEW at, Link(p, at) PROVE Link(p, at)'
    <3>1. CASE at = p
      BY <3>1 DEF Link
    <3>2. CASE tail < head /\ p >= head /\ mem[p] = Wrap /\ at = 0
      <4>1. p \in Int /\ p >= tail + RecordSize[m]
        BY <2>1, <3>2, <1>1, <1>2, <1>5, <1>14 DEF Addr
      <4>2. mem'[p] = mem[p]
        BY <2>1, <4>1, <1>1, <1>4, WriteRecordFrame
      <4> QED
        BY <3>2, <4>2, <1>5, <1>14 DEF Link
    <3> QED
      BY <2>1, <3>1, <3>2 DEF Link
  <2>2. CASE n = 0
    <3>1. head = tail
      BY <2>2, <1>13 DEF IInv, EmptyWhenDrained, IsEmpty
    <3>2. Link(head, log[1].at)' /\ End(log[Len(log)])' = tail'
      BY <2>2, <3>1, <1>5, <1>10 DEF Link, End
    <3> QED
      BY <2>2, <3>2, <1>5 DEF Chain
  <2>3. CASE n > 0
    <3>1. /\ Link(head, log[1].at) /\ End(log[n]) = tail
          /\ \A i \in 1..(n - 1) : Link(End(log[i]), log[i + 1].at)
      BY <2>3, <1>1, <1>13 DEF IInv, Chain
    <3>2. Link(head, log[1].at)'
      BY <2>1, <2>3, <3>1, <1>1, <1>5 DEF IInv, TypeOK
    <3>3. ASSUME NEW i \in 1..n
          PROVE  Link(End(log[i]), log[i + 1].at)'
      <4>1. CASE i = n
        BY <4>1, <3>1, <1>5 DEF Link
      <4>2. CASE i # n
        <5>1. i \in 1..(n - 1) /\ i + 1 \in 1..n
          BY <3>3, <4>2, <1>1
        <5> QED
          BY <5>1, <2>1, <3>1, <1>5, <1>11
      <4> QED
        BY <4>1, <4>2
    <3> QED
      BY <3>2, <3>3, <1>1, <1>5, <1>10 DEF Chain, Link, End
  <2> QED
    BY <2>2, <2>3, <1>1
<1>16. High(log[n + 1])' <=> (head <= tail)
  BY <1>1, <1>3, <1>5, <1>10 DEF High, End
<1>17. Low(log[n + 1])'
  BY <1>1, <1>2, <1>5, <1>10 DEF Low, End
<1>18. Regions'
  <2> SUFFICES ASSUME NEW i \in 1..(n + 1)
               PROVE  IF tail' < head THEN High(log[i])' \/ Low(log[i])'
                                      ELSE High(log[i])' /\ Low(log[i])'
    BY <1>5 DEF Regions, High, Low, End
  <2>1. CASE i = n + 1
    BY <2>1, <1>1, <1>2, <1>5, <1>14, <1>16, <1>17
  <2>2. CASE i \in 1..n
    BY <2>2, <1>1, <1>2, <1>5, <1>6, <1>12, <1>14 DEF IInv, Regions, Low
  <2> QED
    BY <2>1, <2>2, <1>1
<1>19. Ordered'
  <2> SUFFICES ASSUME NEW i \in 1..(n + 1), NEW j \in 1..(n + 1), i < j
               PROVE  \/ End(log[i])' <= log'[j].at /\ (Low(log[i])' => Low(log[j])')
                      \/ tail' < head /\ High(log[i])' /\ Low(log[j])'
    BY <1>5 DEF Ordered, High, Low, End
  <2>1. i \in 1..n /\ (j \in 1..n \/ j = n + 1)
    BY <1>1
  <2>2. CASE j = n + 1
    BY <2>1, <2>2, <1>1, <1>3, <1>5, <1>6, <1>11, <1>12, <1>14, <1>17
       DEF IInv, Regions, High, Low, TailLimit
  <2>3. CASE j \in 1..n
    BY <2>1, <2>3, <1>1, <1>2, <1>3, <1>5, <1>6, <1>11, <1>12, <1>14, SMTT(30)
       DEF IInv, Regions, Ordered, High, Low, TailLimit
  <2> QED
    BY <2>1, <2>2, <2>3
<1> QED
  BY <1>5, <1>8, <1>9, <1>15, <1>18, <1>19 DEF IInv
-----------------------------------------------------------------------------
\* Setting the wrap flag at the tail of an unwrapped buffer.
LEMMA WrapFlagFrame ==
  ASSUME IInv, MayWrap, NEW i \in 1..Len(log), NEW a \in Bytes(log[i])
  PROVE  [mem EXCEPT ![tail] = Wrap][a] = mem[a]
<1>1. TypeOK /\ a \in Addr /\ a \in Int /\ a < End(log[i])
  BY BytesBetween DEF IInv, RecordsIntact, Addr
<1>2. End(log[i]) <= tail /\ tail \in Int /\ End(log[i]) \in Int
  BY <1>1, RecordType, SizeAssumption DEF IInv, Regions, Low, MayWrap, TypeOK, Addr
<1> QED
  BY <1>1, <1>2 DEF TypeOK

LEMMA PushWrappedInvariant ==
  ASSUME IInv, NEW m \in Message, PushWrapped(m)
  PROVE  IInv'
<1>0. PICK n \in Nat : n = Len(log)
  BY LenProperties DEF IInv, TypeOK
<1>1. /\ TypeOK /\ n = Len(log) /\ Size \in Int /\ 0 \in Addr
      /\ head \in Int /\ tail \in Addr /\ tail \in Int /\ tail < Size
  BY <1>0, SizeAssumption DEF IInv, TypeOK, Addr
<1>2. RecordSize[m] \in Int /\ RecordSize[m] >= 1
  BY RecordSizeType
<1>3. tail >= head /\ RecordSize[m] < head /\ RecordSize[m] < Size
  BY <1>1, <1>2 DEF PushWrapped, MayWrap, Fits
<1> DEFINE cells == [mem EXCEPT ![tail] = Wrap]
<1>4. cells \in [Addr -> Cell]
  BY <1>1 DEF TypeOK, Cell
<1>5. mem' = WriteRecord(cells, 0, m) /\ mem' \in [Addr -> Cell] /\ Accept(m, 0)
  BY <1>1, <1>4, WriteRecordType DEF PushWrapped
<1>6. /\ TypeOK' /\ head' = head /\ tail' = RecordSize[m]
      /\ log' # << >> /\ Len(log') = n + 1
      /\ \A i \in 1..n : log'[i] = log[i]
      /\ log'[n + 1] = [at |-> 0, msg |-> m]
  <2>1. 0 + RecordSize[m] < Size /\ 0 + RecordSize[m] = RecordSize[m]
    BY <1>2, <1>3
  <2> HIDE DEF cells
  <2> QED
    BY <1>1, <1>5, <2>1, AcceptEffect
<1>7. \A i \in 1..n : /\ log[i].at \in Int /\ End(log[i]) \in Int
                      /\ log[i].at + 1 <= End(log[i])
                      /\ head <= log[i].at /\ End(log[i]) <= tail
  BY <1>1, <1>3, RecordType DEF IInv, Regions, High, Low
<1>8. ASSUME NEW i \in 1..n, NEW a \in Bytes(log[i])
      PROVE  mem'[a] = mem[a]
  <2>1. a \in Addr /\ a \in Int /\ log[i].at <= a
    BY <1>1, <1>8, BytesBetween DEF IInv, RecordsIntact
  <2>2. a >= 0 + RecordSize[m]
    BY <1>1, <1>2, <1>3, <1>7, <1>8, <2>1
  <2>3. mem'[a] = cells[a]
    BY <1>1, <1>5, <2>1, <2>2, WriteRecordFrame, ZenonT(30)
  <2>4. cells[a] = mem[a]
    BY <1>1, <1>8, WrapFlagFrame DEF PushWrapped
  <2> QED
    BY <2>3, <2>4
<1>9. mem'[tail] = Wrap
  <2>1. tail >= 0 + RecordSize[m]
    BY <1>1, <1>2, <1>3
  <2>2. mem'[tail] = cells[tail]
    BY <1>1, <1>5, <2>1, WriteRecordFrame
  <2> QED
    BY <1>1, <2>2 DEF TypeOK
<1> HIDE DEF cells
<1>10. RecordsIntact'
  <2>1. /\ mem'[0] = m
        /\ \A a \in 0..(0 + RecordSize[m] - 1) \ {0} : mem'[a] = Body
    BY <1>1, <1>2, <1>3, <1>5, WriteRecordBytes
  <2>2. \A i \in 1..n : 0 + RecordSize[m] <= log[i].at
    BY <1>1, <1>2, <1>3, <1>7
  <2>3. 0 + RecordSize[m] < Size
    BY <1>2, <1>3
  <2> QED
    BY <1>1, <1>2, <1>5, <1>8, <2>1, <2>2, <2>3, PushKeepsRecords
<1>11. EmptyWhenDrained'
  BY <1>1, <1>2, <1>3, <1>6 DEF EmptyWhenDrained, IsEmpty
<1>12. End(log[n + 1])' = tail'
  BY <1>2, <1>6 DEF End
<1>13. \A i \in 1..n : End(log[i])' = End(log[i])
  BY <1>6 DEF End
<1>14. tail' < head' /\ tail' < tail
  BY <1>1, <1>2, <1>3, <1>6
<1>15. n = 0 <=> log = << >>
  BY <1>1 DEF TypeOK
<1>16. Chain'
  <2>1. CASE n = 0
    <3>1. head = tail
      BY <2>1, <1>15 DEF IInv, EmptyWhenDrained, IsEmpty
    <3>2. Link(head, log[1].at)'
      BY <2>1, <3>1, <1>1, <1>6, <1>9, <1>14 DEF Link
    <3> QED
      BY <2>1, <3>2, <1>6, <1>12 DEF Chain, Link, End
  <2>2. CASE n > 0
    <3>1. /\ Link(head, log[1].at) /\ End(log[n]) = tail
          /\ \A i \in 1..(n - 1) : Link(End(log[i]), log[i + 1].at)
      BY <2>2, <1>1, <1>15 DEF IInv, Chain
    <3>2. log[1].at = head /\ \A i \in 1..(n - 1) : log[i + 1].at = End(log[i])
      BY <3>1, <1>1, <1>3 DEF Link
    <3>3. Link(head, log[1].at)'
      BY <2>2, <3>2, <1>6 DEF Link
    <3>4. ASSUME NEW i \in 1..n
          PROVE  Link(End(log[i]), log[i + 1].at)'
      <4>1. CASE i = n
        BY <4>1, <3>1, <1>1, <1>3, <1>6, <1>9, <1>13, <1>14 DEF Link
      <4>2. CASE i # n
        <5>1. i \in 1..(n - 1) /\ i + 1 \in 1..n
          BY <3>4, <4>2, <1>1
        <5> QED
          BY <5>1, <3>2, <1>6, <1>13 DEF Link
      <4> QED
        BY <4>1, <4>2
    <3> QED
      BY <3>3, <3>4, <1>1, <1>6, <1>12 DEF Chain, Link, End
  <2> QED
    BY <2>1, <2>2, <1>1
<1>17. \A i \in 1..n : High(log[i])'
  BY <1>1, <1>6, <1>7, <1>13 DEF High
<1>18. Low(log[n + 1])'
  BY <1>2, <1>6, <1>12 DEF Low
<1>19. Regions'
  <2> SUFFICES ASSUME NEW i \in 1..(n + 1)
               PROVE  High(log[i])' \/ Low(log[i])'
    BY <1>6, <1>14 DEF Regions, High, Low, End
  <2> QED
    BY <1>1, <1>17, <1>18
<1>20. Ordered'
  <2> SUFFICES ASSUME NEW i \in 1..(n + 1), NEW j \in 1..(n + 1), i < j
               PROVE  \/ End(log[i])' <= log'[j].at /\ (Low(log[i])' => Low(log[j])')
                      \/ tail' < head' /\ High(log[i])' /\ Low(log[j])'
    BY <1>6 DEF Ordered, High, Low, End
  <2>1. i \in 1..n /\ (j \in 1..n \/ j = n + 1)
    BY <1>1
  <2>2. CASE j = n + 1
    BY <2>1, <2>2, <1>14, <1>17, <1>18
  <2>3. CASE j \in 1..n
    <3>1. End(log[i]) <= log[j].at
      BY <2>1, <2>3, <1>1, <1>3 DEF IInv, Ordered
    <3>2. ~Low(log[i])'
      BY <2>1, <1>1, <1>2, <1>6, <1>7, <1>13, <1>14, SMTT(30) DEF Low
    <3> QED
      BY <2>1, <2>3, <3>1, <3>2, <1>6, <1>13
  <2> QED
    BY <2>1, <2>2, <2>3
<1> QED
  BY <1>6, <1>10, <1>11, <1>16, <1>19, <1>20 DEF IInv

LEMMA PushRefusedInvariant ==
  ASSUME IInv, NEW m \in Message, PushRefused(m)
  PROVE  IInv'
<1>1. TypeOK /\ head' = head /\ tail' = tail /\ log' = log /\ out' = out
  BY DEF IInv, PushRefused
<1>2. CASE ~MayWrap
  BY <1>1, <1>2 DEF PushRefused, IInv, TypeOK, EmptyWhenDrained, IsEmpty, Chain, Link, Regions,
                    Ordered, High, Low, End, RecordsIntact, Bytes
<1>3. CASE MayWrap
  <2>1. mem' = [mem EXCEPT ![tail] = Wrap]
    BY <1>3 DEF PushRefused
  <2>2. TypeOK'
    BY <1>1, <2>1 DEF TypeOK, Cell
  <2>3. ~(tail < head)
    BY <1>1, <1>3, SizeAssumption DEF MayWrap, TypeOK, Addr
  <2>4. Chain'
    BY <1>1, <2>3 DEF IInv, Chain, Link, End
  <2>5. \A i \in 1..Len(log) : \A a \in Bytes(log[i]) : mem'[a] = mem[a]
    BY <1>3, <2>1, WrapFlagFrame
  <2>6. \A i \in 1..Len(log) : log[i].at \in Bytes(log[i])
    BY <1>1, RecordType, RecordSizeType DEF Bytes
  <2>7. RecordsIntact'
    BY <1>1, <2>5, <2>6 DEF IInv, RecordsIntact, Bytes
  <2> QED
    BY <1>1, <2>2, <2>4, <2>7 DEF IInv, EmptyWhenDrained, IsEmpty, Regions, Ordered, High, Low, End
<1> QED
  BY <1>2, <1>3
-----------------------------------------------------------------------------
LEMMA GetInvariant ==
  ASSUME IInv, Get
  PROVE  IInv'
<1>0. PICK n \in Nat : n = Len(log)
  BY LenProperties DEF IInv, TypeOK
<1>1. /\ TypeOK /\ n = Len(log) /\ Size \in Int
      /\ head \in Int /\ head >= 0 /\ tail \in Addr /\ tail \in Int /\ 0 <= tail /\ tail < Size
  BY <1>0, SizeAssumption DEF IInv, TypeOK, Addr
<1>2. log # << >> /\ n > 0
  BY <1>1, LenProperties DEF Get, IInv, EmptyWhenDrained, TypeOK
<1>3. /\ log' \in Seq([at : Addr, msg : Message])
      /\ Len(log') = n - 1
      /\ \A i \in 1..(n - 1) : log'[i] = log[i + 1]
  BY <1>1, <1>2, HeadTailProperties DEF Get, TypeOK
<1>4. mem' = mem /\ tail' = tail /\ out' = log[1].msg /\ head' = End(log[1])
  BY <1>2, OldestRecordRead DEF ReadsOldestRecord, Get, NewHead, End
<1>5. \A i \in 1..n : /\ log[i].at \in Int /\ 0 <= log[i].at /\ log[i].msg \in Message
                      /\ End(log[i]) \in Int /\ log[i].at + 1 <= End(log[i])
  BY <1>1, RecordType
<1>6. \A i \in 1..n : IF tail < head THEN High(log[i]) \/ Low(log[i])
                                     ELSE High(log[i]) /\ Low(log[i])
  BY <1>1 DEF IInv, Regions
<1>7. \A i, j \in 1..n :
        i < j => \/ End(log[i]) <= log[j].at /\ (Low(log[i]) => Low(log[j]))
                 \/ tail < head /\ High(log[i]) /\ Low(log[j])
  BY <1>1 DEF IInv, Ordered
<1>8. /\ Link(head, log[1].at) /\ End(log[n]) = tail
      /\ \A i \in 1..(n - 1) : Link(End(log[i]), log[i + 1].at)
  BY <1>1, <1>2 DEF IInv, Chain
<1>9. 1 \in 1..n /\ n \in 1..n /\ head' \in Int
  BY <1>2, <1>4, <1>5
<1>10. \A i \in 1..(n - 1) : i + 1 \in 1..n /\ End(log[i])' = End(log[i + 1])
  BY <1>3 DEF End
<1>11. TypeOK'
  <2>1. End(log[1]) < Size
    <3>1. High(log[1]) \/ Low(log[1])
      BY <1>6, <1>9
    <3>2. End(log[1]) \in Int
      BY <1>5, <1>9
    <3> QED
      BY <3>1, <3>2, <1>1 DEF High, Low
  <2>2. head' \in Addr
    BY <2>1, <1>1, <1>4, <1>5, <1>9 DEF Addr
  <2> QED
    BY <2>2, <1>1, <1>3, <1>4, <1>5, <1>9 DEF TypeOK
\* Where the records that stay lie, seen from the new head.
<1>12. ASSUME NEW i \in 2..n
       PROVE  /\ i \in 1..n
              /\ tail < head' /\ ~Low(log[i]) => head' <= log[i].at /\ End(log[i]) < Size
              /\ tail >= head' => /\ Low(log[i]) /\ head' <= log[i].at
                                  /\ End(log[i]) < Size
  <2>1. i \in 1..n /\ 1 < i
    BY <1>12
  <2>2. \/ head' <= log[i].at /\ (Low(log[1]) => Low(log[i]))
        \/ tail < head /\ High(log[1]) /\ Low(log[i])
    BY <2>1, <1>4, <1>7, <1>9
  <2>3. tail < head /\ High(log[1]) => tail < head'
    BY <1>1, <1>4, <1>5, <1>9 DEF High
  <2> QED
    BY <2>1, <2>2, <2>3, <1>1, <1>4, <1>5, <1>6, <1>9 DEF High, Low
<1>13. Regions'
  <2> SUFFICES ASSUME NEW i \in 1..(n - 1)
               PROVE  IF tail < head' THEN High(log[i])' \/ Low(log[i])'
                                      ELSE High(log[i])' /\ Low(log[i])'
    BY <1>3, <1>4 DEF Regions, High, Low, End
  <2>1. i + 1 \in 2..n /\ log'[i] = log[i + 1] /\ End(log[i])' = End(log[i + 1])
    BY <1>3, <1>10
  <2> QED
    BY <2>1, <1>1, <1>4, <1>9, <1>12 DEF High, Low
<1>14. Ordered'
  <2> SUFFICES ASSUME NEW i \in 1..(n - 1), NEW j \in 1..(n - 1), i < j
               PROVE  \/ End(log[i])' <= log'[j].at /\ (Low(log[i])' => Low(log[j])')
                      \/ tail' < head' /\ High(log[i])' /\ Low(log[j])'
    BY <1>3 DEF Ordered, High, Low, End
  <2>1. /\ i + 1 \in 2..n /\ log'[i] = log[i + 1] /\ End(log[i])' = End(log[i + 1])
        /\ j + 1 \in 2..n /\ log'[j] = log[j + 1] /\ End(log[j])' = End(log[j + 1])
        /\ i + 1 < j + 1
    BY <1>3, <1>10, SMTT(30)
  <2>2. \/ End(log[i + 1]) <= log[j + 1].at /\ (Low(log[i + 1]) => Low(log[j + 1]))
        \/ tail < head /\ High(log[i + 1]) /\ Low(log[j + 1])
    BY <2>1, <1>7, <1>12
  <2>3. (Low(log[i])' <=> Low(log[i + 1])) /\ (Low(log[j])' <=> Low(log[j + 1]))
    BY <2>1, <1>4 DEF Low
  <2>4. CASE End(log[i + 1]) <= log[j + 1].at /\ (Low(log[i + 1]) => Low(log[j + 1]))
    BY <2>1, <2>3, <2>4
  <2>5. CASE tail < head /\ High(log[i + 1]) /\ Low(log[j + 1])
    <3>1. ~Low(log[i + 1])
      BY <2>1, <2>5, <1>1, <1>5, <1>12 DEF High, Low
    <3>2. tail < head' /\ High(log[i])'
      BY <3>1, <2>1, <1>1, <1>4, <1>9, <1>12 DEF High
    <3> QED
      BY <3>2, <2>3, <2>5, <1>4
  <2> QED
    BY <2>2, <2>4, <2>5
<1>15. EmptyWhenDrained'
  <2>1. log' = << >> <=> n = 1
    BY <1>2, <1>3, LenProperties, EmptySeq
  <2>2. CASE n = 1
    BY <2>1, <2>2, <1>4, <1>8 DEF EmptyWhenDrained, IsEmpty
  <2>3. CASE n # 1
    <3>1. n \in 2..n
      BY <2>3, <1>2
    <3>2. head' # tail
      BY <3>1, <1>1, <1>5, <1>8, <1>9, <1>12 DEF Low
    <3> QED
      BY <2>1, <2>3, <3>2, <1>4 DEF EmptyWhenDrained, IsEmpty
  <2> QED
    BY <2>2, <2>3
<1>16. Chain'
  <2>1. ASSUME NEW i \in 1..(n - 1)
        PROVE  \/ log[i + 1].at = End(log[i])
               \/ /\ tail < head' /\ head' <= End(log[i])
                  /\ mem[End(log[i])] = Wrap /\ log[i + 1].at = 0
    <3>1. i \in 1..n /\ Link(End(log[i]), log[i + 1].at)
      BY <2>1, <1>8
    <3>2. CASE log[i + 1].at = End(log[i])
      BY <3>2
    <3>3. CASE tail < head /\ End(log[i]) >= head /\ mem[End(log[i])] = Wrap /\ log[i + 1].at = 0
      <4>1. CASE i = 1
        BY <4>1, <3>3, <1>1, <1>4, <1>9
      <4>2. CASE i # 1
        <5>1. i \in 2..n
          BY <4>2, <3>1
        <5>2. ~Low(log[i])
          BY <3>1, <3>3, <1>1, <1>5 DEF Low
        <5>3. tail < head' /\ head' <= log[i].at
          BY <5>1, <5>2, <1>1, <1>9, <1>12
        <5> QED
          BY <5>3, <3>1, <3>3, <1>1, <1>5, <1>9, SMTT(30)
      <4> QED
        BY <4>1, <4>2
    <3> QED
      BY <3>1, <3>2, <3>3 DEF Link
  <2>2. ASSUME n > 1 PROVE Link(head, log[1].at)' /\ End(log[n - 1])' = tail'
    <3>1. 1 \in 1..(n - 1) /\ n - 1 \in 1..(n - 1) /\ (n - 1) + 1 = n
      BY <2>2
    <3>2. log'[1] = log[2] /\ End(log[n - 1])' = tail'
      BY <3>1, <1>3, <1>4, <1>8, <1>10
    <3>3. \/ log[2].at = head'
          \/ /\ tail < head' /\ head' <= head' /\ mem[head'] = Wrap /\ log[2].at = 0
      BY <3>1, <2>1, <1>4
    <3> QED
      BY <3>2, <3>3, <1>4, <1>9 DEF Link
  <2>3. ASSUME NEW i \in 1..(n - 2)
        PROVE  Link(End(log[i]), log[i + 1].at)'
    <3>1. /\ i \in 1..(n - 1) /\ i + 1 \in 1..(n - 1) /\ (i + 1) + 1 = i + 2
          /\ log'[i + 1] = log[i + 2] /\ End(log[i])' = End(log[i + 1])
      BY <2>3, <1>3, <1>10
    <3> QED
      BY <3>1, <2>1, <1>4 DEF Link
  <2>4. log' # << >> => n > 1
    BY <1>2, <1>3, LenProperties
  <2>5. Len(log') - 1 = n - 2
    BY <1>3
  <2>6. \A i \in 1..(Len(log) - 1)' : Link(End(log[i]), log[i + 1].at)'
    BY <2>3, <2>5
  <2>7. log' # << >> => Link(head, log[1].at)' /\ End(log[Len(log)])' = tail'
    BY <2>2, <2>4, <1>3 DEF End
  <2> QED
    BY <2>6, <2>7 DEF Chain
<1>17. RecordsIntact'
  <2>1. \A i \in 1..(n - 1) :
          /\ Bytes(log[i + 1]) \subseteq Addr
          /\ mem[log[i + 1].at] = log[i + 1].msg
          /\ \A a \in Bytes(log[i + 1]) \ {log[i + 1].at} : mem[a] = Body
          /\ \A j \in 1..(n - 1) : i # j => Bytes(log[i + 1]) \cap Bytes(log[j + 1]) = {}
    <3>1. \A i, j \in 1..(n - 1) : i # j => i + 1 # j + 1
      OBVIOUS
    <3> QED
      BY <3>1, <1>1, <1>10, ZenonT(30) DEF IInv, RecordsIntact
  <2>2. \A i \in 1..(n - 1) : Bytes(log[i])' = Bytes(log[i + 1])
    BY <1>3 DEF Bytes
  <2> SUFFICES ASSUME NEW i \in 1..(n - 1)
               PROVE  /\ Bytes(log[i])' \subseteq Addr
                      /\ mem'[log'[i].at] = log'[i].msg
                      /\ \A a \in Bytes(log[i])' \ {log'[i].at} : mem'[a] = Body
                      /\ \A j \in 1..(n - 1) : i # j => (Bytes(log[i]) \cap Bytes(log[j]))' = {}
    BY <1>3 DEF RecordsIntact
  <2> QED
    BY <2>1, <2>2, <1>3, <1>4
<1> QED
  BY <1>11, <1>13, <1>14, <1>15, <1>16, <1>17 DEF IInv
-----------------------------------------------------------------------------
LEMMA NextInvariant == IInv /\ [Next]_vars => IInv'
<1> SUFFICES ASSUME IInv, [Next]_vars PROVE IInv'
  OBVIOUS
<1>1. CASE Get
  BY <1>1, GetInvariant
<1>2. ASSUME NEW m \in Message, Push(m) PROVE IInv'
  BY <1>2, PushAtTailInvariant, PushWrappedInvariant, PushRefusedInvariant DEF Push
<1>3. CASE UNCHANGED vars
  BY <1>3 DEF vars, IInv, TypeOK, EmptyWhenDrained, IsEmpty, Chain, Link, Regions, Ordered,
              High, Low, End, RecordsIntact, Bytes
<1> QED
  BY <1>1, <1>2, <1>3 DEF Next

\* The layout of the buffer is as the inductive invariant says, for every
\* buffer size, set of messages and initial content of the buffer.
THEOREM Invariant == Spec => []IInv
BY InitInvariant, NextInvariant, PTL DEF Spec

\* The pointers stay inside the buffer: push_message_to_the_limit never leaves
\* the tail at or behind the end, so neither flag is ever read or written there.
THEOREM TypeCorrect == Spec => []TypeOK
<1>1. IInv => TypeOK
  BY DEF IInv
<1> QED
  BY <1>1, Invariant, PTL

\* No push overwrites a message that is still queued (message_queue.c:29-84).
THEOREM QueuedRecordsIntact == Spec => []RecordsIntact
<1>1. IInv => RecordsIntact
  BY DEF IInv
<1> QED
  BY <1>1, Invariant, PTL

\* IS_QUEUE_EMPTY holds exactly when every accepted message has been taken.
THEOREM EmptyIsDrained == Spec => []EmptyWhenDrained
<1>1. IInv => EmptyWhenDrained
  BY DEF IInv
<1> QED
  BY <1>1, Invariant, PTL

\* get_message finds the oldest message, intact (message_queue.c:86-111).
THEOREM OldestRead == Spec => []ReadsOldestRecord
BY OldestRecordRead, Invariant, PTL
-----------------------------------------------------------------------------
(* Refinement: the buffer implements the abstract queue.                   *)

LEMMA QueuedType ==
  ASSUME TypeOK
  PROVE  Queued \in Seq(Message) /\ Len(Queued) = Len(log)
<1>1. Len(log) \in Nat /\ \A i \in 1..Len(log) : log[i].msg \in Message
  BY LenProperties, RecordType DEF TypeOK
<1> QED
  BY <1>1 DEF Queued

LEMMA AcceptIsPut ==
  ASSUME TypeOK, NEW m \in Message, NEW at \in Addr, Accept(m, at)
  PROVE  F!Put(m)
<1> DEFINE r == [at |-> at, msg |-> m]
           n == Len(log)
<1>1. r \in [at : Addr, msg : Message] /\ log \in Seq([at : Addr, msg : Message]) /\ n \in Nat
  BY LenProperties DEF TypeOK
<1>2. log' = Append(log, r) /\ out' = out
  BY DEF Accept
<1>3. r.msg = m
  OBVIOUS
<1> HIDE DEF r
<1>4. /\ Len(log') = n + 1
      /\ \A i \in 1..n : log'[i] = log[i]
      /\ log'[n + 1] = r
  BY <1>1, <1>2, AppendProperties
<1>5. /\ Queued \in Seq(Message) /\ Len(Queued) = n
      /\ Append(Queued, m) \in Seq(Message) /\ Len(Append(Queued, m)) = n + 1
      /\ \A i \in 1..n : Append(Queued, m)[i] = Queued[i]
      /\ Append(Queued, m)[n + 1] = m
  BY <1>1, QueuedType, AppendProperties
<1>6. /\ Queued' = [i \in 1..(n + 1) |-> log'[i].msg]
      /\ \A i \in 1..(n + 1) : log'[i].msg = IF i = n + 1 THEN m ELSE Queued[i]
  BY <1>1, <1>3, <1>4 DEF Queued
<1>7. \A i \in 1..(n + 1) : i \in 1..n \/ i = n + 1
  BY <1>1
<1>8. Append(Queued, m) = [i \in 1..(n + 1) |-> Append(Queued, m)[i]]
  BY <1>5, LenProperties
<1> HIDE DEF n
<1>9. Queued' = Append(Queued, m)
  BY <1>5, <1>6, <1>7, <1>8
<1> QED
  BY <1>2, <1>9 DEF F!Put

LEMMA GetIsTake == ASSUME IInv, Get PROVE F!Take
<1>1. TypeOK /\ Len(log) \in Nat
  BY LenProperties DEF IInv, TypeOK
<1>2. log # << >> /\ Len(log) > 0
  BY <1>1, LenProperties DEF Get, IInv, EmptyWhenDrained, TypeOK
<1>3. /\ Len(log') = Len(log) - 1
      /\ \A i \in 1..(Len(log) - 1) : log'[i] = log[i + 1]
      /\ out' = log[1].msg
  BY <1>1, <1>2, HeadTailProperties, OldestRecordRead DEF ReadsOldestRecord, Get, TypeOK
<1>4. Queued # << >> /\ Head(Queued) = log[1].msg
  BY <1>1, <1>2, QueuedType DEF Queued
<1>5. Queued' = [i \in 1..(Len(log) - 1) |-> Queued[i + 1]]
  BY <1>1, <1>2, <1>3 DEF Queued
<1>6. /\ Tail(Queued) \in Seq(Message) /\ Len(Tail(Queued)) = Len(log) - 1
      /\ \A i \in 1..(Len(log) - 1) : Tail(Queued)[i] = Queued[i + 1]
  BY <1>1, <1>4, QueuedType, HeadTailProperties
<1>7. Tail(Queued) = [i \in 1..(Len(log) - 1) |-> Tail(Queued)[i]]
  BY <1>6, LenProperties
<1>8. Queued' = Tail(Queued)
  BY <1>5, <1>6, <1>7
<1> QED
  BY <1>3, <1>4, <1>8 DEF F!Take

\* The byte buffer, with its wraps and refusals, is a first-in first-out queue:
\* every message accepted is delivered once, unchanged and in order.
THEOREM ImplementsFifo == Spec => IsFifo
<1>1. Init => F!Init
  BY DEF Init, F!Init, Queued
<1>2. IInv /\ [Next]_vars => [F!Next]_<<Queued, out>>
  <2> SUFFICES ASSUME IInv, [Next]_vars PROVE F!Next \/ UNCHANGED <<Queued, out>>
    OBVIOUS
  <2>1. CASE Get
    BY <2>1, GetIsTake DEF F!Next
  <2>2. ASSUME NEW m \in Message, Push(m)
        PROVE  F!Next \/ UNCHANGED <<Queued, out>>
    <3>1. CASE PushAtTail(m)
      BY <3>1, AcceptIsPut DEF PushAtTail, IInv, TypeOK, F!Next
    <3>2. CASE PushWrapped(m)
      BY <3>2, AcceptIsPut, SizeAssumption DEF PushWrapped, IInv, Addr, F!Next
    <3>3. CASE PushRefused(m)
      BY <3>3 DEF PushRefused, Queued
    <3> QED
      BY <2>2, <3>1, <3>2, <3>3 DEF Push
  <2>3. CASE UNCHANGED vars
    BY <2>3 DEF vars, Queued
  <2> QED
    BY <2>1, <2>2, <2>3 DEF Next
<1>3. Spec => F!Spec
  BY <1>1, <1>2, Invariant, PTL DEF Spec, F!Spec
<1> QED
  BY <1>3 DEF IsFifo

\* An empty queue accepts any message smaller than half the buffer, wherever
\* the head was left (the head is not moved back when the queue drains).
THEOREM EmptyAccepts ==
  ASSUME TypeOK, IsEmpty, NEW m \in Message, 2 * RecordSize[m] < Size
  PROVE  CanPush(m)
BY RecordSizeType, SizeAssumption
   DEF TypeOK, Addr, IsEmpty, CanPush, FitsAtTail, Fits, TailLimit, MayWrap
-----------------------------------------------------------------------------
(* How full the queue is when it refuses a message.                        *)

LEMMA PointersType ==
  ASSUME TypeOK
  PROVE  /\ head \in Nat /\ tail \in Nat /\ head < Size /\ tail < Size
         /\ Len(log) \in Nat /\ Size \in Nat
BY LenProperties, SizeAssumption DEF TypeOK, Addr

LEMMA BytesToEnd ==
  ASSUME NEW rec, rec.at \in Int, RecordSize[rec.msg] \in Int, NEW e, e = End(rec)
  PROVE  Bytes(rec) = rec.at..(e - 1)
BY DEF Bytes, End

\* What is left of two stretches when a record at the start of the first is taken.
LEMMA Shorter ==
  ASSUME NEW h \in Int, NEW e \in Int, NEW w \in Int, h <= e
  PROVE  e..((IF w < e THEN e ELSE w) - 1) \subseteq (h..(w - 1)) \ (h..(e - 1))
OBVIOUS

LEMMA UsedGrows ==
  ASSUME TypeOK, NEW m \in Message, NEW at \in Addr, at + RecordSize[m] < Size,
         Accept(m, at), mem' \in [Addr -> Cell]
  PROVE  Used \subseteq Used' /\ at..(tail' - 1) \subseteq Used'
<1>1. /\ tail' = at + RecordSize[m] /\ Len(log') = Len(log) + 1 /\ Len(log) \in Nat
      /\ \A i \in 1..Len(log) : log'[i] = log[i]
      /\ log'[Len(log) + 1] = [at |-> at, msg |-> m]
  BY AcceptEffect, PointersType
<1>2. Bytes(log'[Len(log) + 1]) = at..(tail' - 1)
  BY <1>1, RecordSizeType, BytesToEnd, SizeAssumption DEF End, Addr
<1>3. /\ Len(log) + 1 \in 1..Len(log')
      /\ \A i \in 1..Len(log) : i \in 1..Len(log') /\ Bytes(log'[i]) = Bytes(log[i])
  BY <1>1 DEF Bytes
<1>4. Used' = UNION {Bytes(log'[i]) : i \in 1..Len(log')}
  BY DEF Used, Bytes
<1> QED
  BY <1>2, <1>3, <1>4 DEF Used

\* Taking the oldest message frees its bytes and no other.
LEMMA UsedShrinks ==
  ASSUME IInv, Get
  PROVE  /\ log # << >> /\ head' = End(log[1]) /\ tail' = tail
         /\ Used \ (log[1].at..(head' - 1)) \subseteq Used'
<1>1. TypeOK /\ Len(log) \in Nat
  BY PointersType DEF IInv
<1>2. log # << >> /\ Len(log) > 0
  BY <1>1, LenProperties DEF Get, IInv, EmptyWhenDrained, TypeOK
<1>3. head' = End(log[1]) /\ tail' = tail
  BY <1>2, OldestRecordRead DEF ReadsOldestRecord, Get, NewHead, End
<1>4. Len(log') = Len(log) - 1 /\ \A i \in 1..(Len(log) - 1) : log'[i] = log[i + 1]
  BY <1>1, <1>2, HeadTailProperties DEF Get, TypeOK
<1>5. Bytes(log[1]) = log[1].at..(head' - 1)
  <2>1. log[1].at \in Int /\ RecordSize[log[1].msg] \in Int
    BY <1>1, <1>2, RecordType, RecordSizeType
  <2> QED
    BY <1>3, <2>1, BytesToEnd
<1>6. Used' = UNION {Bytes(log'[i]) : i \in 1..Len(log')}
  BY DEF Used, Bytes
<1>7. ASSUME NEW i \in 1..Len(log), i # 1 PROVE Bytes(log[i]) \subseteq Used'
  <2>1. i - 1 \in 1..Len(log') /\ log'[i - 1] = log[i]
    BY <1>1, <1>4, <1>7
  <2> QED
    BY <1>6, <2>1
<1> QED
  BY <1>2, <1>3, <1>5, <1>7 DEF Used

LEMMA PushAtTailNoHoles ==
  ASSUME IInv, NoHoles, NEW m \in Message, PushAtTail(m) PROVE NoHoles'
<1>1. /\ TypeOK /\ TypeOK' /\ tail \in Addr /\ Accept(m, tail) /\ FitsAtTail(m)
  BY PushAtTailInvariant DEF IInv, TypeOK, PushAtTail
<1>2. /\ head \in Nat /\ tail \in Nat /\ Size \in Nat /\ head < Size /\ RecordSize[m] \in Nat
      /\ tail' = tail + RecordSize[m] /\ head' = head
  BY <1>1, PointersType, RecordSizeType DEF Accept
<1>3. tail' < TailLimit /\ TailLimit \in {head, Size} /\ tail' < Size
  BY <1>1, <1>2 DEF FitsAtTail, Fits, TailLimit
<1>4. Used \subseteq Used' /\ tail..(tail' - 1) \subseteq Used'
  BY <1>1, <1>2, <1>3, UsedGrows DEF TypeOK
<1>5. CASE tail < head
  <2>1. tail' < head'
    BY <1>2, <1>3, <1>5 DEF TailLimit
  <2>2. PICK w \in head..(Size - 1) :
          /\ (head..(w - 1)) \cup (0..(tail - 1)) \subseteq Used
          /\ \E q \in Message : ~Fits(w, q, Size)
    BY <1>5 DEF NoHoles
  <2>3. 0..(tail' - 1) \subseteq (0..(tail - 1)) \cup (tail..(tail' - 1))
    BY <1>2
  <2>4. (head'..(w - 1)) \cup (0..(tail' - 1)) \subseteq Used'
    BY <1>2, <1>4, <2>2, <2>3
  <2> QED
    BY <1>2, <2>1, <2>2, <2>4 DEF NoHoles, Fits
<1>6. CASE ~(tail < head)
  <2>1. ~(tail' < head') /\ head'..(tail' - 1) \subseteq (head..(tail - 1)) \cup (tail..(tail' - 1))
    BY <1>2, <1>6
  <2> QED
    BY <1>4, <1>6, <2>1 DEF NoHoles
<1> QED
  BY <1>5, <1>6

LEMMA PushWrappedNoHoles ==
  ASSUME IInv, NoHoles, NEW m \in Message, PushWrapped(m) PROVE NoHoles'
<1>1. /\ TypeOK /\ TypeOK' /\ 0 \in Addr /\ Accept(m, 0) /\ MayWrap
      /\ ~Fits(tail, m, Size) /\ Fits(0, m, head)
  <2>1. TypeOK' /\ TypeOK
    BY PushWrappedInvariant DEF IInv
  <2>2. head \in Nat /\ tail \in Nat
    BY <2>1, PointersType
  <2>3. Accept(m, 0) /\ MayWrap /\ ~Fits(tail, m, Size) /\ Fits(0, m, head)
    BY <2>2 DEF PushWrapped, FitsAtTail, TailLimit, MayWrap
  <2> QED
    BY <2>1, <2>3, SizeAssumption DEF Addr
<1>2. /\ head \in Nat /\ tail \in Nat /\ Size \in Nat /\ head < Size /\ tail < Size
      /\ RecordSize[m] \in Nat /\ tail' = 0 + RecordSize[m] /\ head' = head
      /\ head <= tail /\ tail' < head
  BY <1>1, PointersType, RecordSizeType DEF Accept, MayWrap, Fits
<1>3. Used \subseteq Used' /\ 0..(tail' - 1) \subseteq Used'
  BY <1>1, <1>2, UsedGrows DEF TypeOK
<1>4. head..(tail - 1) \subseteq Used
  BY <1>2 DEF NoHoles
<1>5. /\ tail \in head'..(Size - 1)
      /\ (head'..(tail - 1)) \cup (0..(tail' - 1)) \subseteq Used'
      /\ ~Fits(tail, m, Size) /\ tail' < head'
  BY <1>1, <1>2, <1>3, <1>4
<1> QED
  BY <1>5 DEF NoHoles, Fits

LEMMA GetNoHoles == ASSUME IInv, NoHoles, Get PROVE NoHoles'
<1> DEFINE taken == log[1].at..(head' - 1)
<1>1. log # << >> /\ head' = End(log[1]) /\ tail' = tail /\ Used \ taken \subseteq Used'
  BY UsedShrinks
<1>2. /\ head \in Nat /\ tail \in Nat /\ Size \in Nat /\ head < Size /\ tail < Size
      /\ head' \in Nat /\ head' < Size
  <2>1. TypeOK /\ TypeOK'
    BY GetInvariant DEF IInv
  <2>2. head' \in Addr
    BY <2>1 DEF TypeOK
  <2> QED
    BY <2>1, <2>2, PointersType DEF Addr
<1>3. Link(head, log[1].at)
  BY <1>1 DEF IInv, Chain
<1>4. 1 \in 1..Len(log) /\ log[1].at < head' /\ log[1].at \in Int
  <2>1. 1 \in 1..Len(log)
    BY <1>1, LenProperties DEF IInv, TypeOK
  <2> QED
    BY <1>1, <1>2, <2>1, RecordType DEF IInv
<1>5. CASE ~(tail < head)
  <2>1. log[1].at = head /\ head..(tail - 1) \subseteq Used
    BY <1>3, <1>5 DEF Link, NoHoles
  <2>2. Low(log[1])
    BY <1>4, <1>5 DEF IInv, Regions
  <2>3. ~(tail' < head')
    BY <1>1, <1>2, <2>2 DEF Low
  <2>4. head'..(tail' - 1) \subseteq (head..(tail - 1)) \ taken
    BY <1>1, <1>2, <1>4, <2>1
  <2> QED
    BY <1>1, <2>1, <2>3, <2>4 DEF NoHoles
<1>6. CASE tail < head
  <2>1. PICK w \in head..(Size - 1) :
          /\ (head..(w - 1)) \cup (0..(tail - 1)) \subseteq Used
          /\ \E q \in Message : ~Fits(w, q, Size)
    BY <1>6 DEF NoHoles
  <2>2. CASE log[1].at = head
    <3> DEFINE v == IF w < head' THEN head' ELSE w
    <3>1. tail' < head' /\ v \in head'..(Size - 1) /\ w <= v
      BY <1>1, <1>2, <1>4, <1>6, <2>1, <2>2
    <3>2. (head'..(v - 1)) \cup (0..(tail' - 1)) \subseteq ((head..(w - 1)) \cup (0..(tail - 1))) \ taken
      <4>1. head'..(v - 1) \subseteq (head..(w - 1)) \ taken
        <5>1. head \in Int /\ head' \in Int /\ w \in Int /\ head <= head'
          BY <1>2, <1>4, <2>1, <2>2
        <5> QED
          BY <2>2, <5>1, Shorter
      <4>2. 0..(tail' - 1) \subseteq (0..(tail - 1)) \ taken
        BY <1>1, <1>2, <1>6, <2>2
      <4> QED
        BY <4>1, <4>2
    <3>3. \E q \in Message : ~Fits(v, q, Size)
      <4>1. PICK q \in Message : ~Fits(w, q, Size)
        BY <2>1
      <4>2. ~Fits(v, q, Size)
        BY <1>2, <2>1, <3>1, <4>1, RecordSizeType DEF Fits
      <4> QED
        BY <4>2
    <3> HIDE DEF v, taken
    <3>4. (head'..(v - 1)) \cup (0..(tail' - 1)) \subseteq Used'
      BY <1>1, <2>1, <3>2
    <3> QED
      BY <3>1, <3>3, <3>4 DEF NoHoles, Fits
  <2>3. CASE log[1].at # head
    <3>1. log[1].at = 0 /\ head <= head
      BY <1>3, <2>3 DEF Link
    <3>2. head' <= tail
      <4>1. High(log[1]) \/ Low(log[1])
        BY <1>4, <1>6 DEF IInv, Regions
      <4> QED
        BY <1>1, <1>2, <1>6, <3>1, <4>1 DEF High, Low
    <3>3. ~(tail' < head') /\ head'..(tail' - 1) \subseteq (0..(tail - 1)) \ taken
      BY <1>1, <1>2, <3>1, <3>2
    <3> HIDE DEF taken
    <3> QED
      BY <1>1, <2>1, <3>3 DEF NoHoles
  <2> QED
    BY <2>2, <2>3
<1> QED
  BY <1>5, <1>6

LEMMA NoHolesInductive == ASSUME IInv, NoHoles, [Next]_vars PROVE NoHoles'
<1>1. CASE Get
  BY <1>1, GetNoHoles
<1>2. ASSUME NEW m \in Message, Push(m)
      PROVE  NoHoles'
  <2>1. CASE PushRefused(m)
    BY <2>1 DEF PushRefused, NoHoles, Used, Bytes, Fits
  <2> QED
    BY <1>2, <2>1, PushAtTailNoHoles, PushWrappedNoHoles DEF Push
<1>3. CASE UNCHANGED vars
  BY <1>3 DEF vars, NoHoles, Used, Bytes, Fits
<1> QED
  BY <1>1, <1>2, <1>3 DEF Next

\* No byte between head and tail is wasted, but for those behind the last record
\* before a wrap, where some message did not fit (message_queue.c:58-88).
THEOREM LeavesNoHoles == Spec => []NoHoles
<1>1. Init => NoHoles
  <2> SUFFICES ASSUME Init PROVE NoHoles
    OBVIOUS
  <2>1. ~(tail < head) /\ head..(tail - 1) = {}
    BY DEF Init
  <2> QED
    BY <2>1 DEF NoHoles
<1>2. IInv /\ NoHoles /\ [Next]_vars => NoHoles'
  BY NoHolesInductive
<1> QED
  BY <1>1, <1>2, Invariant, PTL DEF Spec

LEMMA IntervalSize ==
  ASSUME NEW a \in Nat, NEW b \in Nat, a <= b
  PROVE  IsFiniteSet(a..(b - 1)) /\ Cardinality(a..(b - 1)) = b - a
<1>1. a \in Int /\ b - 1 \in Int
  OBVIOUS
<1>2. /\ IsFiniteSet(a..(b - 1))
      /\ Cardinality(a..(b - 1)) = IF a > b - 1 THEN 0 ELSE (b - 1) - a + 1
  BY <1>1, FS_Interval
<1> QED
  BY <1>2

LEMMA UsedFinite == ASSUME IInv PROVE IsFiniteSet(Used) /\ Cardinality(Used) \in Nat
<1>1. Used \subseteq Addr
  BY DEF IInv, RecordsIntact, Used
<1>2. IsFiniteSet(Addr)
  <2>1. 0 \in Nat /\ Size \in Nat /\ 0 <= Size
    BY SizeAssumption
  <2> QED
    BY <2>1, IntervalSize DEF Addr
<1> QED
  BY <1>1, <1>2, FS_Subset, FS_CardinalityType

\* A push is refused only when the bytes in use, the message and one other fill the
\* buffer (message_queue.c:58-88; the server stops on a refusal, server.c:316-326).
THEOREM RefusesWhenFull == Spec => []RefusesOnlyNearFull
<1>1. ASSUME IInv, NoHoles, NEW m \in Message, ~CanPush(m)
      PROVE  \E longest \in Message : Cardinality(Used) + RecordSize[m] + RecordSize[longest] >= Size
  <2>1. /\ head \in Nat /\ tail \in Nat /\ Size \in Nat /\ head < Size /\ tail < Size
        /\ \A q \in Message : RecordSize[q] \in Nat
    BY <1>1, PointersType, RecordSizeType DEF IInv
  <2>2. IsFiniteSet(Used) /\ Cardinality(Used) \in Nat
    BY <1>1, UsedFinite
  <2>3. CASE ~(tail < head)
    <3>1. tail + RecordSize[m] >= Size /\ (head = 0 \/ RecordSize[m] >= head)
      BY <1>1, <2>1, <2>3 DEF CanPush, FitsAtTail, Fits, TailLimit, MayWrap
    <3>2. Cardinality(head..(tail - 1)) = tail - head
      BY <2>1, <2>3, IntervalSize
    <3>3. Cardinality(head..(tail - 1)) <= Cardinality(Used)
      BY <1>1, <2>2, <2>3, FS_Subset DEF NoHoles
    <3>4. Cardinality(Used) + RecordSize[m] + RecordSize[m] >= Size
      BY <2>1, <2>2, <3>1, <3>2, <3>3
    <3> QED
      BY <3>4
  <2>4. CASE tail < head
    <3>1. tail + RecordSize[m] >= head
      BY <1>1, <2>1, <2>4 DEF CanPush, FitsAtTail, Fits, TailLimit
    <3>2. PICK w \in head..(Size - 1) :
            /\ (head..(w - 1)) \cup (0..(tail - 1)) \subseteq Used
            /\ \E q \in Message : ~Fits(w, q, Size)
      BY <1>1, <2>4 DEF NoHoles
    <3>3. PICK q \in Message : ~Fits(w, q, Size)
      BY <3>2
    <3>4. w \in Nat /\ head <= w /\ w + RecordSize[q] >= Size
      BY <2>1, <3>2, <3>3 DEF Fits
    <3> DEFINE A == head..(w - 1)
               B == 0..(tail - 1)
    <3>5. /\ IsFiniteSet(A) /\ Cardinality(A) = w - head
          /\ IsFiniteSet(B) /\ Cardinality(B) = tail - 0
      BY <2>1, <3>4, IntervalSize
    <3>6. A \cap B = {}
      BY <2>1, <2>4, <3>4
    <3>7. A \cup B \subseteq Used
      BY <3>2
    <3> HIDE DEF A, B
    <3>8. Cardinality(A \cup B) = w - head + tail
      <4>1. Cardinality(A \cap B) = 0
        BY <3>6, FS_EmptySet
      <4>2. Cardinality(A \cup B) = Cardinality(A) + Cardinality(B) - Cardinality(A \cap B)
        BY <3>5, FS_Union
      <4> QED
        BY <2>1, <3>4, <3>5, <4>1, <4>2
    <3>9. Cardinality(A \cup B) <= Cardinality(Used)
      BY <2>2, <3>7, FS_Subset
    <3>10. Cardinality(Used) + RecordSize[m] + RecordSize[q] >= Size
      BY <2>1, <2>2, <3>1, <3>4, <3>8, <3>9
    <3> QED
      BY <3>10
  <2> QED
    BY <2>3, <2>4
<1>2. IInv /\ NoHoles => RefusesOnlyNearFull
  BY <1>1 DEF RefusesOnlyNearFull
<1> QED
  BY <1>2, Invariant, LeavesNoHoles, PTL
=============================================================================
