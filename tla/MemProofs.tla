------------------------------ MODULE MemProofs ------------------------------
(***************************************************************************)
(* Proofs about package mem, for every set of values of Alloc, every       *)
(* period and every time between two samples.                              *)
(***************************************************************************)
EXTENDS Mem, SequenceTheorems, TLAPS

\* The inductive invariant.  The logger has taken no sample before its first.
Fresh == lpc = "first" => window = {} /\ out = << >>

\* pts holds the extremes of the samples since the last write.
ExtremesKept ==
  /\ (window = {} <=> min = None) /\ (window = {} <=> max = None)
  /\ window # {} => /\ min \in window /\ max \in window
                    /\ \A s \in window : min.a <= s.a /\ s.a <= max.a

\* Samples have different times, and one of them is the last.
Clocked ==
  /\ \A s, u \in window : s.t = u.t => s = u
  /\ window # {} => \E s \in window : \A u \in window : u.t <= s.t

\* When the logger is not writing, there is no reason that it should.
NothingDue ==
  lpc \in {"first", "wait", "sample", "returned"} => ~changed /\ \A s \in window : s.t <= Period

\* No sample was taken after one that calls for a write.
DueIsLast == \A s, later \in window : s.t < later.t => s.t <= Period

\* What has been written so far is the beginning of what is to be written.
WritesInOrder ==
  lpc = "write" => /\ window # {}
                   /\ Len(out) <= Len(ToWrite)
                   /\ \A k \in 1..Len(out) : out[k] = ToWrite[k]

\* The two parts of the type invariant.
ControlOK ==
  /\ lpc \in {"first", "wait", "sample", "write", "returned", "panicked"}
  /\ tick \in BOOLEAN /\ stop \in {"no", "waiting", "returned"} /\ changed \in BOOLEAN
  /\ hpc \in {"wait", "prof", "collect", "callback", "ended"}
  /\ pending \in BOOLEAN /\ notified \in BOOLEAN /\ closed \in BOOLEAN
  /\ unserved \in BOOLEAN /\ collected \in BOOLEAN

DataOK ==
  /\ window \subseteq [t : 0..(Period + MaxStep), a : Alloc]
  /\ min \in Point \cup {None} /\ max \in Point \cup {None}
  /\ out \in Seq(Point) /\ Len(out) <= 2

IInv == TypeOK /\ Fresh /\ ExtremesKept /\ Clocked /\ NothingDue /\ DueIsLast /\ WritesInOrder
-----------------------------------------------------------------------------
(* Facts about the operators.                                              *)

LEMMA TypeParts == TypeOK <=> ControlOK /\ DataOK
BY DEF TypeOK, ControlOK, DataOK

\* None is not the extreme of a sample.
LEMMA NoneIsNoPoint == None \notin Point
BY NoneAssumption, PeriodAssumption DEF Point

\* A sample is a point.
LEMMA SampleType ==
  ASSUME TypeOK, NEW s \in window
  PROVE  s \in Point /\ s.t \in 0..(Period + MaxStep) /\ s.t \in Int /\ s.a \in Alloc /\ s.a \in Int
<1>1. s \in [t : 0..(Period + MaxStep), a : Alloc]
  BY DEF TypeOK
<1>2. s.t \in 0..(Period + MaxStep) /\ s.a \in Alloc /\ s = [t |-> s.t, a |-> s.a]
  BY <1>1
<1>3. s.t \in Int /\ s.a \in Int
  BY <1>2, PeriodAssumption
<1> QED
  BY <1>2, <1>3 DEF Point

\* Of the samples in the window one is the last, and Now is its time.
LEMMA NowIsLast ==
  ASSUME TypeOK, Clocked, window # {}
  PROVE  /\ Now \in 0..(Period + MaxStep)
         /\ \E s \in window : s.t = Now
         /\ \A s \in window : s.t <= Now
<1>1. PICK s \in window : \A u \in window : u.t <= s.t
  BY DEF Clocked
<1> DEFINE T == {u.t : u \in window}
<1>2. s.t \in T /\ \A t \in T : t <= s.t
  BY <1>1
<1>3. Now \in T /\ \A u \in window : u.t <= Now
  BY <1>2 DEF Now
<1> QED
  BY <1>3 DEF TypeOK

\* A sample later than all of the window keeps the extremes and the order of time.
LEMMA SampleKeepsWindow ==
  ASSUME IInv, NEW t \in 0..(Period + MaxStep), \A s \in window : s.t < t, Sample(t)
  PROVE  /\ window' \subseteq [t : 0..(Period + MaxStep), a : Alloc] /\ window' # {}
         /\ min' \in Point /\ max' \in Point
         /\ ExtremesKept' /\ Clocked'
         /\ \A s \in window' : s \in window \/ s.t = t
<1>1. PICK a \in Alloc : LET p == [t |-> t, a |-> a] IN
         window' = window \cup {p} /\ min' = Lowest(p) /\ max' = Highest(p)
  BY DEF Sample
<1> DEFINE p == [t |-> t, a |-> a]
<1>2. p \in [t : 0..(Period + MaxStep), a : Alloc] /\ p \in Point /\ p.t = t /\ p.a = a
  BY PeriodAssumption DEF Point
<1>3. window' = window \cup {p} /\ min' = Lowest(p) /\ max' = Highest(p)
  BY <1>1
<1>4. \A s \in window : s \in Point /\ s.a \in Int /\ s.t \in Int
  BY SampleType DEF IInv
<1>5. p.a \in Int /\ p # None
  BY <1>2, NoneIsNoPoint, PeriodAssumption
<1> HIDE DEF p
<1>6. CASE window = {}
  <2>1. min = None /\ max = None
    BY <1>6 DEF IInv, ExtremesKept
  <2>2. window' = {p} /\ min' = p /\ max' = p
    BY <1>3, <1>6, <2>1 DEF Lowest, Highest
  <2> QED
    BY <1>2, <1>5, <2>2 DEF ExtremesKept, Clocked
<1>7. CASE window # {}
  <2>1. /\ min \in window /\ max \in window /\ min # None /\ max # None
        /\ \A s \in window : min.a <= s.a /\ s.a <= max.a
    BY <1>7 DEF IInv, ExtremesKept
  <2>2. min' = (IF min.a > p.a THEN p ELSE min) /\ max' = (IF max.a < p.a THEN p ELSE max)
    BY <1>3, <2>1 DEF Lowest, Highest
  <2>3. ExtremesKept'
    <3>1. min' \in window' /\ max' \in window' /\ min' # None /\ max' # None
      BY <1>3, <1>5, <2>1, <2>2
    <3>2. \A s \in window' : min'.a <= s.a /\ s.a <= max'.a
      BY <1>3, <1>4, <1>5, <2>1, <2>2
    <3> QED
      BY <3>1, <3>2 DEF ExtremesKept
  <2>4. Clocked'
    <3>1. \A s, u \in window' : s.t = u.t => s = u
      BY <1>2, <1>3, <1>4 DEF IInv, Clocked
    <3>2. \A u \in window' : u.t <= p.t
      BY <1>2, <1>3, <1>4
    <3> QED
      BY <1>3, <3>1, <3>2 DEF Clocked
  <2> QED
    BY <1>2, <1>3, <1>4, <2>1, <2>2, <2>3, <2>4 DEF IInv, TypeOK
<1> QED
  BY <1>6, <1>7

\* At most two points are written, both of the window, and the first is the earlier.
LEMMA ToWritePoints ==
  ASSUME IInv, window # {}
  PROVE  /\ ToWrite \in Seq(Point) /\ Len(ToWrite) \in {1, 2}
         /\ \A k \in 1..Len(ToWrite) : ToWrite[k] \in window
         /\ \E k \in 1..Len(ToWrite) : ToWrite[k] = min
         /\ \E k \in 1..Len(ToWrite) : ToWrite[k] = max
         /\ Len(ToWrite) = 2 => ToWrite[1].t < ToWrite[2].t
<1>1. min \in window /\ max \in window
  BY DEF IInv, ExtremesKept
<1>2. \A s \in window : s \in Point /\ s.t \in Int
  BY SampleType DEF IInv
<1>3. CASE min.t < max.t
  <2>1. ToWrite = <<min, max>>
    BY <1>3 DEF ToWrite
  <2> QED
    BY <1>1, <1>2, <1>3, <2>1
<1>4. CASE min.t > max.t
  <2>1. ToWrite = <<max, min>>
    BY <1>1, <1>2, <1>4 DEF ToWrite
  <2> QED
    BY <1>1, <1>2, <1>4, <2>1
<1>5. CASE min.t = max.t
  <2>1. ToWrite = <<min>> /\ min = max
    BY <1>1, <1>2, <1>5 DEF ToWrite, IInv, Clocked
  <2> QED
    BY <1>1, <1>2, <2>1
<1> QED
  BY <1>1, <1>2, <1>3, <1>4, <1>5
-----------------------------------------------------------------------------
(* The invariant holds at first and is kept by every step.                 *)

LEMMA InitInvariant == Init => IInv
<1> SUFFICES ASSUME Init PROVE IInv
  OBVIOUS
<1>1. ControlOK
  BY DEF Init, ControlOK
<1>2. window = {} /\ min = None /\ max = None /\ out = << >> /\ lpc = "first" /\ ~changed
  BY DEF Init
<1>3. << >> \in Seq(Point) /\ Len(<< >>) = 0
  BY EmptySeq
<1>4. DataOK
  BY <1>2, <1>3 DEF DataOK
<1>5. Fresh /\ ExtremesKept /\ Clocked /\ NothingDue /\ DueIsLast /\ WritesInOrder
  BY <1>2 DEF Fresh, ExtremesKept, Clocked, NothingDue, DueIsLast, WritesInOrder
<1> QED
  BY <1>1, <1>4, <1>5, TypeParts DEF IInv

\* The profiler and the runtime leave the logger's part alone.
LEMMA ProfilerKeepsInvariant ==
  ASSUME IInv, UNCHANGED loggerVars, TypeOK'
  PROVE  IInv'
BY DEF IInv, loggerVars, Fresh, ExtremesKept, Clocked, NothingDue, DueIsLast, WritesInOrder, ToWrite

LEMMA ProfilerSteps ==
  ASSUME IInv, Handler \/ Signal \/ StopNotify \/ CloseSignals \/ RuntimeCollects
  PROVE  IInv'
<1>1. UNCHANGED loggerVars
  BY DEF Handler, Signal, StopNotify, CloseSignals, RuntimeCollects, TakeSignal, HandlerEnds,
         BeginProfile, Collect, Callback
<1>2. ControlOK /\ DataOK
  BY TypeParts DEF IInv
<1>3. ControlOK'
  <2>1. CASE TakeSignal
    BY <1>2, <2>1, ZenonT(30) DEF ControlOK, loggerVars, profilerVars, TakeSignal
  <2>2. CASE HandlerEnds
    BY <1>2, <2>2, ZenonT(30) DEF ControlOK, loggerVars, profilerVars, HandlerEnds
  <2>3. CASE BeginProfile
    BY <1>2, <2>3, ZenonT(30) DEF ControlOK, loggerVars, profilerVars, BeginProfile
  <2>4. CASE Collect
    BY <1>2, <2>4, ZenonT(30) DEF ControlOK, loggerVars, profilerVars, Collect
  <2>5. CASE Callback
    BY <1>2, <2>5, ZenonT(30) DEF ControlOK, loggerVars, profilerVars, Callback
  <2>6. CASE Signal
    BY <1>2, <2>6, ZenonT(30) DEF ControlOK, loggerVars, profilerVars, Signal
  <2>7. CASE StopNotify
    BY <1>2, <2>7, ZenonT(30) DEF ControlOK, loggerVars, profilerVars, StopNotify
  <2>8. CASE CloseSignals
    BY <1>2, <2>8, ZenonT(30) DEF ControlOK, loggerVars, profilerVars, CloseSignals
  <2>9. CASE RuntimeCollects
    BY <1>2, <2>9, SMT DEF ControlOK, loggerVars, profilerVars, RuntimeCollects
  <2> QED
    BY <2>1, <2>2, <2>3, <2>4, <2>5, <2>6, <2>7, <2>8, <2>9 DEF Handler
<1>4. DataOK'
  BY <1>1, <1>2 DEF DataOK, loggerVars
<1>5. TypeOK'
  BY <1>3, <1>4, ZenonT(30) DEF TypeOK, ControlOK, DataOK
<1> QED
  BY <1>1, <1>5, ProfilerKeepsInvariant

\* Steps of the logger and its callers that take no sample and write nothing.
LEMMA QuietSteps ==
  ASSUME IInv, WakeToSample \/ WakeToStop \/ WriteFails \/ Tick \/ Stop \/ StopReturns
  PROVE  IInv'
<1>1. UNCHANGED <<window, min, max, out, changed, profilerVars, collected>>
  BY DEF WakeToSample, WakeToStop, WriteFails, Tick, Stop, StopReturns
<1>2. TypeOK'
  <2>1. ControlOK /\ DataOK
    BY TypeParts DEF IInv
  <2>2. ControlOK'
    <3>1. CASE WakeToSample
      BY <2>1, <3>1, ZenonT(30) DEF ControlOK, profilerVars, WakeToSample
    <3>2. CASE WakeToStop
      BY <2>1, <3>2, ZenonT(30) DEF ControlOK, profilerVars, WakeToStop
    <3>3. CASE WriteFails
      BY <2>1, <3>3, ZenonT(30) DEF ControlOK, profilerVars, WriteFails
    <3>4. CASE Tick
      BY <2>1, <3>4, ZenonT(30) DEF ControlOK, profilerVars, Tick
    <3>5. CASE Stop
      BY <2>1, <3>5, ZenonT(30) DEF ControlOK, profilerVars, Stop
    <3>6. CASE StopReturns
      BY <2>1, <3>6, ZenonT(30) DEF ControlOK, profilerVars, StopReturns
    <3> QED
      BY <3>1, <3>2, <3>3, <3>4, <3>5, <3>6
  <2>3. DataOK'
    BY <1>1, <2>1 DEF DataOK
  <2> QED
    BY <2>2, <2>3, ZenonT(30) DEF TypeOK, ControlOK, DataOK
<1>4. lpc \notin {"first", "wait", "sample", "returned"} => lpc' \notin {"first", "wait", "sample", "returned"}
  BY DEF WakeToSample, WakeToStop, WriteFails, Tick, Stop, StopReturns
<1>5. lpc' = "first" => lpc = "first"
  BY DEF WakeToSample, WakeToStop, WriteFails, Tick, Stop, StopReturns
<1>6. Fresh' /\ NothingDue'
  BY <1>1, <1>4, <1>5 DEF IInv, Fresh, NothingDue
<1>3. WritesInOrder'
  BY <1>1 DEF IInv, WritesInOrder, ToWrite,
              WakeToSample, WakeToStop, WriteFails, Tick, Stop, StopReturns
<1> QED
  BY <1>1, <1>2, <1>3, <1>6 DEF IInv, ExtremesKept, Clocked, DueIsLast

LEMMA FirstSampleStep == ASSUME IInv, FirstSample PROVE IInv'
<1>1. 0 \in 0..(Period + MaxStep) /\ 0 <= Period
  BY PeriodAssumption
<1>2. Sample(0) /\ window = {} /\ lpc' = "write" /\ out' = << >>
  BY DEF FirstSample, IInv, Fresh
<1>3. /\ window' \subseteq [t : 0..(Period + MaxStep), a : Alloc] /\ window' # {}
      /\ min' \in Point /\ max' \in Point /\ ExtremesKept' /\ Clocked'
      /\ \A s \in window' : s.t = 0
  BY <1>1, <1>2, SampleKeepsWindow
<1>4. TypeOK'
  <2>1. ControlOK'
    BY <1>2, TypeParts DEF FirstSample, IInv, ControlOK, profilerVars
  <2>2. << >> \in Seq(Point) /\ Len(<< >>) = 0
    BY EmptySeq
  <2>3. DataOK'
    BY <1>2, <1>3, <2>2 DEF DataOK
  <2> QED
    BY <2>1, <2>3, ZenonT(30) DEF TypeOK, ControlOK, DataOK
<1>5. Fresh' /\ NothingDue'
  BY <1>2 DEF Fresh, NothingDue
<1>6. DueIsLast'
  BY <1>1, <1>3 DEF DueIsLast
<1>7. WritesInOrder'
  BY <1>2, <1>3 DEF WritesInOrder, ToWrite
<1> QED
  BY <1>3, <1>4, <1>5, <1>6, <1>7 DEF IInv

LEMMA SampleAgainStep == ASSUME IInv, SampleAgain PROVE IInv'
<1>1. PICK step \in 1..MaxStep :
        /\ Sample(LastSampled + step)
        /\ lpc' = IF changed \/ collected \/ LastSampled + step > Period THEN "write" ELSE "wait"
  BY DEF SampleAgain
<1> DEFINE t == LastSampled + step
<1>2. /\ lpc = "sample" /\ out' = << >> /\ changed' = (changed \/ collected) /\ collected' = FALSE
      /\ ~changed /\ \A s \in window : s.t <= Period
      /\ UNCHANGED <<tick, stop, profilerVars>>
  BY DEF SampleAgain, IInv, NothingDue
<1>3. LastSampled \in 0..Period /\ \A s \in window : s.t <= LastSampled
  <2>1. CASE window = {}
    BY <2>1, PeriodAssumption DEF LastSampled
  <2>2. CASE window # {}
    BY <1>2, <2>2, NowIsLast, PeriodAssumption DEF LastSampled, IInv
  <2> QED
    BY <2>1, <2>2
<1>4. t \in 0..(Period + MaxStep) /\ \A s \in window : s.t < t
  BY <1>3, SampleType, PeriodAssumption DEF IInv
<1>5. Sample(t) /\ lpc' = IF changed \/ collected \/ t > Period THEN "write" ELSE "wait"
  BY <1>1
<1> HIDE DEF t
<1>6. /\ window' \subseteq [t : 0..(Period + MaxStep), a : Alloc] /\ window' # {}
      /\ min' \in Point /\ max' \in Point /\ ExtremesKept' /\ Clocked'
      /\ \A s \in window' : s \in window \/ s.t = t
  BY <1>4, <1>5, SampleKeepsWindow
<1>7. TypeOK'
  <2>1. lpc' \in {"write", "wait"}
    BY <1>5
  <2>2. ControlOK'
    BY <1>2, <2>1, TypeParts, ZenonT(30) DEF IInv, ControlOK, profilerVars
  <2>3. << >> \in Seq(Point) /\ Len(<< >>) = 0
    BY EmptySeq
  <2>4. DataOK'
    BY <1>2, <1>6, <2>3 DEF DataOK
  <2> QED
    BY <2>2, <2>4, ZenonT(30) DEF TypeOK, ControlOK, DataOK
<1>8. Fresh' /\ NothingDue'
  <2>1. CASE changed \/ collected
    BY <1>5, <2>1 DEF Fresh, NothingDue
  <2>2. CASE ~(changed \/ collected) /\ t > Period
    BY <1>5, <2>2 DEF Fresh, NothingDue
  <2>3. CASE ~(changed \/ collected) /\ ~(t > Period)
    <3>1. t <= Period
      BY <1>4, <2>3, PeriodAssumption
    <3>2. ~changed' /\ lpc' = "wait"
      BY <1>2, <1>5, <2>3
    <3> QED
      BY <1>2, <1>6, <3>1, <3>2 DEF Fresh, NothingDue
  <2> QED
    BY <2>1, <2>2, <2>3
<1>9. WritesInOrder'
  BY <1>2, <1>6 DEF WritesInOrder, ToWrite
<1>10. DueIsLast'
  <2> SUFFICES ASSUME NEW s \in window', NEW later \in window', s.t < later.t
               PROVE  s.t <= Period
    BY DEF DueIsLast
  <2>1. t \in Int /\ s.t \in Int /\ later.t \in Int
    BY <1>4, <1>6, PeriodAssumption
  <2>2. later.t <= t
    BY <1>4, <1>6, <2>1
  <2>3. s \in window
    BY <1>6, <2>1, <2>2
  <2> QED
    BY <1>2, <2>3
<1> QED
  BY <1>6, <1>7, <1>8, <1>9, <1>10 DEF IInv

LEMMA WriteOneStep == ASSUME IInv, WriteOne PROVE IInv'
<1> DEFINE n == Len(out)
           q == ToWrite[n + 1]
<1>1. window # {} /\ \A k \in 1..n : out[k] = ToWrite[k]
  BY DEF WriteOne, IInv, WritesInOrder
<1>2. ToWrite \in Seq(Point) /\ Len(ToWrite) \in {1, 2} /\ n \in Nat /\ out \in Seq(Point)
  BY <1>1, ToWritePoints DEF IInv, TypeOK
<1>3. n < Len(ToWrite) /\ out' = Append(out, q)
  BY DEF WriteOne
<1>4. q \in Point
  BY <1>2, <1>3, ElementOfSeq
<1> HIDE DEF q
<1>5. /\ out' \in Seq(Point) /\ Len(out') = n + 1
      /\ \A k \in 1..n : out'[k] = out[k]
      /\ out'[n + 1] = q
  BY <1>2, <1>3, <1>4, AppendProperties
<1>6. UNCHANGED <<lpc, tick, stop, changed, window, min, max, profilerVars, collected>> /\ lpc = "write"
  BY DEF WriteOne
<1>7. TypeOK'
  BY <1>2, <1>3, <1>5, <1>6 DEF IInv, TypeOK, profilerVars
<1>8. ToWrite' = ToWrite
  BY <1>6 DEF ToWrite
<1>9. WritesInOrder'
  BY <1>1, <1>2, <1>3, <1>5, <1>6, <1>8 DEF WritesInOrder, q
<1> QED
  BY <1>6, <1>7, <1>9 DEF IInv, Fresh, ExtremesKept, Clocked, NothingDue, DueIsLast

LEMMA WriteDoneStep == ASSUME IInv, WriteDone PROVE IInv'
<1>1. /\ window' = {} /\ min' = None /\ max' = None /\ changed' = FALSE /\ lpc' = "wait"
      /\ UNCHANGED <<tick, stop, out, profilerVars, collected>>
  BY DEF WriteDone, Reset
<1>2. TypeOK'
  BY <1>1 DEF IInv, TypeOK, profilerVars
<1> QED
  BY <1>1, <1>2 DEF IInv, Fresh, ExtremesKept, Clocked, NothingDue, DueIsLast, WritesInOrder

\* The invariant of the logger and the profiler, for every run of both.
THEOREM Invariant == Spec => []IInv
<1>1. Init => IInv
  BY InitInvariant
<1>2. IInv /\ [Next]_vars => IInv'
  <2> SUFFICES ASSUME IInv, [Next]_vars PROVE IInv'
    OBVIOUS
  <2>1. CASE UNCHANGED vars
    <3>1. UNCHANGED loggerVars /\ TypeOK'
      BY <2>1 DEF vars, loggerVars, profilerVars, IInv, TypeOK
    <3> QED
      BY <3>1, ProfilerKeepsInvariant
  <2>2. CASE Logger
    BY <2>2, FirstSampleStep, QuietSteps, SampleAgainStep, WriteOneStep, WriteDoneStep DEF Logger
  <2>3. CASE WakeToStop \/ WriteFails \/ Tick \/ Stop \/ StopReturns
    BY <2>3, QuietSteps
  <2>4. CASE Handler \/ Signal \/ StopNotify \/ CloseSignals \/ RuntimeCollects
    BY <2>4, ProfilerSteps
  <2> QED
    BY <2>1, <2>2, <2>3, <2>4 DEF Next
<1> QED
  BY <1>1, <1>2, PTL DEF Spec
-----------------------------------------------------------------------------
(* What follows from it.                                                   *)

\* Windows never span more than the period and a step.
THEOREM TypeCorrect == Spec => []TypeOK
<1>1. IInv => TypeOK
  BY DEF IInv
<1> QED
  BY <1>1, Invariant, PTL

\* Every write puts the two extremes of its window into the file, by time.
THEOREM WritesExtremes == Spec => []ExtremesWritten
<1>1. IInv => ExtremesWritten
  <2> SUFFICES ASSUME IInv, lpc = "write", Len(out) = Len(ToWrite)
               PROVE  /\ \A k \in DOMAIN out : out[k] \in window
                      /\ \A s \in window : \E j, k \in DOMAIN out : out[j].a <= s.a /\ s.a <= out[k].a
                      /\ \A j, k \in DOMAIN out : j < k => out[j].t < out[k].t
    BY DEF ExtremesWritten
  <2>1. window # {} /\ \A k \in 1..Len(out) : out[k] = ToWrite[k]
    BY DEF IInv, WritesInOrder
  <2>2. DOMAIN out = 1..Len(ToWrite)
    BY LenProperties DEF IInv, TypeOK
  <2>3. \A k \in DOMAIN out : out[k] = ToWrite[k] /\ out[k] \in window
    BY <2>1, <2>2, ToWritePoints
  <2>4. ASSUME NEW s \in window
        PROVE  \E j, k \in DOMAIN out : out[j].a <= s.a /\ s.a <= out[k].a
    <3>1. min.a <= s.a /\ s.a <= max.a
      BY <2>1 DEF IInv, ExtremesKept
    <3>2. \E j, k \in DOMAIN out : out[j] = min /\ out[k] = max
      BY <2>1, <2>2, <2>3, ToWritePoints
    <3> QED
      BY <3>1, <3>2
  <2>5. ASSUME NEW j \in DOMAIN out, NEW k \in DOMAIN out, j < k
        PROVE  out[j].t < out[k].t
    <3>1. Len(ToWrite) = 2 /\ j = 1 /\ k = 2
      BY <2>1, <2>2, <2>5, ToWritePoints
    <3> QED
      BY <2>1, <2>3, <3>1, ToWritePoints
  <2> QED
    BY <2>3, <2>4, <2>5
<1> QED
  BY <1>1, Invariant, PTL

\* What a stop loses is bounded by the period and by collections seen, and what a
\* crash or a failed write loses by one sample more (stats.go:71-82).
THEOREM BoundsLoss == Spec => []LossBounded
<1>1. IInv => LossBounded
  BY DEF IInv, NothingDue, DueIsLast, LossBounded
<1> QED
  BY <1>1, Invariant, PTL
=============================================================================
