--------------------------------- MODULE Mem ---------------------------------
(***************************************************************************)
(* Package mem, in a program that runs both of its goroutines: the logger  *)
(* of memory statistics (stats.go, log.go) and the profiler that waits for *)
(* signals (signal.go, prof.go).  They meet in the garbage collector: a    *)
(* profile forces a collection, and a collection makes the logger write.   *)
(*                                                                         *)
(* A statistic is its time and its Alloc.  Times are relative to prev, the *)
(* time of the logger's last write, and the clock advances from one sample *)
(* to the next.  Of NumGC the code only asks whether it has changed.       *)
(***************************************************************************)
EXTENDS Integers, Sequences, FiniteSets

CONSTANTS
  Alloc,    \* values of MemStats.Alloc
  Period,   \* the logger writes when more than Period, 10 s, has passed
  MaxStep,  \* bound: time between two samples
  None      \* the extreme of no sample, Alloc = math.MaxUint64

ASSUME PeriodAssumption == Alloc \subseteq Nat /\ Period \in Nat /\ MaxStep \in Nat \ {0}
ASSUME NoneAssumption == None \notin [t : Int, a : Nat]

VARIABLES
  \* The logger.
  lpc,         \* where run() is
  tick,        \* the ticker's channel holds a tick
  stop,        \* Stop(): "no", "waiting" for the goroutine, "returned"
  changed,     \* NumGC of the last sample is not ngc
  window,      \* history: the samples since the last write
  min, max,    \* pts
  out,         \* what the write in progress, or else the last one, wrote
  \* The profiler.
  hpc,         \* where handler() is
  pending,     \* the channel of signals, of capacity 1, holds a signal
  notified,    \* signal.Notify is in force
  closed,      \* the channel of signals is closed
  unserved,    \* history: a signal was notified and no profile has begun since
  \* The runtime.
  collected    \* a collection since the last sample

loggerVars == <<lpc, tick, stop, changed, window, min, max, out>>
profilerVars == <<hpc, pending, notified, closed, unserved>>
vars == <<loggerVars, profilerVars, collected>>

\* Before the first sample there is none to compare with, and the first is
\* written in any case.
Init ==
  /\ lpc = "first" /\ tick = FALSE /\ stop = "no" /\ changed = FALSE
  /\ window = {} /\ min = None /\ max = None /\ out = << >>
  /\ hpc = "wait" /\ pending = FALSE /\ notified = TRUE /\ closed = FALSE /\ unserved = FALSE
  /\ collected = FALSE

\* A write to a file that fails makes the logger panic, which ends the program.
Ended == lpc = "panicked"
-----------------------------------------------------------------------------
(* stats.go: points.set and points.write.                                  *)

Lowest(p) == IF min = None \/ min.a > p.a THEN p ELSE min
Highest(p) == IF max = None \/ max.a < p.a THEN p ELSE max

\* The points to write, by time.
ToWrite ==
  IF min.t < max.t THEN <<min, max>> ELSE IF min.t > max.t THEN <<max, min>> ELSE <<min>>

\* The extremes start again after a write, with the time of the write as prev.
Now == CHOOSE t \in {s.t : s \in window} : \A s \in window : s.t <= t

\* Variant: the highest point is kept.
ResetLowest ==
  /\ min' = None
  /\ max' = [max EXCEPT !.t = @ - Now]

Reset == min' = None /\ max' = None
-----------------------------------------------------------------------------
(* stats.go: run and Stop.                                                 *)

Sample(t) == \E a \in Alloc : LET p == [t |-> t, a |-> a] IN
  /\ window' = window \cup {p}
  /\ min' = Lowest(p) /\ max' = Highest(p)

FirstSample ==
  /\ lpc = "first"
  /\ Sample(0)
  /\ collected' = FALSE
  /\ out' = << >>
  /\ lpc' = "write"
  /\ UNCHANGED <<tick, stop, changed, profilerVars>>

Tick ==
  /\ lpc \notin {"first", "returned"} /\ ~Ended
  /\ tick' = TRUE
  /\ UNCHANGED <<lpc, stop, changed, window, min, max, out, profilerVars, collected>>

WakeToSample ==
  /\ lpc = "wait" /\ tick
  /\ tick' = FALSE
  /\ lpc' = "sample"
  /\ UNCHANGED <<stop, changed, window, min, max, out, profilerVars, collected>>

\* Variant: a tick goes first.
WakeToStopIdle ==
  /\ lpc = "wait" /\ stop = "waiting" /\ ~tick
  /\ lpc' = "returned"
  /\ UNCHANGED <<tick, stop, changed, window, min, max, out, profilerVars, collected>>

\* With a tick and a stop at hand, select takes either.
WakeToStop ==
  /\ lpc = "wait" /\ stop = "waiting"
  /\ lpc' = "returned"
  /\ UNCHANGED <<tick, stop, changed, window, min, max, out, profilerVars, collected>>

LastSampled == IF window = {} THEN 0 ELSE Now

\* Variant: time alone does not make the logger write.
SampleUntimed ==
  /\ lpc = "sample"
  /\ \E step \in 1..MaxStep :
       /\ Sample(LastSampled + step)
       /\ lpc' = IF changed \/ collected THEN "write" ELSE "wait"
  /\ changed' = (changed \/ collected)
  /\ collected' = FALSE
  /\ out' = << >>
  /\ UNCHANGED <<tick, stop, profilerVars>>

SampleAgain ==
  /\ lpc = "sample"
  /\ \E step \in 1..MaxStep :
       /\ Sample(LastSampled + step)
       /\ lpc' = IF changed \/ collected \/ LastSampled + step > Period THEN "write" ELSE "wait"
  /\ changed' = (changed \/ collected)
  /\ collected' = FALSE
  /\ out' = << >>
  /\ UNCHANGED <<tick, stop, profilerVars>>

WriteOne ==
  /\ lpc = "write" /\ Len(out) < Len(ToWrite)
  /\ out' = Append(out, ToWrite[Len(out) + 1])
  /\ UNCHANGED <<lpc, tick, stop, changed, window, min, max, profilerVars, collected>>

WriteFails ==
  /\ lpc = "write" /\ Len(out) < Len(ToWrite)
  /\ lpc' = "panicked"
  /\ UNCHANGED <<tick, stop, changed, window, min, max, out, profilerVars, collected>>

\* Variant: ngc is not brought up to date.
WriteDoneStale ==
  /\ lpc = "write" /\ Len(out) = Len(ToWrite)
  /\ Reset
  /\ window' = {}
  /\ lpc' = "wait"
  /\ UNCHANGED <<tick, stop, changed, out, profilerVars, collected>>

WriteDone ==
  /\ lpc = "write" /\ Len(out) = Len(ToWrite)
  /\ Reset
  /\ window' = {}
  /\ changed' = FALSE
  /\ lpc' = "wait"
  /\ UNCHANGED <<tick, stop, out, profilerVars, collected>>

Stop ==
  /\ stop = "no" /\ ~Ended
  /\ stop' = "waiting"
  /\ UNCHANGED <<lpc, tick, changed, window, min, max, out, profilerVars, collected>>

\* The goroutine has ended: the file is closed.
StopReturns ==
  /\ stop = "waiting" /\ lpc = "returned"
  /\ stop' = "returned"
  /\ UNCHANGED <<lpc, tick, changed, window, min, max, out, profilerVars, collected>>
-----------------------------------------------------------------------------
(* signal.go and prof.go.                                                  *)

\* Variant: the channel has no buffer, and a signal that finds the handler
\* busy is lost.
SignalUnbuffered ==
  /\ notified /\ ~Ended
  /\ pending' = (pending \/ hpc = "wait") /\ unserved' = TRUE
  /\ UNCHANGED <<loggerVars, hpc, notified, closed, collected>>

\* os/signal drops a signal that finds the channel full.
Signal ==
  /\ notified /\ ~Ended
  /\ pending' = TRUE /\ unserved' = TRUE
  /\ UNCHANGED <<loggerVars, hpc, notified, closed, collected>>

StopNotify ==
  /\ notified /\ ~Ended
  /\ notified' = FALSE
  /\ UNCHANGED <<loggerVars, hpc, pending, closed, unserved, collected>>

CloseSignals ==
  /\ ~notified /\ ~closed /\ ~Ended
  /\ closed' = TRUE
  /\ UNCHANGED <<loggerVars, hpc, pending, notified, unserved, collected>>

TakeSignal ==
  /\ hpc = "wait" /\ pending /\ ~Ended
  /\ pending' = FALSE
  /\ hpc' = "prof"
  /\ UNCHANGED <<loggerVars, notified, closed, unserved, collected>>

HandlerEnds ==
  /\ hpc = "wait" /\ ~pending /\ closed /\ ~Ended
  /\ hpc' = "ended"
  /\ UNCHANGED <<loggerVars, pending, notified, closed, unserved, collected>>

\* The profile is created, or cannot be.
BeginProfile ==
  /\ hpc = "prof" /\ ~Ended
  /\ unserved' = FALSE
  /\ hpc' \in {"collect", "callback"}
  /\ UNCHANGED <<loggerVars, pending, notified, closed, collected>>

\* runtime.GC(), and the profile is written.
Collect ==
  /\ hpc = "collect" /\ ~Ended
  /\ collected' = TRUE
  /\ hpc' = "callback"
  /\ UNCHANGED <<loggerVars, pending, notified, closed, unserved>>

Callback ==
  /\ hpc = "callback" /\ ~Ended
  /\ hpc' = "wait"
  /\ UNCHANGED <<loggerVars, pending, notified, closed, unserved, collected>>

\* The runtime collects when it likes.
RuntimeCollects ==
  /\ ~Ended
  /\ collected' = TRUE
  /\ UNCHANGED <<loggerVars, profilerVars>>
-----------------------------------------------------------------------------
Logger == FirstSample \/ WakeToSample \/ SampleAgain \/ WriteOne \/ WriteDone
Handler == TakeSignal \/ HandlerEnds \/ BeginProfile \/ Collect \/ Callback

Next ==
  \/ Logger \/ WakeToStop \/ WriteFails \/ Tick \/ Stop \/ StopReturns
  \/ Handler \/ Signal \/ StopNotify \/ CloseSignals \/ RuntimeCollects

\* Goroutines run, the ticker ticks, callers of Stop go on.  select chooses at
\* random among the channels that are ready, so a stop cannot lose to a tick for
\* ever.
Fairness ==
  /\ WF_vars(Logger) /\ WF_vars(Tick) /\ SF_vars(WakeToStop) /\ WF_vars(StopReturns)
  /\ WF_vars(Handler) /\ WF_vars(CloseSignals)

Spec == Init /\ [][Next]_vars /\ Fairness
-----------------------------------------------------------------------------
Point == [t : Int, a : Alloc]

TypeOK ==
  /\ lpc \in {"first", "wait", "sample", "write", "returned", "panicked"}
  /\ tick \in BOOLEAN /\ stop \in {"no", "waiting", "returned"} /\ changed \in BOOLEAN
  /\ window \subseteq [t : 0..(Period + MaxStep), a : Alloc]
  /\ min \in Point \cup {None} /\ max \in Point \cup {None}
  /\ out \in Seq(Point) /\ Len(out) <= 2
  /\ hpc \in {"wait", "prof", "collect", "callback", "ended"}
  /\ pending \in BOOLEAN /\ notified \in BOOLEAN /\ closed \in BOOLEAN
  /\ unserved \in BOOLEAN /\ collected \in BOOLEAN

\* A write puts the lowest and the highest of the samples since the write before
\* into the file, in the order of their times (stats.go:103-128): no peak is
\* lost between two writes, and none is written twice.
ExtremesWritten ==
  lpc = "write" /\ Len(out) = Len(ToWrite) =>
    /\ \A k \in DOMAIN out : out[k] \in window
    /\ \A s \in window : \E j, k \in DOMAIN out : out[j].a <= s.a /\ s.a <= out[k].a
    /\ \A j, k \in DOMAIN out : j < k => out[j].t < out[k].t

\* What Stop leaves unwritten spans no more than Period and no collection that the
\* logger has seen.  A write that fails, or a crash at any moment, loses such a
\* window and at most one sample more, the one that called for the write: no sample
\* is ever taken after one that is due (stats.go:71-82).
LossBounded ==
  /\ lpc \in {"wait", "sample", "returned"} => ~changed /\ \A s \in window : s.t <= Period
  /\ \A s, later \in window : s.t < later.t => s.t <= Period

\* A signal notified while the profiler runs is followed by a profile that begins
\* after it, even one that finds the handler busy or a signal pending
\* (signal.go:9-33).
SignalServed == unserved ~> (~unserved \/ Ended)

\* Stop of the logger returns, however fast ticks come, and StopProfOnSignal
\* ends the handler (stats.go:37-42, signal.go:17-33).
StopsEnd ==
  /\ stop = "waiting" ~> (stop = "returned" \/ Ended)
  /\ ~notified ~> (hpc = "ended" \/ Ended)
=============================================================================
