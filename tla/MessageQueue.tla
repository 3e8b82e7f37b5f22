---------------------------- MODULE MessageQueue ----------------------------
(***************************************************************************)
(* mig/probe/message_queue.c: a queue of variable-length records in a flat *)
(* byte buffer.  A record is a flag byte followed by its length-prefixed   *)
(* address and payload; it is never split, so a record that does not fit   *)
(* behind the tail is written at the start of the buffer, and a wrap flag  *)
(* left at the old tail tells the reader to continue there.                *)
(*                                                                         *)
(* A byte is modelled by what a reader that starts at it would see: the    *)
(* first byte of a record (named by the message), the wrap flag, or Body,  *)
(* a byte inside a record.  Body stands for any byte value, the value of   *)
(* either flag included: a queue is correct only if the head never rests   *)
(* on one.                                                                 *)
(***************************************************************************)
EXTENDS Integers, Sequences, FiniteSets

CONSTANTS Size,        \* bytes in the buffer
          Message,     \* the messages (address and payload) that may be queued
          RecordSize,  \* bytes a reader skips that starts at a given byte: for a
                       \* message those of its record, header included
          Body,        \* a byte inside a record
          Wrap,        \* QUEUE_WRAP_FLAG
          None,        \* "nothing has been taken yet"
          Garbage      \* what malloc may leave in a byte

Addr == 0..(Size - 1)
Cell == Message \cup {Body, Wrap}

ASSUME SizeAssumption == Size \in Nat \ {0}
ASSUME RecordSizeAssumption == RecordSize \in [Cell -> Nat \ {0}]
ASSUME FlagAssumption == Body \notin Message /\ Wrap \notin Message
ASSUME GarbageAssumption == Garbage \subseteq Cell

VARIABLES mem,   \* queue->buffer
          head,  \* queue->head, as an offset into the buffer
          tail,  \* queue->tail, likewise
          log,   \* history: where each queued record starts, and its message
          out    \* history: the message taken last

vars == <<mem, head, tail, log, out>>

Init ==
  /\ mem \in [Addr -> Garbage]
  /\ head = 0
  /\ tail = 0
  /\ log = << >>
  /\ out = None
-----------------------------------------------------------------------------
IsEmpty == head = tail

\* Variant: a record may end exactly at the limit.
FitsExactly(at, m, limit) == at + RecordSize[m] <= limit

\* push_message_to_the_limit accepts a record only if it ends before the limit.
Fits(at, m, limit) == at + RecordSize[m] < limit

WriteRecord(cells, at, m) ==
  [a \in Addr |-> IF a = at THEN m
                  ELSE IF a \in (at + 1)..(at + RecordSize[m] - 1) THEN Body
                  ELSE cells[a]]

TailLimit == IF tail < head THEN head ELSE Size

FitsAtTail(m) == Fits(tail, m, TailLimit)

\* Variant: the buffer is used once and never wraps.
NeverWraps == FALSE

MayWrap == tail >= head /\ head # 0

CanPush(m) == FitsAtTail(m) \/ (MayWrap /\ Fits(0, m, head))

Accept(m, at) ==
  /\ tail' = at + RecordSize[m]
  /\ log' = Append(log, [at |-> at, msg |-> m])
  /\ UNCHANGED <<head, out>>

PushAtTail(m) ==
  /\ FitsAtTail(m)
  /\ mem' = WriteRecord(mem, tail, m)
  /\ Accept(m, tail)

\* Variant: the wrap flag is forgotten.
PushWrappedUnflagged(m) ==
  /\ ~FitsAtTail(m)
  /\ MayWrap
  /\ Fits(0, m, head)
  /\ mem' = WriteRecord(mem, 0, m)
  /\ Accept(m, 0)

PushWrapped(m) ==
  /\ ~FitsAtTail(m)
  /\ MayWrap
  /\ Fits(0, m, head)
  /\ mem' = WriteRecord([mem EXCEPT ![tail] = Wrap], 0, m)
  /\ Accept(m, 0)

\* A refused push may already have put the wrap flag at the tail.
PushRefused(m) ==
  /\ ~CanPush(m)
  /\ mem' = IF MayWrap THEN [mem EXCEPT ![tail] = Wrap] ELSE mem
  /\ UNCHANGED <<head, tail, log, out>>

Push(m) == PushAtTail(m) \/ PushWrapped(m) \/ PushRefused(m)
-----------------------------------------------------------------------------
\* Where get_message starts to read, and what it finds there.
ReadFrom(h) == IF mem[h] = Wrap THEN 0 ELSE h
HeadMessage == mem[ReadFrom(head)]
NewHead == ReadFrom(head) + RecordSize[HeadMessage]

\* get_message leaves the queue as it is: its caller, send_all, stores the new
\* head once the reply has been sent, and reads the same reply again if not.
Get ==
  /\ ~IsEmpty
  /\ out' = HeadMessage
  /\ head' = NewHead
  /\ log' = Tail(log)
  /\ UNCHANGED <<mem, tail>>

Next == Get \/ \E m \in Message : Push(m)

Spec == Init /\ [][Next]_vars
-----------------------------------------------------------------------------
TypeOK ==
  /\ mem \in [Addr -> Cell]
  /\ head \in Addr
  /\ tail \in Addr
  /\ log \in Seq([at : Addr, msg : Message])
  /\ out \in Message \cup {None}

\* The two pointers meet exactly when every accepted message has been taken:
\* a tail that caught up with the head from behind would make
\* IS_QUEUE_EMPTY (message_queue.h) drop a buffer full of replies.
EmptyWhenDrained == IsEmpty <=> log = << >>

\* Whatever the order of pushes, wraps, refused pushes and reads, the head
\* leads get_message (message_queue.c:90-108) to the first byte of the oldest
\* record, intact: never into a record, onto a stale flag or to a newer one.
ReadsOldestRecord ==
  log # << >> => /\ ReadFrom(head) = log[1].at
                 /\ HeadMessage = log[1].msg

\* The bytes of one queued record.
Bytes(r) == r.at..(r.at + RecordSize[r.msg] - 1)

\* No push overwrites a byte of a message still queued, and no record runs
\* past the end of the buffer.
RecordsIntact ==
  \A i \in 1..Len(log) :
    /\ Bytes(log[i]) \subseteq Addr
    /\ mem[log[i].at] = log[i].msg
    /\ \A a \in Bytes(log[i]) \ {log[i].at} : mem[a] = Body
    /\ \A j \in 1..Len(log) : i # j => Bytes(log[i]) \cap Bytes(log[j]) = {}

\* The bytes of the buffer that hold queued messages.
Used == UNION {Bytes(log[i]) : i \in 1..Len(log)}

\* A push is refused only when the queue is nearly full: the bytes in use, the
\* record refused and one longest record (the space lost where the buffer
\* wraps) do not fit the buffer.  The server stops on a refusal
\* (server.c:316-326), so a queue that refused early would end a test run.
RefusesOnlyNearFull ==
  \A m \in Message : ~CanPush(m) =>
    \E longest \in Message : Cardinality(Used) + RecordSize[m] + RecordSize[longest] >= Size

\* The buffer is a first-in first-out queue: the abstract queue holds the
\* messages of the records, oldest first.
Queued == [i \in 1..Len(log) |-> log[i].msg]
F == INSTANCE Fifo WITH queue <- Queued
IsFifo == F!Spec
-----------------------------------------------------------------------------
\* The inductive invariant.  The queued records form a chain from the head to
\* the tail; a step of the chain stays where it is or goes through a wrap flag.
End(r) == r.at + RecordSize[r.msg]
Link(p, at) == at = p \/ (tail < head /\ p >= head /\ mem[p] = Wrap /\ at = 0)

Chain ==
  /\ log # << >> => Link(head, log[1].at) /\ End(log[Len(log)]) = tail
  /\ \A i \in 1..(Len(log) - 1) : Link(End(log[i]), log[i + 1].at)

High(r) == head <= r.at /\ End(r) < Size
Low(r) == End(r) <= tail

\* Before the buffer wraps every record lies in head..tail; afterwards it lies
\* above the head or below the tail.
Regions ==
  \A i \in 1..Len(log) :
    IF tail < head THEN High(log[i]) \/ Low(log[i])
                   ELSE High(log[i]) /\ Low(log[i])

\* Older records come first; once the buffer has wrapped, those above the head
\* come before those below the tail.
Ordered ==
  \A i, j \in 1..Len(log) :
    i < j => \/ End(log[i]) <= log[j].at /\ (Low(log[i]) => Low(log[j]))
             \/ tail < head /\ High(log[i]) /\ Low(log[j])

\* There is no hole between the records: from the head to the tail every byte is in
\* use or, once the buffer has wrapped, to a place where some message did not fit.
NoHoles ==
  IF tail < head
  THEN \E w \in head..(Size - 1) : /\ (head..(w - 1)) \cup (0..(tail - 1)) \subseteq Used
                                  /\ \E m \in Message : ~Fits(w, m, Size)
  ELSE head..(tail - 1) \subseteq Used

IInv == TypeOK /\ EmptyWhenDrained /\ Chain /\ Regions /\ Ordered /\ RecordsIntact
=============================================================================
