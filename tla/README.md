# dnstools in TLA+

Specifications of the tools in this repository, model-checked with TLC; their safety
is proved with TLAPS. The repository has three groups of programs:

- `mig/probe`: `mig`, a client that sends DNS queries and measures how long the
  replies take, and `server`, a stub DNS server that answers every query with a
  refusal;
- `mig/analyser`: scripts that draw the client's reports (`grinder.py`), print
  their rates (`fit.py`) and propose the next rate to try (`preview.py`);
- `dnstest`: a load generator for DNS over TLS, TCP or UDP;
- `mem`: a Go package that logs the memory statistics of a program and writes
  heap profiles on signals.

The core is the measurement: a query that is answered must be counted once, with
its own reply, and the stub server must not lose, double or reorder a reply,
whatever the sockets, the network and the signals do; and what is drawn of it must
say what was measured.

## Inventory

| Part | State | Operations | Hard behaviour | What makes it correct |
|---|---|---|---|---|
| Reply queue, `message_queue.c` | one byte buffer, head, tail; records of varying length; flags that mark a record or a wrap | `push_message`, `get_message`, the caller's store of the new head | wrap-around, a refused push that has already written its wrap flag, full against empty | first in, first out, bytes intact; refuses only when nearly full |
| Stub server, `server.c` | the queue, the select sets, `messages_received`, arrays of timestamps, the signal flag | `serve`, `recv_all`, `send_all`, `check_int_code`, `catch_info`, `dump_timestamps` | a full socket buffer in mid-queue, select sets overwritten on each wait, a signal at any point, stale `errno`, end of input | each reply sent once, in order; no wait with work at hand; each signal served; counts and timestamps add up |
| mig client, `main.c` | arrays `sends`, `receives`, `pairs`; counters; select sets; `attempts` | `make_queries`, `sent_query`, `recv_answer`, the two loops of `main` | lost, late, doubled, reordered and stray replies, rate limit, timeout against late answer, ids that repeat | each reply credited to its own query, once; the report that is written is well formed and agrees with the counters; the run ends |
| Domain names, `main.c` | offsets into the file and into the block of names | `get_domains`, the walk in `make_queries` | sizes computed before parsing, the last line without a newline, blank lines | a query per line with that line's name; the block is large enough; ill-formed files are rejected |
| Options, socket set-up, `logger.c` | options | parsing, logging | ownership of the names' block on errors | not modelled |
| dnstest | channel of connections, counters, one connection per client | `worker`, `connect`, `req`, `exchange` | workers share one channel; replies late, doubled or never; failing dials | no connection shared or leaked; no worker blocks; every client has its turn |
| mem | extremes since the last write, ticker, stop channel; channel of signals | `run`, `Stop`; `handler`, `StopProfOnSignal` | tick against stop, signal against profile, collections | the extremes of every window are written; no signal is lost; both goroutines end |
| Report charts, `grinder.py` | inputs, the report at hand, lines of four charts, series of the rate chart | collect, load and cut, fit, draw, finish | strides, bars and buckets at their boundaries, ties in sorts, a range cut by place and not by time, exceptions half way | every point says what the report says; no message left out or counted twice; the rates are those of `fit.py` |
| Rate search, `preview.py`, `fit.py` | limits, the rate tested, its report | `preview`, and the operator between two runs | two-digit rounding, loss by chance near the capacity, a client slower than its limit | proposals stay between the limits; the search ends at the capacity |
| Page scripts, build files | none | display, compilation | none | not modelled |

How they interact: `server` is one thread over the reply queue, called by
`recv_all` and `send_all`, with a signal handler that shares one flag with the
loop. `mig` is one thread and meets a server only over UDP; `Probe` lets the two meet. The workers of
dnstest meet in the channel and in two atomic counters. The two goroutines of mem
meet in the garbage collector: a profile forces a collection, and a collection
makes the logger write. The analyser's scripts read the files mig writes, and the
operator carries their results back to mig as its next limit. No program reads
another's memory; files are written once at the end or on a signal.

## Modules

| Module | Models | Uses |
|---|---|---|
| `Fifo` | what the reply queue promises: a bounded first-in first-out queue that may refuse | |
| `MessageQueue` | `message_queue.c`, byte by byte | `Fifo` by a refinement mapping |
| `MessageQueueProofs` | theorems about `MessageQueue` | |
| `Server` | `server.c` from `serve` down | instantiates `MessageQueue` |
| `ServerProofs` | theorems about `Server` | instantiates `MessageQueueProofs` |
| `Measurement` | what a run of mig promises | |
| `Ranks` | sets and sequences of numbers in their order, and loops | |
| `Report` | the file between mig and the analyser: what is written and how it is loaded | `Ranks` |
| `Mig` | the client's ids, `recv_answer`, `sent_query`, both loops and the report, with the network | `Report`; `Measurement` by a refinement mapping |
| `MigProofs` | theorems about `Mig` | |
| `Probe` | client, network and stub server as one system | instantiates `Mig` and `Server` |
| `ProbeProofs` | theorems about `Probe` | instantiates `MigProofs` and `ServerProofs` |
| `Domains` | `get_domains`, and the walk of `make_queries` over its result | `Ranks` |
| `DomainsProofs` | theorems about `Domains` | |
| `Dnstest` | the pool of `dnstest/src/data.go` | |
| `DnstestProofs` | theorems about `Dnstest` | |
| `Mem` | `mem/stats.go`, `log.go`, `signal.go`, `prof.go` | |
| `MemProofs` | theorems about `Mem` | |
| `Charts` | the functions of `grinder.py` that turn a report into points, and the rates of `fit.py` | `Report` |
| `Grinder` | `main` of `grinder.py`: inputs, cuts, charts, exceptions | `Charts` |
| `Search` | the search of `mig/analyser/README.md` with `preview.py` | `Ranks` |
| `AnalyserProofs` | theorems about `Grinder` and `Search` | |

Each `MC*` module gives the constants of one of these for TLC, and each `.cfg` is
one run. Operators whose comment begins with "Variant" are wrong on purpose: they
say how a definition could plausibly be broken, and each property is known to fail
when some variant takes the place of the definition next to it.

### Correspondence to the code

Variables carry the names of the code's variables; the others are marked as
history (nothing in the model's behaviour depends on them) or as part of the world.
`PROJECT.json` maps each definition to its lines.

*MessageQueue.* `mem` is the buffer; `Size`, `head` and `tail` are offsets where
the code has pointers. A record is as many cells as `RecordSize` says; its first
cell holds the flag and its message, the others are body. Every byte
starts as any of `Garbage`, as malloc leaves it. `Push` is all of `push_message` in
its three outcomes: `PushAtTail`, `PushWrapped`, and `PushRefused`, which leaves the
wrap flag at the tail as the code does. `Get` is `get_message` and the store of the
head that `send_all` makes once `sendto` has taken the message. Between the two
the server may give up (EAGAIN), and then the queue is as it was.

*Server.* `pc` marks the places where another party can act or the code branches:
`top` (the test of the flag), `dump` (flag cleared, file not yet written),
`select`, `recv`, `stdin`, `send`. One message received or sent is one step, so
the signal handler and the clients interleave with both loops. `readfds`,
`writefds` and `pwritefds` are the sets as `serve` keeps them, including that
pselect clears what is not ready. `errno` is kept in as far as `check_int_code`
looks at it: EAGAIN or something else. Every `return -1` is an exit to `failed`. The queue is
the real one, wraps and refusals included.

*Mig.* `pc` goes through `select`, `recv` and `write` in the loop that sends and
`wait` and `drain` in the one that waits. Time is a counter that every time stamp
reads; it may stand still between two stamps and advances by at most `MaxGap`. A
reply carries its transaction id and, as history, the query it answers, so
that `credit` can tell whose reply a pair was given. `read` collects the queries of
which a reply was read later than the stamp of the query. `sent` starts as anything
in `Uninitialized`: malloc does not clear it and `main` does not either. `Written`
is the report as `main` prints it, and `IsReport` of `Report` what the probe's
README says of one; the analyser's models take exactly such reports as their inputs.

*Probe.* Every step of either program is a step of `Mig` or `Server` as it stands; a
query may arrive at the server only once the client's kernel has sent it, and a
reply at the client only once the server's has. In `Mig` alone a second may pass for
the waiting client at any time; here only when nothing else can happen (`Still`), for
`RECV_TIMEOUT` seconds are long for two hosts with work at hand; that is an assumption
about the hosts, not code. So what the client gives up on was stuck or lost, and not
just slow. `LossIsReal` admits one loss of a reply that arrived: every copy of it was
read in the tick of its query (`ReadInItsTick`), which `main.c:232` takes for a
duplicate. A reply left in the client's socket is no excuse.

*Domains.* One step per character, as the loop has it; the four exits on an
ill-formed name are `RejectLabel`, `RejectName`, `RejectLetter` and `RejectLast`.
A label's letters are the bytes themselves, so that a label copied from the wrong
offset is seen. `QueryName` is what `make_queries` finds by walking the names with
`strlen`, starting again at the zero byte after the last. What the lines and labels of
a text are is said without the scan: `Cuts` are the places of the separators and both
ends, and a piece lies between two that follow each other.

*Dnstest.* `conns` is the Go channel: an item is a connection or nil, with the
client whose place it is as history. A worker's steps are take, dial, count the
request, write, read, put back. The server may answer a request once, doubly or never, with a good or a
bad code. Requests are told apart by their seeds; the 16-bit random ids of the
library are taken to differ.

*Mem.* A sample is its time since the last write and its `Alloc`; the comparison of
`NumGC` is the flag `changed`. `select` is a choice between `WakeToSample` and
`WakeToStop`. Signals reach a channel of one place and are dropped if it is full.

*Ranks.* `Kept` selects, `Order` sorts stably and `Loop` is a `for` over a list. They
say what `SelectSeq`, `SortSeq` and the folds say by ranks and by a recursive
function, which the provers can follow.

*Charts.* The scripts compute in floating point; here a point keeps the whole
numbers it is made of, so that equality is exact: a mean is a sum and a number of
items, a rate a fraction, a bucket's bound `10^(p/q)` its place among the bounds
(`Above` compares powers). Each `for` of the script is a `Loop` whose turn is an
operator (`CountEvent`, `PlaceDelay`, ...). `Fit` is the set of slopes `leastsq` may return: the one
of the least squares; `AnyRate` if all points have one time; none, which is an
exception, for fewer than two points. `SortedBy` is Python's stable sort.

*Grinder.* `pc` follows one input through `load`, `fit` and `draw`, back to the next
one, and to `finish`. A line knows its input, so that the properties compare what is
drawn with the file. `raised` is an uncaught exception, `unwritten` an output that
cannot be opened. Any report that asks for fits raises, since `make_fit` uses names
it does not have (`grinder.py:355`). Fits being absent, charts have one stride.

*Search.* A cycle is a run of mig (`Measure`), a call of `preview.py` (`Preview`) and
the operator who moves a limit as the README tells (`Adjust`, external to the code).
`RateRound` is the loop that divides by ten, for whole rates; `Scale`, the number of its
turns, ends at 7, for mig counts in nanoseconds and no rate exceeds 10^9. A server answers every
query up to its capacity, loses some above capacity plus `Noise`, and in between it
is a matter of chance. The rate that `preview.py` fits is taken as exactly the smaller
of the limit and the client's speed: the whole nanoseconds of the interval
(`main.c:761-766`), which put it slightly off the limit, and runs of fewer than two
queries, of which no rate can be fitted, are left out.

## Runs

| Run | Instance | What it shows |
|---|---|---|
| `fifo_queue` | 8 bytes, records of 1, 2 and 4 | Every interleaving of pushes and gets keeps the queue a FIFO; a refusal only when the records in it, the new one and one longest record do not fit |
| `server_loop` | 4 queries (one malformed), 6-byte queue, socket buffer of 1, 1 timestamp, 1 signal | Replies leave once and in order; every wait watches what it must; dumps hold the events since the last; counts add up |
| `server_progress` | 2 queries, 2 signals | Replies are sent, signals served, messages reported |
| `mig_run` | 3 queries, rate limit, 2 copies of each reply, one stray message | Crediting, the report against the counters, rate, termination, and that the run implements `Measurement` |
| `probe` | 2 queries, one may be lost, 2 copies of each reply, 1 signal | The counts of both programs agree; what mig reports as lost was lost outside of both, or read in the tick of its query |
| `domains` | all files up to 8 bytes over two letters, dot, newline; labels up to 3, file limit 7 | Names read, ill-formed files rejected at their line, size of the block |
| `dnstest` | 2 workers, 3 clients, 4 connections, 3 requests, 1 double reply | The pool, the cost of a double reply, turns |
| `mem` | 3 values of Alloc, a period of 2 samples | Extremes, what a stop and a crash may lose, signals, stops |
| `grinder` | all reports of up to 3 queries with every cut; 6 and 7 queries; directories of 2 to 4 files; 3 points to a chart | Counts, bars, buckets and queries in the air are those of the report; nothing before the start; the rates of `fit.py` |
| `search` | 9 limits and 6 capacities about 100, noise of 12, 3 speeds of the client | Proposals stay inside; the search ends, and where |
| `server_eof` | 2 queries | violation, see below |
| `mig_ids` | 3 queries, 2 transaction ids | violation |

Deadlock is not checked where programs stop by design: the server after `s` or an
error, mig at its end, the parser with its result, the load test at its limit, the
logger after `Stop`, `grinder.py` with its page. The runs of the queue and the search
check it.

### Why the bounds are enough

- *Queue.* In 8 bytes with records of 1, 2 and 4, every relation of head to
  tail occurs, exact fits, wraps that leave 0 to 3 bytes, refused
  wraps and full wraps. The theorems cover all sizes.
- *Server.* Six bytes with replies of 2 and 3 wrap and refuse; a socket buffer of
  one fills with a queue of two; one timestamp reaches the limit with the second
  event. One signal reaches every point of the loop; `server_progress` has two, so
  that the second can fall into the dump of the first.
- *mig.* Three queries and two copies give any order of three replies, copies
  before, between and after them; the stray message has an id no query has, which
  ends the run wherever it comes. Two
  seconds without events (`RecvTimeout`) let an event come after the first and
  reset the count. A limit of 4 queries in 4 ticks makes the interval 1 with clock
  steps of 0 or 1: early and late wake-ups.
- *probe.* Two queries leave one in the server's queue behind a full socket buffer of
  one, or on the network while the other is answered; with 5 bytes the queue
  holds both. Wraps, refusals, typed input and the dump's contents are in `server_loop`,
  more orders of replies and the rate limit in `mig_run`.
- *Domains.* Seven bytes hold three names, or a name of two labels with its
  separators between two others; 8 is one more than the limit. The arithmetic of
  the block is proved for all sizes.
- *dnstest.* Three clients on two workers make a place wait in the channel; four
  connections are one more than the clients, so that a dropped one is replaced; three
  requests leave room for a double reply, its victim and a request after it.
- *mem.* Three values of Alloc order two extremes and one between; a period of two
  gives windows of up to three samples ended by time, and shorter ones ended by
  collections.
- *Charts.* With three points to a chart, a stride of two begins at six items: six
  have no rest and seven have one. Two times of sending make every pattern of
  bursts in the strides. Delays 1, 2 and 30 span two powers of ten and leave the
  middle bucket empty, 2 and 5 fall into different ones, and 0 is a lost reply. The
  ranges `1:`, `:2` and `:-1` cut either end, and may leave nothing.
- *Search.* Rounding changes its grain at 100: the limits and capacities lie about
  it, on it and a factor of three away. A noise of 12 covers several neighbouring
  limits; of the clients one is below 100, one just above and one never in the way.

### Fairness

- *Server.* `WF(Step)`: one thread, always runnable, so it takes its next step;
  failures of system calls, signals and the clients have none. `WF` of the
  kernel's transmission, or a full socket buffer might never drain. `server_progress`
  assumes for reports only (`Quiet`) that typing pauses.
- *Mig.* `WF(Step)` for the thread, `WF` of transmission likewise, and `WF` of the
  clock. Replies have none: `Terminates` holds with every reply lost.
- *Dnstest.* `WF(Work(w))` for each goroutine; dials and reads return by
  their deadlines, by an error if nothing else, and a write is one small message on
  a connection with no other under way, which the kernel takes at once.
- *Search.* `WF(SearchNext)`: the operator goes on with the procedure.
- *Mem.* `WF` for the goroutines and the ticker. `SF` of `WakeToStop`: Go's
  `select` chooses uniformly among the ready cases, and the closed channel is ready
  each time round.

## Proofs

TLAPS checks eight modules. Every theorem is for all values of the constants under
the assumptions named in the modules, and nothing else: any number of queries,
clients, workers and connections, any buffer, network, alphabet and period. All
inductive invariants were put to TLC first. Every invariant that a passing run checks
is a theorem here, some of them under a hypothesis that is given below.

Where a loop or a sequence is followed to its end, the induction is over numbers: the
numbers of which a fact holds form a set, and the least one outside of it (`Least`)
would follow one inside. `Upwards` says so once, and `LoopRuns` unrolls a `Loop`.

**Reply queue.** Assumptions: a record has at least one byte, flags differ from
messages, the buffer has at least one byte. The invariants of interest are not
inductive: that the next read finds its message needs to know where all later
records are. `IInv` says that the records, with their places kept in the history
`log`, form a chain: the first begins where a read from the head looks (behind the
wrap flag if there is one), each begins where the one before ends or, once at most,
at offset 0 behind a wrap flag, the last ends at the tail; and the free space is the
rest. One lemma for each outcome of a push and one for the read show it is
preserved. From it follow, as theorems, `TypeOK`, `RecordsIntact` (no push
overwrites a queued record), `EmptyWhenDrained` (head = tail exactly if nothing is
queued), `ReadsOldestRecord`, and `ImplementsFifo`: each step of the buffer is a
step or a stutter of `Fifo` (`Spec => IsFifo`). `EmptyAccepts` says an empty queue
accepts any record smaller than half the buffer, wherever its head came to rest; a
larger one it may refuse. `RefusesOnlyNearFull` needs a second invariant, `NoHoles`:
between head and tail all bytes are in use, but for those left behind when a message
did not fit before the end; it turns a refusal into a bound on the bytes in use
(`Used`), the message and that other message. `IInv`, `NoHoles`, `TypeOK`,
`RecordsIntact` and `ReadsOldestRecord`, being proved for every size, have no run.

**Stub server.** Assumptions: those of the queue for its replies, a socket buffer of
at least one. What the queue does is taken from `MessageQueueProofs`, whose theorems
are instantiated; `SameInvariant` shows that the server's queue is that one. Before
`pselect` can be shown to sleep through nothing, it has to be known where the sets
it clears are restored (`Restored`: the socket by `recv_all`, stdin by
`check_int_code`), and before the timestamps add up, that a dump has seen no more
than what has happened (`MarkPast`). Proved: `TypeOK`, in which the arrays of
timestamps never overflow, `RepliesInOrder`, `NothingSleptThrough`,
`EventsAccounted`, and `AcceptsOnce`, on which the proofs about `Probe` rest.

**mig.** Assumptions: at least one query, id, nanosecond, second to wait and place
in the socket buffer; `None` is no query. Whatever the ids, `RunInv` holds: where
`main` is fixes how much it has sent, each counted reply has a pair of its own, and
send times are in order, spaced, and behind the clock. `TypeOK` and `RateLimited`
follow, and with `Receipts` (the array `receives` is filled in order of time and
holds each time as often as the pairs) what the report needs. That a reply is
credited to its own query is false when ids wrap (`mig_ids`), so `PairsMatch`,
`LostOnlyUnread`, `WritesReport` and `IsMeasurement` have the hypothesis `NoWrap`:
no more queries than ids, and no message from elsewhere with an id in use. It is
what `mig_run` has as well. `PairInv` adds to them that a reply in the socket names
a query that has left (`Genuine`). `Refines` proves the refinement of `Measurement`
step by step, a credit, a query sent and the end of the run being the steps that are
no stutter. `ReportsSorted` is the half of `WritesReport` that says the report is
sorted and its arrays agree: times are counted by bijections between the arrays'
indices and the pairs. `ReportsWritten` is all of `WritesReport`: the replies `load`
keeps are the pairs with a time of receipt, so that the analyser counts as many losses
as mig did.

**Client and server together.** Assumptions: those of both, and `NoWrap` again. The
invariant is each program's own, taken from `MigProofs` and `ServerProofs`, and
`Conveyed`: what a client holds or has credited left the server, what a server has
seen left the client. Each step of a program preserves its own part by the theorem
of its module, so that only `Conveyed` and the loss remain: `LossIsReal` for every
step, of which the last is a wait in vain, with the socket empty because the client
watches it whenever it does not read (`Watched`), and `CountsAgree` by comparing sets of queries, for which the server's list of
replies must be without repetition (`Once`).

**Domain names.** Assumptions: the text has no zero byte, as `get_domains` takes it,
and labels are limited to at most 255. `IInv` adds to the type invariant that lines
finished so far took at most 3/2 of their bytes in the block, and the labels of the
current line as many bytes as they have. Proved: `TypeOK`, and
`NamesFitButForOneByte`: the names of any file fit the block of `main.c:433` except,
for a file of even size without a final newline, for one byte, never more.
`RejectsFirstIllFormed` compares the scan with the lines and labels of the whole
text. The lemmas on cuts say that pieces are what lies between neighbouring cuts,
numbered by the cuts before them (`PieceBetween`), and that the cuts of a line are
those of the text (`NameAdjacent`), so that a line is ill-formed by the places of
its separators alone (`IllFormedByPlace`). `ScanInv` then says where the current
line and label begin among the cuts, that `line` is that line's rank, that no line
before is ill-formed and no label of this one is so far. With it the offset labels are
copied from can be followed: `CopiesFromPlace` says that it is where the label begins
unless the file has a blank line before another line, which is the reason for that
hypothesis of `NamesRead`. Under it each byte of a name has a place in the block: that
of its letter in the text, moved on by the number of the line, for every name has a
length in front and a zero behind where its line has a newline. `NamesStored` is that
invariant of the scan, with the current label's length byte still to be written.
Of the finished block, the walk of `make_queries` is followed from name to name: from the
start of one, `strlen` finds the zero behind it, because no byte within is zero. Hence
`NamesAreRead` and, since the walk starts again behind the last, `QueriesGoRound` for
queries of any number.

**dnstest.** Assumptions: finitely many workers, `None` is no client or connection.
`PoolInv` says where each client's place and each open connection is, that none is
in two places, and that there are as many places as clients; `TypeOK` and `PoolKept`
follow. `DuplicateCostsOneRequest` counts: `Paid` weighs the mismatches so far and
the connections that hold a reply nobody waits for (`Surplus`) against the
duplicates. A mismatch closes one such connection; only a duplicate makes one, since
a reply comes first to a worker who waits for it.

**mem.** Assumptions: `Alloc` is a set of naturals, `None` is no point. `IInv` says
that `min` and `max` are the extremes of the window, that samples in it differ in
time, that the logger is at rest only if it has no reason to write, and that what it
has written is the beginning of what it will, and that no sample was taken after one that
called for a write (`DueIsLast`). `TypeOK`, `ExtremesWritten` and `LossBounded` follow:
a stop loses no sample later than the period after the last write, and a crash or a
failed write at most the one that called for the write besides.

**Report charts.** Assumptions: at least one point to a chart, a range of numbers or
none, and single files given as such. Reports are any that agree with `IsReport`.
`GrinderInv` says that every line is what its function makes of the report of its
input, cut as asked (`LinesAreDrawn`); the rest is about those functions.
*Cutting.* The k-th reply read is not earlier than the k-th query sent: behind it are k
replies, of k queries, one of which is the k-th or a later one (`RepliesBehind`). So
what `load` and the range leave of a report begins with its first query (`CutSound`),
and `NothingBefore` follows for all four charts.
*Counts.* A stride's point is at the item that ends it; that the last is at the end
is arithmetic (`Strides`).
*Rates.* A bar is appended or goes on growing when several messages have one time. The
invariant of the loop (`BarsMeet`, kept by `RateTurn`) has the bars so far meet, the
growing one begin where they end, and all of them count the messages passed.
*Queries in the air.* Sorting numbers the events; `EventsInAir` shows that, at each
number, the increments so far are the queries that have left less those answered,
whatever the order among equal ticks. `QueueGoing` says of the window that it sums just
that over the events since the last point.
*Latencies.* Powers of whole numbers rise (`TenGrows`), and so do the buckets' bounds, so
that the buckets a delay has passed stay passed for the next, not smaller one:
`BinsRight` says that every delay so far is in the one bucket it belongs in, as often as
it came.
*The rate chart.* The slope of the least squares is a mean of the rates between pairs
of messages, weighted by the squares of their distances in time (`AllPairs`); so it
lies between the least and the greatest (`FitIs`). Fractions compare as numbers
do (`SlowerOrders`), and sorting the points by one series and the labels by speed keeps
each with its input (`RatesInv`, `RatesOfTheInputs`).

**Rate search.** Assumption: the operator begins with limits of two digits and
zeroes below the bound of `Scale`. With others `TestsInside` is false, as rounding
can leave an interval shorter than its grain. The lemmas show that `RateRound`
yields two digits, leaves such numbers alone and is monotonic across scales; so half
way between two of them rounds to a number between them.

**Only model-checked.** All liveness (`RepliesSent`, `SignalServed`,
`MessagesReported`, `SearchEnds`, `ClientsServed`, `Terminates`, `StopsEnd`), which
is out of the prover's reach. Of the runs that end in a violation, `mig_ids` shows that
`NoWrap` is needed.

## What the checks found

Runs that end in a violation, each against what the repository says:

1. `server_eof`: at the end of stdin `check_int_code` may see a stale EAGAIN, after
   which pselect returns at once for ever and received messages are never reported.
2. `mig_ids`: with more queries than transaction ids a reply can be credited to a
   query not yet sent, since `pairs[i].sent` is read before it is set.

Seen while modelling, without a run of their own.

*Probe.* The server's `-o` file is written only on a signal, so that one stopped
with `s` drops its timestamps; the label after a blank line of a domain file is
copied from the newline on (`main.c:479`), for which reason `NamesRead` excludes
such files: TLC finds the file of a newline and one letter if it does not; the block
of names is one byte short for some files (`main.c:433`; `NamesFitButForOneByte`
says by how much); a domain file rejected by `get_domains` has its block freed again
in `get_options` (`main.c:464`, `731`); each dump truncates the output file;
`recv_all` does not let replies out while queries keep coming; a malformed query or
a full queue ends the server; a reply stamped in the tick of its query is taken for
a duplicate; an interrupted select ends mig without a report; the rate interval is
rounded down; a trailing dot in a domain file is rejected.

*mem and dnstest.* A profile may be written
after `StopProfOnSignal` if its signal was buffered; the last window of the memory
log is not flushed by `Stop`; a wall clock set back delays the logger; dnstest's
`stats` divides by whole seconds (zero in a run shorter than one) and counts
failed requests, its `-u` prefixes count up although `dnstest/README.md` calls them
random, and an empty line in its data file panics.

*Analyser.* One report without a single reply, or of which the range leaves none, ends
the script without a page for the others: `make_rate` takes the first item of an empty
list (`grinder.py:184`). Of a directory every `.json` file is taken, also one not named
`test-<speed>.json`, and a single file without a speed takes the labels from all
(`grinder.py:143`). A bucket of one delay is drawn at zero (`272`). Messages of a
burst at the very end of a run are in no bar (`183-206`; `RatesAccounted` has `<=` for
that reason). A negative start of a range is not what the models enumerate. A search
ends on the high limit, the lowest that lost, and goes nowhere if it began
without a high limit and chance made a low one lose. Each chart of the page sets
`window.onresize` anew, so that only the last is resized.

## Not modelled

Option parsing, socket set-up and logging (straight-line code that runs once); the
bytes of queries and answers; dnstest's configuration, TLS and `stats`; titles,
details, colours and the wording of labels in the charts; `load` and
`make_total_processing` of `grinder.py`, which nothing calls; the scripts inside the
page and the libraries bundled with it, which only display; build files. Of the
paths that leave `main` on an error, only that the run has failed is kept. A clock
that fails in the server behind a push or a store of the head (`server.c:321-325`,
`368-372`) is folded into the failing `recvfrom` or `sendto` before it: the server ends
in either case, with one query queued or one reply sent that the model does not count.

The models assume that a UDP datagram is read whole, that clocks used for stamps
do not step back (`CLOCK_SOURCE` is monotonic; mem's wall clock is not, and `Mem`
leaves that out), that two samples of mem have different times, and that read
returns a whole domain file.

## Plan

Done: queue, server, mig with its report, both over one network, domains, dnstest, mem,
the charts, the rate search; proofs of the invariants of them all.

Next, in this order:

1. *Model.* Ownership of the names' block through `get_options`. `stats()` and the deadline of
   dnstest. `make_answer`'s walk over the question, which decides what is malformed.
2. *Review.* Properties that a proof makes redundant in a run give way to new ones.
   What `leastsq` returns for equal times depends on the library (`AnyRate`): when
   that changes, `RatesAgree` has to be looked at again.
