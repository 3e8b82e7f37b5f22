------------------------------- MODULE Dnstest -------------------------------
(***************************************************************************)
(* dnstest/src/data.go: Workers goroutines share the connections of        *)
(* Clients emulated clients through the buffered channel conns.  A worker  *)
(* takes a connection, dials if there is none yet, makes one request, and  *)
(* puts the connection back, or nil if the request failed.                 *)
(*                                                                         *)
(* The server answers requests late, twice, with an error or never.  The   *)
(* random 16-bit ids of requests are taken to differ: a request's id is    *)
(* its seed.                                                               *)
(***************************************************************************)
EXTENDS Integers, Sequences, FiniteSets

CONSTANTS
  Clients,        \* cfg.clients, -n
  Worker,         \* the goroutines, cfg.workers of them, -w
  MaxConns,       \* bound: connections open at a time
  MaxRequests,    \* bound: requests before the time limit
  MaxDuplicates,  \* bound: replies the network delivers twice
  None

ASSUME ClientsAssumption == Clients \in Nat /\ IsFiniteSet(Worker)
ASSUME BoundAssumption == MaxConns \in Nat /\ MaxRequests \in Nat /\ MaxDuplicates \in Nat
ASSUME NoneAssumption == None \notin Nat

Client == 1..Clients
Conn == 1..MaxConns

VARIABLES
  conns,       \* the channel; whose place an item has is history
  pc,          \* where each worker is
  place,       \* history: the client whose place each worker has, or None
  conn,        \* the connection each worker has, or None for nil
  seed,        \* the request each worker makes, 0 for none
  totalCount,
  succeeded,   \* requests whose round-trip time is in totalRTT
  open,        \* connections dialled and not closed
  asked,       \* requests the server got on each connection
  answered,    \* those it replied to
  inbox,       \* replies in each connection's socket, oldest first
  failed,      \* history: requests that failed
  mismatches,  \* history: those that failed because a reply had another id
  duplicates   \* replies delivered a second time

workerVars == <<pc, place, conn, seed>>
netVars == <<open, asked, answered, inbox>>
countVars == <<totalCount, succeeded, failed, mismatches>>
vars == <<conns, workerVars, countVars, netVars, duplicates>>

\* newTest fills the channel with one nil for each client.
Init ==
  /\ conns = [c \in Client |-> [client |-> c, conn |-> None]]
  /\ pc = [w \in Worker |-> "take"]
  /\ place = [w \in Worker |-> None] /\ conn = [w \in Worker |-> None]
  /\ seed = [w \in Worker |-> 0]
  /\ totalCount = 0 /\ succeeded = 0 /\ failed = 0 /\ mismatches = 0
  /\ open = {}
  /\ asked = [c \in Conn |-> {}] /\ answered = [c \in Conn |-> {}] /\ inbox = [c \in Conn |-> << >>]
  /\ duplicates = 0
-----------------------------------------------------------------------------
(* The server and the network.                                             *)

Answer(c, s, good) ==
  /\ s \in asked[c] \ answered[c]
  /\ answered' = [answered EXCEPT ![c] = @ \cup {s}]
  /\ inbox' = [inbox EXCEPT ![c] = Append(@, [id |-> s, good |-> good])]
  /\ UNCHANGED <<conns, workerVars, countVars, open, asked, duplicates>>

Duplicate(c, s) ==
  /\ duplicates < MaxDuplicates
  /\ s \in answered[c]
  /\ duplicates' = duplicates + 1
  /\ inbox' = [inbox EXCEPT ![c] = Append(@, [id |-> s, good |-> TRUE])]
  /\ UNCHANGED <<conns, workerVars, countVars, open, asked, answered>>

World == \E c \in open, s \in 1..MaxRequests :
  Duplicate(c, s) \/ \E good \in BOOLEAN : Answer(c, s, good)
-----------------------------------------------------------------------------
(* The workers.                                                            *)

Busy == {w \in Worker : pc[w] # "take"}
Making == {w \in Worker : pc[w] \in {"write", "read"}}

\* The time limit ends the test before more than MaxRequests are made.
TimeIsUp == totalCount + Cardinality(Busy \ Making) >= MaxRequests

Take(w) ==
  /\ pc[w] = "take" /\ conns # << >> /\ ~TimeIsUp
  /\ conns' = Tail(conns)
  /\ place' = [place EXCEPT ![w] = Head(conns).client]
  /\ conn' = [conn EXCEPT ![w] = Head(conns).conn]
  /\ pc' = [pc EXCEPT ![w] = IF Head(conns).conn = None THEN "dial" ELSE "request"]
  /\ UNCHANGED <<seed, countVars, netVars, duplicates>>

\* The names of connections are immaterial: a new one takes the least that is free.
NewConn(c) == c \in Conn \ open /\ \A d \in Conn \ open : c <= d

Dial(w) ==
  /\ pc[w] = "dial"
  /\ \E c \in Conn :
       /\ NewConn(c)
       /\ open' = open \cup {c}
       /\ conn' = [conn EXCEPT ![w] = c]
       /\ asked' = [asked EXCEPT ![c] = {}] /\ answered' = [answered EXCEPT ![c] = {}]
       /\ inbox' = [inbox EXCEPT ![c] = << >>]
  /\ pc' = [pc EXCEPT ![w] = "request"]
  /\ UNCHANGED <<conns, place, seed, countVars, duplicates>>

DialFails(w) ==
  /\ pc[w] = "dial"
  /\ pc' = [pc EXCEPT ![w] = "put"]
  /\ UNCHANGED <<conns, place, conn, seed, countVars, netVars, duplicates>>

\* Variant: the counter is added to twice.
RequestTwice(w) ==
  /\ pc[w] = "request"
  /\ totalCount' = totalCount + 2
  /\ seed' = [seed EXCEPT ![w] = totalCount + 1]
  /\ pc' = [pc EXCEPT ![w] = "write"]
  /\ UNCHANGED <<conns, place, conn, succeeded, failed, mismatches, netVars, duplicates>>

Request(w) ==
  /\ pc[w] = "request"
  /\ totalCount' = totalCount + 1
  /\ seed' = [seed EXCEPT ![w] = totalCount + 1]
  /\ pc' = [pc EXCEPT ![w] = "write"]
  /\ UNCHANGED <<conns, place, conn, succeeded, failed, mismatches, netVars, duplicates>>

Write(w) ==
  /\ pc[w] = "write"
  /\ asked' = [asked EXCEPT ![conn[w]] = @ \cup {seed[w]}]
  /\ pc' = [pc EXCEPT ![w] = "read"]
  /\ UNCHANGED <<conns, place, conn, seed, countVars, open, answered, inbox, duplicates>>

Reply(w) == Head(inbox[conn[w]])

Succeed(w) ==
  /\ pc[w] = "read" /\ inbox[conn[w]] # << >>
  /\ Reply(w).id = seed[w] /\ Reply(w).good
  /\ inbox' = [inbox EXCEPT ![conn[w]] = Tail(@)]
  /\ succeeded' = succeeded + 1
  /\ pc' = [pc EXCEPT ![w] = "put"]
  /\ UNCHANGED <<conns, place, conn, seed, totalCount, failed, mismatches, open, asked, answered, duplicates>>

\* Variant: the connection is kept open and used again.
BreakKeeping(w) ==
  /\ inbox' = [inbox EXCEPT ![conn[w]] = IF @ = << >> THEN @ ELSE Tail(@)]
  /\ failed' = failed + 1
  /\ pc' = [pc EXCEPT ![w] = "put"]
  /\ UNCHANGED <<conns, place, conn, seed, totalCount, succeeded, open, asked, answered, duplicates>>

\* Variant: nil is put back but the connection is not closed.
BreakLeaking(w) ==
  /\ conn' = [conn EXCEPT ![w] = None]
  /\ failed' = failed + 1
  /\ pc' = [pc EXCEPT ![w] = "put"]
  /\ UNCHANGED <<conns, place, seed, totalCount, succeeded, netVars, duplicates>>

\* Any error of exchange: the connection is closed, with what is in its socket.
Break(w) ==
  /\ open' = open \ {conn[w]}
  /\ asked' = [asked EXCEPT ![conn[w]] = {}] /\ answered' = [answered EXCEPT ![conn[w]] = {}]
  /\ inbox' = [inbox EXCEPT ![conn[w]] = << >>]
  /\ conn' = [conn EXCEPT ![w] = None]
  /\ failed' = failed + 1
  /\ pc' = [pc EXCEPT ![w] = "put"]
  /\ UNCHANGED <<conns, place, seed, totalCount, succeeded, duplicates>>

WriteFails(w) == pc[w] = "write" /\ Break(w) /\ UNCHANGED mismatches

\* No reply within readTimeout, or an error of the connection.
ReadFails(w) == pc[w] = "read" /\ Break(w) /\ UNCHANGED mismatches

\* dns.ErrId
Mismatch(w) ==
  /\ pc[w] = "read" /\ inbox[conn[w]] # << >>
  /\ Reply(w).id # seed[w]
  /\ mismatches' = mismatches + 1
  /\ Break(w)

BadRcode(w) ==
  /\ pc[w] = "read" /\ inbox[conn[w]] # << >>
  /\ Reply(w).id = seed[w] /\ ~Reply(w).good
  /\ Break(w) /\ UNCHANGED mismatches

\* Variant: the connection used last is used next.
PutFirst(w) ==
  /\ pc[w] = "put" /\ Len(conns) < Clients
  /\ conns' = <<[client |-> place[w], conn |-> conn[w]]>> \o conns
  /\ place' = [place EXCEPT ![w] = None] /\ conn' = [conn EXCEPT ![w] = None]
  /\ seed' = [seed EXCEPT ![w] = 0]
  /\ pc' = [pc EXCEPT ![w] = "take"]
  /\ UNCHANGED <<countVars, netVars, duplicates>>

\* The channel holds Clients items; sending to a full one blocks.
Put(w) ==
  /\ pc[w] = "put" /\ Len(conns) < Clients
  /\ conns' = Append(conns, [client |-> place[w], conn |-> conn[w]])
  /\ place' = [place EXCEPT ![w] = None] /\ conn' = [conn EXCEPT ![w] = None]
  /\ seed' = [seed EXCEPT ![w] = 0]
  /\ pc' = [pc EXCEPT ![w] = "take"]
  /\ UNCHANGED <<countVars, netVars, duplicates>>

Exchange(w) == Write(w) \/ WriteFails(w) \/ Succeed(w) \/ Mismatch(w) \/ BadRcode(w) \/ ReadFails(w)

Work(w) == Take(w) \/ Dial(w) \/ DialFails(w) \/ Request(w) \/ Exchange(w) \/ Put(w)

Next == World \/ \E w \in Worker : Work(w)

\* Goroutines run, dials end within maxDialTimeout and reads within
\* readTimeout; nothing is asked of the server.
Fairness == \A w \in Worker : WF_vars(Work(w))

Spec == Init /\ [][Next]_vars /\ Fairness
-----------------------------------------------------------------------------
TypeOK ==
  /\ conns \in Seq([client : Client, conn : Conn \cup {None}])
  /\ pc \in [Worker -> {"take", "dial", "request", "write", "read", "put"}]
  /\ place \in [Worker -> Client \cup {None}] /\ conn \in [Worker -> Conn \cup {None}]
  /\ seed \in [Worker -> 0..MaxRequests]
  /\ totalCount \in 0..MaxRequests /\ succeeded \in Nat /\ failed \in Nat /\ mismatches \in Nat
  /\ open \subseteq Conn
  /\ asked \in [Conn -> SUBSET (1..MaxRequests)] /\ answered \in [Conn -> SUBSET (1..MaxRequests)]
  /\ inbox \in [Conn -> Seq([id : 1..MaxRequests, good : BOOLEAN])]
  /\ duplicates \in 0..MaxDuplicates

Held == {w \in Worker : conn[w] # None}
Pooled == {k \in DOMAIN conns : conns[k].conn # None}

\* Each open connection is in exactly one place, the channel or a worker
\* (data.go:106-121): none is shared, used after it was closed, or forgotten.
ConnectionsAccounted ==
  /\ open = {conn[w] : w \in Held} \cup {conns[k].conn : k \in Pooled}
  /\ Cardinality(open) = Cardinality(Held) + Cardinality(Pooled)

\* Each client has one place, in the channel or with a worker, so that putting
\* a connection back (data.go:112, 121) never blocks.
PlacesKept ==
  /\ {conns[k].client : k \in DOMAIN conns} \cup {place[w] : w \in Busy} = Client
  /\ Len(conns) + Cardinality(Busy) = Clients

\* Whatever fails, the pool keeps every client's place and every open connection.
PoolKept == PlacesKept /\ ConnectionsAccounted

\* A reply that comes twice fails at most one later request (data.go:94-96): the
\* connection on which the order of replies is lost is not used again.
DuplicateCostsOneRequest == mismatches <= duplicates

\* While the test lasts every client has its turn, whatever the server and the
\* network do: its place in the channel is reached.
ClientsServed ==
  \A c \in Client :
    (\E k \in DOMAIN conns : conns[k].client = c) ~> (TimeIsUp \/ \E w \in Worker : place[w] = c)
=============================================================================
