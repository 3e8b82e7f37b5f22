--------------------------- MODULE DnstestProofs ---------------------------
(***************************************************************************)
(* Proofs about the load generator, for every number of clients, workers,  *)
(* connections, requests and duplicates: first the pool of connections,    *)
(* then the replies that are in it.                                        *)
(***************************************************************************)
EXTENDS Dnstest, SequenceTheorems, FiniteSetTheorems, TLAPS

Item == [client : Client, conn : Conn \cup {None}]
-----------------------------------------------------------------------------
(* The pool.                                                               *)

\* What a worker has at each stage of its work.
Stages == \A w \in Worker :
  /\ pc[w] \in {"take", "dial"} => conn[w] = None
  /\ pc[w] \in {"request", "write", "read"} => conn[w] # None
  /\ pc[w] # "take" => place[w] # None
  /\ pc[w] \in {"write", "read"} => seed[w] \in 1..totalCount

\* Requests made and requests that are still to be made stay within the bound.
Reserved == {w \in Worker : pc[w] \in {"dial", "request"}}
Budget == totalCount + Cardinality(Reserved) <= MaxRequests

\* Every client's place is somewhere, and there are as many places as clients.
PlaceOf ==
  /\ \A c \in Client : \/ \E k \in DOMAIN conns : conns[k].client = c
                       \/ \E w \in Worker : pc[w] # "take" /\ place[w] = c
  /\ Len(conns) + Cardinality(Busy) = Clients

\* The open connections are those of the channel and of the workers.
OpenKept ==
  /\ \A w \in Worker : conn[w] # None => conn[w] \in open
  /\ \A k \in DOMAIN conns : conns[k].conn # None => conns[k].conn \in open
  /\ \A c \in open : \/ \E w \in Worker : conn[w] = c
                     \/ \E k \in DOMAIN conns : conns[k].conn = c

\* No connection is in two places.
Exclusive ==
  /\ \A v, w \in Worker : conn[v] # None /\ conn[v] = conn[w] => v = w
  /\ \A j, k \in DOMAIN conns : conns[j].conn # None /\ conns[j].conn = conns[k].conn => j = k
  /\ \A w \in Worker, k \in DOMAIN conns : conn[w] # None => conn[w] # conns[k].conn

PoolInv == TypeOK /\ Stages /\ Budget /\ PlaceOf /\ OpenKept /\ Exclusive
-----------------------------------------------------------------------------
(* Facts about the channel and the sets of workers.                        *)

\* None is no connection and no client.
LEMMA NoneIsNothing == None \notin Conn /\ None \notin Client
BY NoneAssumption, BoundAssumption, ClientsAssumption DEF Conn, Client

\* The items of the channel are its first and those of its tail, each moved up.
LEMMA FirstOfPool ==
  ASSUME TypeOK, conns # << >>
  PROVE  /\ Len(conns) \in Nat \ {0} /\ DOMAIN conns = 1..Len(conns)
         /\ Head(conns) = conns[1] /\ conns[1] \in Item
         /\ Tail(conns) \in Seq(Item) /\ Len(Tail(conns)) = Len(conns) - 1
         /\ DOMAIN Tail(conns) = 1..(Len(conns) - 1)
         /\ \A k \in 1..(Len(conns) - 1) : Tail(conns)[k] = conns[k + 1]
<1>1. conns \in Seq(Item)
  BY DEF TypeOK, Item
<1>2. Len(conns) \in Nat \ {0} /\ DOMAIN conns = 1..Len(conns)
  BY <1>1, EmptySeq, LenProperties
<1>3. Head(conns) = conns[1] /\ conns[1] \in Item
  BY <1>1, <1>2, ElementOfSeq
<1>4. /\ Tail(conns) \in Seq(Item) /\ Len(Tail(conns)) = Len(conns) - 1
      /\ \A k \in 1..Len(Tail(conns)) : Tail(conns)[k] = conns[k + 1]
  BY <1>1, HeadTailProperties
<1>5. DOMAIN Tail(conns) = 1..(Len(conns) - 1)
  BY <1>4, LenProperties
<1> QED
  BY <1>2, <1>3, <1>4, <1>5

\* An item put into the channel is its last.
LEMMA LastOfPool ==
  ASSUME TypeOK, NEW item \in Item
  PROVE  /\ Len(conns) \in Nat /\ DOMAIN conns = 1..Len(conns)
         /\ Append(conns, item) \in Seq(Item)
         /\ Len(Append(conns, item)) = Len(conns) + 1
         /\ DOMAIN Append(conns, item) = 1..(Len(conns) + 1)
         /\ \A k \in 1..Len(conns) : Append(conns, item)[k] = conns[k]
         /\ Append(conns, item)[Len(conns) + 1] = item
<1>1. conns \in Seq(Item)
  BY DEF TypeOK, Item
<1>2. Len(conns) \in Nat /\ DOMAIN conns = 1..Len(conns)
  BY <1>1, LenProperties
<1>3. /\ Append(conns, item) \in Seq(Item)
      /\ Len(Append(conns, item)) = Len(conns) + 1
      /\ \A k \in 1..Len(conns) : Append(conns, item)[k] = conns[k]
      /\ Append(conns, item)[Len(conns) + 1] = item
  BY <1>1, AppendProperties
<1>4. DOMAIN Append(conns, item) = 1..(Len(conns) + 1)
  BY <1>3, LenProperties
<1> QED
  BY <1>2, <1>3, <1>4

\* Sets of workers are finite.
LEMMA WorkersFinite ==
  ASSUME NEW S \in SUBSET Worker
  PROVE  IsFiniteSet(S) /\ Cardinality(S) \in Nat
BY ClientsAssumption, FS_Subset, FS_CardinalityType
-----------------------------------------------------------------------------
(* Each step keeps the pool.                                               *)

LEMMA InitPool == Init => PoolInv
<1> SUFFICES ASSUME Init PROVE PoolInv
  OBVIOUS
<1>1. conns \in [1..Clients -> Item]
  BY DEF Init, Client, Item
<1>2. conns \in Seq(Item) /\ Len(conns) = Clients /\ DOMAIN conns = Client
  BY <1>1, SeqDef, ClientsAssumption, LenProperties DEF Client
<1>3. \A c \in Conn : << >> \in Seq([id : 1..MaxRequests, good : BOOLEAN])
  BY EmptySeq
<1>4. TypeOK
  BY <1>2, <1>3, BoundAssumption DEF Init, TypeOK, Item
<1>5. Stages /\ OpenKept /\ Exclusive
  BY <1>2 DEF Init, Stages, OpenKept, Exclusive
<1>6. Busy = {} /\ Reserved = {}
  BY DEF Init, Busy, Reserved
<1>7. Budget
  BY <1>6, FS_EmptySet, BoundAssumption DEF Init, Budget
<1>8. PlaceOf
  BY <1>2, <1>6, FS_EmptySet, ClientsAssumption DEF Init, PlaceOf
<1> QED
  BY <1>4, <1>5, <1>7, <1>8 DEF PoolInv

\* Steps that move no place and no connection.
LEMMA PoolStays ==
  ASSUME PoolInv, UNCHANGED <<conns, place, conn, open>>, TypeOK', Stages', Budget',
         \A w \in Worker : pc'[w] = "take" <=> pc[w] = "take"
  PROVE  PoolInv'
<1>1. Busy' = Busy
  BY DEF Busy
<1>2. PlaceOf'
  BY <1>1 DEF PoolInv, PlaceOf
<1>3. OpenKept' /\ Exclusive'
  BY DEF PoolInv, OpenKept, Exclusive
<1> QED
  BY <1>2, <1>3 DEF PoolInv

LEMMA WorldKeepsPool == ASSUME PoolInv, World PROVE PoolInv'
<1>1. PICK c \in open, s \in 1..MaxRequests :
        Duplicate(c, s) \/ \E good \in BOOLEAN : Answer(c, s, good)
  BY DEF World
<1>2. UNCHANGED <<conns, workerVars, countVars, open, asked>>
  BY <1>1 DEF Duplicate, Answer
<1> DEFINE Message == [id : 1..MaxRequests, good : BOOLEAN]
<1>3. PICK r \in Message : inbox' = [inbox EXCEPT ![c] = Append(@, r)]
  <2>1. CASE Duplicate(c, s)
    BY <2>1 DEF Duplicate
  <2>2. CASE \E good \in BOOLEAN : Answer(c, s, good)
    BY <2>2 DEF Answer
  <2> QED
    BY <1>1, <2>1, <2>2
<1>4. c \in Conn /\ inbox \in [Conn -> Seq(Message)]
  BY DEF PoolInv, TypeOK
<1>5. Append(inbox[c], r) \in Seq(Message)
  BY <1>4, AppendProperties
<1>6. inbox' \in [Conn -> Seq(Message)]
  BY <1>3, <1>4, <1>5
<1>7. answered' \in [Conn -> SUBSET (1..MaxRequests)] /\ duplicates' \in 0..MaxDuplicates
  <2>1. answered \in [Conn -> SUBSET (1..MaxRequests)] /\ duplicates \in 0..MaxDuplicates
    BY DEF PoolInv, TypeOK
  <2>2. CASE Duplicate(c, s)
    BY <2>1, <2>2, BoundAssumption DEF Duplicate
  <2>3. CASE \E good \in BOOLEAN : Answer(c, s, good)
    BY <1>4, <2>1, <2>3 DEF Answer
  <2> QED
    BY <1>1, <2>2, <2>3
<1>8. TypeOK'
  BY <1>2, <1>6, <1>7 DEF PoolInv, TypeOK, workerVars, countVars
<1>9. Stages' /\ Budget'
  BY <1>2 DEF PoolInv, Stages, Budget, Reserved, workerVars, countVars
<1> QED
  BY <1>2, <1>8, <1>9, PoolStays DEF workerVars

LEMMA TakeKeepsPool == ASSUME PoolInv, NEW w \in Worker, Take(w) PROVE PoolInv'
<1> DEFINE n == Len(conns)
           it == conns[1]
<1>1. /\ n \in Nat \ {0} /\ DOMAIN conns = 1..n /\ it \in Item
      /\ conns' \in Seq(Item) /\ Len(conns') = n - 1 /\ DOMAIN conns' = 1..(n - 1)
      /\ \A k \in 1..(n - 1) : conns'[k] = conns[k + 1]
  BY FirstOfPool DEF Take, PoolInv
<1>2. /\ pc[w] = "take"
      /\ place' = [place EXCEPT ![w] = it.client] /\ conn' = [conn EXCEPT ![w] = it.conn]
      /\ pc' = [pc EXCEPT ![w] = IF it.conn = None THEN "dial" ELSE "request"]
      /\ UNCHANGED <<seed, countVars, netVars, duplicates>>
  BY FirstOfPool DEF Take, PoolInv
<1>3. /\ pc \in [Worker -> {"take", "dial", "request", "write", "read", "put"}]
      /\ place \in [Worker -> Client \cup {None}] /\ conn \in [Worker -> Conn \cup {None}]
  BY DEF PoolInv, TypeOK
<1>4. it.client \in Client /\ it.conn \in Conn \cup {None} /\ it.client # None /\ conn[w] = None
  BY <1>1, <1>2, NoneIsNothing DEF Item, PoolInv, Stages
<1>5. /\ pc' \in [Worker -> {"take", "dial", "request", "write", "read", "put"}]
      /\ place' \in [Worker -> Client \cup {None}] /\ conn' \in [Worker -> Conn \cup {None}]
      /\ pc'[w] \in {"dial", "request"} /\ (pc'[w] = "dial" <=> it.conn = None)
      /\ place'[w] = it.client /\ conn'[w] = it.conn
      /\ \A v \in Worker \ {w} : pc'[v] = pc[v] /\ place'[v] = place[v] /\ conn'[v] = conn[v]
  BY <1>2, <1>3, <1>4
<1> HIDE DEF it
<1>6. TypeOK'
  BY <1>1, <1>2, <1>5 DEF PoolInv, TypeOK, Item, countVars, netVars
<1>7. Stages'
  BY <1>2, <1>4, <1>5 DEF PoolInv, Stages, countVars
<1>8. Budget'
  <2>1. Reserved' = Reserved \cup {w} /\ w \notin Reserved
    BY <1>2, <1>5 DEF Reserved
  <2>2. Reserved \subseteq Busy \ Making
    BY DEF Reserved, Busy, Making
  <2>3. /\ IsFiniteSet(Reserved) /\ Cardinality(Reserved) \in Nat
        /\ IsFiniteSet(Busy \ Making) /\ Cardinality(Busy \ Making) \in Nat
    BY WorkersFinite DEF Reserved, Busy
  <2>4. Cardinality(Reserved) <= Cardinality(Busy \ Making)
    BY <2>2, <2>3, FS_Subset
  <2>5. Cardinality(Reserved') = Cardinality(Reserved) + 1
    BY <2>1, <2>3, FS_AddElement
  <2>6. totalCount + Cardinality(Busy \ Making) < MaxRequests /\ totalCount' = totalCount
    BY <2>3, BoundAssumption DEF Take, TimeIsUp, countVars, PoolInv, TypeOK
  <2> QED
    BY <2>3, <2>4, <2>5, <2>6, BoundAssumption DEF Budget, PoolInv, TypeOK
<1>9. PlaceOf'
  <2>1. Busy' = Busy \cup {w} /\ w \notin Busy
    BY <1>2, <1>5 DEF Busy
  <2>2. IsFiniteSet(Busy) /\ Cardinality(Busy) \in Nat
    BY WorkersFinite DEF Busy
  <2>3. Cardinality(Busy') = Cardinality(Busy) + 1
    BY <2>1, <2>2, FS_AddElement
  <2>4. Len(conns') + Cardinality(Busy') = Clients
    BY <1>1, <2>2, <2>3 DEF PoolInv, PlaceOf
  <2>5. ASSUME NEW c \in Client
        PROVE  \/ \E k \in DOMAIN conns' : conns'[k].client = c
               \/ \E v \in Worker : pc'[v] # "take" /\ place'[v] = c
    <3>1. CASE \E k \in DOMAIN conns : conns[k].client = c
      <4>1. PICK k \in 1..n : conns[k].client = c
        BY <1>1, <3>1
      <4>2. CASE k = 1
        BY <1>5, <4>1, <4>2 DEF it
      <4>3. CASE k # 1
        <5>1. k - 1 \in 1..(n - 1) /\ conns'[k - 1] = conns[k]
          BY <1>1, <4>3
        <5> QED
          BY <1>1, <4>1, <5>1
      <4> QED
        BY <4>2, <4>3
    <3>2. CASE \E v \in Worker : pc[v] # "take" /\ place[v] = c
      BY <1>2, <1>5, <3>2
    <3> QED
      BY <3>1, <3>2 DEF PoolInv, PlaceOf
  <2> QED
    BY <2>4, <2>5 DEF PlaceOf
<1>10. OpenKept'
  <2>1. open' = open
    BY <1>2 DEF netVars
  <2>2. \A v \in Worker : conn'[v] # None => conn'[v] \in open
    BY <1>1, <1>5 DEF PoolInv, OpenKept, it
  <2>3. \A k \in DOMAIN conns' : conns'[k].conn # None => conns'[k].conn \in open
    BY <1>1 DEF PoolInv, OpenKept
  <2>4. ASSUME NEW c \in open
        PROVE  \/ \E v \in Worker : conn'[v] = c
               \/ \E k \in DOMAIN conns' : conns'[k].conn = c
    <3>1. CASE \E v \in Worker : conn[v] = c
      <4>1. c # None
        BY NoneIsNothing DEF PoolInv, TypeOK
      <4> QED
        BY <1>4, <1>5, <3>1, <4>1
    <3>2. CASE \E k \in DOMAIN conns : conns[k].conn = c
      <4>1. PICK k \in 1..n : conns[k].conn = c
        BY <1>1, <3>2
      <4>2. CASE k = 1
        BY <1>5, <4>1, <4>2 DEF it
      <4>3. CASE k # 1
        <5>1. k - 1 \in 1..(n - 1) /\ conns'[k - 1] = conns[k]
          BY <1>1, <4>3
        <5> QED
          BY <1>1, <4>1, <5>1
      <4> QED
        BY <4>2, <4>3
    <3> QED
      BY <3>1, <3>2 DEF PoolInv, OpenKept
  <2> QED
    BY <2>1, <2>2, <2>3, <2>4 DEF OpenKept
<1>11. Exclusive'
  <2>1. \A u, v \in Worker : conn'[u] # None /\ conn'[u] = conn'[v] => u = v
    BY <1>1, <1>5 DEF PoolInv, Exclusive, it
  <2>2. \A j, k \in DOMAIN conns' : conns'[j].conn # None /\ conns'[j].conn = conns'[k].conn => j = k
    BY <1>1, SMTT(30) DEF PoolInv, Exclusive
  <2>3. ASSUME NEW v \in Worker, NEW k \in 1..(n - 1), conn'[v] # None
        PROVE  conn'[v] # conns'[k].conn
    <3>1. conns'[k] = conns[k + 1] /\ k + 1 \in 1..n /\ k + 1 # 1
      BY <1>1
    <3>2. CASE v = w
      <4>1. conn'[v] = conns[1].conn /\ 1 \in DOMAIN conns /\ k + 1 \in DOMAIN conns
        BY <1>1, <1>5, <3>1, <3>2 DEF it
      <4>2. conns[1].conn = conns[k + 1].conn => 1 = k + 1
        BY <2>3, <4>1 DEF PoolInv, Exclusive
      <4> QED
        BY <3>1, <4>1, <4>2
    <3>3. CASE v # w
      BY <1>1, <1>5, <2>3, <3>1, <3>3 DEF PoolInv, Exclusive
    <3> QED
      BY <3>2, <3>3
  <2> QED
    BY <1>1, <2>1, <2>2, <2>3 DEF Exclusive
<1> QED
  BY <1>6, <1>7, <1>8, <1>9, <1>10, <1>11 DEF PoolInv

LEMMA DialKeepsPool == ASSUME PoolInv, NEW w \in Worker, Dial(w) PROVE PoolInv'
<1>1. PICK c \in Conn :
        /\ NewConn(c)
        /\ open' = open \cup {c}
        /\ conn' = [conn EXCEPT ![w] = c]
        /\ asked' = [asked EXCEPT ![c] = {}] /\ answered' = [answered EXCEPT ![c] = {}]
        /\ inbox' = [inbox EXCEPT ![c] = << >>]
  BY DEF Dial
<1>2. /\ pc[w] = "dial" /\ pc' = [pc EXCEPT ![w] = "request"]
      /\ UNCHANGED <<conns, place, seed, countVars, duplicates>>
  BY DEF Dial
<1>3. /\ pc \in [Worker -> {"take", "dial", "request", "write", "read", "put"}]
      /\ conn \in [Worker -> Conn \cup {None}]
  BY DEF PoolInv, TypeOK
<1>4. c \notin open /\ c # None /\ conn[w] = None
  BY <1>1, <1>2, NoneIsNothing DEF NewConn, PoolInv, Stages
<1>5. /\ pc'[w] = "request" /\ conn'[w] = c
      /\ \A v \in Worker \ {w} : pc'[v] = pc[v] /\ conn'[v] = conn[v]
      /\ pc' \in [Worker -> {"take", "dial", "request", "write", "read", "put"}]
      /\ conn' \in [Worker -> Conn \cup {None}]
  BY <1>1, <1>2, <1>3
<1>6. TypeOK'
  <2>1. /\ open' \subseteq Conn
        /\ asked' \in [Conn -> SUBSET (1..MaxRequests)] /\ answered' \in [Conn -> SUBSET (1..MaxRequests)]
    BY <1>1 DEF PoolInv, TypeOK
  <2>2. inbox' \in [Conn -> Seq([id : 1..MaxRequests, good : BOOLEAN])]
    BY <1>1, EmptySeq DEF PoolInv, TypeOK
  <2> QED
    BY <1>2, <1>5, <2>1, <2>2 DEF PoolInv, TypeOK, countVars
<1>7. Stages'
  BY <1>2, <1>4, <1>5 DEF PoolInv, Stages, countVars
<1>8. Busy' = Busy /\ Reserved' = Reserved
  BY <1>2, <1>5 DEF Busy, Reserved
<1>9. Budget' /\ PlaceOf'
  BY <1>2, <1>5, <1>8 DEF PoolInv, Budget, PlaceOf, countVars
<1>10. OpenKept'
  <2>1. \A v \in Worker : conn'[v] # None => conn'[v] \in open'
    BY <1>1, <1>5 DEF PoolInv, OpenKept
  <2>2. \A k \in DOMAIN conns' : conns'[k].conn # None => conns'[k].conn \in open'
    BY <1>1, <1>2 DEF PoolInv, OpenKept
  <2>3. ASSUME NEW d \in open'
        PROVE  \/ \E v \in Worker : conn'[v] = d
               \/ \E k \in DOMAIN conns' : conns'[k].conn = d
    <3>1. CASE d = c
      BY <1>5, <3>1
    <3>2. CASE d # c
      <4>1. d \in open /\ d # None
        BY <1>1, <3>2, NoneIsNothing DEF PoolInv, TypeOK
      <4> QED
        BY <1>2, <1>4, <1>5, <4>1 DEF PoolInv, OpenKept
    <3> QED
      BY <3>1, <3>2
  <2> QED
    BY <2>1, <2>2, <2>3 DEF OpenKept
<1>11. Exclusive'
  <2>1. \A v \in Worker : conn[v] # c
    BY <1>4 DEF PoolInv, OpenKept
  <2>2. \A k \in DOMAIN conns : conns[k].conn # c
    BY <1>4 DEF PoolInv, OpenKept
  <2> QED
    BY <1>2, <1>5, <2>1, <2>2 DEF PoolInv, Exclusive
<1> QED
  BY <1>6, <1>7, <1>9, <1>10, <1>11 DEF PoolInv

LEMMA DialFailsKeepsPool == ASSUME PoolInv, NEW w \in Worker, DialFails(w) PROVE PoolInv'
<1>1. /\ pc[w] = "dial" /\ pc' = [pc EXCEPT ![w] = "put"]
      /\ UNCHANGED <<conns, place, conn, seed, countVars, netVars, duplicates>>
  BY DEF DialFails
<1>2. TypeOK'
  BY <1>1 DEF PoolInv, TypeOK, countVars, netVars
<1>3. pc'[w] = "put" /\ \A v \in Worker \ {w} : pc'[v] = pc[v]
  BY <1>1 DEF PoolInv, TypeOK
<1>4. Stages'
  BY <1>1, <1>3 DEF PoolInv, Stages, countVars
<1>5. Budget'
  <2>1. Reserved' = Reserved \ {w} /\ w \in Reserved
    BY <1>1, <1>3 DEF Reserved
  <2>2. IsFiniteSet(Reserved) /\ Cardinality(Reserved) \in Nat
    BY WorkersFinite DEF Reserved
  <2>3. Cardinality(Reserved') = Cardinality(Reserved) - 1
    BY <2>1, <2>2, FS_RemoveElement
  <2> QED
    BY <1>1, <2>2, <2>3, BoundAssumption DEF Budget, PoolInv, TypeOK, countVars
<1> QED
  BY <1>1, <1>2, <1>3, <1>4, <1>5, PoolStays DEF netVars

LEMMA RequestKeepsPool == ASSUME PoolInv, NEW w \in Worker, Request(w) PROVE PoolInv'
<1>1. /\ pc[w] = "request" /\ pc' = [pc EXCEPT ![w] = "write"]
      /\ totalCount' = totalCount + 1 /\ seed' = [seed EXCEPT ![w] = totalCount + 1]
      /\ UNCHANGED <<conns, place, conn, succeeded, failed, mismatches, netVars, duplicates>>
  BY DEF Request
<1>2. totalCount \in Nat /\ MaxRequests \in Nat
  BY BoundAssumption DEF PoolInv, TypeOK
<1>3. /\ pc'[w] = "write" /\ seed'[w] = totalCount + 1
      /\ \A v \in Worker \ {w} : pc'[v] = pc[v] /\ seed'[v] = seed[v]
  BY <1>1 DEF PoolInv, TypeOK
<1>4. Budget' /\ totalCount + 1 <= MaxRequests
  <2>1. Reserved' = Reserved \ {w} /\ w \in Reserved
    BY <1>1, <1>3 DEF Reserved
  <2>2. IsFiniteSet(Reserved) /\ Cardinality(Reserved) \in Nat /\ Cardinality(Reserved') \in Nat
    BY <2>1, WorkersFinite DEF Reserved
  <2>3. Cardinality(Reserved') = Cardinality(Reserved) - 1
    BY <2>1, <2>2, FS_RemoveElement
  <2> QED
    BY <1>1, <1>2, <2>2, <2>3 DEF Budget, PoolInv
<1>5. TypeOK'
  <2>1. totalCount' \in 0..MaxRequests /\ totalCount + 1 \in 0..MaxRequests
    BY <1>1, <1>2, <1>4
  <2> QED
    BY <1>1, <2>1 DEF PoolInv, TypeOK, netVars
<1>6. Stages'
  BY <1>1, <1>2, <1>3 DEF PoolInv, Stages
<1> QED
  BY <1>1, <1>3, <1>4, <1>5, <1>6, PoolStays DEF netVars

LEMMA WriteKeepsPool == ASSUME PoolInv, NEW w \in Worker, Write(w) PROVE PoolInv'
<1>1. /\ pc[w] = "write" /\ pc' = [pc EXCEPT ![w] = "read"]
      /\ asked' = [asked EXCEPT ![conn[w]] = @ \cup {seed[w]}]
      /\ UNCHANGED <<conns, place, conn, seed, countVars, open, answered, inbox, duplicates>>
  BY DEF Write
<1>2. pc'[w] = "read" /\ \A v \in Worker \ {w} : pc'[v] = pc[v]
  BY <1>1 DEF PoolInv, TypeOK
<1>3. seed[w] \in 1..MaxRequests
  BY <1>1, BoundAssumption DEF PoolInv, TypeOK, Stages
<1>4. TypeOK'
  BY <1>1, <1>3 DEF PoolInv, TypeOK, countVars
<1>5. Stages'
  BY <1>1, <1>2 DEF PoolInv, Stages, countVars
<1>6. Reserved' = Reserved
  BY <1>1, <1>2 DEF Reserved
<1>7. Budget'
  BY <1>1, <1>6 DEF PoolInv, Budget, countVars
<1> QED
  BY <1>1, <1>2, <1>4, <1>5, <1>7, PoolStays

LEMMA SucceedKeepsPool == ASSUME PoolInv, NEW w \in Worker, Succeed(w) PROVE PoolInv'
<1>1. /\ pc[w] = "read" /\ pc' = [pc EXCEPT ![w] = "put"] /\ inbox[conn[w]] # << >>
      /\ inbox' = [inbox EXCEPT ![conn[w]] = Tail(@)]
      /\ succeeded' = succeeded + 1
      /\ UNCHANGED <<conns, place, conn, seed, totalCount, failed, mismatches, open, asked, answered,
                     duplicates>>
  BY DEF Succeed
<1>2. pc'[w] = "put" /\ \A v \in Worker \ {w} : pc'[v] = pc[v]
  BY <1>1 DEF PoolInv, TypeOK
<1>3. conn[w] \in Conn
  BY <1>1 DEF PoolInv, TypeOK, Stages
<1>4. Tail(inbox[conn[w]]) \in Seq([id : 1..MaxRequests, good : BOOLEAN])
  BY <1>1, <1>3, HeadTailProperties DEF PoolInv, TypeOK
<1>5. TypeOK'
  <2>1. inbox' \in [Conn -> Seq([id : 1..MaxRequests, good : BOOLEAN])]
    BY <1>1, <1>3, <1>4 DEF PoolInv, TypeOK
  <2>2. pc' \in [Worker -> {"take", "dial", "request", "write", "read", "put"}] /\ succeeded' \in Nat
    BY <1>1 DEF PoolInv, TypeOK
  <2> QED
    BY <1>1, <2>1, <2>2 DEF PoolInv, TypeOK
<1>6. Stages'
  BY <1>1, <1>2 DEF PoolInv, Stages
<1>7. Reserved' = Reserved
  BY <1>1, <1>2 DEF Reserved
<1>8. Budget'
  BY <1>1, <1>7 DEF PoolInv, Budget
<1> QED
  BY <1>1, <1>2, <1>5, <1>6, <1>8, PoolStays

\* Every failure of a request closes the connection.
LEMMA BreakKeepsPool ==
  ASSUME PoolInv, NEW w \in Worker, pc[w] \in {"write", "read"}, Break(w),
         mismatches' \in {mismatches, mismatches + 1}
  PROVE  PoolInv'
<1>1. /\ open' = open \ {conn[w]}
      /\ asked' = [asked EXCEPT ![conn[w]] = {}] /\ answered' = [answered EXCEPT ![conn[w]] = {}]
      /\ inbox' = [inbox EXCEPT ![conn[w]] = << >>]
      /\ conn' = [conn EXCEPT ![w] = None] /\ pc' = [pc EXCEPT ![w] = "put"]
      /\ failed' = failed + 1
      /\ UNCHANGED <<conns, place, seed, totalCount, succeeded, duplicates>>
  BY DEF Break
<1>2. /\ pc'[w] = "put" /\ conn'[w] = None
      /\ \A v \in Worker \ {w} : pc'[v] = pc[v] /\ conn'[v] = conn[v]
      /\ conn[w] \in Conn /\ conn[w] # None
  BY <1>1 DEF PoolInv, TypeOK, Stages
<1>3. TypeOK'
  <2>1. inbox' \in [Conn -> Seq([id : 1..MaxRequests, good : BOOLEAN])]
    BY <1>1, EmptySeq DEF PoolInv, TypeOK
  <2>2. asked' \in [Conn -> SUBSET (1..MaxRequests)] /\ answered' \in [Conn -> SUBSET (1..MaxRequests)]
    BY <1>1 DEF PoolInv, TypeOK
  <2>3. failed' \in Nat /\ mismatches' \in Nat
    BY <1>1 DEF PoolInv, TypeOK
  <2> QED
    BY <1>1, <2>1, <2>2, <2>3 DEF PoolInv, TypeOK
<1>4. Stages'
  BY <1>1, <1>2 DEF PoolInv, Stages
<1>5. Busy' = Busy /\ Reserved' = Reserved
  BY <1>2 DEF Busy, Reserved
<1>6. Budget' /\ PlaceOf'
  BY <1>1, <1>2, <1>5 DEF PoolInv, Budget, PlaceOf
<1>7. OpenKept'
  <2>1. \A v \in Worker : conn'[v] # None => conn'[v] \in open'
    BY <1>1, <1>2 DEF PoolInv, OpenKept, Exclusive
  <2>2. \A k \in DOMAIN conns' : conns'[k].conn # None => conns'[k].conn \in open'
    BY <1>1, <1>2 DEF PoolInv, OpenKept, Exclusive
  <2>3. \A c \in open' : \/ \E v \in Worker : conn'[v] = c
                         \/ \E k \in DOMAIN conns' : conns'[k].conn = c
    BY <1>1, <1>2 DEF PoolInv, OpenKept
  <2> QED
    BY <2>1, <2>2, <2>3 DEF OpenKept
<1>8. Exclusive'
  BY <1>1, <1>2 DEF PoolInv, Exclusive
<1> QED
  BY <1>3, <1>4, <1>6, <1>7, <1>8 DEF PoolInv

LEMMA PutKeepsPool == ASSUME PoolInv, NEW w \in Worker, Put(w) PROVE PoolInv'
<1> DEFINE n == Len(conns)
           it == [client |-> place[w], conn |-> conn[w]]
<1>1. /\ pc[w] = "put" /\ n < Clients
      /\ conns' = Append(conns, it)
      /\ place' = [place EXCEPT ![w] = None] /\ conn' = [conn EXCEPT ![w] = None]
      /\ seed' = [seed EXCEPT ![w] = 0] /\ pc' = [pc EXCEPT ![w] = "take"]
      /\ UNCHANGED <<countVars, netVars, duplicates>>
  BY DEF Put
<1>2. /\ pc \in [Worker -> {"take", "dial", "request", "write", "read", "put"}]
      /\ place \in [Worker -> Client \cup {None}] /\ conn \in [Worker -> Conn \cup {None}]
      /\ seed \in [Worker -> 0..MaxRequests]
  BY DEF PoolInv, TypeOK
<1>3. place[w] # None
  BY <1>1 DEF PoolInv, Stages
<1>4. it \in Item /\ it.client = place[w] /\ it.conn = conn[w] /\ place[w] \in Client
  BY <1>2, <1>3 DEF Item
<1> HIDE DEF it
<1>5. /\ n \in Nat /\ DOMAIN conns = 1..n
      /\ conns' \in Seq(Item) /\ Len(conns') = n + 1 /\ DOMAIN conns' = 1..(n + 1)
      /\ \A k \in 1..n : conns'[k] = conns[k]
      /\ conns'[n + 1] = it
  BY <1>1, <1>4, LastOfPool DEF PoolInv
<1>6. /\ pc' \in [Worker -> {"take", "dial", "request", "write", "read", "put"}]
      /\ place' \in [Worker -> Client \cup {None}] /\ conn' \in [Worker -> Conn \cup {None}]
      /\ seed' \in [Worker -> 0..MaxRequests]
      /\ pc'[w] = "take" /\ conn'[w] = None
      /\ \A v \in Worker \ {w} : /\ pc'[v] = pc[v] /\ place'[v] = place[v] /\ conn'[v] = conn[v]
                                 /\ seed'[v] = seed[v]
  BY <1>1, <1>2, BoundAssumption
<1>7. TypeOK'
  BY <1>1, <1>5, <1>6 DEF PoolInv, TypeOK, Item, countVars, netVars
<1>8. Stages'
  BY <1>1, <1>6 DEF PoolInv, Stages, countVars
<1>9. Budget'
  <2>1. Reserved' = Reserved
    BY <1>1, <1>6 DEF Reserved
  <2> QED
    BY <1>1, <2>1 DEF PoolInv, Budget, countVars
<1>10. PlaceOf'
  <2>1. Busy' = Busy \ {w} /\ w \in Busy
    BY <1>1, <1>6 DEF Busy
  <2>2. IsFiniteSet(Busy) /\ Cardinality(Busy) \in Nat
    BY WorkersFinite DEF Busy
  <2>3. Cardinality(Busy') = Cardinality(Busy) - 1
    BY <2>1, <2>2, FS_RemoveElement
  <2>4. Len(conns') + Cardinality(Busy') = Clients
    BY <1>5, <2>2, <2>3 DEF PoolInv, PlaceOf
  <2>5. ASSUME NEW c \in Client
        PROVE  \/ \E k \in DOMAIN conns' : conns'[k].client = c
               \/ \E v \in Worker : pc'[v] # "take" /\ place'[v] = c
    <3>1. CASE \E k \in DOMAIN conns : conns[k].client = c
      BY <1>5, <3>1
    <3>2. CASE place[w] = c
      BY <1>4, <1>5, <3>2
    <3>3. CASE \E v \in Worker \ {w} : pc[v] # "take" /\ place[v] = c
      BY <1>6, <3>3
    <3> QED
      BY <3>1, <3>2, <3>3 DEF PoolInv, PlaceOf
  <2> QED
    BY <2>4, <2>5 DEF PlaceOf
<1>11. OpenKept'
  <2>1. open' = open
    BY <1>1 DEF netVars
  <2>2. \A v \in Worker : conn'[v] # None => conn'[v] \in open
    BY <1>6 DEF PoolInv, OpenKept
  <2>3. ASSUME NEW k \in 1..(n + 1), conns'[k].conn # None
        PROVE  conns'[k].conn \in open
    <3>1. CASE k \in 1..n
      BY <1>5, <2>3, <3>1 DEF PoolInv, OpenKept
    <3>2. CASE k = n + 1
      BY <1>4, <1>5, <2>3, <3>2 DEF PoolInv, OpenKept
    <3> QED
      BY <1>5, <3>1, <3>2
  <2>4. ASSUME NEW c \in open
        PROVE  \/ \E v \in Worker : conn'[v] = c
               \/ \E k \in DOMAIN conns' : conns'[k].conn = c
    <3>1. CASE \E k \in DOMAIN conns : conns[k].conn = c
      BY <1>5, <3>1
    <3>2. CASE conn[w] = c
      BY <1>4, <1>5, <3>2
    <3>3. CASE \E v \in Worker \ {w} : conn[v] = c
      BY <1>6, <3>3
    <3> QED
      BY <3>1, <3>2, <3>3 DEF PoolInv, OpenKept
  <2> QED
    BY <1>5, <2>1, <2>2, <2>3, <2>4 DEF OpenKept
<1>12. Exclusive'
  <2>1. \A u, v \in Worker : conn'[u] # None /\ conn'[u] = conn'[v] => u = v
    BY <1>6 DEF PoolInv, Exclusive
  <2>2. \A k \in 1..n : conn[w] # None => conn[w] # conns[k].conn
    BY <1>5 DEF PoolInv, Exclusive
  <2>3. ASSUME NEW j \in 1..(n + 1), NEW k \in 1..(n + 1),
               conns'[j].conn # None, conns'[j].conn = conns'[k].conn
        PROVE  j = k
    <3>1. CASE j \in 1..n /\ k \in 1..n
      BY <1>5, <2>3, <3>1 DEF PoolInv, Exclusive
    <3>2. CASE j = n + 1 /\ k \in 1..n
      BY <1>4, <1>5, <2>2, <2>3, <3>2
    <3>3. CASE j \in 1..n /\ k = n + 1
      BY <1>4, <1>5, <2>2, <2>3, <3>3
    <3> QED
      BY <1>5, <3>1, <3>2, <3>3
  <2>4. ASSUME NEW v \in Worker, NEW k \in 1..(n + 1), conn'[v] # None
        PROVE  conn'[v] # conns'[k].conn
    <3>1. v # w /\ conn'[v] = conn[v]
      BY <1>6, <2>4
    <3>2. CASE k \in 1..n
      BY <1>5, <2>4, <3>1, <3>2 DEF PoolInv, Exclusive
    <3>3. CASE k = n + 1
      BY <1>4, <1>5, <2>4, <3>1, <3>3 DEF PoolInv, Exclusive
    <3> QED
      BY <1>5, <3>2, <3>3
  <2> QED
    BY <1>5, <2>1, <2>3, <2>4 DEF Exclusive
<1> QED
  BY <1>7, <1>8, <1>9, <1>10, <1>11, <1>12 DEF PoolInv

\* The pool is kept, for every number of clients, workers and connections.
THEOREM PoolInvariant == Spec => []PoolInv
<1>1. PoolInv /\ [Next]_vars => PoolInv'
  <2> SUFFICES ASSUME PoolInv, [Next]_vars PROVE PoolInv'
    OBVIOUS
  <2>1. CASE UNCHANGED vars
    <3>1. UNCHANGED <<conns, place, conn, open, pc, seed, countVars, asked, answered, inbox, duplicates>>
      BY <2>1 DEF vars, workerVars, netVars
    <3>2. TypeOK'
      BY <3>1 DEF PoolInv, TypeOK, countVars
    <3>3. Stages' /\ Budget'
      BY <3>1 DEF PoolInv, Stages, Budget, Reserved, countVars
    <3> QED
      BY <3>1, <3>2, <3>3, PoolStays
  <2>2. CASE World
    BY <2>2, WorldKeepsPool
  <2>3. ASSUME NEW w \in Worker, Work(w)
        PROVE  PoolInv'
    <3>1. CASE WriteFails(w) \/ Mismatch(w) \/ BadRcode(w) \/ ReadFails(w)
      BY <3>1, BreakKeepsPool DEF WriteFails, Mismatch, BadRcode, ReadFails
    <3> QED
      BY <2>3, <3>1, TakeKeepsPool, DialKeepsPool, DialFailsKeepsPool, RequestKeepsPool, WriteKeepsPool,
         SucceedKeepsPool, PutKeepsPool DEF Work, Exchange
  <2> QED
    BY <2>1, <2>2, <2>3 DEF Next
<1> QED
  BY <1>1, InitPool, PTL DEF Spec
-----------------------------------------------------------------------------
(* What follows for the pool.                                              *)

\* The state of the test is well typed, and the count of requests bounded.
THEOREM TypeCorrect == Spec => []TypeOK
<1>1. PoolInv => TypeOK
  BY DEF PoolInv
<1> QED
  BY <1>1, PoolInvariant, PTL

\* There are as many connections in places as there are places.
LEMMA ConnectionsCounted ==
  ASSUME PoolInv
  PROVE  /\ open = {conn[w] : w \in Held} \cup {conns[k].conn : k \in Pooled}
         /\ Cardinality(open) = Cardinality(Held) + Cardinality(Pooled)
<1> DEFINE H == {conn[w] : w \in Held}
           P == {conns[k].conn : k \in Pooled}
           f == [w \in Held |-> conn[w]]
           g == [k \in Pooled |-> conns[k].conn]
<1>1. open = H \cup P
  <2>1. H \subseteq open /\ P \subseteq open
    BY DEF PoolInv, OpenKept, Held, Pooled
  <2>2. ASSUME NEW c \in open
        PROVE  c \in H \cup P
    <3>1. c # None
      BY NoneIsNothing DEF PoolInv, TypeOK
    <3> QED
      BY <3>1 DEF PoolInv, OpenKept, Held, Pooled
  <2> QED
    BY <2>1, <2>2
<1>2. IsFiniteSet(Held) /\ Cardinality(Held) \in Nat
  BY WorkersFinite DEF Held
<1>3. IsFiniteSet(Pooled) /\ Cardinality(Pooled) \in Nat
  <2>1. DOMAIN conns = 1..Len(conns) /\ Len(conns) \in Nat
    BY LenProperties DEF PoolInv, TypeOK
  <2>2. IsFiniteSet(1..Len(conns))
    BY <2>1, FS_Interval
  <2> QED
    BY <2>1, <2>2, FS_Subset, FS_CardinalityType DEF Pooled
<1>4. IsFiniteSet(H) /\ Cardinality(H) = Cardinality(Held)
  <2>1. f \in Surjection(Held, H) /\ f \in Injection(Held, H)
    BY DEF Surjection, Injection, IsInjective, PoolInv, Exclusive, Held
  <2> QED
    BY <1>2, <2>1, FS_Surjection
<1>5. IsFiniteSet(P) /\ Cardinality(P) = Cardinality(Pooled)
  <2>1. g \in Surjection(Pooled, P) /\ g \in Injection(Pooled, P)
    BY DEF Surjection, Injection, IsInjective, PoolInv, Exclusive, Pooled
  <2> QED
    BY <1>3, <2>1, FS_Surjection
<1>6. H \cap P = {}
  BY DEF PoolInv, Exclusive, Held, Pooled
<1> HIDE DEF H, P
<1>7. Cardinality(H \cup P) = Cardinality(H) + Cardinality(P)
  <2>1. Cardinality(H \cup P) = Cardinality(H) + Cardinality(P) - Cardinality(H \cap P)
    BY <1>4, <1>5, FS_Union
  <2>2. Cardinality(H \cap P) = 0
    BY <1>6, FS_EmptySet
  <2> QED
    BY <1>2, <1>3, <1>4, <1>5, <2>1, <2>2
<1> QED
  BY <1>1, <1>4, <1>5, <1>7 DEF H, P

\* Every client keeps its place and every open connection is in exactly one.
THEOREM KeepsPool == Spec => []PoolKept
<1>1. PoolInv => PoolKept
  <2> SUFFICES ASSUME PoolInv PROVE PoolKept
    OBVIOUS
  <2>1. {conns[k].client : k \in DOMAIN conns} \subseteq Client
    <3>1. \A k \in DOMAIN conns : conns[k] \in Item
      <4>1. conns \in Seq(Item)
        BY DEF PoolInv, TypeOK, Item
      <4> QED
        BY <4>1, LenProperties, ElementOfSeq
    <3> QED
      BY <3>1 DEF Item
  <2>2. {place[w] : w \in Busy} \subseteq Client
    BY DEF PoolInv, TypeOK, Stages, Busy
  <2>3. Client \subseteq {conns[k].client : k \in DOMAIN conns} \cup {place[w] : w \in Busy}
    BY DEF PoolInv, PlaceOf, Busy
  <2>4. PlacesKept
    BY <2>1, <2>2, <2>3 DEF PoolInv, PlaceOf, PlacesKept
  <2>5. ConnectionsAccounted
    BY ConnectionsCounted DEF ConnectionsAccounted
  <2> QED
    BY <2>4, <2>5 DEF PoolKept
<1> QED
  BY <1>1, PoolInvariant, PTL
-----------------------------------------------------------------------------
(* The replies.                                                            *)

\* The reply that a worker waits for has come on connection c.
Due(c) == \E w \in Worker : pc[w] = "read" /\ conn[w] = c /\ seed[w] \in answered[c]

\* Connections that hold a reply that nobody waits for.
Surplus == {c \in open : Len(inbox[c]) > IF Due(c) THEN 1 ELSE 0}

\* Replies answer requests, and requests have been counted.
Repliable == \A c \in Conn :
  /\ answered[c] \subseteq asked[c] /\ asked[c] \subseteq 1..totalCount
  /\ \A k \in DOMAIN inbox[c] : inbox[c][k].id \in answered[c]

\* Only a request that is waited for may be without a reply.
Awaited == \A c \in open : \A s \in asked[c] \ answered[c] :
  \E w \in Worker : pc[w] = "read" /\ conn[w] = c /\ seed[w] = s

\* A request is new when it is written, and its reply stays until it is read.
Reading == \A w \in Worker :
  /\ pc[w] = "write" => seed[w] \notin asked[conn[w]]
  /\ pc[w] = "read" /\ seed[w] \in answered[conn[w]] =>
       \E k \in DOMAIN inbox[conn[w]] : inbox[conn[w]][k].id = seed[w]

\* Each mismatch, and each connection where one may come, has had its duplicate.
Paid == mismatches + Cardinality(Surplus) <= duplicates

ReplyInv == Repliable /\ Awaited /\ Reading /\ Paid
-----------------------------------------------------------------------------
(* What each mismatch has cost.                                            *)

LEMMA SurplusFinite ==
  ASSUME PoolInv
  PROVE  /\ IsFiniteSet(Surplus) /\ Cardinality(Surplus) \in Nat
         /\ mismatches \in Nat /\ duplicates \in Nat
<1>1. IsFiniteSet(Conn)
  BY BoundAssumption, FS_Interval DEF Conn
<1>2. Surplus \in SUBSET Conn
  BY DEF Surplus, PoolInv, TypeOK
<1> QED
  BY <1>1, <1>2, FS_Subset, FS_CardinalityType, BoundAssumption DEF PoolInv, TypeOK

\* Nothing to pay: no connection has come to hold a surplus.
LEMMA NothingToPay ==
  ASSUME PoolInv, Paid, mismatches' = mismatches, duplicates' = duplicates, Surplus' \subseteq Surplus
  PROVE  Paid'
<1>1. Cardinality(Surplus') \in Nat /\ Cardinality(Surplus') <= Cardinality(Surplus)
  BY SurplusFinite, FS_Subset, FS_CardinalityType
<1> QED
  BY <1>1, SurplusFinite DEF Paid

\* A duplicate pays for the surplus of one connection.
LEMMA DuplicatePays ==
  ASSUME PoolInv, Paid, mismatches' = mismatches, duplicates' = duplicates + 1,
         NEW c, Surplus' \subseteq Surplus \cup {c}
  PROVE  Paid'
<1>1. /\ IsFiniteSet(Surplus \cup {c})
      /\ Cardinality(Surplus \cup {c}) <= Cardinality(Surplus) + 1
      /\ Cardinality(Surplus \cup {c}) \in Nat
  <2>1. /\ IsFiniteSet(Surplus \cup {c})
        /\ Cardinality(Surplus \cup {c}) =
             IF c \in Surplus THEN Cardinality(Surplus) ELSE Cardinality(Surplus) + 1
    BY SurplusFinite, FS_AddElement
  <2> QED
    BY <2>1, SurplusFinite
<1>2. Cardinality(Surplus') \in Nat /\ Cardinality(Surplus') <= Cardinality(Surplus \cup {c})
  BY <1>1, FS_Subset, FS_CardinalityType
<1> QED
  BY <1>1, <1>2, SurplusFinite DEF Paid

\* A mismatch spends the surplus of its connection, which is closed.
LEMMA MismatchPaid ==
  ASSUME PoolInv, Paid, mismatches' = mismatches + 1, duplicates' = duplicates,
         NEW c \in Surplus, Surplus' \subseteq Surplus \ {c}
  PROVE  Paid'
<1>1. /\ IsFiniteSet(Surplus \ {c})
      /\ Cardinality(Surplus \ {c}) = Cardinality(Surplus) - 1
      /\ Cardinality(Surplus \ {c}) \in Nat
  BY SurplusFinite, FS_RemoveElement, FS_CardinalityType
<1>2. Cardinality(Surplus') \in Nat /\ Cardinality(Surplus') <= Cardinality(Surplus \ {c})
  BY <1>1, FS_Subset, FS_CardinalityType
<1> QED
  BY <1>1, <1>2, SurplusFinite DEF Paid

\* A worker at a request has a connection that no other worker has.
LEMMA OwnConnection ==
  ASSUME PoolInv, NEW w \in Worker, pc[w] \in {"request", "write", "read"}
  PROVE  /\ conn[w] \in Conn /\ conn[w] \in open
         /\ \A v \in Worker : conn[v] = conn[w] => v = w
BY DEF PoolInv, TypeOK, Stages, OpenKept, Exclusive

\* Steps that neither send, deliver nor read a message.
LEMMA QuietReplies ==
  ASSUME PoolInv, ReplyInv, UNCHANGED <<netVars, mismatches, duplicates>>,
         totalCount \in Nat, totalCount' \in Nat, totalCount <= totalCount',
         \A w \in Worker : pc'[w] = "read" <=> pc[w] = "read",
         \A w \in Worker : pc[w] = "read" => conn'[w] = conn[w] /\ seed'[w] = seed[w],
         \A w \in Worker : pc'[w] = "write" => seed'[w] \notin asked[conn'[w]]
  PROVE  ReplyInv'
<1>1. UNCHANGED <<open, asked, answered, inbox>>
  BY DEF netVars
<1>2. Repliable'
  BY <1>1 DEF ReplyInv, Repliable
<1>3. Awaited'
  BY <1>1 DEF ReplyInv, Awaited
<1>4. Reading'
  BY <1>1 DEF ReplyInv, Reading
<1>5. \A c \in open : Due(c)' <=> Due(c)
  BY <1>1 DEF Due
<1>6. Surplus' = Surplus
  BY <1>1, <1>5 DEF Surplus
<1>7. Paid'
  BY <1>6, NothingToPay DEF ReplyInv
<1> QED
  BY <1>2, <1>3, <1>4, <1>7 DEF ReplyInv

LEMMA QuietWork ==
  ASSUME PoolInv, ReplyInv, NEW w \in Worker, Take(w) \/ DialFails(w) \/ Request(w) \/ Put(w)
  PROVE  ReplyInv'
<1>1. UNCHANGED <<netVars, mismatches, duplicates>> /\ totalCount' \in {totalCount, totalCount + 1}
  BY DEF Take, DialFails, Request, Put, countVars
<1>2. totalCount \in Nat
  BY BoundAssumption DEF PoolInv, TypeOK
<1>3. /\ pc' = [pc EXCEPT ![w] = pc'[w]] /\ pc[w] # "read" /\ pc'[w] # "read"
      /\ \A v \in Worker \ {w} : conn'[v] = conn[v] /\ seed'[v] = seed[v]
  BY DEF Take, DialFails, Request, Put, PoolInv, TypeOK
<1>4. \A v \in Worker \ {w} : pc'[v] = pc[v]
  BY <1>3 DEF PoolInv, TypeOK
<1>5. ASSUME pc'[w] = "write"
      PROVE  seed'[w] \notin asked[conn'[w]]
  <2>1. Request(w)
    BY <1>5 DEF Take, DialFails, Request, Put, PoolInv, TypeOK
  <2>2. pc[w] = "request" /\ conn' = conn /\ seed'[w] = totalCount + 1
    BY <2>1 DEF Request, PoolInv, TypeOK
  <2>3. asked[conn[w]] \subseteq 1..totalCount
    BY <2>2, OwnConnection DEF ReplyInv, Repliable
  <2> QED
    BY <1>2, <2>2, <2>3
<1>6. \A v \in Worker : pc'[v] = "write" => seed'[v] \notin asked[conn'[v]]
  BY <1>3, <1>4, <1>5 DEF ReplyInv, Reading
<1> QED
  BY <1>1, <1>2, <1>3, <1>4, <1>6, QuietReplies

LEMMA DialReplies == ASSUME PoolInv, ReplyInv, NEW w \in Worker, Dial(w) PROVE ReplyInv'
<1>1. PICK c \in Conn :
        /\ NewConn(c)
        /\ open' = open \cup {c}
        /\ conn' = [conn EXCEPT ![w] = c]
        /\ asked' = [asked EXCEPT ![c] = {}] /\ answered' = [answered EXCEPT ![c] = {}]
        /\ inbox' = [inbox EXCEPT ![c] = << >>]
  BY DEF Dial
<1>2. /\ pc[w] = "dial" /\ pc' = [pc EXCEPT ![w] = "request"]
      /\ UNCHANGED <<seed, totalCount, mismatches, duplicates>>
  BY DEF Dial, countVars
<1>3. /\ pc'[w] = "request"
      /\ \A v \in Worker \ {w} : pc'[v] = pc[v] /\ conn'[v] = conn[v]
  BY <1>1, <1>2 DEF PoolInv, TypeOK
<1>4. c \notin open /\ \A v \in Worker : conn[v] # c
  BY <1>1, NoneIsNothing DEF NewConn, PoolInv, OpenKept
<1>5. /\ asked'[c] = {} /\ answered'[c] = {} /\ inbox'[c] = << >>
      /\ \A d \in Conn \ {c} : asked'[d] = asked[d] /\ answered'[d] = answered[d] /\ inbox'[d] = inbox[d]
  BY <1>1 DEF PoolInv, TypeOK
<1>6. open \subseteq Conn
  BY DEF PoolInv, TypeOK
<1>7. Repliable'
  BY <1>2, <1>5 DEF ReplyInv, Repliable
<1>8. Awaited'
  BY <1>1, <1>2, <1>3, <1>5, <1>6 DEF ReplyInv, Awaited
<1>9. Reading'
  <2>1. ASSUME NEW v \in Worker, pc'[v] \in {"write", "read"}
        PROVE  v # w /\ conn[v] \in Conn \ {c}
    BY <1>3, <1>4, <2>1, OwnConnection
  <2> QED
    BY <1>2, <1>3, <1>5, <2>1 DEF ReplyInv, Reading
<1>10. Surplus' \subseteq Surplus
  <2>1. \A d \in open : Due(d)' <=> Due(d)
    BY <1>2, <1>3, <1>4, <1>5, <1>6 DEF Due
  <2>2. c \notin Surplus'
    BY <1>5 DEF Surplus
  <2>3. ASSUME NEW d \in Surplus'
        PROVE  d \in Surplus
    <3>1. d \in open /\ d \in Conn \ {c}
      BY <1>1, <1>4, <1>6, <2>2 DEF Surplus
    <3> QED
      BY <1>5, <2>1, <3>1 DEF Surplus
  <2> QED
    BY <2>3
<1>11. Paid'
  BY <1>2, <1>10, NothingToPay DEF ReplyInv
<1> QED
  BY <1>7, <1>8, <1>9, <1>11 DEF ReplyInv

LEMMA WriteReplies == ASSUME PoolInv, ReplyInv, NEW w \in Worker, Write(w) PROVE ReplyInv'
<1> DEFINE c == conn[w]
<1>1. /\ pc[w] = "write" /\ pc' = [pc EXCEPT ![w] = "read"]
      /\ asked' = [asked EXCEPT ![c] = @ \cup {seed[w]}]
      /\ UNCHANGED <<conn, seed, totalCount, mismatches, open, answered, inbox, duplicates>>
  BY DEF Write, countVars
<1>2. c \in Conn /\ c \in open /\ \A v \in Worker : conn[v] = c => v = w
  BY <1>1, OwnConnection
<1>3. pc'[w] = "read" /\ \A v \in Worker \ {w} : pc'[v] = pc[v]
  BY <1>1 DEF PoolInv, TypeOK
<1>4. /\ asked'[c] = asked[c] \cup {seed[w]}
      /\ \A d \in Conn \ {c} : asked'[d] = asked[d]
  BY <1>1, <1>2 DEF PoolInv, TypeOK
<1>5. seed[w] \in 1..totalCount /\ seed[w] \notin asked[c]
  BY <1>1 DEF PoolInv, Stages, ReplyInv, Reading
<1>6. seed[w] \notin answered[c]
  BY <1>2, <1>5 DEF ReplyInv, Repliable
<1> HIDE DEF c
<1>7. Repliable'
  BY <1>1, <1>2, <1>4, <1>5 DEF ReplyInv, Repliable
<1>8. Awaited'
  <2>1. ASSUME NEW d \in open, NEW s \in asked'[d] \ answered[d]
        PROVE  \E v \in Worker : pc'[v] = "read" /\ conn[v] = d /\ seed[v] = s
    <3>1. CASE d = c /\ s = seed[w]
      BY <1>3, <3>1 DEF c
    <3>2. CASE ~(d = c /\ s = seed[w])
      <4>1. s \in asked[d] \ answered[d]
        BY <1>4, <2>1, <3>2 DEF PoolInv, TypeOK
      <4> QED
        BY <1>1, <1>3, <4>1 DEF ReplyInv, Awaited
    <3> QED
      BY <3>1, <3>2
  <2> QED
    BY <1>1, <2>1 DEF Awaited
<1>9. Reading'
  <2>1. ASSUME NEW v \in Worker \ {w}, pc'[v] \in {"write", "read"}
        PROVE  conn[v] \in Conn \ {c} /\ pc'[v] = pc[v]
    BY <1>2, <1>3, <2>1, OwnConnection
  <2> QED
    BY <1>1, <1>3, <1>4, <1>6, <2>1 DEF ReplyInv, Reading, c
<1>10. Surplus' = Surplus
  <2>1. \A d \in open : Due(d)' <=> Due(d)
    BY <1>1, <1>3, <1>6 DEF Due, c
  <2> QED
    BY <1>1, <2>1 DEF Surplus
<1>11. Paid'
  BY <1>1, <1>10, NothingToPay DEF ReplyInv
<1> QED
  BY <1>7, <1>8, <1>9, <1>11 DEF ReplyInv

\* The messages of a socket, its first one apart.
LEMMA SocketSplit ==
  ASSUME PoolInv, NEW c \in Conn, inbox[c] # << >>
  PROVE  /\ Len(inbox[c]) \in Nat \ {0} /\ DOMAIN inbox[c] = 1..Len(inbox[c])
         /\ Head(inbox[c]) = inbox[c][1]
         /\ Len(Tail(inbox[c])) = Len(inbox[c]) - 1
         /\ DOMAIN Tail(inbox[c]) = 1..(Len(inbox[c]) - 1)
         /\ \A k \in 1..(Len(inbox[c]) - 1) : Tail(inbox[c])[k] = inbox[c][k + 1]
<1> DEFINE Message == [id : 1..MaxRequests, good : BOOLEAN]
<1>1. inbox[c] \in Seq(Message)
  BY DEF PoolInv, TypeOK
<1>2. Len(inbox[c]) \in Nat \ {0} /\ DOMAIN inbox[c] = 1..Len(inbox[c])
  BY <1>1, EmptySeq, LenProperties
<1>3. Head(inbox[c]) = inbox[c][1]
  BY <1>1, <1>2
<1>4. /\ Tail(inbox[c]) \in Seq(Message) /\ Len(Tail(inbox[c])) = Len(inbox[c]) - 1
      /\ \A k \in 1..Len(Tail(inbox[c])) : Tail(inbox[c])[k] = inbox[c][k + 1]
  BY <1>1, HeadTailProperties
<1>5. DOMAIN Tail(inbox[c]) = 1..(Len(inbox[c]) - 1)
  BY <1>4, LenProperties
<1> QED
  BY <1>2, <1>3, <1>4, <1>5

LEMMA SucceedReplies == ASSUME PoolInv, ReplyInv, NEW w \in Worker, Succeed(w) PROVE ReplyInv'
<1> DEFINE c == conn[w]
           n == Len(inbox[c])
<1>1. /\ pc[w] = "read" /\ pc' = [pc EXCEPT ![w] = "put"]
      /\ inbox[c] # << >> /\ Head(inbox[c]).id = seed[w]
      /\ inbox' = [inbox EXCEPT ![c] = Tail(@)]
      /\ UNCHANGED <<conn, seed, totalCount, mismatches, open, asked, answered, duplicates>>
  BY DEF Succeed, Reply
<1>2. c \in Conn /\ c \in open /\ \A v \in Worker : conn[v] = c => v = w
  BY <1>1, OwnConnection
<1>3. pc'[w] = "put" /\ \A v \in Worker \ {w} : pc'[v] = pc[v]
  BY <1>1 DEF PoolInv, TypeOK
<1>4. /\ inbox'[c] = Tail(inbox[c])
      /\ \A d \in Conn \ {c} : inbox'[d] = inbox[d]
  BY <1>1, <1>2 DEF PoolInv, TypeOK
<1>5. /\ n \in Nat \ {0} /\ DOMAIN inbox[c] = 1..n /\ inbox[c][1].id = seed[w]
      /\ Len(inbox'[c]) = n - 1 /\ DOMAIN inbox'[c] = 1..(n - 1)
      /\ \A k \in 1..(n - 1) : inbox'[c][k] = inbox[c][k + 1]
  BY <1>1, <1>2, <1>4, SocketSplit
<1>6. seed[w] \in answered[c]
  BY <1>2, <1>5 DEF ReplyInv, Repliable
<1> HIDE DEF c, n
<1>7. Repliable'
  <2>1. \A k \in DOMAIN inbox'[c] : inbox'[c][k].id \in answered[c]
    BY <1>2, <1>5 DEF ReplyInv, Repliable
  <2> QED
    BY <1>1, <1>4, <2>1 DEF ReplyInv, Repliable
<1>8. Awaited'
  <2>1. ASSUME NEW d \in open, NEW s \in asked[d] \ answered[d]
        PROVE  \E v \in Worker : pc'[v] = "read" /\ conn[v] = d /\ seed[v] = s
    <3>1. PICK v \in Worker : pc[v] = "read" /\ conn[v] = d /\ seed[v] = s
      BY DEF ReplyInv, Awaited
    <3>2. v # w
      BY <1>6, <2>1, <3>1 DEF c
    <3> QED
      BY <1>3, <3>1, <3>2
  <2> QED
    BY <1>1, <2>1 DEF Awaited
<1>9. Reading'
  <2>1. ASSUME NEW v \in Worker, pc'[v] \in {"write", "read"}
        PROVE  v # w /\ conn[v] \in Conn \ {c} /\ pc'[v] = pc[v]
    BY <1>2, <1>3, <2>1, OwnConnection
  <2> QED
    BY <1>1, <1>4, <2>1 DEF ReplyInv, Reading
<1>10. Surplus' \subseteq Surplus
  <2>1. \A d \in Conn \ {c} : Due(d)' <=> Due(d)
    BY <1>1, <1>3 DEF Due, c
  <2>2. Due(c) /\ ~Due(c)'
    BY <1>1, <1>2, <1>3, <1>6 DEF Due, c
  <2>3. c \in Surplus' => c \in Surplus
    BY <1>1, <1>5, <2>2 DEF Surplus, n
  <2>4. \A d \in Conn \ {c} : d \in Surplus' => d \in Surplus
    BY <1>1, <1>4, <2>1 DEF Surplus
  <2> QED
    BY <1>1, <2>3, <2>4 DEF Surplus, PoolInv, TypeOK
<1>11. Paid'
  BY <1>1, <1>10, NothingToPay DEF ReplyInv
<1> QED
  BY <1>7, <1>8, <1>9, <1>11 DEF ReplyInv

\* A reply with another id is not the only one of its connection, or nobody
\* waits for it.
LEMMA MismatchIsSurplus == ASSUME PoolInv, ReplyInv, NEW w \in Worker, Mismatch(w) PROVE conn[w] \in Surplus
<1> DEFINE c == conn[w]
<1>1. pc[w] = "read" /\ inbox[c] # << >> /\ Head(inbox[c]).id # seed[w]
  BY DEF Mismatch, Reply
<1>2. c \in Conn /\ c \in open /\ \A v \in Worker : conn[v] = c => v = w
  BY <1>1, OwnConnection
<1>3. /\ Len(inbox[c]) \in Nat \ {0} /\ DOMAIN inbox[c] = 1..Len(inbox[c])
      /\ Head(inbox[c]) = inbox[c][1]
  BY <1>1, <1>2, SocketSplit
<1>4. CASE seed[w] \in answered[c]
  <2>1. PICK k \in 1..Len(inbox[c]) : inbox[c][k].id = seed[w]
    BY <1>1, <1>3, <1>4 DEF ReplyInv, Reading
  <2>2. k # 1
    BY <1>1, <1>3, <2>1
  <2>3. Len(inbox[c]) > 1
    BY <1>3, <2>1, <2>2
  <2> QED
    BY <1>2, <1>3, <2>3 DEF Surplus
<1>5. CASE seed[w] \notin answered[c]
  BY <1>2, <1>3, <1>5 DEF Surplus, Due
<1> QED
  BY <1>4, <1>5

LEMMA BreakReplies ==
  ASSUME PoolInv, ReplyInv, NEW w \in Worker, pc[w] \in {"write", "read"}, Break(w),
         mismatches' = mismatches \/ (mismatches' = mismatches + 1 /\ conn[w] \in Surplus)
  PROVE  ReplyInv'
<1> DEFINE c == conn[w]
<1>1. /\ open' = open \ {c}
      /\ asked' = [asked EXCEPT ![c] = {}] /\ answered' = [answered EXCEPT ![c] = {}]
      /\ inbox' = [inbox EXCEPT ![c] = << >>]
      /\ conn' = [conn EXCEPT ![w] = None] /\ pc' = [pc EXCEPT ![w] = "put"]
      /\ UNCHANGED <<seed, totalCount, duplicates>>
  BY DEF Break
<1>2. c \in Conn /\ c \in open /\ \A v \in Worker : conn[v] = c => v = w
  BY OwnConnection
<1>3. /\ pc'[w] = "put"
      /\ \A v \in Worker \ {w} : pc'[v] = pc[v] /\ conn'[v] = conn[v]
  BY <1>1 DEF PoolInv, TypeOK
<1>4. /\ asked'[c] = {} /\ answered'[c] = {} /\ inbox'[c] = << >>
      /\ \A d \in Conn \ {c} : asked'[d] = asked[d] /\ answered'[d] = answered[d] /\ inbox'[d] = inbox[d]
  BY <1>1, <1>2 DEF PoolInv, TypeOK
<1>5. open \subseteq Conn
  BY DEF PoolInv, TypeOK
<1>6. Repliable'
  BY <1>1, <1>4 DEF ReplyInv, Repliable
<1>7. Awaited'
  BY <1>1, <1>3, <1>4, <1>5 DEF ReplyInv, Awaited
<1>8. Reading'
  <2>1. ASSUME NEW v \in Worker, pc'[v] \in {"write", "read"}
        PROVE  v # w /\ conn'[v] = conn[v] /\ conn[v] \in Conn \ {c} /\ pc'[v] = pc[v]
    BY <1>2, <1>3, <2>1, OwnConnection
  <2> QED
    BY <1>1, <1>4, <2>1 DEF ReplyInv, Reading
<1> HIDE DEF c
<1>9. Surplus' \subseteq Surplus \ {c}
  <2>1. \A d \in Conn \ {c} : Due(d)' <=> Due(d)
    BY <1>1, <1>3, <1>4, NoneIsNothing DEF Due, c
  <2>2. ASSUME NEW d \in Surplus'
        PROVE  d \in Surplus \ {c}
    <3>1. d \in open /\ d \in Conn \ {c}
      BY <1>1, <1>5 DEF Surplus
    <3> QED
      BY <1>4, <2>1, <3>1 DEF Surplus
  <2> QED
    BY <2>2
<1>10. Paid'
  <2>1. CASE mismatches' = mismatches
    BY <1>1, <1>9, <2>1, NothingToPay DEF ReplyInv
  <2>2. CASE mismatches' = mismatches + 1 /\ c \in Surplus
    BY <1>1, <1>9, <2>2, MismatchPaid DEF ReplyInv
  <2> QED
    BY <2>1, <2>2 DEF c
<1> QED
  BY <1>6, <1>7, <1>8, <1>10 DEF ReplyInv

\* A message that reaches a socket is its last.
LEMMA SocketGrows ==
  ASSUME PoolInv, NEW c \in Conn, NEW r \in [id : 1..MaxRequests, good : BOOLEAN]
  PROVE  /\ Len(inbox[c]) \in Nat /\ DOMAIN inbox[c] = 1..Len(inbox[c])
         /\ Len(Append(inbox[c], r)) = Len(inbox[c]) + 1
         /\ DOMAIN Append(inbox[c], r) = 1..(Len(inbox[c]) + 1)
         /\ \A k \in 1..Len(inbox[c]) : Append(inbox[c], r)[k] = inbox[c][k]
         /\ Append(inbox[c], r)[Len(inbox[c]) + 1] = r
<1> DEFINE Message == [id : 1..MaxRequests, good : BOOLEAN]
<1>1. inbox[c] \in Seq(Message)
  BY DEF PoolInv, TypeOK
<1>2. Len(inbox[c]) \in Nat /\ DOMAIN inbox[c] = 1..Len(inbox[c])
  BY <1>1, LenProperties
<1>3. /\ Append(inbox[c], r) \in Seq(Message)
      /\ Len(Append(inbox[c], r)) = Len(inbox[c]) + 1
      /\ \A k \in 1..Len(inbox[c]) : Append(inbox[c], r)[k] = inbox[c][k]
      /\ Append(inbox[c], r)[Len(inbox[c]) + 1] = r
  BY <1>1, AppendProperties
<1>4. DOMAIN Append(inbox[c], r) = 1..(Len(inbox[c]) + 1)
  BY <1>3, LenProperties
<1> QED
  BY <1>2, <1>3, <1>4

\* A message with an id that is answered keeps what is known of replies.
LEMMA DeliveryReplies ==
  ASSUME PoolInv, ReplyInv, NEW c \in open, NEW r \in [id : 1..MaxRequests, good : BOOLEAN],
         inbox' = [inbox EXCEPT ![c] = Append(@, r)],
         answered' = [answered EXCEPT ![c] = @ \cup {r.id}], r.id \in asked[c],
         UNCHANGED <<workerVars, countVars, open, asked>>
  PROVE  /\ Repliable' /\ Awaited' /\ Reading'
         /\ Len(inbox'[c]) = Len(inbox[c]) + 1
         /\ \A d \in Conn \ {c} : inbox'[d] = inbox[d] /\ answered'[d] = answered[d]
         /\ answered'[c] = answered[c] \cup {r.id}
<1> DEFINE n == Len(inbox[c])
<1>1. UNCHANGED <<pc, conn, seed, totalCount>> /\ c \in Conn
  BY DEF workerVars, countVars, PoolInv, TypeOK
<1>2. /\ inbox'[c] = Append(inbox[c], r) /\ answered'[c] = answered[c] \cup {r.id}
      /\ \A d \in Conn \ {c} : inbox'[d] = inbox[d] /\ answered'[d] = answered[d]
  BY <1>1 DEF PoolInv, TypeOK
<1>3. /\ n \in Nat /\ DOMAIN inbox[c] = 1..n /\ Len(inbox'[c]) = n + 1 /\ DOMAIN inbox'[c] = 1..(n + 1)
      /\ \A k \in 1..n : inbox'[c][k] = inbox[c][k]
      /\ inbox'[c][n + 1] = r
  BY <1>1, <1>2, SocketGrows
<1> HIDE DEF n
<1>4. Repliable'
  <2>1. ASSUME NEW k \in 1..(n + 1)
        PROVE  inbox'[c][k].id \in answered'[c]
    <3>1. CASE k \in 1..n
      BY <1>1, <1>2, <1>3, <3>1 DEF ReplyInv, Repliable
    <3>2. CASE k = n + 1
      BY <1>2, <1>3, <3>2
    <3> QED
      BY <1>3, <3>1, <3>2
  <2>2. \A d \in Conn : answered'[d] \subseteq asked[d] /\ asked[d] \subseteq 1..totalCount
    BY <1>1, <1>2 DEF ReplyInv, Repliable
  <2>3. ASSUME NEW d \in Conn \ {c}, NEW k \in DOMAIN inbox'[d]
        PROVE  inbox'[d][k].id \in answered'[d]
    BY <1>2 DEF ReplyInv, Repliable
  <2> QED
    BY <1>1, <1>3, <2>1, <2>2, <2>3 DEF Repliable
<1>5. Awaited'
  <2>1. \A d \in open : answered[d] \subseteq answered'[d]
    BY <1>2 DEF PoolInv, TypeOK
  <2> QED
    BY <1>1, <2>1 DEF ReplyInv, Awaited
<1>6. Reading'
  <2>1. ASSUME NEW w \in Worker, pc[w] = "read", seed[w] \in answered'[conn[w]]
        PROVE  \E k \in DOMAIN inbox'[conn[w]] : inbox'[conn[w]][k].id = seed[w]
    <3>1. conn[w] \in Conn
      BY <2>1, OwnConnection
    <3>2. CASE conn[w] # c
      BY <1>2, <2>1, <3>1, <3>2 DEF ReplyInv, Reading
    <3>3. CASE conn[w] = c /\ seed[w] = r.id
      BY <1>3, <3>3
    <3>4. CASE conn[w] = c /\ seed[w] \in answered[c]
      <4>1. PICK k \in 1..n : inbox[c][k].id = seed[w]
        BY <1>3, <2>1, <3>4 DEF ReplyInv, Reading
      <4> QED
        BY <1>3, <3>4, <4>1
    <3> QED
      BY <1>2, <2>1, <3>2, <3>3, <3>4
  <2> QED
    BY <1>1, <2>1 DEF ReplyInv, Reading
<1> QED
  BY <1>2, <1>3, <1>4, <1>5, <1>6 DEF n

LEMMA AnswerReplies ==
  ASSUME PoolInv, ReplyInv, NEW c \in open, NEW s \in 1..MaxRequests, NEW good \in BOOLEAN,
         Answer(c, s, good)
  PROVE  ReplyInv'
<1> DEFINE r == [id |-> s, good |-> good]
<1>1. r \in [id : 1..MaxRequests, good : BOOLEAN] /\ r.id = s
  OBVIOUS
<1>2. /\ s \in asked[c] \ answered[c]
      /\ answered' = [answered EXCEPT ![c] = @ \cup {r.id}]
      /\ inbox' = [inbox EXCEPT ![c] = Append(@, r)]
      /\ UNCHANGED <<workerVars, countVars, open, asked, duplicates>>
  BY <1>1 DEF Answer
<1> HIDE DEF r
<1>3. /\ Repliable' /\ Awaited' /\ Reading'
      /\ Len(inbox'[c]) = Len(inbox[c]) + 1
      /\ \A d \in Conn \ {c} : inbox'[d] = inbox[d] /\ answered'[d] = answered[d]
      /\ answered'[c] = answered[c] \cup {s}
  BY <1>1, <1>2, DeliveryReplies
<1>4. PICK w \in Worker : pc[w] = "read" /\ conn[w] = c /\ seed[w] = s
  BY <1>2 DEF ReplyInv, Awaited
<1>5. UNCHANGED <<pc, conn, seed, mismatches, duplicates, open>> /\ open \subseteq Conn
  BY <1>2 DEF workerVars, countVars, PoolInv, TypeOK
<1>6. ~Due(c) /\ Due(c)'
  BY <1>2, <1>3, <1>4, <1>5, OwnConnection DEF Due
<1>7. \A d \in open \ {c} : Due(d)' <=> Due(d)
  BY <1>3, <1>5 DEF Due
<1>8. Surplus' \subseteq Surplus
  <2>1. Len(inbox[c]) \in Nat
    BY <1>5, LenProperties DEF PoolInv, TypeOK
  <2>2. c \in Surplus' => c \in Surplus
    BY <1>3, <1>5, <1>6, <2>1 DEF Surplus
  <2>3. \A d \in open \ {c} : d \in Surplus' => d \in Surplus
    BY <1>3, <1>5, <1>7 DEF Surplus
  <2> QED
    BY <1>5, <2>2, <2>3 DEF Surplus
<1>9. Paid'
  BY <1>5, <1>8, NothingToPay DEF ReplyInv
<1> QED
  BY <1>3, <1>9 DEF ReplyInv

LEMMA DuplicateReplies ==
  ASSUME PoolInv, ReplyInv, NEW c \in open, NEW s \in 1..MaxRequests, Duplicate(c, s)
  PROVE  ReplyInv'
<1> DEFINE r == [id |-> s, good |-> TRUE]
<1>1. r \in [id : 1..MaxRequests, good : BOOLEAN] /\ r.id = s
  OBVIOUS
<1>2. /\ s \in answered[c] /\ duplicates' = duplicates + 1
      /\ inbox' = [inbox EXCEPT ![c] = Append(@, r)]
      /\ UNCHANGED <<workerVars, countVars, open, asked, answered>>
  BY DEF Duplicate
<1>3. c \in Conn /\ s \in asked[c]
  BY <1>2 DEF PoolInv, TypeOK, ReplyInv, Repliable
<1>4. answered' = [answered EXCEPT ![c] = @ \cup {r.id}]
  <2>1. answered[c] \cup {r.id} = answered[c]
    BY <1>1, <1>2
  <2> QED
    BY <1>2, <1>3, <2>1 DEF PoolInv, TypeOK
<1> HIDE DEF r
<1>5. /\ Repliable' /\ Awaited' /\ Reading'
      /\ \A d \in Conn \ {c} : inbox'[d] = inbox[d]
  BY <1>1, <1>2, <1>3, <1>4, DeliveryReplies
<1>6. UNCHANGED <<pc, conn, seed, mismatches, open, answered>> /\ open \subseteq Conn
  BY <1>2 DEF workerVars, countVars, PoolInv, TypeOK
<1>7. Surplus' \subseteq Surplus \cup {c}
  <2>1. \A d \in open \ {c} : Due(d)' <=> Due(d)
    BY <1>6 DEF Due
  <2> QED
    BY <1>5, <1>6, <2>1 DEF Surplus
<1>8. Paid'
  BY <1>2, <1>6, <1>7, DuplicatePays DEF ReplyInv
<1> QED
  BY <1>5, <1>8 DEF ReplyInv

\* The invariant of the replies, for every server and every network.
THEOREM ReplyInvariant == Spec => []ReplyInv
<1>1. Init => ReplyInv
  <2> SUFFICES ASSUME Init PROVE ReplyInv
    OBVIOUS
  <2>1. Surplus = {}
    BY DEF Init, Surplus
  <2>2. Paid
    BY <2>1, FS_EmptySet DEF Init, Paid
  <2>3. Repliable /\ Awaited /\ Reading
    BY DEF Init, Repliable, Awaited, Reading
  <2> QED
    BY <2>2, <2>3 DEF ReplyInv
<1>2. PoolInv /\ ReplyInv /\ [Next]_vars => ReplyInv'
  <2> SUFFICES ASSUME PoolInv, ReplyInv, [Next]_vars PROVE ReplyInv'
    OBVIOUS
  <2>1. CASE UNCHANGED vars
    <3>1. UNCHANGED <<pc, conn, seed, totalCount, mismatches, duplicates, netVars>>
      BY <2>1 DEF vars, workerVars, countVars
    <3>2. totalCount \in Nat
      BY DEF PoolInv, TypeOK
    <3>3. \A w \in Worker : pc'[w] = "write" => seed'[w] \notin asked[conn'[w]]
      BY <3>1 DEF ReplyInv, Reading
    <3> QED
      BY <3>1, <3>2, <3>3, QuietReplies
  <2>2. CASE World
    BY <2>2, AnswerReplies, DuplicateReplies DEF World
  <2>3. ASSUME NEW w \in Worker, Work(w)
        PROVE  ReplyInv'
    <3>1. CASE Mismatch(w)
      BY <3>1, MismatchIsSurplus, BreakReplies DEF Mismatch
    <3>2. CASE WriteFails(w) \/ BadRcode(w) \/ ReadFails(w)
      BY <3>2, BreakReplies DEF WriteFails, BadRcode, ReadFails
    <3> QED
      BY <2>3, <3>1, <3>2, QuietWork, DialReplies, WriteReplies, SucceedReplies DEF Work, Exchange
  <2> QED
    BY <2>1, <2>2, <2>3 DEF Next
<1> QED
  BY <1>1, <1>2, PoolInvariant, PTL DEF Spec

\* However replies are delayed and repeated, a duplicate fails at most one request.
THEOREM DuplicatesCostLittle == Spec => []DuplicateCostsOneRequest
<1>1. PoolInv /\ ReplyInv => DuplicateCostsOneRequest
  BY SurplusFinite DEF ReplyInv, Paid, DuplicateCostsOneRequest
<1> QED
  BY <1>1, PoolInvariant, ReplyInvariant, PTL
=============================================================================
