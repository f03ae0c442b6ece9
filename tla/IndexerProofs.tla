--------------------------- MODULE IndexerProofs ----------------------------
(***************************************************************************)
(* What holds of the indexer, for any number of clients, requests and scans *)
(* and any limits.                                                         *)
(*                                                                         *)
(* The pool: type correctness, the ceiling of a session and its FIFO, the  *)
(* admission count, and the only step that loses a call.  The invariant    *)
(* says of every client that its FIFO holds its waiting requests once each, *)
(* that a session which is not up has nothing in flight, and that one which *)
(* is still connecting has not served its share (At); and that a request at *)
(* rest is on its first attempt.                                           *)
(*                                                                         *)
(* The scans: what a scan answers is complete or absent, from an invariant *)
(* on the part of the history each lane has read (LaneInv) and on the      *)
(* budget a scan that stopped has overrun; and one fetch per transaction.  *)
(***************************************************************************)
EXTENDS ElectrumPool, IndexerScan, FiniteSetTheorems, FunctionTheorems,
        SequenceTheorems, TLAPS

LEMMA Sizes ==
    /\ NClients \in Nat \ {0} /\ MaxInFlight \in Nat \ {0} /\ RecycleAfter \in Nat \ {0}
    /\ Spread \in Nat /\ MaxAdmitted \in Nat \ {0} /\ IsFiniteSet(Requests)
  BY PoolAssumption

Mine(q, c, s) == stage[q] = s /\ client[q] = c
Once(s) == \A i, j \in 1 .. Len(s) : s[i] = s[j] => i = j

At(c) ==
    /\ \A q \in Requests : q \in Queued(c) <=> Mine(q, c, "waiting")
    /\ Once(queue[c])
    /\ conn[c] \notin {"open", "dying"} => InFlight(c) = {}
    /\ conn[c] \in {"none", "broken", "refused"} => queue[c] = <<>>
    /\ conn[c] = "connecting" => served[c] < limit[c]
    /\ Cardinality(InFlight(c)) <= MaxInFlight
    /\ conn[c] = "open" /\ queue[c] # <<>> => Cardinality(InFlight(c)) = MaxInFlight

Rested == \A r \in Requests : stage[r] = "idle" => attempt[r] = 1

Firsts == {r \in Requests : stage[r] # "idle" /\ attempt[r] = 1}

Shapes ==
    /\ conn \in [Clients -> ConnStates]
    /\ queue \in [Clients -> Seq(Requests)]
    /\ served \in [Clients -> 0 .. RecycleAfter + Spread]
    /\ limit \in [Clients -> Limits]
    /\ stage \in [Requests -> Stages]
    /\ client \in [Requests -> Clients]
    /\ attempt \in [Requests -> {1, 2}]
    /\ next \in Clients

Pooled ==
    /\ Shapes
    /\ \A c \in Clients : At(c)
    /\ Rested
    /\ admitted = Cardinality(Firsts) /\ admitted <= MaxAdmitted

-----------------------------------------------------------------------------
(* Finite sets of requests.                                                *)

LEMMA Finite ==
    /\ \A c : IsFiniteSet(InFlight(c)) /\ Cardinality(InFlight(c)) \in Nat
    /\ IsFiniteSet(Firsts) /\ Cardinality(Firsts) \in Nat
<1>1. \A S \in SUBSET Requests : IsFiniteSet(S) /\ Cardinality(S) \in Nat
  BY Sizes, FS_Subset, FS_CardinalityType
<1>2. Firsts \in SUBSET Requests /\ \A c : InFlight(c) \in SUBSET Requests
  BY DEF Firsts, InFlight
<1> QED  BY <1>1, <1>2

LEMMA Nobody == Cardinality({}) = 0 /\ 0 <= MaxInFlight
  BY FS_EmptySet, Sizes

LEMMA QueuedAre == ASSUME Shapes, NEW c \in Clients PROVE Queued(c) \subseteq Requests
<1>1. queue[c] \in Seq(Requests)
  BY DEF Shapes
<1> QED  BY <1>1, ElementOfSeq DEF Queued

LEMMA EmptyLine ==
    ASSUME NEW c PROVE queue[c] = <<>> => Queued(c) = {} /\ Once(queue[c])
<1>1. Len(<<>>) = 0 /\ 1 .. 0 = {}
  OBVIOUS
<1> QED  BY <1>1 DEF Queued, Once

(* The first k of a FIFO are k requests, and the others stay in line.      *)
LEMMA FirstInLine ==
    ASSUME NEW s \in Seq(Requests), Once(s), NEW k \in 0 .. Len(s)
    PROVE  LET going == {s[i] : i \in 1 .. k}
               left == SubSeq(s, k + 1, Len(s))
           IN /\ IsFiniteSet(going) /\ Cardinality(going) = k
              /\ left \in Seq(Requests) /\ Once(left) /\ Len(left) = Len(s) - k
              /\ {left[i] : i \in 1 .. Len(left)} = {s[i] : i \in 1 .. Len(s)} \ going
<1> DEFINE going == {s[i] : i \in 1 .. k}
           left == SubSeq(s, k + 1, Len(s))
           f == [i \in 1 .. k |-> s[i]]
<1>0. Len(s) \in Nat /\ k \in Nat /\ k <= Len(s)
  BY LenProperties
<1>1. f \in Bijection(1 .. k, going)
  <2>1. f \in [1 .. k -> going]
    OBVIOUS
  <2>2. \A i, j \in 1 .. k : f[i] = f[j] => i = j
    BY <1>0 DEF Once
  <2>3. \A x \in going : \E i \in 1 .. k : f[i] = x
    OBVIOUS
  <2> QED  BY <2>1, <2>2, <2>3, Fun_IsBij
<1>2. IsFiniteSet(going) /\ Cardinality(going) = k
  <2>1. IsFiniteSet(1 .. k) /\ Cardinality(1 .. k) = k
    BY <1>0, FS_Interval
  <2>2. ExistsBijection(1 .. k, going)
    BY <1>1 DEF ExistsBijection
  <2> HIDE DEF going
  <2> QED  BY <2>1, <2>2, FS_Bijection
<1>3. \A i \in k + 1 .. Len(s) : s[i] \in Requests
  BY <1>0, ElementOfSeq
<1>4. /\ left \in Seq(Requests) /\ Len(left) = Len(s) - k
      /\ \A i \in 1 .. Len(s) - k : left[i] = s[k + i]
  <2>1. /\ SubSeq(s, k + 1, Len(s)) \in Seq(Requests)
        /\ Len(SubSeq(s, k + 1, Len(s))) = IF k + 1 <= Len(s) THEN Len(s) - (k + 1) + 1 ELSE 0
        /\ \A i \in 1 .. Len(s) - (k + 1) + 1 : SubSeq(s, k + 1, Len(s))[i] = s[(k + 1) + i - 1]
    BY <1>0, <1>3, SubSeqProperties
  <2> QED  BY <1>0, <2>1
<1> HIDE DEF left
<1>5. Once(left)
  BY <1>0, <1>4 DEF Once
<1>6. {left[i] : i \in 1 .. Len(left)} = {s[i] : i \in 1 .. Len(s)} \ going
  <2>1. ASSUME NEW i \in 1 .. Len(left) PROVE left[i] \in {s[j] : j \in 1 .. Len(s)} \ going
    <3>1. k + i \in 1 .. Len(s) /\ left[i] = s[k + i]
      BY <1>0, <1>4
    <3>2. \A j \in 1 .. k : s[j] # s[k + i]
      BY <1>0, <3>1 DEF Once
    <3> QED  BY <3>1, <3>2
  <2>2. ASSUME NEW j \in 1 .. Len(s), s[j] \notin going PROVE \E i \in 1 .. Len(left) : left[i] = s[j]
    <3>1. j \notin 1 .. k
      BY <2>2
    <3>2. j - k \in 1 .. Len(left) /\ left[j - k] = s[j]
      BY <1>0, <1>4, <3>1
    <3> QED  BY <3>2
  <2> QED  BY <2>1, <2>2
<1> QED  BY <1>2, <1>4, <1>5, <1>6 DEF left

-----------------------------------------------------------------------------
(* Sending from the FIFO.                                                  *)

LEMMA RoomIs ==
    ASSUME Shapes, NEW c \in Clients, NEW busy, Cardinality(busy) \in Nat
    PROVE  /\ Room(c, busy) \in 0 .. Len(queue[c])
           /\ Cardinality(busy) <= MaxInFlight => Cardinality(busy) + Room(c, busy) <= MaxInFlight
           /\ Cardinality(busy) <= MaxInFlight /\ Room(c, busy) # Len(queue[c])
                 => Cardinality(busy) + Room(c, busy) = MaxInFlight
<1>1. Len(queue[c]) \in Nat
  BY LenProperties DEF Shapes
<1> QED  BY <1>1, Sizes DEF Room

(* Requests `busy` are on the wire of client c and the FIFO fills it up.   *)
LEMMA Sending ==
    ASSUME Shapes, NEW c \in Clients, Once(queue[c]), NEW busy, NEW others \in [Requests -> Stages],
           SendFirst(c, Room(c, busy), others),
           \A q \in Requests : q \in Queued(c) <=> others[q] = "waiting" /\ client[q] = c,
           \A q \in Requests : q \in busy <=> others[q] = "sent" /\ client[q] = c,
           busy \subseteq Requests, Cardinality(busy) <= MaxInFlight,
           client' \in [Requests -> Clients],
           \A q \in Requests : client'[q] = client[q] \/ others[q] \notin {"sent", "waiting"}
    PROVE  /\ stage' \in [Requests -> Stages] /\ queue' \in [Clients -> Seq(Requests)]
           /\ served' \in [Clients -> 0 .. RecycleAfter + Spread]
           /\ \A q \in Requests : q \in Queued(c)' <=> Mine(q, c, "waiting")'
           /\ Once(queue'[c])
           /\ Cardinality(InFlight(c)') <= MaxInFlight
           /\ queue'[c] # <<>> => Cardinality(InFlight(c)') = MaxInFlight
           /\ \A d \in Clients \ {c} :
                 /\ queue'[d] = queue[d] /\ served'[d] = served[d]
                 /\ \A q \in Requests, s \in {"sent", "waiting"} :
                       Mine(q, d, s)' <=> others[q] = s /\ client[q] = d
           /\ \A q \in Requests : (stage'[q] = "idle" <=> others[q] = "idle")
<1> DEFINE n == Room(c, busy)
           line == queue[c]
           going == {line[i] : i \in 1 .. n}
           left == SubSeq(line, n + 1, Len(line))
<1>1. /\ stage' = [q \in Requests |-> IF q \in going THEN "sent" ELSE others[q]]
      /\ queue' = [queue EXCEPT ![c] = left]
      /\ served' = [served EXCEPT ![c] = Saturated(served[c] + n)]
  BY DEF SendFirst
<1>2. IsFiniteSet(busy) /\ Cardinality(busy) \in Nat
  BY Sizes, FS_Subset, FS_CardinalityType
<1>3. /\ n \in 0 .. Len(line) /\ Cardinality(busy) + n <= MaxInFlight
      /\ n # Len(line) => Cardinality(busy) + n = MaxInFlight
  BY <1>2, RoomIs
<1>4. line \in Seq(Requests)
  BY DEF Shapes
<1> HIDE DEF n, line
<1>5. /\ IsFiniteSet(going) /\ Cardinality(going) = n
      /\ left \in Seq(Requests) /\ Once(left) /\ Len(left) = Len(line) - n
      /\ {left[i] : i \in 1 .. Len(left)} = {line[i] : i \in 1 .. Len(line)} \ going
  <2>1. Once(line)
    BY DEF line
  <2> QED  BY <1>3, <1>4, <2>1, FirstInLine
<1>6. Queued(c) = {line[i] : i \in 1 .. Len(line)}
  BY DEF Queued, line
<1>7. going \subseteq Queued(c) /\ Queued(c) \subseteq Requests
  <2>1. Len(line) \in Nat /\ \A i \in 1 .. n : i \in 1 .. Len(line)
    BY <1>3, <1>4, LenProperties
  <2> QED  BY <1>6, <2>1, QueuedAre
<1>8. queue'[c] = left /\ Queued(c)' = Queued(c) \ going
  <2>1. queue'[c] = left
    BY <1>1 DEF Shapes
  <2>2. Queued(c)' = {left[i] : i \in 1 .. Len(left)}
    BY <2>1 DEF Queued
  <2> QED  BY <1>5, <1>6, <2>1, <2>2
<1> HIDE DEF going, left
<1>9. InFlight(c)' = busy \union going
  BY <1>1, <1>7 DEF InFlight
<1>10. busy \intersect going = {}
  BY <1>7
<1>11. Cardinality(InFlight(c)') = Cardinality(busy) + n
  <2>1. Cardinality(busy \union going) = Cardinality(busy) + Cardinality(going) - Cardinality(busy \intersect going)
    BY <1>2, <1>5, FS_Union
  <2>2. n \in Nat
    BY <1>3, <1>4, LenProperties
  <2>3. Cardinality(busy \union going) = Cardinality(busy) + n
    <3>1. Cardinality(busy \intersect going) = 0
      BY <1>10, Nobody
    <3>2. Cardinality(going) = n /\ Cardinality(busy) \in Nat
      BY <1>2, <1>5
    <3> QED  BY <2>1, <2>2, <3>1, <3>2
  <2> QED  BY <1>9, <2>3
<1>12. \A q \in Requests : q \in Queued(c)' <=> Mine(q, c, "waiting")'
  BY <1>1, <1>7, <1>8 DEF Mine
<1>13. queue'[c] # <<>> => n # Len(line)
  <2>1. Len(left) = 0 => left = <<>>
    BY <1>5, EmptySeq
  <2> QED  BY <1>3, <1>5, <1>8, <2>1
<1>14. stage' \in [Requests -> Stages]
  BY <1>1 DEF Stages
<1>15. Saturated(served[c] + n) \in 0 .. RecycleAfter + Spread
  <2>1. n \in Nat /\ served[c] \in Nat
    BY <1>3, Sizes DEF Shapes
  <2> QED  BY <2>1, Sizes DEF Saturated
<1>16. queue' \in [Clients -> Seq(Requests)] /\ served' \in [Clients -> 0 .. RecycleAfter + Spread]
  BY <1>1, <1>5, <1>15 DEF Shapes
<1>17. \A d \in Clients \ {c} :
          /\ queue'[d] = queue[d] /\ served'[d] = served[d]
          /\ \A q \in Requests, s \in {"sent", "waiting"} :
                Mine(q, d, s)' <=> others[q] = s /\ client[q] = d
  BY <1>1, <1>7 DEF Mine, Shapes
<1>18. \A q \in Requests : (stage'[q] = "idle" <=> others[q] = "idle")
  BY <1>1, <1>7
<1> QED  BY <1>3, <1>5, <1>8, <1>11, <1>12, <1>13, <1>14, <1>16, <1>17, <1>18

-----------------------------------------------------------------------------
(* What a step at one client leaves alone, and the admission count.        *)

Same(d) ==
    /\ conn'[d] = conn[d] /\ queue'[d] = queue[d] /\ served'[d] = served[d] /\ limit'[d] = limit[d]
    /\ \A q \in Requests, s \in {"sent", "waiting"} : Mine(q, d, s)' <=> Mine(q, d, s)

LEMMA SameAt == ASSUME NEW d \in Clients, At(d), Same(d) PROVE At(d)'
<1>1. InFlight(d)' = InFlight(d) /\ Queued(d)' = Queued(d)
  BY DEF Same, InFlight, Queued, Mine
<1> QED  BY <1>1 DEF Same, At, Once

(* A client with nothing on the wire.                                      *)
LEMMA BareAt ==
    ASSUME NEW c \in Clients, InFlight(c)' = {}, conn'[c] # "open",
           \A q \in Requests : q \in Queued(c)' <=> Mine(q, c, "waiting")',
           Once(queue'[c]),
           conn'[c] \in {"none", "broken", "refused"} => queue'[c] = <<>>,
           conn'[c] = "connecting" => served'[c] < limit'[c]
    PROVE  At(c)'
  BY Nobody DEF At

(* Some first attempts are over.                                           *)
LEMMA SomeOver ==
    ASSUME Pooled, NEW S \in SUBSET Firsts, Firsts' = Firsts \ S, admitted' = admitted - Cardinality(S)
    PROVE  admitted' = Cardinality(Firsts') /\ admitted' <= MaxAdmitted
<1>1. IsFiniteSet(Firsts) /\ Cardinality(Firsts) \in Nat /\ Firsts \intersect S = S
  BY Finite
<1>2. IsFiniteSet(S) /\ Cardinality(S) \in Nat
  BY <1>1, FS_Subset, FS_CardinalityType
<1>3. Cardinality(Firsts \ S) = Cardinality(Firsts) - Cardinality(S)
  BY <1>1, FS_Difference
<1> QED  BY <1>1, <1>2, <1>3, Sizes DEF Pooled

LEMMA NoneOver ==
    ASSUME Pooled, Firsts' = Firsts, admitted' = admitted
    PROVE  admitted' = Cardinality(Firsts') /\ admitted' <= MaxAdmitted
  BY DEF Pooled

(* The finally block, for calls whose request is idle now.                 *)
LEMMA OverIs ==
    ASSUME Pooled, NEW S \in SUBSET Requests, Over(S),
           \A q \in S : stage[q] # "idle" /\ stage'[q] = "idle",
           \A q \in Requests \ S : stage'[q] = "idle" <=> stage[q] = "idle"
    PROVE  /\ client' \in [Requests -> Clients] /\ attempt' \in [Requests -> {1, 2}]
           /\ Rested'
           /\ admitted' = Cardinality(Firsts') /\ admitted' <= MaxAdmitted
<1> DEFINE F == {r \in S : attempt[r] = 1}
<1>1. Firsts' = Firsts \ F /\ F \in SUBSET Firsts
  BY DEF Over, Firsts, Pooled, Shapes
<1>2. admitted' = admitted - Cardinality(F)
  BY DEF Over
<1> HIDE DEF F
<1>3. admitted' = Cardinality(Firsts') /\ admitted' <= MaxAdmitted
  BY <1>1, <1>2, SomeOver
<1>4. 0 \in Clients
  BY Sizes DEF Clients
<1> QED  BY <1>3, <1>4 DEF Over, Rested, Pooled, Shapes

-----------------------------------------------------------------------------
(* The steps.                                                              *)

(* Nobody's call begins or ends: the admission count stands.               *)
LEMMA NoneBegins ==
    ASSUME Pooled, UNCHANGED <<attempt, admitted>>,
           \A q \in Requests : stage'[q] = "idle" <=> stage[q] = "idle"
    PROVE  Rested' /\ admitted' = Cardinality(Firsts') /\ admitted' <= MaxAdmitted
<1>1. Firsts' = Firsts
  BY DEF Firsts
<1> QED  BY <1>1, NoneOver DEF Rested, Pooled

(* recycle() at the selection of a spent client: it was not connecting, so *)
(* everyone it held is rejected.                                           *)
LEMMA RecycledSpent ==
    ASSUME Pooled, NEW c \in Clients, Spent(c)
    PROVE  /\ InFlight(c) = {} /\ conn[c] \notin {"connecting", "handshake"}
           /\ AfterRecycle(c) \in [Requests -> Stages]
           /\ \A q \in Requests : AfterRecycle(c)[q] = IF q \in Queued(c) THEN "rejected" ELSE stage[q]
<1>1. served[c] >= limit[c] /\ PendingSize(c) = 0
  BY DEF Spent
<1>2. conn[c] # "handshake" /\ Cardinality(InFlight(c)) = 0
  BY <1>1, Finite DEF PendingSize
<1>3. InFlight(c) = {}
  BY <1>2, Finite, FS_EmptySet
<1>4. served[c] \in Nat /\ limit[c] \in Nat
  BY Sizes DEF Pooled, Shapes, Limits
<1>5. conn[c] # "connecting"
  BY <1>1, <1>4 DEF Pooled, At
<1>6. AfterRecycle(c) = [q \in Requests |-> IF q \in Queued(c) THEN "rejected" ELSE stage[q]]
  BY <1>3, <1>5 DEF AfterRecycle
<1>7. stage \in [Requests -> Stages]
  BY DEF Pooled, Shapes
<1> QED  BY <1>2, <1>3, <1>5, <1>6, <1>7 DEF Stages

(* A caller is given to client c in the shape that recycling left it.      *)
LEMMA ArriveKeeps == ASSUME Pooled, NEW r \in Requests, Arrive(r) PROVE Pooled'
<1> PICK c \in Clients : c = next
  BY DEF Pooled, Shapes
<1> DEFINE recycled == Spent(c)
           before == IF recycled THEN AfterRecycle(c) ELSE stage
           ready == IF recycled THEN "none" ELSE conn[c]
           line == IF recycled THEN <<>> ELSE queue[c]
           count == IF recycled THEN 0 ELSE served[c]
           sends == ready \in {"open", "dying"} /\ Cardinality(InFlight(c)) < MaxInFlight
<1>1. /\ At(c) /\ Shapes
      /\ stage[r] = "idle" /\ attempt[r] = 1
      /\ ~ Mine(r, c, "waiting")
  BY DEF Pooled, Rested, Shapes, Arrive, Mine
<1>2. /\ before \in [Requests -> Stages] /\ ready \in ConnStates
      /\ line \in Seq(Requests) /\ Once(line)
      /\ before[r] = "idle"
      /\ \A q \in Requests : (\E i \in 1 .. Len(line) : line[i] = q) <=> before[q] = "waiting" /\ client[q] = c
      /\ \A q \in Requests : q \in InFlight(c) <=> before[q] = "sent" /\ client[q] = c
      /\ \A q \in Requests : client[q] # c => before[q] = stage[q]
      /\ \A q \in Requests : before[q] = "idle" <=> stage[q] = "idle"
  <2>1. CASE recycled
    <3>1. /\ InFlight(c) = {} /\ AfterRecycle(c) \in [Requests -> Stages]
          /\ \A q \in Requests : AfterRecycle(c)[q] = IF q \in Queued(c) THEN "rejected" ELSE stage[q]
      BY <1>1, <2>1, RecycledSpent
    <3>2. \A q \in Requests : q \in Queued(c) <=> Mine(q, c, "waiting")
      BY <1>1 DEF At
    <3>3. Len(<<>>) = 0 /\ 1 .. 0 = {} /\ <<>> \in Seq(Requests)
      OBVIOUS
    <3>4. \A q \in Requests : ~ Mine(q, c, "sent")
      BY <3>1 DEF InFlight, Mine
    <3> QED  BY <1>1, <2>1, <3>1, <3>2, <3>3, <3>4 DEF Mine, Once, ConnStates
  <2>2. CASE ~ recycled
    <3>1. before = stage /\ ready = conn[c] /\ line = queue[c]
      BY <2>2
    <3>2. \A q \in Requests : q \in Queued(c) <=> stage[q] = "waiting" /\ client[q] = c
      BY <1>1 DEF At, Mine
    <3>3. \A q \in Requests : q \in Queued(c) <=> (\E i \in 1 .. Len(queue[c]) : queue[c][i] = q)
      BY DEF Queued
    <3>4. \A q \in Requests : q \in InFlight(c) <=> stage[q] = "sent" /\ client[q] = c
      BY DEF InFlight
    <3>5. stage \in [Requests -> Stages] /\ conn[c] \in ConnStates /\ queue[c] \in Seq(Requests)
          /\ Once(queue[c])
      BY <1>1 DEF Shapes, At
    <3> HIDE DEF before, ready, line
    <3> QED  BY <1>1, <3>1, <3>2, <3>3, <3>4, <3>5
  <2> QED  BY <2>1, <2>2
<1>3. /\ Cardinality(InFlight(c)) \in Nat /\ Cardinality(InFlight(c)) <= MaxInFlight
      /\ ready \notin {"open", "dying"} => InFlight(c) = {}
      /\ ready \in {"none", "broken", "refused"} => line = <<>>
      /\ ready = "connecting" => count < limit[c] /\ ~ recycled
      /\ ready = "open" /\ line # <<>> => Cardinality(InFlight(c)) = MaxInFlight
      /\ count \in 0 .. RecycleAfter + Spread
      /\ recycled => count = 0 /\ ready = "none"
  <2>1. CASE recycled
    BY <1>1, <2>1, RecycledSpent, Finite, Nobody, Sizes DEF At
  <2>2. CASE ~ recycled
    BY <1>1, <2>2, Finite DEF At, Shapes
  <2> QED  BY <2>1, <2>2
<1>4. /\ \E l \in Limits : limit' = [limit EXCEPT ![c] = IF recycled THEN l ELSE @]
      /\ next' = (next + 1) % NClients
      /\ admitted < MaxAdmitted
  BY DEF Arrive
<1>5. /\ limit' \in [Clients -> Limits] /\ \A d \in Clients : d # c => limit'[d] = limit[d]
      /\ ~ recycled => limit'[c] = limit[c]
  BY <1>1, <1>4 DEF Shapes
<1>6. next' \in Clients
  BY <1>1, <1>4, Sizes DEF Clients
<1>7. /\ ready = "refused" => UNCHANGED <<conn, queue, served, stage, client, attempt, admitted>>
      /\ ready # "refused" =>
           /\ admitted' = admitted + 1
           /\ client' = [client EXCEPT ![r] = c]
           /\ conn' = [conn EXCEPT ![c] = IF ready = "none" THEN "connecting" ELSE ready]
           /\ stage' = [before EXCEPT ![r] = IF ready = "broken" THEN "rejected"
                                             ELSE IF sends THEN "sent" ELSE "waiting"]
           /\ queue' = [queue EXCEPT ![c] = IF ready = "broken" \/ sends
                                            THEN line ELSE Append(line, r)]
           /\ served' = [served EXCEPT ![c] = IF sends THEN Saturated(count + 1) ELSE count]
           /\ attempt' = attempt
  BY DEF Arrive
<1> HIDE DEF recycled, before, ready, line, count, sends
<1>8. CASE ready = "refused"
  <2>1. ~ recycled /\ limit'[c] = limit[c]
    BY <1>3, <1>5, <1>8
  <2>2. \A d \in Clients : Same(d)
    BY <1>5, <1>7, <1>8, <2>1 DEF Same, Mine
  <2>3. \A d \in Clients : At(d)'
    BY <2>2, SameAt DEF Pooled
  <2>4. Shapes'
    BY <1>1, <1>5, <1>6, <1>7, <1>8 DEF Shapes
  <2> QED  BY <1>7, <1>8, <2>3, <2>4, NoneBegins DEF Pooled
<1>9. CASE ready # "refused"
  <2> DEFINE to == IF ready = "broken" THEN "rejected" ELSE IF sends THEN "sent" ELSE "waiting"
             rest == IF ready = "broken" \/ sends THEN line ELSE Append(line, r)
             tally == IF sends THEN Saturated(count + 1) ELSE count
             now == IF ready = "none" THEN "connecting" ELSE ready
  <2>1. /\ stage' = [before EXCEPT ![r] = to] /\ queue' = [queue EXCEPT ![c] = rest]
        /\ served' = [served EXCEPT ![c] = tally] /\ conn' = [conn EXCEPT ![c] = now]
        /\ client' = [client EXCEPT ![r] = c] /\ attempt' = attempt /\ admitted' = admitted + 1
    BY <1>7, <1>9
  <2>2. /\ to \in {"rejected", "sent", "waiting"}
        /\ to = "waiting" <=> rest # line
        /\ to = "sent" <=> sends
        /\ to # "waiting" => rest = line
        /\ to = "waiting" => rest = Append(line, r)
        /\ now \in ConnStates \ {"none", "refused"}
    <3>1. Append(line, r) # line
      <4>1. Len(Append(line, r)) = Len(line) + 1 /\ Len(line) \in Nat
        BY <1>2, AppendProperties, LenProperties
      <4> QED  BY <4>1
    <3>2. ~ (ready = "broken" /\ sends)
      BY DEF sends
    <3> QED  BY <1>2, <1>9, <3>1, <3>2 DEF ConnStates
  <2>3. /\ rest \in Seq(Requests) /\ Once(rest)
        /\ \A q \in Requests : (\E i \in 1 .. Len(rest) : rest[i] = q)
              <=> (\E i \in 1 .. Len(line) : line[i] = q) \/ (q = r /\ to = "waiting")
    <3>1. CASE to # "waiting"
      BY <1>2, <2>2, <3>1
    <3>2. CASE to = "waiting"
      <4>1. /\ rest \in Seq(Requests) /\ Len(line) \in Nat /\ Len(rest) = Len(line) + 1
            /\ \A i \in 1 .. Len(line) : rest[i] = line[i]
            /\ rest[Len(line) + 1] = r
        BY <1>2, <2>2, <3>2, AppendProperties, LenProperties
      <4>2. \A i \in 1 .. Len(line) : line[i] # r
        BY <1>2
      <4> HIDE DEF rest
      <4>3. Once(rest)
        BY <1>2, <4>1, <4>2 DEF Once
      <4> QED  BY <3>2, <4>1, <4>3
    <3> QED  BY <3>1, <3>2
  <2>4. tally \in 0 .. RecycleAfter + Spread
    BY <1>3, Sizes DEF Saturated
  <2> HIDE DEF to, rest, tally
  <2>5. /\ stage' \in [Requests -> Stages] /\ queue' \in [Clients -> Seq(Requests)]
        /\ served' \in [Clients -> 0 .. RecycleAfter + Spread]
        /\ conn' \in [Clients -> ConnStates] /\ client' \in [Requests -> Clients]
        /\ attempt' \in [Requests -> {1, 2}]
    BY <1>1, <1>2, <2>1, <2>2, <2>3, <2>4 DEF Shapes, Stages
  <2>6. Shapes'
    BY <1>5, <1>6, <2>5 DEF Shapes
  <2>7. \A d \in Clients \ {c} : At(d)'
    <3> SUFFICES ASSUME NEW d \in Clients \ {c} PROVE Same(d)
      BY SameAt DEF Pooled
    <3>1. /\ conn'[d] = conn[d] /\ queue'[d] = queue[d] /\ served'[d] = served[d] /\ limit'[d] = limit[d]
      BY <1>1, <1>5, <2>1 DEF Shapes
    <3>2. \A q \in Requests, s \in {"sent", "waiting"} : Mine(q, d, s)' <=> Mine(q, d, s)
      BY <1>1, <1>2, <2>1 DEF Mine, Shapes
    <3> QED  BY <3>1, <3>2 DEF Same
  <2>8. At(c)'
    <3>1. queue'[c] = rest /\ conn'[c] = now /\ served'[c] = tally
      BY <1>1, <2>1 DEF Shapes
    <3>2. \A q \in Requests : q \in Queued(c)' <=> (\E i \in 1 .. Len(rest) : rest[i] = q)
      BY <3>1 DEF Queued
    <3>0. \A q \in Requests : /\ stage'[q] = IF q = r THEN to ELSE before[q]
                             /\ client'[q] = IF q = r THEN c ELSE client[q]
      BY <1>1, <1>2, <2>1 DEF Shapes
    <3>3. \A q \in Requests : q \in Queued(c)' <=> Mine(q, c, "waiting")'
      BY <1>2, <2>3, <3>0, <3>2 DEF Mine
    <3>4. InFlight(c)' = InFlight(c) \union (IF sends THEN {r} ELSE {})
      <4>1. \A q \in Requests : q \in InFlight(c)' <=> q \in InFlight(c) \/ (q = r /\ sends)
        BY <1>2, <2>2, <3>0 DEF InFlight
      <4>2. InFlight(c) \subseteq Requests /\ InFlight(c)' \subseteq Requests
        BY DEF InFlight
      <4> QED  BY <4>1, <4>2
    <3>5. /\ Cardinality(InFlight(c)') <= MaxInFlight
          /\ sends => now \in {"open", "dying"} /\ Cardinality(InFlight(c)) < MaxInFlight
                      /\ Cardinality(InFlight(c)') = Cardinality(InFlight(c)) + 1
      <4>1. CASE sends
        <5>1. r \notin InFlight(c) /\ IsFiniteSet(InFlight(c))
          BY <1>1, Finite DEF InFlight
        <5>2. Cardinality(InFlight(c) \union {r}) = Cardinality(InFlight(c)) + 1
          BY <5>1, FS_AddElement
        <5> QED  BY <1>3, <3>4, <4>1, <5>2, Sizes DEF sends
      <4>2. CASE ~ sends
        BY <1>3, <3>4, <4>2
      <4> QED  BY <4>1, <4>2
    <3>6. now \notin {"open", "dying"} => InFlight(c)' = {}
      BY <1>3, <3>4, <3>5
    <3>7. now = "broken" => rest = <<>>
      BY <1>3, <2>2 DEF to
    <3>8. now = "connecting" => tally < limit'[c]
      <4>1. ~ sends => tally = count
        BY DEF tally
      <4>2. now = "connecting" => ~ sends
        BY <3>5
      <4>3. CASE recycled
        BY <1>1, <1>3, <1>5, <4>1, <4>2, <4>3, Sizes DEF Limits
      <4>4. CASE ~ recycled /\ ready = "none"
        <5>1. conn[c] = "none" /\ count = served[c]
          BY <4>4 DEF ready, count
        <5>2. PendingSize(c) = 0
          <6>1. InFlight(c) = {}
            BY <1>3, <4>4
          <6>2. Cardinality(InFlight(c)) = 0
            BY <6>1, Nobody
          <6> QED  BY <5>1, <6>2 DEF PendingSize
        <5>3. ~ (served[c] >= limit[c])
          BY <4>4, <5>2 DEF recycled, Spent
        <5>4. served[c] \in Nat /\ limit[c] \in Nat
          BY <1>1, Sizes DEF Shapes, Limits
        <5> QED  BY <1>5, <4>1, <4>2, <4>4, <5>1, <5>3, <5>4
      <4>5. CASE ~ recycled /\ ready # "none"
        BY <1>3, <1>5, <4>1, <4>2, <4>5
      <4> QED  BY <4>3, <4>4, <4>5
    <3>9. now = "open" /\ rest # <<>> => Cardinality(InFlight(c)') = MaxInFlight
      <4>1. now = "open" => ready = "open"
        OBVIOUS
      <4>2. CASE sends
        BY <1>3, <2>2, <3>5, <4>1, <4>2, Sizes
      <4>3. CASE ~ sends
        <5>1. InFlight(c)' = InFlight(c)
          BY <3>4, <4>3
        <5> QED  BY <1>3, <4>1, <4>3, <5>1, Sizes DEF sends
      <4> QED  BY <4>2, <4>3
    <3> QED  BY <2>2, <2>3, <3>1, <3>3, <3>5, <3>6, <3>7, <3>8, <3>9 DEF At
  <2>9. Rested' /\ admitted' = Cardinality(Firsts') /\ admitted' <= MaxAdmitted
    <3>1. Firsts' = Firsts \union {r} /\ r \notin Firsts
      BY <1>1, <1>2, <2>1, <2>2 DEF Firsts, Shapes
    <3>2. Cardinality(Firsts') = Cardinality(Firsts) + 1
      BY <3>1, Finite, FS_AddElement
    <3>3. Rested'
      BY <1>1, <1>2, <2>1, <2>2 DEF Rested, Pooled, Shapes
    <3> QED  BY <1>4, <2>1, <3>2, <3>3, Finite, Sizes DEF Pooled
  <2> QED  BY <2>6, <2>7, <2>8, <2>9 DEF Pooled
<1> QED  BY <1>8, <1>9

(* recycle() in the catch block: the others of the client are rejected, or *)
(* lost with the promise of a connection being made.                       *)
LEMMA RecycledAlive ==
    ASSUME Shapes, NEW c \in Clients, At(c)
    PROVE  /\ AfterRecycle(c) \in [Requests -> Stages]
           /\ \A q \in Requests : AfterRecycle(c)[q] =
                 IF Mine(q, c, "sent") THEN "rejected"
                 ELSE IF Mine(q, c, "waiting")
                 THEN IF conn[c] # "connecting" THEN "rejected" ELSE "orphan"
                 ELSE stage[q]
<1>1. \A q \in Requests : q \in InFlight(c) <=> Mine(q, c, "sent")
  BY DEF InFlight, Mine
<1>2. \A q \in Requests : q \in Queued(c) <=> Mine(q, c, "waiting")
  BY DEF At
<1>3. \A q \in Requests : Mine(q, c, "sent") => ~ Mine(q, c, "waiting")
  BY DEF Mine
<1> QED  BY <1>1, <1>2, <1>3 DEF AfterRecycle, Shapes, Stages

LEMMA RetriedKeeps == ASSUME Pooled, NEW r \in Requests, Retry(r) PROVE Pooled'
<1>0. client[r] \in Clients
  BY DEF Pooled, Shapes
<1> PICK c \in Clients : c = client[r]
  BY <1>0
<1>1. /\ Shapes /\ At(c) /\ stage[r] = "rejected" /\ attempt[r] = 1
      /\ stage' = [AfterRecycle(c) EXCEPT ![r] = "waiting"]
      /\ queue' = [queue EXCEPT ![c] = <<r>>]
      /\ conn' = [conn EXCEPT ![c] = "connecting"]
      /\ served' = [served EXCEPT ![c] = 0]
      /\ \E l \in Limits : limit' = [limit EXCEPT ![c] = l]
      /\ attempt' = [attempt EXCEPT ![r] = 2] /\ admitted' = admitted - 1
      /\ client' = client /\ next' = next
  BY DEF Retry, Pooled
<1>2. /\ AfterRecycle(c) \in [Requests -> Stages]
      /\ \A q \in Requests : AfterRecycle(c)[q] =
            IF Mine(q, c, "sent") THEN "rejected"
            ELSE IF Mine(q, c, "waiting")
            THEN IF conn[c] # "connecting" THEN "rejected" ELSE "orphan"
            ELSE stage[q]
  BY <1>1, RecycledAlive
<1>3. \A q \in Requests : stage'[q] = IF q = r THEN "waiting" ELSE AfterRecycle(c)[q]
  BY <1>1, <1>2
<1>4. stage' \in [Requests -> Stages]
  BY <1>1, <1>2 DEF Stages
<1>5. <<r>> \in Seq(Requests) /\ Len(<<r>>) = 1 /\ <<r>>[1] = r
  OBVIOUS
<1>6. limit' \in [Clients -> Limits] /\ \A d \in Clients \ {c} : limit'[d] = limit[d]
  BY <1>1 DEF Shapes
<1>7. Shapes'
  BY <1>1, <1>4, <1>5, <1>6, Sizes DEF Shapes, ConnStates
<1>8. \A d \in Clients \ {c} : At(d)'
  <2> SUFFICES ASSUME NEW d \in Clients \ {c} PROVE Same(d)
    BY SameAt DEF Pooled
  <2>1. conn'[d] = conn[d] /\ queue'[d] = queue[d] /\ served'[d] = served[d] /\ limit'[d] = limit[d]
    BY <1>1, <1>6 DEF Shapes
  <2> QED  BY <1>1, <1>2, <1>3, <2>1 DEF Same, Mine
<1>9. At(c)'
  <2>1. \A q \in Requests : ~ Mine(q, c, "sent")' /\ (Mine(q, c, "waiting")' <=> q = r)
    BY <1>1, <1>2, <1>3 DEF Mine
  <2>2. InFlight(c)' = {}
    BY <2>1 DEF InFlight, Mine
  <2>3. queue'[c] = <<r>> /\ conn'[c] = "connecting" /\ served'[c] = 0
    BY <1>1 DEF Shapes
  <2>4. \A q \in Requests : q \in Queued(c)' <=> Mine(q, c, "waiting")'
    <3>1. Queued(c)' = {r}
      BY <1>5, <2>3 DEF Queued
    <3> QED  BY <2>1, <3>1
  <2>5. served'[c] < limit'[c]
    BY <1>7, <2>3, Sizes DEF Shapes, Limits
  <2>6. Once(queue'[c])
    BY <1>5, <2>3 DEF Once
  <2> QED  BY <2>2, <2>3, <2>4, <2>5, <2>6, BareAt
<1>10. Rested' /\ admitted' = Cardinality(Firsts') /\ admitted' <= MaxAdmitted
  <2>1. \A q \in Requests : stage'[q] = "idle" <=> stage[q] = "idle"
    BY <1>1, <1>2, <1>3 DEF Mine
  <2>2. Firsts' = Firsts \ {r} /\ r \in Firsts
    BY <1>1, <2>1 DEF Firsts, Shapes
  <2>3. Cardinality({r}) = 1
    BY FS_Singleton
  <2>4. admitted' = Cardinality(Firsts') /\ admitted' <= MaxAdmitted
    <3>1. admitted' = admitted - Cardinality({r}) /\ {r} \in SUBSET Firsts
      BY <1>1, <2>2, <2>3
    <3> QED  BY <2>2, <3>1, SomeOver
  <2>5. Rested'
    BY <1>1, <2>1 DEF Rested, Pooled, Shapes
  <2> QED  BY <2>4, <2>5
<1>11. \A d \in Clients : At(d)'
  BY <1>8, <1>9
<1> QED  BY <1>7, <1>10, <1>11 DEF Pooled

LEMMA GiveUpKeeps == ASSUME Pooled, NEW r \in Requests, GiveUp(r) PROVE Pooled'
<1>1. /\ stage[r] = "rejected" /\ stage' = [stage EXCEPT ![r] = "idle"] /\ Over({r})
      /\ UNCHANGED <<conn, queue, served, limit, next>> /\ Shapes
  BY DEF GiveUp, Pooled
<1>2. \A q \in Requests : stage'[q] = IF q = r THEN "idle" ELSE stage[q]
  BY <1>1 DEF Shapes
<1>3. /\ client' \in [Requests -> Clients] /\ attempt' \in [Requests -> {1, 2}]
      /\ Rested' /\ admitted' = Cardinality(Firsts') /\ admitted' <= MaxAdmitted
  BY <1>1, <1>2, OverIs
<1>4. stage' \in [Requests -> Stages]
  BY <1>1 DEF Shapes, Stages
<1>5. \A q \in Requests : q # r => client'[q] = client[q]
  BY <1>1 DEF Over
<1>6. \A d \in Clients : Same(d)
  BY <1>1, <1>2, <1>5 DEF Same, Mine
<1> QED  BY <1>1, <1>3, <1>4, <1>6, SameAt DEF Pooled, Shapes

LEMMA ConnectedKeeps == ASSUME Pooled, NEW c \in Clients, Connected(c) PROVE Pooled'
<1>1. /\ conn[c] = "connecting" /\ conn' = [conn EXCEPT ![c] = "handshake"] /\ Shapes /\ At(c)
      /\ UNCHANGED <<queue, served, limit, stage, client, attempt, admitted, next>>
  BY DEF Connected, Pooled
<1>2. \A d \in Clients \ {c} : At(d)'
  <2> SUFFICES ASSUME NEW d \in Clients \ {c} PROVE Same(d)
    BY SameAt DEF Pooled
  <2> QED  BY <1>1 DEF Same, Mine, Shapes
<1>3. conn'[c] = "handshake"
  BY <1>1 DEF Shapes
<1>4. InFlight(c)' = {} /\ Queued(c)' = Queued(c)
  BY <1>1 DEF InFlight, Queued, At
<1>5. At(c)'
  BY <1>1, <1>3, <1>4, BareAt DEF At, Mine, Once
<1>6. Shapes'
  BY <1>1 DEF Shapes, ConnStates
<1> QED  BY <1>1, <1>2, <1>5, <1>6, NoneBegins DEF Pooled

LEMMA HandshakenKeeps == ASSUME Pooled, NEW c \in Clients, Handshaken(c) PROVE Pooled'
<1>1. /\ conn[c] = "handshake" /\ conn' = [conn EXCEPT ![c] = "open"]
      /\ SendFirst(c, Room(c, {}), stage) /\ Shapes /\ At(c)
      /\ UNCHANGED <<limit, client, attempt, admitted, next>>
  BY DEF Handshaken, Pooled
<1>2. /\ stage \in [Requests -> Stages] /\ client' \in [Requests -> Clients] /\ Once(queue[c])
      /\ \A q \in Requests : client'[q] = client[q]
      /\ \A q \in Requests : q \in Queued(c) <=> stage[q] = "waiting" /\ client[q] = c
      /\ \A q \in Requests : q \in {} <=> stage[q] = "sent" /\ client[q] = c
  BY <1>1 DEF Shapes, At, Mine, InFlight
<1>3. Cardinality({}) <= MaxInFlight
  BY Nobody
<1>4. /\ stage' \in [Requests -> Stages] /\ queue' \in [Clients -> Seq(Requests)]
      /\ served' \in [Clients -> 0 .. RecycleAfter + Spread]
      /\ \A q \in Requests : q \in Queued(c)' <=> Mine(q, c, "waiting")'
      /\ Once(queue'[c])
      /\ Cardinality(InFlight(c)') <= MaxInFlight
      /\ queue'[c] # <<>> => Cardinality(InFlight(c)') = MaxInFlight
      /\ \A d \in Clients \ {c} :
            /\ queue'[d] = queue[d] /\ served'[d] = served[d]
            /\ \A q \in Requests, s \in {"sent", "waiting"} :
                  Mine(q, d, s)' <=> stage[q] = s /\ client[q] = d
      /\ \A q \in Requests : (stage'[q] = "idle" <=> stage[q] = "idle")
  BY <1>1, <1>2, <1>3, Sending
<1>5. conn' \in [Clients -> ConnStates] /\ conn'[c] = "open" /\ \A d \in Clients \ {c} : conn'[d] = conn[d]
  BY <1>1 DEF Shapes, ConnStates
<1>6. At(c)'
  BY <1>4, <1>5 DEF At
<1>7. \A d \in Clients \ {c} : At(d)'
  <2> SUFFICES ASSUME NEW d \in Clients \ {c} PROVE Same(d)
    BY SameAt DEF Pooled
  <2> QED  BY <1>1, <1>4, <1>5 DEF Same, Mine
<1>8. \A d \in Clients : At(d)'
  BY <1>6, <1>7
<1>9. Shapes'
  BY <1>1, <1>4, <1>5 DEF Shapes
<1> QED  BY <1>1, <1>4, <1>8, <1>9, NoneBegins DEF Pooled

(* A client loses everyone in line, in flight, or both, and the rest is    *)
(* for the caller to say: `gone` leave for the stage `to`.                 *)
LEMMA Emptied ==
    ASSUME Pooled, NEW c \in Clients, NEW gone \in SUBSET Requests, NEW to \in {"idle", "rejected"},
           \A q \in Requests : stage'[q] = IF q \in gone THEN to ELSE stage[q],
           \A q \in gone : client[q] = c,
           \A q \in Requests \ gone : client'[q] = client[q],
           InFlight(c) \union Queued(c) \subseteq gone,
           NEW now \in ConnStates \ {"connecting", "open"}, conn' = [conn EXCEPT ![c] = now],
           queue' = [queue EXCEPT ![c] = <<>>], UNCHANGED <<served, limit>>
    PROVE  \A d \in Clients : At(d)'
<1>1. /\ conn \in [Clients -> ConnStates] /\ queue \in [Clients -> Seq(Requests)]
      /\ \A q \in Requests : q \in Queued(c) <=> Mine(q, c, "waiting")
  BY DEF Pooled, Shapes, At
<1>2. conn'[c] = now /\ queue'[c] = <<>> /\ \A d \in Clients \ {c} : conn'[d] = conn[d] /\ queue'[d] = queue[d]
  BY <1>1
<1>3. \A d \in Clients \ {c} : At(d)'
  <2> SUFFICES ASSUME NEW d \in Clients \ {c} PROVE Same(d)
    BY SameAt DEF Pooled
  <2>1. \A q \in Requests, s \in {"sent", "waiting"} : Mine(q, d, s)' <=> Mine(q, d, s)
    BY DEF Mine
  <2> QED  BY <1>2, <2>1 DEF Same
<1>4. \A q \in Requests, s \in {"sent", "waiting"} : ~ Mine(q, c, s)'
  BY <1>1 DEF InFlight, Mine
<1>5. InFlight(c)' = {}
  BY <1>4 DEF InFlight, Mine
<1>6. Queued(c)' = {} /\ Once(queue'[c])
  <2>1. Len(<<>>) = 0 /\ 1 .. 0 = {}
    OBVIOUS
  <2> QED  BY <1>2, <2>1 DEF Queued, Once
<1>7. At(c)'
  BY <1>2, <1>4, <1>5, <1>6, BareAt
<1> QED  BY <1>3, <1>7

LEMMA RefusedKeeps == ASSUME Pooled, NEW c \in Clients, HandshakeRefused(c) PROVE Pooled'
<1>1. /\ conn[c] = "handshake" /\ conn' = [conn EXCEPT ![c] = "refused"]
      /\ stage' = [q \in Requests |-> IF q \in Queued(c) THEN "idle" ELSE stage[q]]
      /\ queue' = [queue EXCEPT ![c] = <<>>]
      /\ Over(Queued(c)) /\ UNCHANGED <<served, limit, next>> /\ Shapes /\ At(c)
  BY DEF HandshakeRefused, Pooled
<1>2. \A q \in Requests : stage'[q] = IF q \in Queued(c) THEN "idle" ELSE stage[q]
  BY <1>1
<1>3. /\ Queued(c) \in SUBSET Requests
      /\ \A q \in Queued(c) : client[q] = c /\ stage[q] = "waiting"
  BY <1>1, QueuedAre DEF At, Mine
<1>4. /\ client' \in [Requests -> Clients] /\ attempt' \in [Requests -> {1, 2}]
      /\ Rested' /\ admitted' = Cardinality(Firsts') /\ admitted' <= MaxAdmitted
  BY <1>1, <1>2, <1>3, OverIs
<1>5. \A q \in Requests \ Queued(c) : client'[q] = client[q]
  BY <1>1 DEF Over
<1>6. InFlight(c) \union Queued(c) \subseteq Queued(c)
  BY <1>1 DEF At
<1>7. \A d \in Clients : At(d)'
  <2>1. "refused" \in ConnStates \ {"connecting", "open"}
    BY DEF ConnStates
  <2> QED  BY <1>1, <1>2, <1>3, <1>5, <1>6, <2>1, Emptied
<1>8. Shapes'
  <2>1. <<>> \in Seq(Requests)
    OBVIOUS
  <2> QED  BY <1>1, <1>4, <2>1 DEF Shapes, Stages, ConnStates
<1> QED  BY <1>4, <1>7, <1>8 DEF Pooled

LEMMA HandshakeTimeoutKeeps == ASSUME Pooled, NEW c \in Clients, HandshakeTimeout(c) PROVE Pooled'
<1>1. /\ conn[c] = "handshake" /\ conn' = [conn EXCEPT ![c] = "broken"]
      /\ stage' = [q \in Requests |-> IF q \in Queued(c) THEN "rejected" ELSE stage[q]]
      /\ queue' = [queue EXCEPT ![c] = <<>>]
      /\ UNCHANGED <<served, limit, client, attempt, admitted, next>> /\ Shapes /\ At(c)
  BY DEF HandshakeTimeout, Pooled
<1>2. \A q \in Requests : stage'[q] = IF q \in Queued(c) THEN "rejected" ELSE stage[q]
  BY <1>1
<1>3. /\ Queued(c) \in SUBSET Requests
      /\ \A q \in Queued(c) : client[q] = c /\ stage[q] = "waiting"
  BY <1>1, QueuedAre DEF At, Mine
<1>4. InFlight(c) \union Queued(c) \subseteq Queued(c)
  BY <1>1 DEF At
<1>5. \A d \in Clients : At(d)'
  <2>1. "broken" \in ConnStates \ {"connecting", "open"}
    BY DEF ConnStates
  <2> QED  BY <1>1, <1>2, <1>3, <1>4, <2>1, Emptied
<1>6. Shapes'
  <2>1. <<>> \in Seq(Requests)
    OBVIOUS
  <2> QED  BY <1>1, <2>1 DEF Shapes, Stages, ConnStates
<1> QED  BY <1>1, <1>2, <1>3, <1>5, <1>6, NoneBegins DEF Pooled

LEMMA DropKeeps == ASSUME Pooled, NEW c \in Clients, Drop(c) PROVE Pooled'
<1> DEFINE gone == InFlight(c) \union Queued(c)
<1>1. /\ conn' = [conn EXCEPT ![c] = "none"]
      /\ stage' = [q \in Requests |-> IF q \in gone THEN "rejected" ELSE stage[q]]
      /\ queue' = [queue EXCEPT ![c] = <<>>]
      /\ UNCHANGED <<served, limit, client, attempt, admitted, next>> /\ Shapes /\ At(c)
  BY DEF Drop, Pooled
<1>3. /\ gone \in SUBSET Requests
      /\ \A q \in gone : client[q] = c /\ stage[q] \in {"sent", "waiting"}
  BY <1>1, QueuedAre DEF At, Mine, InFlight
<1>4. InFlight(c) \union Queued(c) \subseteq gone
  OBVIOUS
<1> HIDE DEF gone
<1>2. \A q \in Requests : stage'[q] = IF q \in gone THEN "rejected" ELSE stage[q]
  BY <1>1
<1>5. \A d \in Clients : At(d)'
  <2>1. "none" \in ConnStates \ {"connecting", "open"}
    BY DEF ConnStates
  <2> QED  BY <1>1, <1>2, <1>3, <1>4, <2>1, Emptied
<1>6. Shapes'
  <2>1. <<>> \in Seq(Requests)
    OBVIOUS
  <2> QED  BY <1>1, <2>1 DEF Shapes, Stages, ConnStates
<1> QED  BY <1>1, <1>2, <1>3, <1>5, <1>6, NoneBegins DEF Pooled

LEMMA OverflowKeeps == ASSUME Pooled, NEW c \in Clients, Overflow(c) PROVE Pooled'
<1>1. /\ UNCHANGED <<served, limit, client, attempt, admitted, next>> /\ Shapes /\ At(c)
      /\ \/ /\ conn[c] = "handshake" /\ conn' = [conn EXCEPT ![c] = "broken"]
            /\ stage' = [q \in Requests |-> IF q \in Queued(c) THEN "rejected" ELSE stage[q]]
            /\ queue' = [queue EXCEPT ![c] = <<>>]
         \/ /\ conn[c] = "open" /\ conn' = [conn EXCEPT ![c] = "dying"]
            /\ stage' = [q \in Requests |-> IF q \in InFlight(c) THEN "rejected" ELSE stage[q]]
            /\ queue' = [queue EXCEPT ![c] = queue[c]]
  BY DEF Overflow, Pooled
<1>2. /\ Queued(c) \in SUBSET Requests /\ InFlight(c) \in SUBSET Requests
      /\ \A q \in Queued(c) : client[q] = c /\ stage[q] = "waiting"
      /\ \A q \in InFlight(c) : client[q] = c /\ stage[q] = "sent"
  BY <1>1, QueuedAre DEF At, Mine, InFlight
<1>3. CASE conn[c] = "handshake"
  <2>1. /\ conn' = [conn EXCEPT ![c] = "broken"] /\ queue' = [queue EXCEPT ![c] = <<>>]
        /\ stage' = [q \in Requests |-> IF q \in Queued(c) THEN "rejected" ELSE stage[q]]
    BY <1>1, <1>3
  <2>2. \A q \in Requests : stage'[q] = IF q \in Queued(c) THEN "rejected" ELSE stage[q]
    BY <2>1
  <2>3. InFlight(c) \union Queued(c) \subseteq Queued(c)
    BY <1>1, <1>3 DEF At
  <2>4. \A d \in Clients : At(d)'
    <3>1. "broken" \in ConnStates \ {"connecting", "open"}
      BY DEF ConnStates
    <3> QED  BY <1>1, <1>2, <2>1, <2>2, <2>3, <3>1, Emptied
  <2>5. Shapes'
    <3>1. <<>> \in Seq(Requests)
      OBVIOUS
    <3> QED  BY <1>1, <2>1, <3>1 DEF Shapes, Stages, ConnStates
  <2> QED  BY <1>1, <1>2, <2>2, <2>4, <2>5, NoneBegins DEF Pooled
<1>4. CASE conn[c] = "open"
  <2>1. /\ conn' = [conn EXCEPT ![c] = "dying"] /\ queue' = queue
        /\ stage' = [q \in Requests |-> IF q \in InFlight(c) THEN "rejected" ELSE stage[q]]
    BY <1>1, <1>4 DEF Shapes
  <2>2. \A q \in Requests : stage'[q] = IF q \in InFlight(c) THEN "rejected" ELSE stage[q]
    BY <2>1
  <2>3. conn'[c] = "dying" /\ \A d \in Clients \ {c} : conn'[d] = conn[d]
    BY <1>1, <2>1 DEF Shapes
  <2>4. \A d \in Clients \ {c} : At(d)'
    <3> SUFFICES ASSUME NEW d \in Clients \ {c} PROVE Same(d)
      BY SameAt DEF Pooled
    <3>1. \A q \in Requests, s \in {"sent", "waiting"} : Mine(q, d, s)' <=> Mine(q, d, s)
      BY <1>1, <1>2, <2>2 DEF Mine
    <3> QED  BY <1>1, <2>1, <2>3, <3>1 DEF Same
  <2>5. At(c)'
    <3>1. \A q \in Requests : ~ Mine(q, c, "sent")' /\ (Mine(q, c, "waiting")' <=> Mine(q, c, "waiting"))
      BY <1>1, <1>2, <2>2 DEF Mine, InFlight
    <3>2. InFlight(c)' = {}
      BY <3>1 DEF InFlight, Mine
    <3>3. \A q \in Requests : q \in Queued(c)' <=> Mine(q, c, "waiting")'
      <4>1. Queued(c)' = Queued(c)
        BY <2>1 DEF Queued
      <4> QED  BY <1>1, <3>1, <4>1 DEF At
    <3>4. Once(queue'[c])
      BY <1>1, <2>1 DEF At, Once
    <3> QED  BY <2>3, <3>2, <3>3, <3>4, BareAt
  <2>6. \A d \in Clients : At(d)'
    BY <2>4, <2>5
  <2>7. Shapes'
    BY <1>1, <2>1 DEF Shapes, Stages, ConnStates
  <2> QED  BY <1>1, <1>2, <2>2, <2>6, <2>7, NoneBegins DEF Pooled
<1> QED  BY <1>1, <1>3, <1>4

(* A request leaves the wire of its client for the stage `to`, and the     *)
(* FIFO moves up.                                                          *)
LEMMA SettledIs ==
    ASSUME Pooled, NEW r \in Requests, stage[r] = "sent", NEW to \in {"idle", "rejected"},
           Settled(r, to), UNCHANGED <<conn, limit, next>>,
           client' \in [Requests -> Clients], attempt' \in [Requests -> {1, 2}],
           \A q \in Requests \ {r} : client'[q] = client[q]
    PROVE  /\ Shapes' /\ \A d \in Clients : At(d)'
           /\ stage'[r] = to
           /\ \A q \in Requests \ {r} : stage'[q] = "idle" <=> stage[q] = "idle"
<1>0. client[r] \in Clients
  BY DEF Pooled, Shapes
<1> PICK c \in Clients : c = client[r]
  BY <1>0
<1> DEFINE busy == InFlight(c) \ {r}
           others == [stage EXCEPT ![r] = to]
<1>1. /\ SendFirst(c, Room(c, busy), others) /\ Shapes /\ At(c)
  BY DEF Settled, Pooled
<1>2. \A q \in Requests : others[q] = IF q = r THEN to ELSE stage[q]
  BY <1>1 DEF Shapes
<1>3. others \in [Requests -> Stages]
  BY <1>1 DEF Shapes, Stages
<1>4. /\ busy \subseteq Requests
      /\ \A q \in Requests : q \in busy <=> others[q] = "sent" /\ client[q] = c
      /\ \A q \in Requests : q \in Queued(c) <=> others[q] = "waiting" /\ client[q] = c
      /\ \A q \in Requests : client'[q] = client[q] \/ others[q] \notin {"sent", "waiting"}
  BY <1>1, <1>2 DEF InFlight, At, Mine
<1>5. Cardinality(busy) <= MaxInFlight /\ conn[c] \in {"open", "dying"}
  <2>1. r \in InFlight(c)
    BY DEF InFlight
  <2>2. Cardinality(InFlight(c) \ {r}) = Cardinality(InFlight(c)) - 1
    BY <2>1, Finite, FS_RemoveElement
  <2> QED  BY <1>1, <2>1, <2>2, Finite, Sizes DEF At
<1>6. Once(queue[c])
  BY <1>1 DEF At
<1> HIDE DEF busy, others
<1>7. /\ stage' \in [Requests -> Stages] /\ queue' \in [Clients -> Seq(Requests)]
      /\ served' \in [Clients -> 0 .. RecycleAfter + Spread]
      /\ \A q \in Requests : q \in Queued(c)' <=> Mine(q, c, "waiting")'
      /\ Once(queue'[c])
      /\ Cardinality(InFlight(c)') <= MaxInFlight
      /\ queue'[c] # <<>> => Cardinality(InFlight(c)') = MaxInFlight
      /\ \A d \in Clients \ {c} :
            /\ queue'[d] = queue[d] /\ served'[d] = served[d]
            /\ \A q \in Requests, s \in {"sent", "waiting"} :
                  Mine(q, d, s)' <=> others[q] = s /\ client[q] = d
      /\ \A q \in Requests : (stage'[q] = "idle" <=> others[q] = "idle")
  BY SMTT(30), <1>1, <1>3, <1>4, <1>5, <1>6, Sending
<1>8. At(c)'
  BY <1>5, <1>7 DEF At
<1>9. \A d \in Clients \ {c} : At(d)'
  <2> SUFFICES ASSUME NEW d \in Clients \ {c} PROVE Same(d)
    BY SameAt DEF Pooled
  <2>1. \A q \in Requests, s \in {"sent", "waiting"} : Mine(q, d, s)' <=> Mine(q, d, s)
    <3> SUFFICES ASSUME NEW q \in Requests, NEW s \in {"sent", "waiting"}
                 PROVE  Mine(q, d, s)' <=> Mine(q, d, s)
      OBVIOUS
    <3>1. Mine(q, d, s)' <=> others[q] = s /\ client[q] = d
      BY <1>7
    <3>2. CASE q = r
      BY <1>2, <3>1, <3>2 DEF Mine
    <3>3. CASE q # r
      BY <1>2, <3>1, <3>3 DEF Mine
    <3> QED  BY <3>2, <3>3
  <2>2. queue'[d] = queue[d] /\ served'[d] = served[d] /\ conn' = conn /\ limit' = limit
    BY <1>7
  <2> QED  BY <2>1, <2>2 DEF Same
<1>10. Shapes'
  BY <1>1, <1>7 DEF Shapes
<1>11. stage'[r] = to
  <2>1. r \notin Queued(c)
    BY <1>2, <1>4
  <2>2. Cardinality(busy) \in Nat
    BY <1>4, Sizes, FS_Subset, FS_CardinalityType
  <2>3. Room(c, busy) \in 0 .. Len(queue[c]) /\ Len(queue[c]) \in Nat
    BY <1>1, <2>2, RoomIs, LenProperties DEF Shapes
  <2>4. \A i \in 1 .. Room(c, busy) : queue[c][i] # r
    BY <2>1, <2>3 DEF Queued
  <2>5. stage' = [q \in Requests |-> IF q \in {queue[c][i] : i \in 1 .. Room(c, busy)} THEN "sent" ELSE others[q]]
    BY <1>1 DEF SendFirst
  <2> QED  BY <1>2, <2>4, <2>5
<1> QED  BY ZenonT(40), <1>2, <1>7, <1>8, <1>9, <1>10, <1>11

LEMMA AnswerKeeps == ASSUME Pooled, NEW r \in Requests, Answer(r) PROVE Pooled'
<1>1. /\ stage[r] = "sent" /\ Settled(r, "idle") /\ Over({r}) /\ UNCHANGED <<conn, limit, next>>
      /\ Shapes /\ 0 \in Clients
  BY Sizes DEF Answer, Pooled, Clients
<1>2. /\ client' \in [Requests -> Clients] /\ attempt' \in [Requests -> {1, 2}]
      /\ \A q \in Requests \ {r} : client'[q] = client[q]
  BY <1>1 DEF Over, Shapes
<1>3. /\ Shapes' /\ \A d \in Clients : At(d)'
      /\ stage'[r] = "idle"
      /\ \A q \in Requests \ {r} : stage'[q] = "idle" <=> stage[q] = "idle"
  BY <1>1, <1>2, SettledIs
<1>4. Rested' /\ admitted' = Cardinality(Firsts') /\ admitted' <= MaxAdmitted
  BY <1>1, <1>3, OverIs
<1> QED  BY <1>3, <1>4 DEF Pooled

LEMMA TimeoutKeeps == ASSUME Pooled, NEW r \in Requests, Timeout(r) PROVE Pooled'
<1>1. /\ stage[r] = "sent" /\ Settled(r, "rejected") /\ UNCHANGED <<conn, limit, client, attempt, admitted, next>>
      /\ Shapes
  BY DEF Timeout, Pooled
<1>2. /\ client' \in [Requests -> Clients] /\ attempt' \in [Requests -> {1, 2}]
      /\ \A q \in Requests \ {r} : client'[q] = client[q]
  BY <1>1 DEF Shapes
<1>3. /\ Shapes' /\ \A d \in Clients : At(d)'
      /\ stage'[r] = "rejected"
      /\ \A q \in Requests \ {r} : stage'[q] = "idle" <=> stage[q] = "idle"
  BY <1>1, <1>2, SettledIs
<1> QED  BY <1>1, <1>3, NoneBegins DEF Pooled

-----------------------------------------------------------------------------
(* The theorems.                                                           *)

LEMMA PooledInitially == Init => Pooled
<1> SUFFICES ASSUME Init PROVE Pooled
  OBVIOUS
<1>1. Shapes
  <2>1. <<>> \in Seq(Requests) /\ 0 \in Clients
    BY Sizes DEF Clients
  <2> QED  BY <2>1, Sizes DEF Init, Shapes, ConnStates, Stages
<1>2. \A c \in Clients : At(c)
  <2> SUFFICES ASSUME NEW c \in Clients PROVE At(c)
    OBVIOUS
  <2>1. queue[c] = <<>> /\ conn[c] = "none" /\ InFlight(c) = {}
    BY DEF Init, InFlight
  <2>2. Queued(c) = {} /\ Once(queue[c])
    BY <2>1, EmptyLine
  <2>3. \A q \in Requests : ~ Mine(q, c, "waiting")
    BY DEF Init, Mine
  <2>4. Cardinality(InFlight(c)) <= MaxInFlight
    BY <2>1, Nobody
  <2> QED  BY <2>1, <2>2, <2>3, <2>4 DEF At
<1>3. Rested /\ Firsts = {}
  BY DEF Init, Rested, Firsts
<1>4. admitted = Cardinality(Firsts) /\ admitted <= MaxAdmitted
  BY <1>3, Nobody, Sizes DEF Init
<1> QED  BY <1>1, <1>2, <1>3, <1>4 DEF Pooled

LEMMA PooledStill == Pooled /\ UNCHANGED vars => Pooled'
<1> SUFFICES ASSUME Pooled, UNCHANGED vars PROVE Pooled'
  OBVIOUS
<1>1. \A d \in Clients : Same(d)
  BY DEF vars, Same, Mine
<1>2. \A d \in Clients : At(d)'
  BY <1>1, SameAt DEF Pooled
<1>3. Shapes' /\ UNCHANGED <<attempt, admitted>> /\ stage' = stage
  BY DEF Pooled, Shapes, vars
<1> QED  BY <1>2, <1>3, NoneBegins DEF Pooled

LEMMA PooledAlways == Spec => []Pooled
<1>1. Pooled /\ Next => Pooled'
  BY ArriveKeeps, RetriedKeeps, GiveUpKeeps, AnswerKeeps, TimeoutKeeps, ConnectedKeeps,
     HandshakenKeeps, RefusedKeeps, HandshakeTimeoutKeeps, DropKeeps, OverflowKeeps DEF Next
<1> QED  BY PooledInitially, PooledStill, <1>1, PTL DEF Spec

(* Type correctness: the pool's numbers stay in range, the admission count *)
(* included, and a FIFO holds requests only.                               *)
THEOREM PoolTypeCorrect == Spec => []TypeOK
<1>1. Pooled => TypeOK
  BY Finite, Sizes DEF Pooled, Shapes, TypeOK
<1> QED  BY PooledAlways, <1>1, PTL

(* For any ceiling and any number of callers: no session has more on the   *)
(* wire than the ceiling, and none waits on a live one beside a free slot. *)
THEOREM CeilingAndFIFO == Spec => []NoSleepBesideSlot
<1>1. Pooled => NoSleepBesideSlot
  BY DEF Pooled, At, NoSleepBesideSlot
<1> QED  BY PooledAlways, <1>1, PTL

(* pool.admitted is the number of first attempts under way, whatever fails *)
(* and whatever is retried: the admission neither leaks nor runs negative. *)
THEOREM AdmissionExact == Spec => []AdmissionCounts
<1>1. Pooled => AdmissionCounts
  BY DEF Pooled, Firsts, AdmissionCounts
<1> QED  BY PooledAlways, <1>1, PTL

(* Both together: what run indexer checks of the ceilings on its instance. *)
THEOREM CeilingsExact == Spec => []CeilingsHold
<1>1. NoSleepBesideSlot /\ AdmissionCounts => CeilingsHold
  BY DEF CeilingsHold
<1> QED  BY CeilingAndFIFO, AdmissionExact, <1>1, PTL

(* Every waiting request stands in its own client's FIFO, exactly once.    *)
THEOREM QueuesAreExact == Spec => []QueuesAreOurs
<1>1. ASSUME Pooled PROVE QueuesAreOurs
  <2> SUFFICES ASSUME NEW c \in Clients
               PROVE  /\ Queued(c) = {r \in Requests : stage[r] = "waiting" /\ client[r] = c}
                      /\ Len(queue[c]) = Cardinality(Queued(c))
    BY DEF QueuesAreOurs
  <2>1. queue[c] \in Seq(Requests) /\ Once(queue[c]) /\ Queued(c) \subseteq Requests /\ Len(queue[c]) \in Nat
    BY <1>1, QueuedAre, LenProperties DEF Pooled, Shapes, At
  <2>2. Cardinality({queue[c][i] : i \in 1 .. Len(queue[c])}) = Len(queue[c])
    <3>1. Len(queue[c]) \in 0 .. Len(queue[c])
      BY <2>1
    <3> QED  BY <2>1, <3>1, FirstInLine
  <2> QED  BY <1>1, <2>1, <2>2 DEF Pooled, At, Mine, Queued
<1> QED  BY PooledAlways, <1>1, PTL

(* A call is orphaned only by another call's retry, and only while its     *)
(* client is connecting: recycling at selection never does, because a      *)
(* session that is still connecting has not served its share.              *)
THEOREM LostByRetryOnly == Spec => LostOnlyByRetry
<1>1. ASSUME Pooled, [Next]_vars, NEW q \in Requests, stage[q] # "orphan", stage'[q] = "orphan"
      PROVE  /\ conn[client[q]] = "connecting"
             /\ \E r \in Requests \ {q} : client[r] = client[q] /\ Retry(r)
  <2>0. stage \in [Requests -> Stages] /\ client \in [Requests -> Clients] /\ next \in Clients
    BY <1>1 DEF Pooled, Shapes
  <2>1. \A c \in Clients : \A j \in Requests : j \in Queued(c) <=> Mine(j, c, "waiting")
    BY <1>1 DEF Pooled, At
  <2>2. ASSUME NEW r \in Requests, Retry(r)
        PROVE  conn[client[q]] = "connecting" /\ r # q /\ client[r] = client[q]
    <3>0. client[r] \in Clients
      BY <2>0
    <3> PICK c \in Clients : c = client[r]
      BY <3>0
    <3>1. /\ AfterRecycle(c) \in [Requests -> Stages]
          /\ \A j \in Requests : AfterRecycle(c)[j] =
                IF Mine(j, c, "sent") THEN "rejected"
                ELSE IF Mine(j, c, "waiting")
                THEN IF conn[c] # "connecting" THEN "rejected" ELSE "orphan"
                ELSE stage[j]
      BY <1>1, RecycledAlive DEF Pooled
    <3>2. stage' = [AfterRecycle(c) EXCEPT ![r] = "waiting"]
      BY <2>2 DEF Retry
    <3>3. q # r /\ AfterRecycle(c)[q] = "orphan"
      BY <1>1, <3>1, <3>2
    <3>4. Mine(q, c, "waiting") /\ conn[c] = "connecting"
      BY <1>1, <3>1, <3>3
    <3> QED  BY <3>3, <3>4 DEF Mine
  <2>3. ASSUME NEW r \in Requests, Arrive(r) PROVE FALSE
    <3>1. CASE Spent(next)
      <4>1. \A j \in Requests : AfterRecycle(next)[j] = IF j \in Queued(next) THEN "rejected" ELSE stage[j]
        BY <1>1, <2>0, <3>1, RecycledSpent
      <4>2. /\ AfterRecycle(next) \in [Requests -> Stages]
            /\ \/ stage' = stage
               \/ \E to \in {"rejected", "sent", "waiting"} : stage' = [AfterRecycle(next) EXCEPT ![r] = to]
        BY <1>1, <2>0, <2>3, <3>1, RecycledSpent DEF Arrive
      <4> QED  BY <1>1, <4>1, <4>2
    <3>2. CASE ~ Spent(next)
      <4>1. \/ stage' = stage
            \/ \E to \in {"rejected", "sent", "waiting"} : stage' = [stage EXCEPT ![r] = to]
        BY <2>3, <3>2 DEF Arrive
      <4> QED  BY <1>1, <2>0, <4>1
    <3> QED  BY <3>1, <3>2
  <2>4. \A r \in Requests : ~ GiveUp(r)
    BY <1>1, <2>0 DEF GiveUp
  <2>5. ASSUME NEW r \in Requests, NEW to \in {"idle", "rejected"}, Settled(r, to) PROVE FALSE
    <3> DEFINE k == Room(client[r], InFlight(client[r]) \ {r})
               going == {queue[client[r]][i] : i \in 1 .. k}
               others == [stage EXCEPT ![r] = to]
    <3>1. stage' = [j \in Requests |-> IF j \in going THEN "sent" ELSE others[j]]
      BY <2>5 DEF Settled, SendFirst
    <3>2. others[q] # "orphan"
      BY <1>1, <2>0
    <3> HIDE DEF going, others
    <3> QED  BY <1>1, <3>1, <3>2
  <2>6. \A r \in Requests : ~ Answer(r) /\ ~ Timeout(r)
    BY <2>5 DEF Answer, Timeout
  <2>7. \A c \in Clients : ~ Connected(c) /\ ~ HandshakeRefused(c) /\ ~ HandshakeTimeout(c) /\ ~ Drop(c)
    BY <1>1 DEF Connected, HandshakeRefused, HandshakeTimeout, Drop
  <2>8. ASSUME NEW c \in Clients, Handshaken(c) PROVE FALSE
    <3>1. \E going : stage' = [j \in Requests |-> IF j \in going THEN "sent" ELSE stage[j]]
      BY <2>8 DEF Handshaken, SendFirst
    <3> QED  BY <1>1, <3>1
  <2>9. ASSUME NEW c \in Clients, Overflow(c) PROVE FALSE
    <3>1. \E hit : stage' = [j \in Requests |-> IF j \in hit THEN "rejected" ELSE stage[j]]
      BY <2>9 DEF Overflow
    <3> QED  BY <1>1, <3>1
  <2>10. ~ UNCHANGED vars
    BY <1>1 DEF vars
  <2> QED  BY <1>1, <2>2, <2>3, <2>4, <2>6, <2>7, <2>8, <2>9, <2>10 DEF Next
<1>2. Pooled /\ [Next]_vars =>
        [\A q \in Requests : stage[q] # "orphan" /\ stage'[q] = "orphan" =>
            /\ conn[client[q]] = "connecting"
            /\ \E r \in Requests \ {q} : client[r] = client[q] /\ Retry(r)]_vars
  BY <1>1
<1> QED  BY PooledAlways, <1>2, PTL DEF Spec, LostOnlyByRetry

-----------------------------------------------------------------------------
(* The scans: budgets and positions                                        *)

\* What the first n - 1 items of a history have among the open mints of the address.
FoundBefore(l, n) == {History[l][i] : i \in 1 .. n - 1} \cap Mints[l] \cap OpenMints

LaneInv(l) ==
    /\ lane[l].at \in {"item", "tx", "collateral"} =>
          /\ lane[l].item \in 1 .. Len(History[l]) + 1
          /\ lane[l].found = FoundBefore(l, lane[l].item)
    /\ lane[l].at \in {"tx", "collateral"} => lane[l].item <= Len(History[l])
    /\ lane[l].at = "collateral" => History[l][lane[l].item] \in Mints[l]
    /\ lane[l].at \in {"start", "history", "incomplete", "error"} => lane[l].item = 1 /\ lane[l].found = {}
    /\ lane[l].at = "complete" => lane[l].found = FoundBefore(l, Len(History[l]) + 1)

Overran(r) == upstream[r] > MaxUpstream \/ items[r] > MaxItems \/ late[r]

BudgetInv ==
    /\ upstream \in [Scans -> Nat] /\ items \in [Scans -> Nat]
    /\ DOMAIN tripped = Scans /\ DOMAIN late = Scans
    /\ \A r \in Scans : tripped[r] => Overran(r)

ScanInv ==
    /\ BudgetInv
    /\ DOMAIN lane = Lanes
    /\ \A l \in Lanes : LaneInv(l) /\ lane[l] \in [at : LaneStages, item : Nat, fetch : Fetches \union {NoFetch}, found : SUBSET Txs]
    /\ \A l \in Lanes : lane[l].at = "incomplete" => Overran(Owner[l])

LEMMA NewLaneType ==
    NewLane \in [at : LaneStages, item : Nat, fetch : Fetches \union {NoFetch}, found : SUBSET Txs]
    /\ NewLane.at = "start" /\ NewLane.item = 1 /\ NewLane.found = {}
    BY DEF NewLane, LaneStages

LEMMA FoundMore ==
    ASSUME NEW l \in Lanes, NEW n \in 1 .. Len(History[l])
    PROVE  /\ FoundBefore(l, 1) = {}
           /\ FoundBefore(l, n + 1) = FoundBefore(l, n) \union ({History[l][n]} \cap Mints[l] \cap OpenMints)
           /\ FoundBefore(l, n + 1) \subseteq Txs
           /\ n \in Nat /\ n + 1 \in 1 .. Len(History[l]) + 1
<1>1. Len(History[l]) \in Nat /\ n \in Nat /\ \A i \in 1 .. Len(History[l]) : History[l][i] \in Txs
    BY ScanAssumption
<1>2. 1 .. (n + 1) - 1 = (1 .. n - 1) \union {n} /\ 1 .. 1 - 1 = {}
    BY <1>1
<1>3. {History[l][i] : i \in 1 .. (n + 1) - 1} = {History[l][i] : i \in 1 .. n - 1} \union {History[l][n]}
    BY <1>2
<1>4. FoundBefore(l, 1) = {}
    BY <1>2 DEF FoundBefore
<1>5. FoundBefore(l, n + 1) \subseteq Txs
    BY ScanAssumption DEF FoundBefore
<1>6. FoundBefore(l, n + 1) = FoundBefore(l, n) \union ({History[l][n]} \cap Mints[l] \cap OpenMints)
    BY <1>3 DEF FoundBefore
<1> QED
    BY <1>1, <1>4, <1>5, <1>6

\* What a request has overrun it has overrun for good.
BudgetGrows ==
    /\ BudgetInv' /\ \A r \in Scans : Overran(r) => Overran(r)'

LEMMA BudgetDebits ==
    ASSUME BudgetInv, NEW r \in Scans, Debit(r), UNCHANGED late,
           items' = items \/ items' = [items EXCEPT ![r] = @ + 1]
    PROVE  BudgetGrows /\ (Stops(r) => Overran(r)')
<1>1. items' \in [Scans -> Nat] /\ \A q \in Scans : items'[q] >= items[q]
    BY DEF BudgetInv
<1>2. upstream' \in [Scans -> Nat] /\ \A q \in Scans : upstream'[q] >= upstream[q]
    BY DEF BudgetInv, Debit
<1>3. \A q \in Scans : Overran(q) => Overran(q)'
    BY <1>1, <1>2, ScanAssumption DEF BudgetInv, Overran
<1>4. Stops(r) => Overran(r)'
    <2>1. CASE tripped[r] \/ late[r]
        BY <2>1, <1>3 DEF BudgetInv, Overran
    <2>2. CASE ~(tripped[r] \/ late[r]) /\ upstream[r] + 1 > MaxUpstream
        BY <2>2 DEF BudgetInv, Debit, Overran
    <2> QED
        BY <2>1, <2>2 DEF Stops
<1>5. /\ DOMAIN tripped' = Scans /\ DOMAIN late' = Scans
      /\ \A q \in Scans : tripped'[q] => Overran(q)'
    BY <1>3, <1>4 DEF BudgetInv, Debit
<1> QED
    BY <1>1, <1>2, <1>3, <1>4, <1>5 DEF BudgetGrows, BudgetInv

LEMMA BudgetNotes ==
    ASSUME BudgetInv, NEW r \in Scans, Note(r), UNCHANGED <<late, upstream>>
    PROVE  BudgetGrows /\ (NoteStops(r) => Overran(r)')
<1>1. items' \in [Scans -> Nat] /\ \A q \in Scans : items'[q] >= items[q]
    BY DEF BudgetInv, Note
<1>2. \A q \in Scans : Overran(q) => Overran(q)'
    BY <1>1, ScanAssumption DEF BudgetInv, Overran
<1>3. NoteStops(r) => Overran(r)'
    <2>1. CASE tripped[r]
        BY <2>1, <1>2 DEF BudgetInv
    <2>2. CASE ~tripped[r] /\ items[r] + 1 > MaxItems
        BY <2>2 DEF BudgetInv, Note, Overran
    <2> QED
        BY <2>1, <2>2 DEF NoteStops
<1>4. /\ DOMAIN tripped' = Scans /\ DOMAIN late' = Scans
      /\ \A q \in Scans : tripped'[q] => Overran(q)'
    BY <1>2, <1>3 DEF BudgetInv, Note
<1> QED
    BY <1>1, <1>2, <1>3, <1>4 DEF BudgetGrows, BudgetInv

LEMMA BudgetStays == ASSUME BudgetInv, BudgetSame, UNCHANGED late PROVE BudgetGrows
    BY DEF BudgetInv, BudgetSame, Overran, BudgetGrows

\* One lane moves on.
LEMMA LaneMoves ==
    ASSUME ScanInv, BudgetGrows, NEW l \in Lanes,
           NEW x \in [at : LaneStages, item : Nat, fetch : Fetches \union {NoFetch}, found : SUBSET Txs],
           lane' = [lane EXCEPT ![l] = x], LaneInv(l)',
           x.at = "incomplete" => Overran(Owner[l])'
    PROVE  ScanInv'
<1>1. DOMAIN lane' = Lanes /\ \A m \in Lanes : lane'[m] = IF m = l THEN x ELSE lane[m]
    BY DEF ScanInv
<1>2. \A m \in Lanes : LaneInv(m)'
    BY <1>1 DEF ScanInv, LaneInv
<1>3. \A m \in Lanes : lane'[m].at = "incomplete" => Overran(Owner[m])'
    BY <1>1 DEF ScanInv, BudgetGrows, Scans
<1> QED
    BY <1>1, <1>2, <1>3 DEF ScanInv, BudgetGrows

\* A lane stops or fails, for which its budget answers.
LEMMA LaneGivesUp ==
    ASSUME ScanInv, BudgetGrows, NEW l \in Lanes, (Stop(l) /\ Overran(Owner[l])') \/ Fails(l)
    PROVE  ScanInv'
<1>1. PICK at \in {"incomplete", "error"} :
          lane' = [lane EXCEPT ![l] = [NewLane EXCEPT !.at = at]] /\ (at = "incomplete" => Overran(Owner[l])')
    BY DEF Stop, Fails
<1>2. PICK x : x = [NewLane EXCEPT !.at = at]
    OBVIOUS
<1>3. x \in [at : LaneStages, item : Nat, fetch : Fetches \union {NoFetch}, found : SUBSET Txs]
      /\ x.at = at /\ x.item = 1 /\ x.found = {}
    BY <1>2 DEF NewLane, LaneStages
<1>4. lane'[l] = x
    BY <1>1, <1>2 DEF ScanInv
<1>5. LaneInv(l)'
    BY <1>1, <1>3, <1>4 DEF LaneInv
<1> QED
    BY <1>1, <1>2, <1>3, <1>5, LaneMoves

\* A lane is at another stage of the same item.
LEMMA LaneStaged ==
    ASSUME ScanInv, BudgetGrows, NEW l \in Lanes, NEW f \in Fetches \union {NoFetch},
           NEW from, from = lane[l].at, NEW to,
           \/ from = "start" /\ to = "history"
           \/ from = "history" /\ to = "item"
           \/ from = "item" /\ to = "tx" /\ lane[l].item <= Len(History[l])
           \/ from = "tx" /\ to = "collateral" /\ History[l][lane[l].item] \in Mints[l]
           \/ from = "item" /\ to = "complete" /\ lane[l].item > Len(History[l]),
           lane' = [lane EXCEPT ![l] = [lane[l] EXCEPT !.at = to, !.fetch = f]]
    PROVE  ScanInv'
<1>1. PICK old \in [at : LaneStages, item : Nat, fetch : Fetches \union {NoFetch}, found : SUBSET Txs] :
          old = lane[l] /\ old.at = from
    BY DEF ScanInv
<1>2. PICK x : x = [old EXCEPT !.at = to, !.fetch = f]
    OBVIOUS
<1>3. to \in LaneStages
    BY DEF LaneStages
<1>4. x \in [at : LaneStages, item : Nat, fetch : Fetches \union {NoFetch}, found : SUBSET Txs]
      /\ x.at = to /\ x.item = old.item /\ x.found = old.found
    BY <1>1, <1>2, <1>3
<1>5. lane' = [lane EXCEPT ![l] = x] /\ lane'[l] = x
    BY <1>1, <1>2 DEF ScanInv
<1>6. LaneInv(l) /\ Len(History[l]) \in Nat
    BY ScanAssumption DEF ScanInv
<1>7. FoundBefore(l, 1) = {}
    <2>1. 1 .. 1 - 1 = {}
        OBVIOUS
    <2> QED
        BY <2>1 DEF FoundBefore
<1>8. LaneInv(l)'
    <2>1. CASE from = "start" /\ to = "history"
        BY <1>1, <1>4, <1>5, <1>6, <2>1 DEF LaneInv
    <2>2. CASE from = "history" /\ to = "item"
        <3>1. x.item = 1 /\ x.found = {} /\ x.at = "item" /\ 1 \in 1 .. Len(History[l]) + 1
            BY <1>1, <1>4, <1>6, <2>2 DEF LaneInv
        <3>2. x.found = FoundBefore(l, x.item)
            BY ONLY <1>7, <3>1, Zenon
        <3> QED
            BY <1>5, <3>1, <3>2 DEF LaneInv
    <2>3. CASE from = "item" /\ to = "tx" /\ lane[l].item <= Len(History[l])
        BY <1>1, <1>4, <1>5, <1>6, <2>3 DEF LaneInv
    <2>4. CASE from = "tx" /\ to = "collateral" /\ History[l][lane[l].item] \in Mints[l]
        BY <1>1, <1>4, <1>5, <1>6, <2>4 DEF LaneInv
    <2>5. CASE from = "item" /\ to = "complete" /\ lane[l].item > Len(History[l])
        <3>1. old.item = Len(History[l]) + 1
            BY <1>1, <1>6, <2>5 DEF LaneInv
        <3> QED
            BY <1>1, <1>4, <1>5, <1>6, <2>5, <3>1 DEF LaneInv
    <2> QED
        BY <2>1, <2>2, <2>3, <2>4, <2>5
<1>9. x.at # "incomplete"
    BY <1>4
<1> QED
    BY <1>4, <1>5, <1>8, <1>9, LaneMoves

\* A lane goes on to its next item, with what this one added.
LEMMA LaneAdvances ==
    ASSUME ScanInv, BudgetGrows, NEW l \in Lanes, NEW f \in Fetches \union {NoFetch},
           NEW was, was = lane[l], was.at \in {"tx", "collateral"},
           NEW more, more = {History[l][was.item]} \cap Mints[l] \cap OpenMints,
           NEW onward, onward = [was EXCEPT !.at = "item", !.item = was.item + 1, !.fetch = f,
                                        !.found = was.found \union more],
           lane' = [lane EXCEPT ![l] = onward]
    PROVE  ScanInv'
<1>1. PICK old \in [at : LaneStages, item : Nat, fetch : Fetches \union {NoFetch}, found : SUBSET Txs] :
          old = lane[l] /\ LaneInv(l) /\ Len(History[l]) \in Nat
    BY ScanAssumption DEF ScanInv
<1>2. old.item \in 1 .. Len(History[l]) /\ old.found = FoundBefore(l, old.item)
    BY <1>1 DEF LaneInv
<1>3. PICK x : x = [old EXCEPT !.at = "item", !.item = old.item + 1, !.fetch = f, !.found = old.found \union more]
    OBVIOUS
<1>4. /\ old.found \union more = FoundBefore(l, old.item + 1) /\ old.found \union more \subseteq Txs
      /\ old.item + 1 \in 1 .. Len(History[l]) + 1
    BY <1>1, <1>2, FoundMore
<1>a. PICK n, now : n = old.item + 1 /\ now = old.found \union more /\ n \in Nat /\ now \in SUBSET Txs
    <2>1. old.item + 1 \in Nat /\ old.found \union more \in SUBSET Txs
        BY <1>2, <1>4
    <2> QED
        BY <2>1
<1>b. x = [old EXCEPT !.at = "item", !.item = n, !.fetch = f, !.found = now] /\ "item" \in LaneStages
    BY <1>3, <1>a DEF LaneStages
<1>5. x \in [at : LaneStages, item : Nat, fetch : Fetches \union {NoFetch}, found : SUBSET Txs]
      /\ x.at = "item" /\ x.item = old.item + 1 /\ x.found = old.found \union more
    BY <1>a, <1>b
<1>6. lane' = [lane EXCEPT ![l] = x] /\ lane'[l] = x
    BY <1>1, <1>3 DEF ScanInv
<1>7. LaneInv(l)'
    BY <1>4, <1>5, <1>6 DEF LaneInv
<1> QED
    BY <1>5, <1>6, <1>7, LaneMoves

LEMMA ScanInvInit == ScanInit => ScanInv
<1> SUFFICES ASSUME ScanInit PROVE ScanInv
    OBVIOUS
<1>1. BudgetInv
    BY DEF ScanInit, BudgetInv
<1>2. DOMAIN lane = Lanes /\ \A l \in Lanes : lane[l] = NewLane
    BY DEF ScanInit
<1>3. \A l \in Lanes : LaneInv(l)
    BY <1>2, NewLaneType DEF LaneInv
<1> QED
    BY <1>1, <1>2, <1>3, NewLaneType DEF ScanInv
-----------------------------------------------------------------------------
(* The scans: the shared transaction cache                                 *)

FetchRecords == [state : {"free", "pending", "ok", "failed"}, tx : Txs \union {FreeFetch.tx}]

\* An entry's fetch is of its transaction and has not failed; a fetch under way has its
\* entry unless it was displaced.
FetchInv ==
    /\ fetch \in [Fetches -> FetchRecords]
    /\ \A x \in DOMAIN entry :
          /\ entry[x] \in [promise : Fetches, fresh : BOOLEAN]
          /\ fetch[entry[x].promise].tx = x /\ fetch[entry[x].promise].state \in {"pending", "ok"}
    /\ \A f \in Fetches : fetch[f].state = "pending" /\ f \notin displaced =>
          fetch[f].tx \in DOMAIN entry /\ entry[fetch[f].tx].promise = f

LEMMA FetchInvInit == ScanInit => FetchInv
    BY DEF ScanInit, FetchInv, FetchRecords, FreeFetch

LEMMA FetchInvMiss ==
    ASSUME FetchInv, NEW f \in Fetches, NEW x \in Txs, fetch[f].state = "free", Insert(x, f),
           fetch' = [fetch EXCEPT ![f] = [state |-> "pending", tx |-> x]]
    PROVE  FetchInv'
<1>1. PICK gone :
          /\ entry' = [y \in (DOMAIN entry \union {x}) \ gone |->
                          IF y = x THEN [promise |-> f, fresh |-> TRUE] ELSE entry[y]]
          /\ displaced' = displaced \union {entry[y].promise : y \in (gone \union {x}) \cap DOMAIN entry}
                                 \union (IF x \in gone THEN {f} ELSE {})
    BY DEF Insert
<1>2. PICK new \in FetchRecords : new = [state |-> "pending", tx |-> x]
    BY DEF FetchRecords
<1>3. /\ fetch' \in [Fetches -> FetchRecords] /\ fetch'[f] = new /\ new.state = "pending" /\ new.tx = x
      /\ \A g \in Fetches \ {f} : fetch'[g] = fetch[g]
    BY <1>2 DEF FetchInv
<1>4. PICK put : put = [promise |-> f, fresh |-> TRUE]
    OBVIOUS
<1>5. put \in [promise : Fetches, fresh : BOOLEAN] /\ put.promise = f
    BY <1>4
<1>6. ASSUME NEW y \in DOMAIN entry'
      PROVE  /\ entry'[y] \in [promise : Fetches, fresh : BOOLEAN]
             /\ fetch'[entry'[y].promise].tx = y /\ fetch'[entry'[y].promise].state \in {"pending", "ok"}
    <2>1. CASE y = x
        BY <1>1, <1>3, <1>4, <1>5, <2>1
    <2>2. CASE y # x
        <3>1. y \in DOMAIN entry /\ entry'[y] = entry[y]
            BY <1>1, <2>2
        <3>2. entry[y].promise # f /\ entry[y].promise \in Fetches
            BY <3>1 DEF FetchInv
        <3> QED
            BY <1>3, <3>1, <3>2 DEF FetchInv
    <2> QED
        BY <2>1, <2>2
<1>7. ASSUME NEW g \in Fetches, fetch'[g].state = "pending", g \notin displaced'
      PROVE  fetch'[g].tx \in DOMAIN entry' /\ entry'[fetch'[g].tx].promise = g
    <2>1. CASE g = f
        <3>1. x \notin gone
            BY <1>1, <1>7, <2>1
        <3>2. x \in DOMAIN entry' /\ entry'[x] = put
            BY <1>1, <1>4, <3>1
        <3> QED
            BY <1>3, <1>5, <2>1, <3>2
    <2>2. CASE g # f
        <3>1. fetch'[g] = fetch[g] /\ g \notin displaced
            BY <1>1, <1>3, <1>7, <2>2
        <3>2. PICK y : y = fetch[g].tx /\ y \in DOMAIN entry /\ entry[y].promise = g
            BY <1>7, <3>1 DEF FetchInv
        <3>3. y \notin gone /\ y # x
            BY <1>1, <1>7, <3>2
        <3>4. y \in DOMAIN entry' /\ entry'[y] = entry[y]
            BY <1>1, <3>2, <3>3
        <3> QED
            BY <3>1, <3>2, <3>4
    <2> QED
        BY <2>1, <2>2
<1> QED
    BY <1>3, <1>6, <1>7 DEF FetchInv

LEMMA FetchInvSettles ==
    ASSUME FetchInv, NEW f \in Fetches, NEW state \in {"ok", "failed"}, fetch[f].state = "pending",
           fetch' = [fetch EXCEPT ![f].state = state], UNCHANGED displaced,
           \/ state = "ok" /\ entry' = entry
           \/ state = "failed" /\ entry' = [x \in DOMAIN entry \ Evicted(f) |-> entry[x]]
    PROVE  FetchInv'
<1>1. PICK old \in FetchRecords : old = fetch[f]
    BY DEF FetchInv
<1>2. PICK new : new = [old EXCEPT !.state = state]
    OBVIOUS
<1>3. new \in FetchRecords /\ new.state = state /\ new.tx = old.tx
    BY <1>2 DEF FetchRecords
<1>4. fetch' = [fetch EXCEPT ![f] = new]
    BY <1>1, <1>2
<1>5. /\ fetch' \in [Fetches -> FetchRecords] /\ fetch'[f] = new
      /\ \A g \in Fetches \ {f} : fetch'[g] = fetch[g]
    BY <1>3, <1>4 DEF FetchInv
<1>6. \A x \in DOMAIN entry' : x \in DOMAIN entry /\ entry'[x] = entry[x]
    OBVIOUS
<1>7. ASSUME NEW x \in DOMAIN entry'
      PROVE  /\ entry'[x] \in [promise : Fetches, fresh : BOOLEAN]
             /\ fetch'[entry'[x].promise].tx = x /\ fetch'[entry'[x].promise].state \in {"pending", "ok"}
    <2>1. entry[x] \in [promise : Fetches, fresh : BOOLEAN] /\ entry'[x] = entry[x] /\ x \in DOMAIN entry
          /\ fetch[entry[x].promise].tx = x
        BY <1>6 DEF FetchInv
    <2>2. CASE entry[x].promise = f
        <3>1. x \in Evicted(f)
            BY <1>6, <2>1, <2>2 DEF Evicted
        <3>2. state = "ok"
            BY <3>1
        <3> QED
            BY <1>1, <1>3, <1>5, <2>1, <2>2, <3>2
    <2>3. CASE entry[x].promise # f
        BY <1>5, <2>1, <2>3 DEF FetchInv
    <2> QED
        BY <2>2, <2>3
<1>8. ASSUME NEW g \in Fetches, fetch'[g].state = "pending", g \notin displaced'
      PROVE  fetch'[g].tx \in DOMAIN entry' /\ entry'[fetch'[g].tx].promise = g
    <2>1. g # f /\ fetch'[g] = fetch[g]
        BY <1>3, <1>5, <1>8
    <2>2. PICK y : y = fetch[g].tx /\ y \in DOMAIN entry /\ entry[y].promise = g
        BY <1>8, <2>1 DEF FetchInv
    <2>3. y \notin Evicted(f)
        BY <2>1, <2>2 DEF Evicted
    <2>4. y \in DOMAIN entry' /\ entry'[y] = entry[y]
        BY <2>2, <2>3
    <2> QED
        BY <2>1, <2>2, <2>4
<1> QED
    BY <1>5, <1>7, <1>8 DEF FetchInv

LEMMA FetchInvNext == ScanInv /\ FetchInv /\ [ScanNext]_scanVars => FetchInv'
<1> SUFFICES ASSUME ScanInv, FetchInv, [ScanNext]_scanVars PROVE FetchInv'
    OBVIOUS
<1>1. CASE UNCHANGED <<fetch, entry, displaced>>
    BY <1>1 DEF FetchInv
<1>2. CASE \/ \E l \in Lanes : Start(l) \/ HistoryHere(l) \/ CallFails(l) \/ Hit(l)
           \/ \E l \in Lanes : TxHere(l) \/ TxFailed(l) \/ CollateralHere(l) \/ Done(l)
           \/ \E r \in Scans : DeadlinePasses(r)
           \/ UNCHANGED scanVars
    BY <1>1, <1>2 DEF Start, HistoryHere, CallFails, Hit, TxHere, TxFailed, CollateralHere, Done,
                      DeadlinePasses, scanVars, CacheSame
<1>3. ASSUME NEW l \in Lanes, Miss(l) PROVE FetchInv'
    <2>1. CASE Stops(Owner[l])
        BY <1>1, <1>3, <2>1 DEF Miss, CacheSame
    <2>2. CASE ~Stops(Owner[l])
        <3>1. PICK x : x = History[l][lane[l].item]
            OBVIOUS
        <3>2. PICK f \in Fetches :
                 /\ fetch[f].state = "free" /\ fetch' = [fetch EXCEPT ![f] = [state |-> "pending", tx |-> x]]
                 /\ Insert(x, f)
            BY <1>3, <2>2, <3>1 DEF Miss
        <3>3. lane[l].item \in 1 .. Len(History[l])
            BY <1>3, ScanAssumption DEF Miss, ScanInv, LaneInv
        <3>4. x \in Txs
            BY <3>1, <3>3, ScanAssumption
        <3> QED
            BY <3>2, <3>4, FetchInvMiss
    <2> QED
        BY <2>1, <2>2
<1>4. ASSUME NEW f \in Fetches, FetchOk(f) \/ FetchFails(f) PROVE FetchInv'
    BY <1>4, FetchInvSettles DEF FetchOk, FetchFails
<1>5. ASSUME NEW x \in Txs, EntryExpires(x) PROVE FetchInv'
    <2>1. PICK old \in [promise : Fetches, fresh : BOOLEAN] : old = entry[x] /\ x \in DOMAIN entry
        BY <1>5 DEF EntryExpires, Fresh, FetchInv
    <2>2. PICK new : new = [old EXCEPT !.fresh = FALSE]
        OBVIOUS
    <2>3. new \in [promise : Fetches, fresh : BOOLEAN] /\ new.promise = old.promise
        BY <2>2
    <2>4. entry' = [entry EXCEPT ![x] = new] /\ UNCHANGED <<fetch, displaced>>
        BY <1>5, <2>1, <2>2 DEF EntryExpires
    <2>5. DOMAIN entry' = DOMAIN entry /\ \A y \in DOMAIN entry : entry'[y] = IF y = x THEN new ELSE entry[y]
        BY <2>4
    <2> QED
        BY <2>1, <2>3, <2>4, <2>5 DEF FetchInv
<1> QED
    BY <1>2, <1>3, <1>4, <1>5 DEF ScanNext

LEMMA ScanInvNext == ScanInv /\ FetchInv /\ [ScanNext]_scanVars => ScanInv'
<1> SUFFICES ASSUME ScanInv, FetchInv, [ScanNext]_scanVars PROVE ScanInv'
    OBVIOUS
<1>0. BudgetInv /\ \A l \in Lanes : Owner[l] \in Scans
    BY DEF ScanInv, Scans
<1>1. ASSUME NEW l \in Lanes, Start(l) PROVE ScanInv'
    <2>1. BudgetGrows /\ (Stops(Owner[l]) => Overran(Owner[l])')
        BY <1>0, <1>1, BudgetDebits DEF Start
    <2>2. CASE Stops(Owner[l])
        BY <1>1, <2>1, <2>2, LaneGivesUp DEF Start
    <2>3. CASE ~Stops(Owner[l])
        <3>1. PICK old, f : old = lane[l] /\ f = old.fetch /\ old.at = "start" /\ f \in Fetches \union {NoFetch}
                            /\ old \in [at : LaneStages, item : Nat, fetch : Fetches \union {NoFetch}, found : SUBSET Txs]
            BY <1>1 DEF Start, ScanInv
        <3>2. lane' = [lane EXCEPT ![l].at = "history"]
            BY <1>1, <2>3 DEF Start
        <3>3. [old EXCEPT !.at = "history"] = [old EXCEPT !.at = "history", !.fetch = f]
            BY <3>1
        <3>4. lane' = [lane EXCEPT ![l] = [lane[l] EXCEPT !.at = "history", !.fetch = f]]
            BY <3>1, <3>2, <3>3
        <3> QED
            BY <2>1, <3>1, <3>4, LaneStaged
    <2> QED
        BY <2>2, <2>3
<1>2. ASSUME NEW l \in Lanes, HistoryHere(l) \/ Done(l) PROVE ScanInv'
    <2>1. BudgetGrows
        BY <1>0, <1>2, BudgetStays DEF HistoryHere, Done
    <2>2. PICK old, f : old = lane[l] /\ f = old.fetch /\ f \in Fetches \union {NoFetch}
                        /\ old \in [at : LaneStages, item : Nat, fetch : Fetches \union {NoFetch}, found : SUBSET Txs]
        BY DEF ScanInv
    <2>3. CASE HistoryHere(l)
        <3>1. old.at = "history" /\ lane' = [lane EXCEPT ![l].at = "item"]
            BY <2>2, <2>3 DEF HistoryHere
        <3>2. [old EXCEPT !.at = "item"] = [old EXCEPT !.at = "item", !.fetch = f]
            BY <2>2
        <3>3. lane' = [lane EXCEPT ![l] = [lane[l] EXCEPT !.at = "item", !.fetch = f]]
            BY <2>2, <3>1, <3>2
        <3>4. PICK from, to : from = lane[l].at /\ from = "history" /\ to = "item"
            BY <2>2, <3>1
        <3> QED
            BY <2>1, <2>2, <3>3, <3>4, LaneStaged
    <2>4. CASE Done(l)
        <3>1. old.at = "item" /\ lane[l].item > Len(History[l]) /\ lane' = [lane EXCEPT ![l].at = "complete"]
            BY <2>2, <2>4 DEF Done
        <3>2. [old EXCEPT !.at = "complete"] = [old EXCEPT !.at = "complete", !.fetch = f]
            BY <2>2
        <3>3. lane' = [lane EXCEPT ![l] = [lane[l] EXCEPT !.at = "complete", !.fetch = f]]
            BY <2>2, <3>1, <3>2
        <3>4. PICK from, to : from = lane[l].at /\ from = "item" /\ to = "complete"
            BY <2>2, <3>1
        <3>5. /\ lane' = [lane EXCEPT ![l] = [lane[l] EXCEPT !.at = to, !.fetch = f]]
              /\ lane[l].item > Len(History[l]) /\ f \in Fetches \union {NoFetch}
            BY <2>2, <3>1, <3>3, <3>4
        <3> QED
            BY <2>1, <3>4, <3>5, LaneStaged
    <2> QED
        BY <1>2, <2>3, <2>4
<1>3. ASSUME NEW l \in Lanes, CallFails(l) \/ TxFailed(l) PROVE ScanInv'
    <2>1. BudgetGrows
        BY <1>0, <1>3, BudgetStays DEF CallFails, TxFailed
    <2> QED
        BY <1>3, <2>1, LaneGivesUp DEF CallFails, TxFailed
<1>4. ASSUME NEW l \in Lanes, NEW f \in Fetches \union {NoFetch}, Awaits(l, f), BudgetGrows,
             lane[l].at = "item", lane[l].item <= Len(History[l])
      PROVE  ScanInv'
    <2>1. lane' = [lane EXCEPT ![l] = [lane[l] EXCEPT !.at = "tx", !.fetch = f]]
        BY <1>4 DEF Awaits, ScanInv
    <2> QED
        BY <1>4, <2>1, LaneStaged
<1>5. ASSUME NEW l \in Lanes, Hit(l) PROVE ScanInv'
    <2>1. BudgetGrows /\ (NoteStops(Owner[l]) => Overran(Owner[l])')
        BY <1>0, <1>5, BudgetNotes DEF Hit
    <2>2. CASE NoteStops(Owner[l])
        BY <1>5, <2>1, <2>2, LaneGivesUp DEF Hit
    <2>3. CASE ~NoteStops(Owner[l])
        <3>1. PICK x \in DOMAIN entry : Awaits(l, entry[x].promise)
            BY <1>5, <2>3 DEF Hit, Fresh
        <3>2. PICK f \in Fetches : f = entry[x].promise
            BY DEF FetchInv
        <3> QED
            BY <1>4, <1>5, <2>1, <3>1, <3>2 DEF Hit
    <2> QED
        BY <2>2, <2>3
<1>6. ASSUME NEW l \in Lanes, Miss(l) PROVE ScanInv'
    <2>1. BudgetGrows /\ (Stops(Owner[l]) => Overran(Owner[l])')
        BY <1>0, <1>6, BudgetDebits DEF Miss
    <2>2. CASE Stops(Owner[l])
        BY <1>6, <2>1, <2>2, LaneGivesUp DEF Miss
    <2>3. CASE ~Stops(Owner[l])
        <3>1. PICK f \in Fetches : Awaits(l, f)
            BY <1>6, <2>3 DEF Miss
        <3> QED
            BY <1>4, <1>6, <2>1, <3>1 DEF Miss
    <2> QED
        BY <2>2, <2>3
<1>7. ASSUME NEW l \in Lanes, TxHere(l) PROVE ScanInv'
    <2>0. PICK old : old = lane[l] /\ old.at = "tx"
                     /\ old \in [at : LaneStages, item : Nat, fetch : Fetches \union {NoFetch}, found : SUBSET Txs]
        BY <1>7 DEF TxHere, ScanInv
    <2>1. CASE History[l][lane[l].item] \notin Mints[l]
        <3>1. BudgetGrows
            BY <1>0, <1>7, <2>1, BudgetStays DEF TxHere, BudgetSame
        <3>2. lane' = [lane EXCEPT ![l].at = "item", ![l].item = @ + 1, ![l].fetch = NoFetch]
            BY <1>7, <2>1 DEF TxHere
        <3>3. PICK more : more = {History[l][lane[l].item]} \cap Mints[l] \cap OpenMints /\ more = {}
            BY <2>1
        <3>4. [old EXCEPT !.at = "item", !.item = old.item + 1, !.fetch = NoFetch] =
              [old EXCEPT !.at = "item", !.item = old.item + 1, !.fetch = NoFetch, !.found = old.found \union more]
            BY <2>0, <3>3
        <3>5. PICK onward : onward = [old EXCEPT !.at = "item", !.item = old.item + 1, !.fetch = NoFetch,
                                             !.found = old.found \union more]
            OBVIOUS
        <3>6. lane' = [lane EXCEPT ![l] = onward]
          <4>1. PICK step : step = [lane[l] EXCEPT !.at = "item", !.item = lane[l].item + 1, !.fetch = NoFetch]
              OBVIOUS
          <4>2. lane' = [lane EXCEPT ![l] = step]
              BY <3>2, <4>1, Zenon
          <4>3. step = onward
              BY <2>0, <3>4, <3>5, <4>1
          <4> QED
              BY <4>2, <4>3
        <3>7. more = {History[l][old.item]} \cap Mints[l] \cap OpenMints /\ old.at \in {"tx", "collateral"}
            BY <2>0, <3>3
        <3> QED
            BY <2>0, <3>1, <3>5, <3>6, <3>7, LaneAdvances
    <2>2. CASE History[l][lane[l].item] \in Mints[l]
        <3>1. BudgetGrows /\ (Stops(Owner[l]) => Overran(Owner[l])')
            BY <1>0, <1>7, <2>2, BudgetDebits DEF TxHere
        <3>2. CASE Stops(Owner[l])
            BY <1>7, <2>2, <3>1, <3>2, LaneGivesUp DEF TxHere
        <3>3. CASE ~Stops(Owner[l])
            <4>1. lane' = [lane EXCEPT ![l] = [lane[l] EXCEPT !.at = "collateral", !.fetch = NoFetch]]
                BY <1>7, <2>2, <3>3 DEF TxHere, ScanInv
            <4> QED
                BY <2>0, <2>2, <3>1, <4>1, LaneStaged
        <3> QED
            BY <3>2, <3>3
    <2> QED
        BY <2>1, <2>2
<1>8. ASSUME NEW l \in Lanes, CollateralHere(l) PROVE ScanInv'
    <2>0. PICK old, f : old = lane[l] /\ old.at = "collateral" /\ f = old.fetch /\ f \in Fetches \union {NoFetch}
                     /\ old \in [at : LaneStages, item : Nat, fetch : Fetches \union {NoFetch}, found : SUBSET Txs]
        BY <1>8 DEF CollateralHere, ScanInv
    <2>1. BudgetGrows
        BY <1>0, <1>8, BudgetStays DEF CollateralHere
    <2>2. PICK more : more = {History[l][lane[l].item]} \cap Mints[l] \cap OpenMints
        OBVIOUS
    <2>3. more = {History[l][lane[l].item]} \cap OpenMints
        BY <2>0, <2>2 DEF ScanInv, LaneInv
    <2>4. lane' = [lane EXCEPT ![l].at = "item", ![l].item = @ + 1, ![l].found = @ \union more]
        BY <1>8, <2>3 DEF CollateralHere
    <2>a. lane' = [lane EXCEPT ![l] = [old EXCEPT !.at = "item", !.item = old.item + 1, !.found = old.found \union more]]
        BY <2>0, <2>4 DEF ScanInv
    <2>5. [old EXCEPT !.at = "item", !.item = old.item + 1, !.found = old.found \union more] =
          [old EXCEPT !.at = "item", !.item = old.item + 1, !.fetch = f, !.found = old.found \union more]
        BY <2>0
    <2>6. PICK onward : onward = [old EXCEPT !.at = "item", !.item = old.item + 1, !.fetch = f,
                                         !.found = old.found \union more]
        OBVIOUS
    <2>7. lane' = [lane EXCEPT ![l] = onward]
        BY <2>5, <2>6, <2>a
    <2>8. more = {History[l][old.item]} \cap Mints[l] \cap OpenMints /\ old.at \in {"tx", "collateral"}
        BY <2>0, <2>2
    <2> QED
        BY <2>0, <2>1, <2>6, <2>7, <2>8, LaneAdvances
<1>9. CASE UNCHANGED lane /\ BudgetSame /\ (UNCHANGED late \/ \E r \in Scans : late' = [late EXCEPT ![r] = TRUE])
    <2>1. BudgetGrows
        BY <1>0, <1>9 DEF BudgetGrows, BudgetInv, BudgetSame, Overran
    <2>2. \A l \in Lanes : LaneInv(l)'
        BY <1>9 DEF ScanInv, LaneInv
    <2> QED
        BY <1>0, <1>9, <2>1, <2>2 DEF ScanInv, BudgetGrows
<1>10. CASE (\E f \in Fetches : FetchOk(f) \/ FetchFails(f)) \/ (\E r \in Scans : DeadlinePasses(r))
            \/ (\E x \in Txs : EntryExpires(x))
    BY <1>9, <1>10 DEF FetchOk, FetchFails, DeadlinePasses, EntryExpires
<1>11. CASE UNCHANGED scanVars
    BY <1>9, <1>11 DEF scanVars, BudgetSame
<1> QED
    BY <1>1, <1>2, <1>3, <1>5, <1>6, <1>7, <1>8, <1>10, <1>11 DEF ScanNext

\* A complete answer has every open position of its address and any other none; a scan is
\* incomplete only by its own request's budget (scanPositions, createScanBudget in the
\* indexer's server.js), for any histories, budgets and number of requests.
THEOREM CompleteOrNone == ScanSpec => []CompleteOrAbsent
<1>1. ScanInv => CompleteOrAbsent
    <2> SUFFICES ASSUME ScanInv, NEW l \in Lanes
                 PROVE  /\ lane[l].at = "complete" => lane[l].found =
                              {History[l][i] : i \in 1 .. Len(History[l])} \cap Mints[l] \cap OpenMints
                        /\ lane[l].at \in {"incomplete", "error"} => lane[l].found = {}
                        /\ lane[l].at = "incomplete" => Overran(Owner[l])
        BY DEF CompleteOrAbsent, Overran
    <2>1. (Len(History[l]) + 1) - 1 = Len(History[l])
        BY ScanAssumption
    <2>2. FoundBefore(l, Len(History[l]) + 1) =
              {History[l][i] : i \in 1 .. Len(History[l])} \cap Mints[l] \cap OpenMints
        BY <2>1 DEF FoundBefore
    <2> QED
        BY <2>2 DEF ScanInv, LaneInv
<1> QED
    BY ScanInvInit, ScanInvNext, FetchInvInit, FetchInvNext, <1>1, PTL DEF ScanSpec

\* One call per transaction is under way at a time unless the older one lost its entry,
\* and no later caller is given a fetch that has failed (cachedVerboseTx in the indexer's
\* server.js), for any lanes, histories and cache size.
THEOREM FetchedOnce == ScanSpec => []OneFetchPerTx
<1>1. FetchInv => OneFetchPerTx
    BY DEF FetchInv, OneFetchPerTx
<1> QED
    BY ScanInvInit, ScanInvNext, FetchInvInit, FetchInvNext, <1>1, PTL DEF ScanSpec

=============================================================================
