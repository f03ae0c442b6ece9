---------------------------- MODULE ElectrumPool ----------------------------
(***************************************************************************)
(* The indexer's pool of ElectrumX sessions (apps/indexer/server.js).      *)
(* Every read of the chain goes through pool.request(): admission, round   *)
(* robin over the clients, recycling of a client that served its share,    *)
(* one retry on a fresh session after a transport failure.  A client keeps *)
(* one socket, handshakes once per connection and holds requests back in a *)
(* FIFO while its in-flight ceiling is reached.                            *)
(*                                                                         *)
(* JavaScript runs to completion: a socket event, a timer or an incoming   *)
(* request is one step.  A rejection is handed to the catch block of       *)
(* pool.request() in a step of its own, before any further event (Quiet).  *)
(* A scan that goes on after a failed read does so through longer promise  *)
(* chains than these catch blocks, so its next call counts as an event.    *)
(***************************************************************************)
EXTENDS Integers, Sequences, FiniteSets

CONSTANTS
    NClients,       \* size of the pool
    Requests,       \* callers of pool.request(), each with one call at a time
    MaxInFlight,    \* MAX_IN_FLIGHT_PER_SESSION
    RecycleAfter,   \* requests a session serves before it is recycled ...
    Spread,         \* ... plus a random draw of 0..Spread
    MaxAdmitted     \* the pool-wide admission ceiling

ASSUME PoolAssumption ==
    /\ NClients \in Nat \ {0}
    /\ MaxInFlight \in Nat \ {0}
    /\ RecycleAfter \in Nat \ {0}
    /\ Spread \in Nat
    /\ MaxAdmitted \in Nat \ {0}
    /\ IsFiniteSet(Requests)

Clients == 0 .. NClients - 1
Limits == RecycleAfter .. RecycleAfter + Spread

VARIABLES
    conn,       \* per client: what this.sock and this.ready are
    queue,      \* per client: requests awaiting this.ready, or a free slot
    served,     \* per client: requests sent on the session, cut off at the limit
    limit,      \* per client: the drawn recycleAfter
    stage,      \* per request: where its call is
    client,     \* per request: the client its call was given to
    attempt,    \* per request: 1, or 2 for the retry
    admitted,   \* pool.admitted
    next        \* pool.next, modulo the size

vars == <<conn, queue, served, limit, stage, client, attempt, admitted, next>>

(***************************************************************************)
(* conn: "none" (no socket), "connecting" (TCP), "handshake"               *)
(* (server.version sent), "open", "broken" and "refused" (a socket whose   *)
(* ready promise was rejected: by the timeout, or by an RPC error), and    *)
(* "dying" (destroyed after a frame overflow, close event to come).        *)
(*                                                                         *)
(* stage: "idle", "waiting" (in the queue), "sent" (in this.pending),      *)
(* "rejected" (the catch block is about to run), "orphan" (awaits a ready  *)
(* promise that nothing will ever settle).                                 *)
(***************************************************************************)
ConnStates == {"none", "connecting", "handshake", "open", "broken", "refused", "dying"}
Stages == {"idle", "waiting", "sent", "rejected", "orphan"}

TypeOK ==
    /\ conn \in [Clients -> ConnStates]
    /\ queue \in [Clients -> Seq(Requests)]
    /\ served \in [Clients -> 0 .. RecycleAfter + Spread]
    /\ limit \in [Clients -> Limits]
    /\ stage \in [Requests -> Stages]
    /\ client \in [Requests -> Clients]
    /\ attempt \in [Requests -> {1, 2}]
    /\ admitted \in 0 .. MaxAdmitted
    /\ next \in Clients

Init ==
    /\ conn = [c \in Clients |-> "none"]
    /\ queue = [c \in Clients |-> <<>>]
    /\ served = [c \in Clients |-> 0]
    /\ limit \in [Clients -> Limits]
    /\ stage = [r \in Requests |-> "idle"]
    /\ client = [r \in Requests |-> 0]
    /\ attempt = [r \in Requests |-> 1]
    /\ admitted = 0
    /\ next = 0

-----------------------------------------------------------------------------
(* Helpers *)

Queued(c) == {queue[c][i] : i \in 1 .. Len(queue[c])}
InFlight(c) == {r \in Requests : stage[r] = "sent" /\ client[r] = c}

\* this.pending.size, which counts the handshake too
PendingSize(c) == Cardinality(InFlight(c)) + (IF conn[c] = "handshake" THEN 1 ELSE 0)

Quiet == \A r \in Requests : stage[r] # "rejected"

Saturated(n) == IF n > RecycleAfter + Spread THEN RecycleAfter + Spread ELSE n

\* How many of the queue go out when `busy` requests stay in flight.
Room(c, busy) ==
    LET free == MaxInFlight - Cardinality(busy)
    IN IF free < 0 THEN 0 ELSE IF Len(queue[c]) < free THEN Len(queue[c]) ELSE free

\* The first k of the queue are sent, everyone else stands as `others` says.
SendFirst(c, k, others) ==
    LET going == {queue[c][i] : i \in 1 .. k}
    IN /\ stage' = [q \in Requests |-> IF q \in going THEN "sent" ELSE others[q]]
       /\ queue' = [queue EXCEPT ![c] = SubSeq(@, k + 1, Len(@))]
       /\ served' = [served EXCEPT ![c] = Saturated(@ + k)]

\* The calls of S are over: a first attempt gives its admission back (the
\* finally block), and the request may be made again.
Over(S) ==
    /\ attempt' = [r \in Requests |-> IF r \in S THEN 1 ELSE attempt[r]]
    /\ client' = [r \in Requests |-> IF r \in S THEN 0 ELSE client[r]]
    /\ admitted' = admitted - Cardinality({r \in S : attempt[r] = 1})

\* Mutant: recycle() forgets the FIFO.
AfterRecycleForgets(c) ==
    [q \in Requests |-> IF q \in InFlight(c) THEN "rejected" ELSE stage[q]]

\* recycle(): what becomes of the other requests of client c.  Those in flight
\* and those in the FIFO are rejected; those awaiting a handshake are rejected
\* with it; those awaiting a TCP connection are not, because the identity guard
\* drops the events of the socket that would have rejected their promise.
AfterRecycle(c) ==
    [q \in Requests |->
        IF q \in InFlight(c) \/ (q \in Queued(c) /\ conn[c] # "connecting")
        THEN "rejected"
        ELSE IF q \in Queued(c) THEN "orphan" ELSE stage[q]]

\* Mutant: the share counts one early, so a session just being opened is spent.
SpentEarly(c) == served[c] + 1 >= limit[c] /\ PendingSize(c) = 0

\* A session that served its share is recycled at the next selection that finds it idle.
Spent(c) == served[c] >= limit[c] /\ PendingSize(c) = 0

-----------------------------------------------------------------------------
(* pool.request() and client.request() *)

\* A caller is admitted and its client chosen; a client that served its share
\* and has nothing pending is recycled first.
Arrive(r) ==
    LET c == next
        recycled == Spent(c)
        before == IF recycled THEN AfterRecycle(c) ELSE stage
        ready == IF recycled THEN "none" ELSE conn[c]
        line == IF recycled THEN <<>> ELSE queue[c]
        count == IF recycled THEN 0 ELSE served[c]
        sends == ready \in {"open", "dying"} /\ Cardinality(InFlight(c)) < MaxInFlight
    IN
    /\ Quiet
    /\ stage[r] = "idle"
    /\ admitted < MaxAdmitted
    /\ next' = (next + 1) % NClients
    /\ \E l \in Limits : limit' = [limit EXCEPT ![c] = IF recycled THEN l ELSE @]
    /\ IF ready = "refused"
       THEN UNCHANGED <<conn, queue, served, stage, client, attempt, admitted>>
       ELSE /\ admitted' = admitted + 1
            /\ client' = [client EXCEPT ![r] = c]
            /\ conn' = [conn EXCEPT ![c] = IF ready = "none" THEN "connecting" ELSE ready]
            /\ stage' = [before EXCEPT ![r] = IF ready = "broken" THEN "rejected"
                                              ELSE IF sends THEN "sent" ELSE "waiting"]
            /\ queue' = [queue EXCEPT ![c] = IF ready = "broken" \/ sends
                                             THEN line ELSE Append(line, r)]
            /\ served' = [served EXCEPT ![c] = IF sends THEN Saturated(count + 1) ELSE count]
            /\ UNCHANGED attempt

\* Mutant: the retry keeps the admission, and nothing gives it back later.
RetryKeeps(r) ==
    LET c == client[r] IN
    /\ stage[r] = "rejected" /\ attempt[r] = 1
    /\ stage' = [AfterRecycle(c) EXCEPT ![r] = "waiting"]
    /\ queue' = [queue EXCEPT ![c] = <<r>>]
    /\ conn' = [conn EXCEPT ![c] = "connecting"]
    /\ served' = [served EXCEPT ![c] = 0]
    /\ attempt' = [attempt EXCEPT ![r] = 2]
    /\ UNCHANGED <<limit, admitted, client, next>>

\* The catch block, first attempt: recycle the client and try once more on a
\* fresh session.  The promise is returned, not awaited, so the admission is
\* given back before the retry is answered.
Retry(r) ==
    LET c == client[r] IN
    /\ stage[r] = "rejected" /\ attempt[r] = 1
    /\ stage' = [AfterRecycle(c) EXCEPT ![r] = "waiting"]
    /\ queue' = [queue EXCEPT ![c] = <<r>>]
    /\ conn' = [conn EXCEPT ![c] = "connecting"]
    /\ served' = [served EXCEPT ![c] = 0]
    /\ \E l \in Limits : limit' = [limit EXCEPT ![c] = l]
    /\ attempt' = [attempt EXCEPT ![r] = 2]
    /\ admitted' = admitted - 1
    /\ UNCHANGED <<client, next>>

\* The retry failed too: the caller gets the error.
GiveUp(r) ==
    /\ stage[r] = "rejected" /\ attempt[r] = 2
    /\ stage' = [stage EXCEPT ![r] = "idle"]
    /\ Over({r})
    /\ UNCHANGED <<conn, queue, served, limit, next>>

-----------------------------------------------------------------------------
(* Events of a client's socket and of its timers *)

Connected(c) ==
    /\ Quiet
    /\ conn[c] = "connecting"
    /\ conn' = [conn EXCEPT ![c] = "handshake"]
    /\ UNCHANGED <<queue, served, limit, stage, client, attempt, admitted, next>>

\* The handshake is answered: everyone awaiting it checks the ceiling and sends
\* or queues.
Handshaken(c) ==
    /\ Quiet
    /\ conn[c] = "handshake"
    /\ conn' = [conn EXCEPT ![c] = "open"]
    /\ SendFirst(c, Room(c, {}), stage)
    /\ UNCHANGED <<limit, client, attempt, admitted, next>>

\* The handshake is answered with an RPC error, which is not retried.
HandshakeRefused(c) ==
    /\ Quiet
    /\ conn[c] = "handshake"
    /\ conn' = [conn EXCEPT ![c] = "refused"]
    /\ stage' = [q \in Requests |-> IF q \in Queued(c) THEN "idle" ELSE stage[q]]
    /\ queue' = [queue EXCEPT ![c] = <<>>]
    /\ Over(Queued(c))
    /\ UNCHANGED <<served, limit, next>>

\* The handshake is not answered in time: the socket stays, its promise is rejected.
HandshakeTimeout(c) ==
    /\ Quiet
    /\ conn[c] = "handshake"
    /\ conn' = [conn EXCEPT ![c] = "broken"]
    /\ stage' = [q \in Requests |-> IF q \in Queued(c) THEN "rejected" ELSE stage[q]]
    /\ queue' = [queue EXCEPT ![c] = <<>>]
    /\ UNCHANGED <<served, limit, client, attempt, admitted, next>>

\* fail(): the socket closed, or was refused.
Drop(c) ==
    /\ Quiet
    /\ conn[c] # "none"
    /\ conn' = [conn EXCEPT ![c] = "none"]
    /\ stage' = [q \in Requests |-> IF q \in InFlight(c) \cup Queued(c)
                                    THEN "rejected" ELSE stage[q]]
    /\ queue' = [queue EXCEPT ![c] = <<>>]
    /\ UNCHANGED <<served, limit, client, attempt, admitted, next>>

\* A line beyond the frame limit: everything pending is rejected and the socket
\* destroyed; the FIFO is left to the close event, or to the next recycle.
Overflow(c) ==
    /\ Quiet
    /\ conn[c] \in {"handshake", "open"}
    /\ conn' = [conn EXCEPT ![c] = IF conn[c] = "handshake" THEN "broken" ELSE "dying"]
    /\ LET hit == IF conn[c] = "handshake" THEN Queued(c) ELSE InFlight(c)
       IN stage' = [q \in Requests |-> IF q \in hit THEN "rejected" ELSE stage[q]]
    /\ queue' = [queue EXCEPT ![c] = IF conn[c] = "handshake" THEN <<>> ELSE @]
    /\ UNCHANGED <<served, limit, client, attempt, admitted, next>>

\* Mutant: a slot is freed and nobody is woken.
SettledAsleep(r, to) ==
    /\ stage' = [stage EXCEPT ![r] = to]
    /\ UNCHANGED <<queue, served>>

\* A slot is freed: the FIFO moves up.
Settled(r, to) ==
    LET c == client[r]
    IN SendFirst(c, Room(c, InFlight(c) \ {r}), [stage EXCEPT ![r] = to])

\* A response, a result or an RPC error, for a request in flight.
Answer(r) ==
    /\ Quiet
    /\ stage[r] = "sent" /\ conn[client[r]] = "open"
    /\ Settled(r, "idle")
    /\ Over({r})
    /\ UNCHANGED <<conn, limit, next>>

\* The 15 second timer of a request in flight.
Timeout(r) ==
    /\ Quiet
    /\ stage[r] = "sent"
    /\ Settled(r, "rejected")
    /\ UNCHANGED <<conn, limit, client, attempt, admitted, next>>

Next ==
    \/ \E r \in Requests : Arrive(r)
    \/ \E r \in Requests : Retry(r)
    \/ \E r \in Requests : GiveUp(r)
    \/ \E r \in Requests : Answer(r)
    \/ \E r \in Requests : Timeout(r)
    \/ \E c \in Clients : Connected(c)
    \/ \E c \in Clients : Handshaken(c)
    \/ \E c \in Clients : HandshakeRefused(c)
    \/ \E c \in Clients : HandshakeTimeout(c)
    \/ \E c \in Clients : Drop(c)
    \/ \E c \in Clients : Overflow(c)

Spec == Init /\ [][Next]_vars

(***************************************************************************)
(* Fairness: catch blocks run; a TCP connection is made or fails (the      *)
(* system's own connect timeout); a handshake and a request are answered   *)
(* or time out; a destroyed socket reports its close.  Strong fairness of  *)
(* the events: one that is due is taken between two runs of catch blocks,  *)
(* however often those run.                                                *)
(***************************************************************************)
Fairness ==
    /\ \A r \in Requests : WF_vars(Retry(r) \/ GiveUp(r))
    /\ \A r \in Requests : SF_vars(Answer(r) \/ Timeout(r))
    /\ \A c \in Clients : SF_vars(Connected(c) \/ (conn[c] = "connecting" /\ Drop(c)))
    /\ \A c \in Clients : SF_vars(Handshaken(c) \/ HandshakeTimeout(c))
    /\ \A c \in Clients : SF_vars(conn[c] = "dying" /\ Drop(c))

FairSpec == Spec /\ Fairness

-----------------------------------------------------------------------------
(* What is claimed of the pool *)

\* The ceiling holds and nobody sleeps beside a free slot: on a live session at
\* most MaxInFlight requests are on the wire, and while a request waits in its
\* FIFO the wire is full (#releaseWaiter wakes, the woken re-check).
NoSleepBesideSlot ==
    \A c \in Clients :
        /\ Cardinality(InFlight(c)) <= MaxInFlight
        /\ conn[c] = "open" /\ queue[c] # <<>> => Cardinality(InFlight(c)) = MaxInFlight

\* pool.admitted counts the first attempts under way, no more and no less: the
\* ceiling neither lets callers slip in nor closes for good by a missed decrement.
AdmissionCounts ==
    admitted = Cardinality({r \in Requests : stage[r] # "idle" /\ attempt[r] = 1})

\* Both ceilings are kept as they are meant: per session by its FIFO, over all the
\* sessions by the admission counter.
CeilingsHold == NoSleepBesideSlot /\ AdmissionCounts

\* Every request that waits is in exactly one FIFO, once, that of its client; so no
\* answer, wake-up or rejection can be taken by another request.
QueuesAreOurs ==
    \A c \in Clients :
        /\ Queued(c) = {r \in Requests : stage[r] = "waiting" /\ client[r] = c}
        /\ Len(queue[c]) = Cardinality(Queued(c))

\* A call is lost only where a failed call's retry recycles a session that another
\* call is still connecting; no other step loses one.
LostOnlyByRetry ==
    [][\A q \in Requests : stage[q] # "orphan" /\ stage'[q] = "orphan" =>
          /\ conn[client[q]] = "connecting"
          /\ \E r \in Requests \ {q} : client[r] = client[q] /\ Retry(r)]_vars

\* Every admitted call is answered, fails, or is lost as above.
SettlesUnlessLost ==
    \A r \in Requests : stage[r] # "idle" ~> stage[r] \in {"idle", "orphan"}

\* "Callers see a transport failure, which the pool may retry on a fresh session";
\* "a dead/kicked session must not poison the slot": every call is settled.
EveryCallSettles ==
    \A r \in Requests : stage[r] # "idle" ~> stage[r] = "idle"

=============================================================================
