----------------------------- MODULE RateLimit -----------------------------
(***************************************************************************)
(* Who a request is from and what it may still cost                        *)
(* (apps/wallet/server.js): clientAddress() behind appending proxies, and  *)
(* the fixed-window limiter of createRateLimiter() with its bounded number *)
(* of buckets.  There is one limiter per class of endpoints; this is one.  *)
(***************************************************************************)
EXTENDS Integers, Sequences, FiniteSets

CONSTANTS
    Clients,      \* addresses clients really have
    Proxy,        \* the address of the first of two proxies
    Junk,         \* something in a header that is no IP address
    Hops,         \* trustProxyHops, the number of proxies in front
    Costs,        \* tokens a request spends: 1, or the addresses of a bulk read
    Window,       \* windowMs
    Allowance,    \* max
    MaxBuckets,   \* MAX_BUCKETS
    MaxTime       \* bound: the clock

ASSUME RateAssumption ==
    /\ Hops \in {1, 2}
    /\ Costs \subseteq Nat \ {0}
    /\ Window \in Nat \ {0} /\ Allowance \in Nat \ {0} /\ MaxBuckets \in Nat \ {0}
    /\ MaxTime \in Nat
    /\ Proxy \notin Clients /\ Junk \notin Clients \union {Proxy}

VARIABLES
    hits,    \* the buckets: key -> count and time of expiry
    time,    \* Date.now()
    tally,   \* ghost: real client -> time -> tokens of the requests admitted until then
    shed     \* ghost: the last request was refused without a bucket of its own

rateVars == <<hits, time, tally, shed>>

PeerIps == Clients \union {Proxy}
Buckets == [count: Nat, resetAt: 0 .. MaxTime + Window]

RateTypeOK ==
    /\ DOMAIN hits \subseteq PeerIps
    /\ \A k \in DOMAIN hits : hits[k] \in Buckets
    /\ time \in 0 .. MaxTime
    /\ tally \in [Clients -> [0 .. MaxTime -> Nat]]
    /\ shed \in BOOLEAN

RateInit ==
    /\ hits = [k \in {} |-> [count |-> 0, resetAt |-> 0]]
    /\ time = 0
    /\ tally = [c \in Clients |-> [t \in 0 .. MaxTime |-> 0]]
    /\ shed = FALSE

-----------------------------------------------------------------------------
(* makeClientAddress(): the peer is a trusted proxy on loopback *)

\* What a client can put into the header before the first proxy sees it.
Forgeries == {<<>>} \union {<<x>> : x \in Clients \union {Junk}}

\* Every proxy appends the address it was reached from.
Forwarded(c, forged) == IF Hops = 1 THEN forged \o <<c>> ELSE forged \o <<c, Proxy>>

\* Mutant: the first element is taken, which is the client's own.
ClientAddressFirst(parts) == IF parts[1] \in PeerIps THEN parts[1] ELSE Proxy

\* The element our outermost proxy wrote, if it is there and an IP address.
ClientAddress(parts) ==
    IF Len(parts) >= Hops /\ parts[Len(parts) - Hops + 1] \in PeerIps
    THEN parts[Len(parts) - Hops + 1]
    ELSE Proxy

-----------------------------------------------------------------------------
(* createRateLimiter() *)

Live(k) == k \in DOMAIN hits /\ time < hits[k].resetAt

\* The buckets left once the sweep has run, which it does only in a full map.
Swept == IF Cardinality(DOMAIN hits) >= MaxBuckets THEN {k \in DOMAIN hits : Live(k)} ELSE DOMAIN hits

\* A key with a bucket, if only an expired one, always finds room.
Room(k) == k \in DOMAIN hits \/ Cardinality(Swept) < MaxBuckets

\* A request of client c with a forged header: refused without a bucket when the
\* map is full of others', else counted, and admitted within the allowance.
Check(c, forged, cost) ==
    LET k == ClientAddress(Forwarded(c, forged))
        entry == IF Live(k) THEN hits[k] ELSE [count |-> 0, resetAt |-> time + Window]
        kept == IF Live(k) THEN DOMAIN hits ELSE Swept
        count == entry.count + cost
    IN IF ~Live(k) /\ ~Room(k)
       THEN /\ hits' = [j \in Swept |-> hits[j]]
            /\ shed' = TRUE
            /\ UNCHANGED <<time, tally>>
       ELSE /\ hits' = [j \in kept \union {k} |->
                   IF j = k THEN [entry EXCEPT !.count = count] ELSE hits[j]]
            /\ tally' = IF count > Allowance THEN tally
                        ELSE [tally EXCEPT ![c] = [t \in 0 .. MaxTime |->
                                  tally[c][t] + (IF t < time THEN 0 ELSE cost)]]
            /\ shed' = FALSE
            /\ UNCHANGED time

RateTick ==
    /\ time < MaxTime
    /\ time' = time + 1
    /\ shed' = FALSE
    /\ UNCHANGED <<hits, tally>>

\* Requests stop counting (the bound) once a bucket is far over its allowance.
RateNext ==
    \/ /\ \A k \in DOMAIN hits : hits[k].count <= Allowance + 1
       /\ \E c \in Clients, forged \in Forgeries, cost \in Costs : Check(c, forged, cost)
    \/ RateTick

RateSpec == RateInit /\ [][RateNext]_rateVars

-----------------------------------------------------------------------------
(* Properties *)

\* The tokens a client was admitted with until t, and from one time to another.
Until(sums, t) == IF t < 0 THEN 0 ELSE sums[t]
Admitted(c, from, to) == Until(tally[c], to) - Until(tally[c], from - 1)

\* Over any span of one window a real client is admitted for at most twice its
\* allowance (the end of one fixed window and the start of the next), and for
\* one allowance in the window of its own bucket, whatever headers it sends.
\* The map never outgrows its bound, and a client is turned away for want of a
\* bucket only while every bucket is in a window that still runs.
AllowancePerClient ==
    /\ \A c \in Clients :
        /\ \A t \in 0 .. MaxTime - Window + 1 : Admitted(c, t, t + Window - 1) <= 2 * Allowance
        /\ Live(c) => Admitted(c, hits[c].resetAt - Window, time) <= Allowance
    /\ Cardinality(DOMAIN hits) <= MaxBuckets
    /\ shed => \A k \in DOMAIN hits : Live(k)
=============================================================================
