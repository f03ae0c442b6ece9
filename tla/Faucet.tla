------------------------------- MODULE Faucet -------------------------------
(***************************************************************************)
(* The testnet faucet (apps/faucet/server.js): a hot wallet that pays one  *)
(* claim per address and per source IP in every cooldown period.  The      *)
(* ledger of claims is kept in memory and in a JSON file; a claim awaits   *)
(* the node three times, and the keys of the claims in progress are held   *)
(* from before the cooldown check until after the ledger is written.       *)
(***************************************************************************)
EXTENDS Integers, Sequences, FiniteSets

CONSTANTS
    Claims,         \* requests the server handles at one time
    Addresses,      \* canonical (lower-case) addresses of the node's chain
    Ips,            \* addresses clients can really connect from
    Loopback,       \* the peer address of the wallet server's proxy
    Cooldown,       \* cooldownHours
    MaxClock,       \* bound: the clock stops here
    MaxPayments,    \* bound: payments made
    MaxCuts         \* bound: crashes, lost answers and failed writes

ASSUME FaucetAssumption ==
    /\ IsFiniteSet(Claims)
    /\ Loopback \notin Ips
    /\ Cooldown \in Nat \ {0}
    /\ MaxClock \in Nat /\ MaxClock >= Cooldown
    /\ MaxPayments \in Nat /\ MaxCuts \in Nat

VARIABLES
    claim,      \* per claim in progress: its stage and what it is for
    inFlight,   \* ctx.inFlight: the keys of the claims in progress
    ledger,     \* ctx.claims: key -> time of the last claim, 0 when none
    file,       \* what loadClaims() makes of the file: no claims when it does not parse
    orders,     \* sendtoaddress calls nobody waits for any more, still with the node
    paid,       \* what the node's wallet has paid, in order
    forgotten,  \* ghost: payments (positions in paid) the ledger in memory lacks for good
    now,        \* Date.now(), in units of which Cooldown is a number
    cuts        \* crashes, lost answers and failed writes so far

faucetVars == <<claim, inFlight, ledger, file, orders, paid, forgotten, now, cuts>>

ClaimKeys == ({"a"} \X Addresses) \union ({"i"} \X (Ips \union {Loopback}))
NoClaims == [k \in ClaimKeys |-> 0]

\* A request: the address as it was typed (bech32 is valid in either case), where
\* it really comes from, and how it got here.  The header of a direct request
\* holds whatever the client put there, say someone else's address.
ClaimRequests == {q \in [spelled: Addresses \X {"lower", "upper"}, source: Ips,
                    via: {"direct", "proxy"}, header: Ips] :
                q.via = "direct" \/ q.header = q.source}

\* What handleClaim() knows it by, with the real source as a ghost.
Forms == [address: Addresses, ip: Ips \union {Loopback}, source: Ips]
NoClaim == [stage |-> "none"]

Payments == [address: Addresses, source: Ips, at: Cooldown .. MaxClock, late: BOOLEAN]

FaucetTypeOK ==
    /\ claim \in [Claims -> {NoClaim} \union
            [stage: {"price", "pay", "answer"}, form: Forms, pos: 0 .. MaxPayments]]
    /\ \A c \in Claims : claim[c].stage = "answer" => claim[c].pos \in 1 .. Len(paid)
    /\ inFlight \subseteq ClaimKeys
    /\ ledger \in [ClaimKeys -> 0 .. MaxClock]
    /\ file \in [ClaimKeys -> 0 .. MaxClock]
    /\ orders \subseteq [address: Addresses, source: Ips]
    /\ paid \in Seq(Payments)
    /\ Len(paid) <= MaxPayments
    /\ forgotten \subseteq 1 .. Len(paid)
    /\ now \in Cooldown .. MaxClock
    /\ cuts \in 0 .. MaxCuts

\* The real clock is far beyond one cooldown from 0, the time of "never".
FaucetInit ==
    /\ claim = [c \in Claims |-> NoClaim]
    /\ inFlight = {}
    /\ ledger = NoClaims
    /\ file = NoClaims
    /\ orders = {}
    /\ paid = <<>>
    /\ forgotten = {}
    /\ now = Cooldown
    /\ cuts = 0

-----------------------------------------------------------------------------
(* Helpers *)

\* The peer of a proxied request is the proxy, whose header is the address it saw.
Peer(q) == IF q.via = "proxy" THEN Loopback ELSE q.source

\* Mutant: the header is honoured whoever the peer is.
FaucetIpAnyPeer(q) == q.header

FaucetIp(q) == IF Peer(q) = Loopback THEN q.header ELSE Peer(q)

\* toLowerCase() makes the two spellings of an address one.
Known(q) == [address |-> q.spelled[1], ip |-> FaucetIp(q), source |-> q.source]

Locks(f) == {<<"a", f.address>>, <<"i", f.ip>>}

\* cooldownLeftMs() > 0
CoolingDown(f) == \E k \in {<<"a", f.address>>, <<"i", f.ip>>} : ledger[k] > now - Cooldown

Processing(c) == claim[c].stage # "none"

\* The finally block: the claim is answered and its keys are released.
Ends(c) ==
    /\ claim' = [claim EXCEPT ![c] = NoClaim]
    /\ inFlight' = inFlight \ Locks(claim[c].form)

FaucetCut == cuts < MaxCuts /\ cuts' = cuts + 1

-----------------------------------------------------------------------------
(* handleClaim(), one action per stretch between two awaits.  The first     *)
(* await, for the chain, comes before anything is read or held, so a claim  *)
(* begins when it is over; one for an address of another chain ends there.  *)

\* A claim whose address or IP is in progress, or cooling down, is refused; else
\* its keys are held and the oracle price is asked for.
Claim(c, q) ==
    LET f == Known(q)
    IN /\ claim[c].stage = "none"
       /\ Locks(f) \cap inFlight = {}
       /\ ~CoolingDown(f)
       /\ claim' = [claim EXCEPT ![c] = [stage |-> "price", form |-> f, pos |-> 0]]
       /\ inFlight' = inFlight \union Locks(f)
       /\ UNCHANGED <<ledger, file, orders, paid, forgotten, now, cuts>>

\* The oracle price is there; sendtoaddress is on its way.
Price(c) ==
    /\ claim[c].stage = "price"
    /\ claim' = [claim EXCEPT ![c].stage = "pay"]
    /\ UNCHANGED <<inFlight, ledger, file, orders, paid, forgotten, now, cuts>>

\* The price is unavailable or stale, or the node refuses to pay.
ClaimGivesUp(c) ==
    /\ claim[c].stage \in {"price", "pay"}
    /\ Ends(c)
    /\ UNCHANGED <<ledger, file, orders, paid, forgotten, now, cuts>>

PayOrder(f) == [address |-> f.address, source |-> f.source]
Payment(o, late) == [address |-> o.address, source |-> o.source, at |-> now, late |-> late]

\* The node pays; its answer is not here yet.
NodePays(c) ==
    /\ claim[c].stage = "pay"
    /\ Len(paid) < MaxPayments
    /\ paid' = Append(paid, Payment(PayOrder(claim[c].form), FALSE))
    /\ claim' = [claim EXCEPT ![c].stage = "answer", ![c].pos = Len(paid) + 1]
    /\ UNCHANGED <<inFlight, ledger, file, orders, forgotten, now, cuts>>

Stamped(f) == [k \in ClaimKeys |-> IF k \in Locks(f) THEN now ELSE ledger[k]]

\* The claim is stamped in memory and in the file, then answered.
Record(c) ==
    /\ claim[c].stage = "answer"
    /\ ledger' = Stamped(claim[c].form)
    /\ file' = ledger'
    /\ Ends(c)
    /\ UNCHANGED <<orders, paid, forgotten, now, cuts>>

\* The same, but the file cannot be written: the claim is in memory only, the
\* file is the old one or, when the write had begun, half a file.
RecordUnsaved(c) ==
    /\ claim[c].stage = "answer"
    /\ FaucetCut
    /\ ledger' = Stamped(claim[c].form)
    /\ file' \in {file, NoClaims}
    /\ Ends(c)
    /\ UNCHANGED <<orders, paid, forgotten, now>>

\* The call timed out with the node still at it: the payment may come later.
Abandon(c) ==
    /\ claim[c].stage = "pay"
    /\ FaucetCut
    /\ orders' = orders \union {PayOrder(claim[c].form)}
    /\ Ends(c)
    /\ UNCHANGED <<ledger, file, paid, forgotten, now>>

\* A payment nobody waits for any more.
NodePaysLate(o) ==
    /\ Len(paid) < MaxPayments
    /\ paid' = Append(paid, Payment(o, TRUE))
    /\ orders' = orders \ {o}
    /\ forgotten' = forgotten \union {Len(paid) + 1}
    /\ UNCHANGED <<claim, inFlight, ledger, file, now, cuts>>

\* The node paid, but its answer is lost or comes after the 15 s timeout.
LoseAnswer(c) ==
    /\ claim[c].stage = "answer"
    /\ FaucetCut
    /\ forgotten' = forgotten \union {claim[c].pos}
    /\ Ends(c)
    /\ UNCHANGED <<ledger, file, orders, paid, now>>

-----------------------------------------------------------------------------
(* Restart, time *)

\* The positions the ledger of a restarted faucet knows nothing about.
Unknown(ldg) ==
    {i \in 1 .. Len(paid) :
        \/ ldg[<<"a", paid[i].address>>] < paid[i].at
        \/ ldg[<<"i", paid[i].source>>] < paid[i].at}

\* A call in progress when the process dies may have reached the node.
Orphaned == {PayOrder(claim[c].form) : c \in {d \in Claims : claim[d].stage = "pay"}}

\* The process dies and a new one reads the file: a file that does not parse
\* is an empty ledger.
FaucetRestart ==
    /\ FaucetCut
    /\ claim' = [c \in Claims |-> NoClaim]
    /\ inFlight' = {}
    /\ ledger' = file
    /\ orders' \in {orders \union S : S \in SUBSET Orphaned}
    /\ forgotten' = forgotten \union Unknown(file)
    /\ UNCHANGED <<file, paid, now>>

\* It dies while it writes the ledger, which truncates the file first.
DieWriting(c) ==
    /\ claim[c].stage = "answer"
    /\ FaucetCut
    /\ file' = NoClaims
    /\ claim' = [d \in Claims |-> NoClaim]
    /\ inFlight' = {}
    /\ ledger' = NoClaims
    /\ orders' \in {orders \union S : S \in SUBSET Orphaned}
    /\ forgotten' = 1 .. Len(paid)
    /\ UNCHANGED <<paid, now>>

FaucetTick ==
    /\ now < MaxClock
    /\ now' = now + 1
    /\ UNCHANGED <<claim, inFlight, ledger, file, orders, paid, forgotten, cuts>>

FaucetNext ==
    \/ \E c \in Claims, q \in ClaimRequests : Claim(c, q)
    \/ \E c \in Claims : Price(c) \/ ClaimGivesUp(c) \/ NodePays(c)
    \/ \E c \in Claims : Record(c) \/ RecordUnsaved(c) \/ Abandon(c) \/ LoseAnswer(c) \/ DieWriting(c)
    \/ \E o \in orders : NodePaysLate(o)
    \/ FaucetRestart
    \/ FaucetTick

FaucetSpec == FaucetInit /\ [][FaucetNext]_faucetVars

-----------------------------------------------------------------------------
(* Properties *)

Rivals(i, j) == paid[i].address = paid[j].address \/ paid[i].source = paid[j].source

\* Two payments to one address, or for one real source, are a cooldown apart,
\* unless the earlier one was forgotten (its answer was lost, or the process
\* died before a ledger with it was safely in the file) or the later one came
\* after its claim had been given up (handleClaim).
OnePayPerPeriod ==
    \A i, j \in 1 .. Len(paid) :
        i < j /\ Rivals(i, j) /\ i \notin forgotten /\ ~paid[j].late
            => paid[j].at - paid[i].at >= Cooldown

\* The held keys are exactly those of the claims in progress, and no two claims
\* in progress share one: nobody is refused for a claim that has ended.
KeysOfTheLiving ==
    /\ inFlight = UNION {Locks(claim[c].form) : c \in {d \in Claims : Processing(d)}}
    /\ \A c, d \in Claims :
          c # d /\ Processing(c) /\ Processing(d) => Locks(claim[c].form) \cap Locks(claim[d].form) = {}
=============================================================================
