---------------------------- MODULE IndexerScan ----------------------------
(***************************************************************************)
(* The scans of the indexer (apps/indexer/server.js): a request reads the  *)
(* positions of its addresses through the shared transaction cache, within *)
(* a budget of its own.  A bulk request scans several addresses at a time  *)
(* (lanes here) on one budget.  The chain does not move during a scan, and *)
(* of a transaction it matters only whether it is a mint of the address    *)
(* and whether that mint's collateral is still unspent.                    *)
(***************************************************************************)
EXTENDS Integers, Sequences, FiniteSets

CONSTANTS
    Lanes,      \* addresses being scanned
    Owner,      \* lane -> the request it belongs to
    Txs,
    History,    \* lane -> what get_history answers, a sequence of Txs
    Mints,      \* lane -> the mints of its address among them
    OpenMints,       \* the mints whose collateral is unspent
    MaxFetches, \* bound: upstream calls for a transaction
    MaxUpstream, MaxItems,   \* the budget of a request
    CacheMax,   \* TX_CACHE_MAX
    MaxFaults   \* bound: failed calls, expired entries and passed deadlines

ASSUME ScanAssumption ==
    /\ Owner \in [Lanes -> {Owner[l] : l \in Lanes}]
    /\ \A l \in Lanes : History[l] \in Seq(Txs) /\ Mints[l] \subseteq Txs
    /\ OpenMints \subseteq Txs
    /\ MaxUpstream \in Nat /\ MaxItems \in Nat /\ CacheMax \in Nat \ {0} /\ MaxFaults \in Nat
    /\ MaxFetches \in Nat

Scans == {Owner[l] : l \in Lanes}

VARIABLES
    lane,      \* per lane: stage, next item, the fetch it awaits, positions found
    fetch,     \* per fetch: its state and transaction
    entry,     \* the cache: tx -> [promise, fresh]
    order,     \* the keys of the cache in order of insertion
    upstream, items, tripped,   \* the budget of each request
    late,      \* the deadline of a request has passed
    displaced, \* ghost: fetches that lost their entry to age or to the size bound
    faults

scanVars == <<lane, fetch, entry, order, upstream, items, tripped, late, displaced, faults>>

Fetches == 1 .. MaxFetches
NoFetch == 0
LaneStages == {"start", "history", "item", "tx", "collateral", "complete", "incomplete", "error"}
NewLane == [at |-> "start", item |-> 1, fetch |-> NoFetch, found |-> {}]
FreeFetch == [state |-> "free", tx |-> CHOOSE x \in Txs : TRUE]

ScanTypeOK ==
    /\ lane \in [Lanes -> [at: LaneStages, item: 1 .. MaxItems + 2, fetch: Fetches \union {NoFetch},
                           found: SUBSET Txs]]
    /\ fetch \in [Fetches -> [state: {"free", "pending", "ok", "failed"}, tx: Txs]]
    /\ DOMAIN entry \subseteq Txs /\ Cardinality(DOMAIN entry) <= CacheMax
    /\ order \in Seq(Txs)
    /\ upstream \in [Scans -> 0 .. MaxUpstream + 1] /\ items \in [Scans -> 0 .. MaxItems + 1]
    /\ tripped \in [Scans -> BOOLEAN] /\ late \in [Scans -> BOOLEAN]
    /\ displaced \subseteq Fetches
    /\ faults \in 0 .. MaxFaults

ScanInit ==
    /\ lane = [l \in Lanes |-> NewLane]
    /\ fetch = [f \in Fetches |-> FreeFetch]
    /\ entry = [x \in {} |-> [promise |-> NoFetch, fresh |-> TRUE]]
    /\ order = <<>>
    /\ upstream = [r \in Scans |-> 0]
    /\ items = [r \in Scans |-> 0]
    /\ tripped = [r \in Scans |-> FALSE]
    /\ late = [r \in Scans |-> FALSE]
    /\ displaced = {}
    /\ faults = 0

-----------------------------------------------------------------------------
(* The budget *)

Fault == faults < MaxFaults /\ faults' = faults + 1
BudgetSame == UNCHANGED <<upstream, items, tripped>>
CacheSame == UNCHANGED <<fetch, entry, order, displaced>>

\* debit(): one upstream call is about to happen, or the scan stops.
Stops(r) == tripped[r] \/ late[r] \/ upstream[r] + 1 > MaxUpstream
Debit(r) ==
    /\ upstream' = IF tripped[r] \/ late[r] THEN upstream ELSE [upstream EXCEPT ![r] = @ + 1]
    /\ tripped' = [tripped EXCEPT ![r] = Stops(r)]

\* note(): one item is about to be examined, or the scan stops.
NoteStops(r) == tripped[r] \/ items[r] + 1 > MaxItems
Note(r) ==
    /\ items' = IF tripped[r] THEN items ELSE [items EXCEPT ![r] = @ + 1]
    /\ tripped' = [tripped EXCEPT ![r] = NoteStops(r)]

\* Mutant: a scan that is stopped answers with what it has.
StopPartial(l) == lane' = [lane EXCEPT ![l].at = "complete"]

\* scanIncomplete: the address is unknown, its positions are left out.
Stop(l) == lane' = [lane EXCEPT ![l] = [NewLane EXCEPT !.at = "incomplete"]]

Fails(l) == lane' = [lane EXCEPT ![l] = [NewLane EXCEPT !.at = "error"]]

-----------------------------------------------------------------------------
(* One address: handleBulkAddresses() or the positions route *)

\* get_history is asked for.
Start(l) ==
    /\ lane[l].at = "start"
    /\ Debit(Owner[l])
    /\ IF Stops(Owner[l]) THEN Stop(l) ELSE lane' = [lane EXCEPT ![l].at = "history"]
    /\ UNCHANGED <<items, late, faults>> /\ CacheSame

HistoryHere(l) ==
    /\ lane[l].at = "history"
    /\ lane' = [lane EXCEPT ![l].at = "item"]
    /\ UNCHANGED <<late, faults>> /\ BudgetSame /\ CacheSame

CallFails(l) ==
    /\ lane[l].at \in {"history", "collateral"}
    /\ Fault
    /\ Fails(l)
    /\ UNCHANGED late /\ BudgetSame /\ CacheSame

Done(l) ==
    /\ lane[l].at = "item" /\ lane[l].item > Len(History[l])
    /\ lane' = [lane EXCEPT ![l].at = "complete"]
    /\ UNCHANGED <<late, faults>> /\ BudgetSame /\ CacheSame

Fresh(x) == x \in DOMAIN entry /\ entry[x].fresh

Awaits(l, f) == lane' = [lane EXCEPT ![l].at = "tx", ![l].fetch = f]

\* cachedVerboseTx(): a fresh entry is shared, whatever became of its fetch.
Hit(l) ==
    LET x == History[l][lane[l].item]
    IN /\ lane[l].at = "item" /\ lane[l].item <= Len(History[l])
       /\ Note(Owner[l])
       /\ IF NoteStops(Owner[l]) THEN Stop(l)
          ELSE Fresh(x) /\ Awaits(l, entry[x].promise)
       /\ UNCHANGED <<upstream, late, faults>> /\ CacheSame

\* The entry of x is set, keeping its place if it had one; past the size bound
\* the first key goes.
Insert(x, f) ==
    LET keys == IF x \in DOMAIN entry THEN order ELSE Append(order, x)
        full == Len(keys) > CacheMax
        kept == IF full THEN Tail(keys) ELSE keys
        gone == IF full THEN {Head(keys)} ELSE {}
        after == (DOMAIN entry \union {x}) \ gone
        new == [promise |-> f, fresh |-> TRUE]
    IN /\ entry' = [y \in after |-> IF y = x THEN new ELSE entry[y]]
       /\ order' = kept
       /\ displaced' = displaced \union {entry[y].promise : y \in (gone \union {x}) \cap DOMAIN entry}
                                 \union (IF x \in gone THEN {f} ELSE {})

\* No entry, or one past its time: the call debits the budget and goes out.  The
\* debit throws before there is a promise, so a stop is never cached.
Miss(l) ==
    LET x == History[l][lane[l].item]
        r == Owner[l]
    IN /\ lane[l].at = "item" /\ lane[l].item <= Len(History[l])
       /\ ~NoteStops(r)
       /\ ~Fresh(x)
       /\ items' = [items EXCEPT ![r] = @ + 1]
       /\ Debit(r)
       /\ IF Stops(r) THEN Stop(l) /\ CacheSame
          ELSE \E f \in Fetches :
                  /\ fetch[f].state = "free" /\ \A g \in 1 .. f - 1 : fetch[g].state # "free"
                  /\ fetch' = [fetch EXCEPT ![f] = [state |-> "pending", tx |-> x]]
                  /\ Insert(x, f)
                  /\ Awaits(l, f)
       /\ UNCHANGED <<late, faults>>

\* Mutant: the entry is dropped whoever's it is.
EvictedBlindly(f) == DOMAIN entry \cap {fetch[f].tx}

\* The key that a failed fetch takes out of the cache: its own entry's only.
Evicted(f) == {x \in DOMAIN entry \cap {fetch[f].tx} : entry[x].promise = f}

FetchOk(f) ==
    /\ fetch[f].state = "pending"
    /\ fetch' = [fetch EXCEPT ![f].state = "ok"]
    /\ UNCHANGED <<lane, entry, order, displaced, late, faults>> /\ BudgetSame

FetchFails(f) ==
    /\ fetch[f].state = "pending"
    /\ Fault
    /\ fetch' = [fetch EXCEPT ![f].state = "failed"]
    /\ entry' = [x \in DOMAIN entry \ Evicted(f) |-> entry[x]]
    /\ order' = SelectSeq(order, LAMBDA x : x \notin Evicted(f))
    /\ UNCHANGED <<lane, displaced, late>> /\ BudgetSame

\* The transaction is here: not a mint of this address, or the collateral is
\* asked for.
TxHere(l) ==
    LET x == History[l][lane[l].item]
        r == Owner[l]
    IN /\ lane[l].at = "tx" /\ fetch[lane[l].fetch].state = "ok"
       /\ IF x \notin Mints[l]
          THEN /\ lane' = [lane EXCEPT ![l].at = "item", ![l].item = @ + 1, ![l].fetch = NoFetch]
               /\ UNCHANGED <<upstream, tripped>>
          ELSE /\ Debit(r)
               /\ IF Stops(r) THEN Stop(l)
                  ELSE lane' = [lane EXCEPT ![l].at = "collateral", ![l].fetch = NoFetch]
       /\ UNCHANGED <<items, late, faults>> /\ CacheSame

\* Mutant: a failure is noticed through the entry of the transaction only.
TxFailedByEntry(l) ==
    /\ lane[l].at = "tx" /\ fetch[lane[l].fetch].state = "failed"
    /\ \E x \in DOMAIN entry : entry[x].promise = lane[l].fetch
    /\ Fails(l)
    /\ UNCHANGED <<late, faults>> /\ BudgetSame /\ CacheSame

TxFailed(l) ==
    /\ lane[l].at = "tx" /\ fetch[lane[l].fetch].state = "failed"
    /\ Fails(l)
    /\ UNCHANGED <<late, faults>> /\ BudgetSame /\ CacheSame

\* The collateral's unspent outputs are here: an open mint is a position.
CollateralHere(l) ==
    LET x == History[l][lane[l].item]
    IN /\ lane[l].at = "collateral"
       /\ lane' = [lane EXCEPT ![l].at = "item", ![l].item = @ + 1, ![l].found = @ \union ({x} \cap OpenMints)]
       /\ UNCHANGED <<late, faults>> /\ BudgetSame /\ CacheSame

-----------------------------------------------------------------------------
(* Time, the specification *)

DeadlinePasses(r) ==
    /\ ~late[r] /\ Fault
    /\ late' = [late EXCEPT ![r] = TRUE]
    /\ UNCHANGED lane /\ BudgetSame /\ CacheSame

EntryExpires(x) ==
    /\ Fresh(x) /\ Fault
    /\ entry' = [entry EXCEPT ![x].fresh = FALSE]
    /\ UNCHANGED <<lane, fetch, order, displaced, late>> /\ BudgetSame

ScanOver(l) == lane[l].at \in {"complete", "incomplete", "error"}

ScanNext ==
    \/ \E l \in Lanes : Start(l) \/ HistoryHere(l) \/ CallFails(l) \/ Hit(l) \/ Miss(l)
    \/ \E l \in Lanes : TxHere(l) \/ TxFailed(l) \/ CollateralHere(l) \/ Done(l)
    \/ \E f \in Fetches : FetchOk(f) \/ FetchFails(f)
    \/ \E r \in Scans : DeadlinePasses(r)
    \/ \E x \in Txs : EntryExpires(x)

\* Calls are answered or fail, and what follows runs; no request need come.
ScanFairness ==
    /\ \A l \in Lanes :
          WF_scanVars(HistoryHere(l) \/ Hit(l) \/ Miss(l) \/ TxHere(l) \/ TxFailed(l)
                      \/ CollateralHere(l) \/ Done(l))
    /\ \A f \in Fetches : WF_scanVars(FetchOk(f))

ScanSpec == ScanInit /\ [][ScanNext]_scanVars /\ ScanFairness

-----------------------------------------------------------------------------
(* Properties *)

\* Complete or absent: a complete answer has every open position of its address,
\* any other has none; and a scan is incomplete only if its own request overran its
\* own budget, whoever shares its fetches (scanPositions, createScanBudget).
CompleteOrAbsent ==
    \A l \in Lanes :
        LET r == Owner[l]
            all == {History[l][i] : i \in 1 .. Len(History[l])} \cap Mints[l] \cap OpenMints
        IN /\ lane[l].at = "complete" => lane[l].found = all
           /\ lane[l].at \in {"incomplete", "error"} => lane[l].found = {}
           /\ lane[l].at = "incomplete" =>
                 upstream[r] > MaxUpstream \/ items[r] > MaxItems \/ late[r]

\* One call per transaction is under way at a time, unless the older one lost its
\* entry to age or to the size bound; and no later caller is given a fetch that
\* has failed (cachedVerboseTx).
OneFetchPerTx ==
    /\ \A f, g \in Fetches :
          f # g /\ fetch[f].state = "pending" /\ fetch[g].state = "pending" /\ fetch[f].tx = fetch[g].tx
              => f \in displaced \/ g \in displaced
    /\ \A x \in DOMAIN entry : fetch[entry[x].promise].state # "failed"

\* Every scan that has begun ends, whoever fails under it.
ScansEnd == \A l \in Lanes : lane[l].at # "start" ~> ScanOver(l)
=============================================================================
