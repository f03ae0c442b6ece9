------------------------------ MODULE Readback ------------------------------
(***************************************************************************)
(* How the transactions of module TxBuild are read back: the indexer finds *)
(* the DigiDollar of their outputs, the positions they open and what an    *)
(* entry of the history needs (apps/indexer/server.js), and the wallet     *)
(* words the entry (apps/wallet/public/app.js).  An address is the script  *)
(* it stands for; metadata have none.                                      *)
(***************************************************************************)
EXTENDS TxBuild

CONSTANTS
    MaxVinResolve    \* the inputs of a transaction that are looked up

\* The first input of a redemption is the collateral, which is nobody's.
ASSUME ReadbackAssumption == MaxVinResolve \in Nat /\ MaxVinResolve >= 2

Unresolved == [address |-> NoTx, sats |-> 0, known |-> FALSE]

\* What the inputs or outputs at these places hold together.
SatsAt(list, at) == MapThenSumSet(LAMBDA i : list[i].sats, at)

-----------------------------------------------------------------------------
(* The indexer *)

\* The first metadata output is taken, where there are two.
OpReturns(tx) == {v \in DOMAIN tx.body.outs : tx.body.outs[v].script.shape = "data"}
MetadataOf(tx) == tx.body.outs[Min(OpReturns(tx))].script

\* Mutant: what carries coins may be meant too.
DdVoutsAny(outs) == {v \in DOMAIN outs : outs[v].script.shape = "p2tr"}

DdVouts(outs) == {v \in DOMAIN outs : outs[v].sats = 0 /\ outs[v].script.shape = "p2tr"}

\* ddAmountsByVout(): the amounts of the metadata, in their order, for the outputs
\* that carry nothing and look like taproot.
DdAmountsByVout(tx) ==
    LET outs == tx.body.outs
        amounts == IF OpReturns(tx) = {} \/ tx.body.version = "plain" THEN <<>> ELSE MetadataOf(tx).data
        place(v) == Cardinality({u \in DdVouts(outs) : u <= v})
    IN [v \in {u \in DdVouts(outs) : place(u) <= Len(amounts)} |-> amounts[place(v)]]

\* scanDDUtxos(): what an address can spend of it.
DdUtxos(tx, address) ==
    LET amounts == DdAmountsByVout(tx)
    IN [v \in {u \in DOMAIN amounts : tx.body.outs[u].script = address} |-> amounts[v]]

\* scanPositions(): a mint whose metadata name the owner of this address and whose
\* first output is unspent.
OpenPositions(tx, address, spent) ==
    IF tx.body.version # "mint" \/ OpReturns(tx) = {} THEN {}
    ELSE LET meta == MetadataOf(tx)
         IN {[cents |-> leaf[4], lock |-> leaf[3], key |-> meta.key, sats |-> tx.body.outs[1].sats] :
                leaf \in {l \in meta.leaves : P2tr(meta.key) = address /\ 1 \notin spent}}

\* enrichTx(): the first inputs are looked up; the fee is known when all were.
EnrichTx(tx) ==
    LET vin == [i \in DOMAIN tx.body.ins |->
                   IF i > MaxVinResolve THEN Unresolved
                   ELSE [address |-> LockOf(tx.body.ins[i].coin), sats |-> SatsOf(tx.body.ins[i].coin),
                         known |-> TRUE]]
        fee == SatsIn(vin) - SatsIn(tx.body.outs)
    IN [type |-> tx.body.version, vin |-> vin, vout |-> tx.body.outs,
        fee |-> IF (\A i \in DOMAIN vin : vin[i].known) /\ fee >= 0 THEN {fee} ELSE {}]

-----------------------------------------------------------------------------
(* The wallet *)

\* isMine(): one of both addresses of each of its keys.
IsMine(address, keys) ==
    /\ address.shape \in {"p2tr", "p2wpkh"} /\ address.key \in keys
    /\ address = Script(address.shape, address.key)

MineAmong(outs, keys) == {v \in DOMAIN outs : IsMine(outs[v].script, keys)}
OthersAmong(outs, keys) ==
    {v \in DOMAIN outs : outs[v].script.shape # "data" /\ ~IsMine(outs[v].script, keys)}

\* historyRow(): what left is what others get, what arrived is what the wallet gets.
HistoryRow(detail, keys) ==
    LET toOthers == SatsAt(detail.vout, OthersAmong(detail.vout, keys))
        toMine == SatsAt(detail.vout, MineAmong(detail.vout, keys))
        sent == \E i \in DOMAIN detail.vin : detail.vin[i].known /\ IsMine(detail.vin[i].address, keys)
    IN [sent |-> sent,
        fee |-> IF sent THEN detail.fee ELSE {},
        amount |-> CASE detail.type = "mint" -> -toOthers
                     [] detail.type = "redeem" -> toMine
                     [] detail.type = "transfer" -> 0
                     [] OTHER -> IF sent THEN -toOthers ELSE toMine]

-----------------------------------------------------------------------------
(* Properties *)

OurKeys == {k.key : k \in DgbKinds \union DdKinds} \union {Home}

\* What a transaction changes in what the keys can spend, for reference.
BalanceChange(tx) ==
    SatsAt(tx.body.outs, MineAmong(tx.body.outs, OurKeys))
    - SatsAt(tx.body.ins, {i \in DOMAIN tx.body.ins : IsMine(LockOf(tx.body.ins[i].coin), OurKeys)})

\* A row of one's own: it is recognised as sent though only the first inputs are looked
\* up; amount and fee, where there is one, are what the balance lost.  A redemption
\* shows the change of the fee with the collateral.
RowSound(tx) ==
    LET row == HistoryRow(EnrichTx(tx), OurKeys)
        extra == IF tx.body.version # "redeem" THEN 0
                 ELSE SatsAt(tx.body.outs, MineAmong(tx.body.outs, OurKeys) \ {1})
    IN /\ row.sent
       /\ row.fee = {} <=> Len(tx.body.ins) > MaxVinResolve
       /\ row.amount - (SatsIn(tx.body.ins) - SatsIn(tx.body.outs)) - extra = BalanceChange(tx)

\* The cents an address can spend of a transaction are those its metadata give it.
CentsRead(tx, key, cents) ==
    LET utxos == DdUtxos(tx, P2tr(key))
    IN MapThenSumSet(LAMBDA v : utxos[v], DOMAIN utxos) = cents

\* The receiver's cents and the sender's change.  (The review asks for a dollar at least.)
TransfersRead(money, dd) ==
    \A cents \in Needs :
        \A p \in {PlanTransfer(money, dd, cents)} \ {NoPlan} : \A tx \in {ConfirmedTransfer(p)} :
            cents >= MinDd =>
                /\ CentsRead(tx, Payee, cents) /\ CentsRead(tx, p.coin.key, p.coin.cents - cents)
                /\ OpenPositions(tx, P2tr(p.coin.key), {}) = {} /\ RowSound(tx)

\* What a redemption burns beyond its need.
RedeemsRead(money, dd) ==
    \A need \in Needs :
        \A p \in {PlanRedeem(money, dd, need, NoCap)} \ {NoPlan} :
            p.fee # NoCoin => \A tx \in {ConfirmedRedeem(p, need)} :
                CentsRead(tx, Home, InCents(tx) - need) /\ RowSound(tx)

\* One position, its owner's, that a redemption can open, with the collateral it locks;
\* none once that is spent.
MintsRead(money) ==
    \A collateral \in Amounts, owner \in {Home, Payee} :
        \A p \in {PlanMint(money, collateral)} \ {NoPlan} : \A tx \in {ConfirmedMint(p, 100, owner)} :
            /\ CentsRead(tx, owner, 100) /\ RowSound(tx)
            /\ OpenPositions(tx, P2tr(owner), {1}) = {}
            /\ \A other \in OurKeys \union {Payee} :
                  \A position \in OpenPositions(tx, P2tr(other), {}) : other = owner
            /\ Cardinality(OpenPositions(tx, P2tr(owner), {})) = 1
            /\ \A position \in OpenPositions(tx, P2tr(owner), {}) :
                  /\ tx.body.outs[1] = Out(collateral, CollateralScript(owner, position.lock, position.cents))
                  /\ position.sats = collateral /\ position.cents = 100

SpendsRead(money) ==
    \A order \in LargestFirst(money), len \in ScriptLens, amount \in Amounts :
        \A p \in {PlanSpend(order, amount, len)} \ {NoPlan} : \A tx \in {ConfirmedSend(p, order, len)} :
            RowSound(tx)

\* What is built is read back: the cents of its outputs, the position it opens, and a
\* row of the history that says what happened.
ReadAsBuilt ==
    \A money \in {Money}, dd \in {DigiDollars} :
        /\ TransfersRead(money, dd) /\ RedeemsRead(money, dd)
        /\ MintsRead(money) /\ SpendsRead(money)
=============================================================================
