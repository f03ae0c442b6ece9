------------------------------ MODULE TxBuild -------------------------------
(***************************************************************************)
(* What the wallet signs: the transactions that txbuild.js and taproot.js  *)
(* of packages/digidollar-js make of the plans of module TxPlan, and what  *)
(* the node asks of them.                                                  *)
(*                                                                         *)
(* A key stands for itself and its tweak, a hash for what is hashed, and a *)
(* script for its shape, the key that opens it and the leaves it commits   *)
(* to.  The metadata output is `data`: the cents of the DigiDollar outputs *)
(* in their order.                                                         *)
(***************************************************************************)
EXTENDS TxPlan

CONSTANTS
    Payee,      \* somebody else's key
    Tip,        \* the height at which a mint is signed
    LockBlocks  \* what its tier adds

ASSUME TxBuildAssumption == Tip \in Nat /\ LockBlocks \in Nat /\ \A k \in DdKinds : k.key # Payee

NoTx == [refused |-> TRUE]
NoLeaf == <<>>

Script(shape, key) == [shape |-> shape, key |-> key, leaves |-> {}, data |-> <<>>]
P2tr(key) == Script("p2tr", key)
P2wpkh(key) == Script("p2wpkh", key)
Data(amounts) == [Script("data", "none") EXCEPT !.data = amounts]

\* A position is locked by two leaves under a key nobody has; their hashes are joined in
\* their own order, which makes the join a set.
Leaf(path, owner, lock, cents) == <<path, owner, lock, cents>>
Leaves(owner, lock, cents) == {Leaf("normal", owner, lock, cents), Leaf("err", owner, lock, cents)}
\* The metadata of a mint also say whose it is and until when it is locked.
MintData(owner, lock, cents) == [Data(<<cents>>) EXCEPT !.key = owner, !.leaves = {Leaf("normal", owner, lock, cents)}]
CollateralScript(owner, lock, cents) == [P2tr("nums") EXCEPT !.leaves = Leaves(owner, lock, cents)]

\* The script a coin lies under.
LockOf(coin) == IF "script" \in DOMAIN coin THEN coin.script
                ELSE IF "type" \in DOMAIN coin THEN Script(coin.type, coin.key) ELSE P2tr(coin.key)
SatsOf(coin) == IF "sats" \in DOMAIN coin THEN coin.sats ELSE 0

In(coin, script, sequence) == [coin |-> coin, sats |-> SatsOf(coin), script |-> script, sequence |-> sequence]
Out(sats, script) == [sats |-> sats, script |-> script]
IfAny(sats, script) == IF sats > 0 THEN <<Out(sats, script)>> ELSE <<>>

Field(ins, f(_)) == [i \in 1 .. Len(ins) |-> f(ins[i])]
SatsIn(list) == FoldLeft(LAMBDA a, x : a + x.sats, 0, list)
CentsIn(list) == FoldLeft(LAMBDA a, c : a + c.cents, 0, list)

-----------------------------------------------------------------------------
(* Signatures *)

\* BIP-341 covers the whole transaction and every coin it spends; BIP-143 only the
\* amount and the key of the coin it signs for.
TaprootSighash(body, i, leaf) == <<"taproot", body, i, leaf>>
Bip143Sighash(body, i) ==
    <<"v0", body.version, body.locktime, Field(body.ins, LAMBDA n : <<n.coin, n.sequence>>),
      i, body.ins[i].sats, body.ins[i].script.key, body.outs>>

KeySpend(body, i, key) ==
    [key |-> key, hash |-> TaprootSighash(body, i, NoLeaf), leaf |-> NoLeaf, sibling |-> NoLeaf]
LeafPath(body, i, key, lock, cents) ==
    [key |-> key, hash |-> TaprootSighash(body, i, Leaf("normal", key, lock, cents)),
     leaf |-> Leaf("normal", key, lock, cents), sibling |-> Leaf("err", key, lock, cents)]
P2wpkhWitness(body, i, key) ==
    [key |-> key, hash |-> Bip143Sighash(body, i), leaf |-> NoLeaf, sibling |-> NoLeaf]
CoinWitness(body, i, coin) ==
    IF coin.type = "p2wpkh" THEN P2wpkhWitness(body, i, coin.key) ELSE KeySpend(body, i, coin.key)

\* What the node accepts for input i, for reference: it takes the scripts and amounts
\* of the coins themselves.
Unlocks(body, i, witness) ==
    LET known == [body EXCEPT !.ins = Field(body.ins, LAMBDA n : In(n.coin, LockOf(n.coin), n.sequence))]
        lock == known.ins[i].script
    IN \/ /\ lock.shape = "p2wpkh"
          /\ witness.key = lock.key /\ witness.hash = Bip143Sighash(known, i)
       \/ /\ lock.shape = "p2tr" /\ witness.leaf = NoLeaf
          /\ witness.key = lock.key /\ witness.hash = TaprootSighash(known, i, NoLeaf)
       \/ /\ lock.shape = "p2tr" /\ witness.leaf # NoLeaf
          /\ {witness.leaf, witness.sibling} = lock.leaves /\ witness.key = witness.leaf[2]
          /\ witness.hash = TaprootSighash(known, i, witness.leaf)
          /\ body.ins[i].sequence # "final" /\ body.locktime >= witness.leaf[3]

-----------------------------------------------------------------------------
(* The four builders *)

MinDdFee == 10000000     \* MIN_DD_TX_FEE_SATS

\* Recipients, the sender's change, the change of the fee, and the amounts last.
TransferOutputs(to, cents, ddChange, owner, change, changeScript) ==
    LET amounts == IF ddChange > 0 THEN <<cents, ddChange>> ELSE <<cents>>
    IN IF \E i \in 1 .. Len(amounts) : amounts[i] < MinDd THEN <<>>
       ELSE <<Out(0, P2tr(to))>> \o (IF ddChange > 0 THEN <<Out(0, P2tr(owner))>> ELSE <<>>)
            \o IfAny(change, changeScript) \o <<Out(0, Data(amounts))>>

BuildTransfer(coin, fee, to, cents, feeSats, changeScript) ==
    LET outs == TransferOutputs(to, cents, coin.cents - cents, coin.key,
                                Folded(fee.sats - feeSats), changeScript)
        body == [version |-> "transfer", locktime |-> 0, outs |-> outs,
                 ins |-> <<In(coin, P2tr(coin.key), "final"), In(fee, Script(fee.type, fee.key), "final")>>]
    IN IF feeSats < MinDdFee \/ coin.cents < cents \/ fee.sats < feeSats \/ outs = <<>> THEN NoTx
       ELSE [body |-> body, witnesses |-> <<KeySpend(body, 1, coin.key), CoinWitness(body, 2, fee)>>]

\* The collateral comes back first; a change of DigiDollar has no least amount here.
RedeemOutputs(collateral, owner, ddChange, change, changeScript) ==
    <<Out(collateral, P2tr(owner))>>
    \o (IF ddChange > 0 THEN <<Out(0, P2tr(owner)), Out(0, Data(<<ddChange>>))>> ELSE <<>>)
    \o IfAny(change, changeScript)

\* The owner's key is that of the first coin burned.
BuildRedeem(position, burn, fee, feeSats, changeScript) ==
    LET owner == burn[1].key
        ddChange == CentsIn(burn) - position.cents
        body == [version |-> "redeem", locktime |-> position.lock,
                 ins |-> <<In(position, CollateralScript(owner, position.lock, position.cents), "cltv")>>
                         \o Field(burn, LAMBDA c : In(c, P2tr(owner), "cltv"))
                         \o <<In(fee, Script(fee.type, fee.key), "final")>>,
                 outs |-> RedeemOutputs(position.sats, owner, ddChange,
                                        Folded(fee.sats - feeSats), changeScript)]
        witness(i) == IF i = 1 THEN LeafPath(body, 1, owner, position.lock, position.cents)
                      ELSE IF i = Len(body.ins) THEN CoinWitness(body, i, fee)
                      ELSE KeySpend(body, i, owner)
    IN IF feeSats < MinDdFee \/ ddChange < 0 \/ fee.sats < feeSats THEN NoTx
       ELSE [body |-> body, witnesses |-> [i \in 1 .. Len(body.ins) |-> witness(i)]]

BuildSpend(coins, to, amount, feeSats, changeScript) ==
    LET total == SatsIn(coins)
        body == [version |-> "plain", locktime |-> 0,
                 ins |-> Field(coins, LAMBDA c : In(c, Script(c.type, c.key), "rbf")),
                 outs |-> <<Out(amount, to)>> \o IfAny(Folded(total - amount - feeSats), changeScript)]
    IN IF total < amount + feeSats THEN NoTx
       ELSE [body |-> body, witnesses |-> [i \in 1 .. Len(coins) |-> CoinWitness(body, i, coins[i])]]

\* The signer funds and keeps the change, under a script that is no taproot; the owner
\* may be somebody else.
BuildMint(coin, owner, cents, collateral, feeSats) ==
    LET unlock == Tip + 1 + 100 + LockBlocks
        body == [version |-> "mint", locktime |-> 0, ins |-> <<In(coin, P2tr(coin.key), "rbf")>>,
                 outs |-> <<Out(collateral, CollateralScript(owner, unlock, cents)),
                            Out(0, P2tr(owner)), Out(0, MintData(owner, unlock, cents))>>
                          \o IfAny(Folded(coin.sats - collateral - feeSats), P2wpkh(coin.key))]
    IN IF feeSats < MinDdFee \/ coin.sats < collateral + feeSats THEN NoTx
       ELSE [body |-> body, witnesses |-> <<KeySpend(body, 1, coin.key)>>]

-----------------------------------------------------------------------------
(* What the confirm handlers of the wallet make of a plan.  Change stays on a script   *)
(* the wallet watches.                                                                 *)

Received == P2tr(Home)   \* the current receive address

ConfirmedSend(p, order, len) ==
    BuildSpend(SubSeq(order, 1, Cardinality(p.inputs)), Script("foreign", len), p.amount, p.fee, Received)
ConfirmedTransfer(p) == BuildTransfer(p.coin, p.fee, Payee, p.cents, DdFee, P2tr(p.coin.key))
ConfirmedLeg(leg, fee) == BuildTransfer(leg.coin, fee, Home, leg.cents, DdFee, P2tr(leg.coin.key))

\* Once the legs are confirmed, what they moved lies on the position's own address.
Reached(p) == {[cents |-> p.legs[i].cents, key |-> Home, copy |-> -i] : i \in 1 .. Len(p.legs)}
PositionOf(need) ==
    [sats |-> 5 * Fold, cents |-> need, lock |-> Tip, key |-> Home,
     script |-> CollateralScript(Home, Tip, need)]
ConfirmedRedeem(p, need) ==
    BuildRedeem(PositionOf(need), Falling(PlanBurn(p.burn \union Reached(p), need), CentsOf), p.fee, DdFee, Received)
ConfirmedMint(p, cents, owner) == BuildMint(p.coin, owner, cents, p.collateral, DdFee)

-----------------------------------------------------------------------------
(* Properties *)

CoinsSpent(tx) == {tx.body.ins[i].coin : i \in 1 .. Len(tx.body.ins)}
Metadata(tx) == {i \in 1 .. Len(tx.body.outs) : tx.body.outs[i].script.shape = "data"}
Tokens(tx) == {i \in 1 .. Len(tx.body.outs) : tx.body.outs[i].sats = 0 /\ tx.body.outs[i].script.shape = "p2tr"}
AmountsOf(tx) == IF Metadata(tx) = {} THEN <<>> ELSE tx.body.outs[Min(Metadata(tx))].script.data
InCents(tx) == Cents({c \in CoinsSpent(tx) : "cents" \in DOMAIN c /\ "sats" \notin DOMAIN c})
Total(list) == FoldLeft(LAMBDA a, c : a + c, 0, list)
OutCents(tx) == Total(AmountsOf(tx))

\* Of every transaction: it was not refused, no coin is spent twice, each input opens, no
\* output is dust, and the fee is the one planned but for a folded change.
Accepted(tx, feeSats, given) ==
    /\ tx # NoTx
    /\ \A i, j \in 1 .. Len(tx.body.ins) : tx.body.ins[i].coin = tx.body.ins[j].coin => i = j
    /\ \A i \in 1 .. Len(tx.body.ins) : Unlocks(tx.body, i, tx.witnesses[i])
    /\ \A i \in 1 .. Len(tx.body.outs) :
          LET o == tx.body.outs[i]
          IN o.sats >= Fold \/ (o.sats = 0 /\ tx.body.version # "plain") \/ o.script = given
    /\ SatsIn(tx.body.ins) - SatsIn(tx.body.outs) \in feeSats .. feeSats + Fold - 1

\* The amounts of a DigiDollar transaction stand for its token outputs one by one, and
\* conserve the cents but for `burned` of them (made, when negative).
Conserved(tx, burned) ==
    /\ Cardinality(Metadata(tx)) <= 1
    /\ Len(AmountsOf(tx)) = Cardinality(Tokens(tx))
    /\ InCents(tx) = OutCents(tx) + burned

\* The receiver gets the cents that were asked for, not the change.
TransferSound(tx, to, cents) ==
    /\ Accepted(tx, DdFee, NoLeaf) /\ Conserved(tx, 0)
    /\ Metadata(tx) = {Len(tx.body.outs)} /\ Tokens(tx) = 1 .. Len(AmountsOf(tx))
    /\ \A i \in Tokens(tx) :
          /\ AmountsOf(tx)[i] >= MinDd
          /\ tx.body.outs[i].script.key = to <=> AmountsOf(tx)[i] = cents /\ i = 1

\* The collateral alone may look like it.
MintSound(tx, cents) ==
    /\ Accepted(tx, DdFee, tx.body.outs[1].script) /\ Conserved(tx, -cents)
    /\ {i \in 1 .. Len(tx.body.outs) : tx.body.outs[i].sats > 0 /\ tx.body.outs[i].script.shape = "p2tr"} = {1}

\* What a review plans its confirm can sign, and the node accepts.  (Plans and
\* transactions are bound variables, which TLC computes once.)
SpendsBuilt(money) ==
    \A order \in LargestFirst(money), len \in ScriptLens, amount \in Amounts :
        \A p \in {PlanSpend(order, amount, len)} \ {NoPlan} : \A tx \in {ConfirmedSend(p, order, len)} :
            Accepted(tx, p.fee, Script("foreign", len))

TransfersBuilt(money, dd) ==
    \A cents \in Needs :
        \A p \in {PlanTransfer(money, dd, cents)} \ {NoPlan} : \A tx \in {ConfirmedTransfer(p)} :
            cents >= MinDd => TransferSound(tx, Payee, cents)

RedeemsBuilt(money, dd) ==
    \A need \in Needs :
        \A p \in {PlanRedeem(money, dd, need, NoCap)} \ {NoPlan} :
            /\ \A i \in 1 .. Len(p.legs) : \A tx \in {ConfirmedLeg(p.legs[i], p.fees[i])} :
                  TransferSound(tx, Home, p.legs[i].cents)
            /\ p.fee # NoCoin => \A tx \in {ConfirmedRedeem(p, need)} :
                  /\ Accepted(tx, DdFee, NoLeaf) /\ Conserved(tx, need)
                  /\ tx.body.outs[1] = Out(PositionOf(need).sats, P2tr(Home))

MintsBuilt(money) ==
    \A collateral \in Amounts, owner \in {Home, Payee} :
        \A p \in {PlanMint(money, collateral)} \ {NoPlan} : \A tx \in {ConfirmedMint(p, 100, owner)} :
            MintSound(tx, 100)

BuildsSound(money, dd) ==
    /\ SpendsBuilt(money) /\ TransfersBuilt(money, dd)
    /\ RedeemsBuilt(money, dd) /\ MintsBuilt(money)

\* Whatever coins the wallet holds and whatever is asked of them, what is planned can
\* be signed and will be relayed, creates no dust, uses no coin twice and leaves
\* nothing over; and what is refused could not be done.  (An empty wallet plans nothing.)
PlansSound ==
    /\ ManySound /\ QuotesSound
    /\ \A money \in {Money}, dd \in {DigiDollars} : money \union dd # {} =>
          /\ SpendsSound(money) /\ TransfersSound(money, dd)
          /\ RedeemsSound(money, dd) /\ MintsSound(money)
          /\ BuildsSound(money, dd)
=============================================================================
