------------------------------- MODULE TxPlan -------------------------------
(***************************************************************************)
(* What the wallet would sign: the coin selection, fees and outputs of     *)
(* packages/digidollar-js/src/txbuild.js and index.js, and the coin picks  *)
(* of the transfer, redeem and mint reviews of apps/wallet/public/app.js.  *)
(* The operators are pure; the only state is the wallet's coins, of which  *)
(* there are more and more.                                                *)
(*                                                                         *)
(* A DGB coin is [sats, type, key, copy], a DigiDollar coin (whose         *)
(* on-chain value is 0) is [cents, key, copy]; the copy tells equal coins  *)
(* apart.  Money is in satoshis and cents, as in the code, except that a   *)
(* coin of a DGB is `Coin` of the units the collateral is reckoned in.     *)
(***************************************************************************)
EXTENDS Integers, Sequences, FiniteSets, FiniteSetsExt, SequencesExt

CONSTANTS
    DgbKinds,   \* the DGB coins that can arrive, without their copy
    DdKinds,    \* the DigiDollar coins that can arrive
    MaxCoins,   \* bound: coins the wallet holds
    Amounts,    \* the amounts one asks to send, in satoshis
    ScriptLens, \* the lengths of a recipient's script
    Home,       \* the key of the position that is redeemed
    Needs,      \* the cents of DigiDollar a transfer sends or a position burns
    Cap,        \* the device's ceiling for one transfer, in cents
    Coin, Ratios, DcaBps, Prices   \* of a mint: COIN and what its quote depends on

ASSUME TxPlanAssumption ==
    /\ MaxCoins \in Nat /\ Coin \in Nat \ {0} /\ Cap \in Nat
    /\ Amounts \subseteq Nat \ {0} /\ Needs \subseteq Nat \ {0}
    /\ Ratios \subseteq Nat \ {0} /\ DcaBps \subseteq Nat \ {0} /\ Prices \subseteq Nat \ {0}
    /\ ScriptLens \subseteq Nat
    /\ IsFiniteSet(DgbKinds) /\ \A k \in DgbKinds : k.sats \in Nat /\ k.type \in {"p2wpkh", "p2tr"}
    /\ IsFiniteSet(DdKinds) /\ \A k \in DdKinds : k.cents \in Nat

VARIABLE held  \* kind -> the coins of that kind in the wallet

CoinsOf(k) == {[sats |-> k.sats, type |-> k.type, key |-> k.key, copy |-> i] : i \in 1 .. held[k]}
DollarsOf(k) == {[cents |-> k.cents, key |-> k.key, copy |-> i] : i \in 1 .. held[k]}
Money == UNION {CoinsOf(k) : k \in DgbKinds}
DigiDollars == UNION {DollarsOf(k) : k \in DdKinds}

Sats(S) == MapThenSumSet(LAMBDA c : c.sats, S)
Cents(S) == MapThenSumSet(LAMBDA c : c.cents, S)
CeilDiv(n, d) == (n + d - 1) \div d

NoPlan == [none |-> TRUE]
NoCoin == [sats |-> 0, type |-> "none", key |-> "none", copy |-> 0]

-----------------------------------------------------------------------------
(* Weights and fees *)

FeeRate == 100000        \* STANDARD_FEE_RATE_SATS_PER_KVB
DdFee == 12000000        \* TRANSFER_FEE_SATS, REDEEM_FEE_SATS and MINT_FEE_SATS
Fold == 100000           \* CHANGE_FOLD_SATS
MinDd == 100             \* MIN_DD_OUTPUT_CENTS

TaprootLen == 34
OutputWeight(len) == (9 + len) * 4
Segwit(S) == Cardinality({c \in S : c.type = "p2wpkh"})
Taproot(S) == Cardinality({c \in S : c.type # "p2wpkh"})
InputsWeight(S) == 272 * Segwit(S) + 230 * Taproot(S)

\* inputCountExtraWu(): from 253 inputs on their count takes three bytes.
InputCountExtra(n) == IF n < 253 THEN 0 ELSE 8

\* The fee of a transaction with n inputs of this weight and outputs of that: vbytes
\* are rounded up, and so are satoshis.
FeeOf(n, insWu, outsWu) ==
    LET weight == 42 + InputCountExtra(n) + insWu + outsWu
    IN CeilDiv(CeilDiv(weight, 4) * FeeRate, 1000)
Fee(S, outsWu) == FeeOf(Cardinality(S), InputsWeight(S), outsWu)

\* What serializeTx() writes, for reference: the weight of a signed transaction, a
\* signature being as long as it can be.
VarInt(n) == IF n < 253 THEN 1 ELSE 3
OutputBytes(lens) == FoldLeft(LAMBDA a, len : a + 9 + len, 0, lens)
SignedWeight(S, lens) ==
    LET witness == Segwit(S) * (1 + 73 + 34) + Taproot(S) * (1 + 65)
        body == 4 + VarInt(Cardinality(S)) + 41 * Cardinality(S) + VarInt(Len(lens)) + OutputBytes(lens) + 4
    IN 4 * body + 2 + witness
RelayFee(S, lens) == CeilDiv(CeilDiv(SignedWeight(S, lens), 4) * FeeRate, 1000)

-----------------------------------------------------------------------------
(* Plain spends *)

\* The coins one by one, the largest that is left next.
Falling(S, value(_)) ==
    MapThenFoldSet(LAMBDA c, rest : <<c>> \o rest, <<>>, LAMBDA c : c,
                   LAMBDA T : CHOOSE c \in T : \A d \in T : value(c) >= value(d), S)
CentsOf(c) == c.cents

\* The orders a sort by falling value may return: equal coins come in any.
LargestFirst(S) == {o \in SetToSeqs(S) : \A i, j \in 1 .. Len(o) : i < j => o[i].sats >= o[j].sats}

\* planSpend(): the shortest prefix that covers the amount and its own fee, a change
\* output counted in.
PlanSpend(order, amount, len) ==
    LET prefix(i) == {order[j] : j \in 1 .. i}
        fee(i) == Fee(prefix(i), OutputWeight(len) + OutputWeight(TaprootLen))
        enough == {i \in 1 .. Len(order) : Sats(prefix(i)) >= amount + fee(i)}
    IN IF enough = {} THEN NoPlan
       ELSE [inputs |-> prefix(Min(enough)), amount |-> amount, fee |-> fee(Min(enough))]

\* planMaxSpend(): every coin in, one output, no change.
PlanMaxSpend(S, len) ==
    LET fee == Fee(S, OutputWeight(len))
    IN IF S = {} \/ Sats(S) <= fee THEN NoPlan
       ELSE [inputs |-> S, amount |-> Sats(S) - fee, fee |-> fee]

Folded(change) == IF change < Fold THEN 0 ELSE change

\* buildSignedSpendTx(): near-dust change goes to the fee.
SpendChange(p) == Folded(Sats(p.inputs) - p.amount - p.fee)
SpendLens(p, len) == IF SpendChange(p) > 0 THEN <<len, TaprootLen>> ELSE <<len>>

-----------------------------------------------------------------------------
(* DigiDollar: transfers, redemptions, mints *)

Smallest(S) == CHOOSE c \in S : \A d \in S : c.sats <= d.sats

\* pickFeeUtxo(): a taproot coin of the preferred key, any taproot coin, any coin.
PickFee(S, prefer) ==
    LET free == {c \in S : c.sats >= DdFee}
        taproot == {c \in free : c.type # "p2wpkh"}
        own == {c \in taproot : c.key = prefer}
        tier == IF own # {} THEN own ELSE IF taproot # {} THEN taproot ELSE free
    IN IF tier = {} THEN NoCoin ELSE Smallest(tier)

\* A DigiDollar output of a transfer is a dollar at least, the change too; one that
\* would be 0 is not made.
LegalDd(cents) == cents = 0 \/ cents >= MinDd

\* The transfer review: the smallest coin that covers the amount and leaves legal
\* change, with a fee coin.
PlanTransfer(money, dd, cents) ==
    LET fitting == {c \in dd : c.cents >= cents /\ LegalDd(c.cents - cents)}
        coin == CHOOSE c \in fitting : \A d \in fitting : c.cents <= d.cents
    IN IF fitting = {} \/ PickFee(money, coin.key) = NoCoin THEN NoPlan
       ELSE [coin |-> coin, cents |-> cents, fee |-> PickFee(money, coin.key)]

\* Mutant: a leg moves what is missing, whatever change that leaves.
MovedPart(coin, missing) == Min({coin.cents, missing})

\* What a gather leg moves: what is missing, or the whole coin when either part
\* would be below a dollar.
Moved(coin, missing) ==
    LET part == Min({coin.cents, missing})
    IN IF part < MinDd \/ ~LegalDd(coin.cents - part) THEN coin.cents ELSE part

NoCap == 0   \* capCents null, or 0

\* A coin adds a leg while something is missing, unless it is too small or would move
\* more than the ceiling allows.
WithLeg(acc, c, cap) ==
    IF acc.missing <= 0 \/ c.cents < MinDd \/ (cap # NoCap /\ Moved(c, acc.missing) > cap) THEN acc
    ELSE [legs |-> Append(acc.legs, [coin |-> c, cents |-> Moved(c, acc.missing)]),
          missing |-> acc.missing - Moved(c, acc.missing)]

\* planGather(): from the largest coin on, one leg a coin, until nothing is missing.
PlanGather(order, shortfall, cap) ==
    LET end == FoldLeft(LAMBDA acc, c : WithLeg(acc, c, cap), [legs |-> <<>>, missing |-> shortfall], order)
    IN IF end.missing > 0 THEN NoPlan ELSE [legs |-> end.legs]

\* The burn: the largest coins of the position's own key, until they suffice.
PlanBurn(dd, need) ==
    LET own == Falling({c \in dd : c.key = Home}, CentsOf)
        before(i) == Cents({own[j] : j \in 1 .. i - 1})
    IN {own[i] : i \in {i \in 1 .. Len(own) : before(i) < need}}

\* The fee coins of the legs, each picked among those the earlier ones left.
LegFees(money, legs) ==
    FoldLeft(LAMBDA acc, l : Append(acc, PickFee(money \ {acc[i] : i \in 1 .. Len(acc)}, l.coin.key)),
             <<>>, legs)

\* Redeem: a burn, the legs that complete it, and a fee coin, which may be the
\* change of a leg's.
PlanRedeem(money, dd, need, cap) ==
    LET burn == PlanBurn(dd, need)
        short == need - Cents(burn)
        gather == IF short <= 0 THEN [legs |-> <<>>]
                  ELSE PlanGather(Falling({c \in dd : c.key # Home}, CentsOf), short, cap)
        fees == LegFees(money, gather.legs)
        taken == {fees[i] : i \in 1 .. Len(fees)}
        own == PickFee(money \ taken, IF burn = {} THEN "none" ELSE Home)
        change == \E c \in taken : c.sats - DdFee >= DdFee
    IN IF Cents(dd) < need \/ gather = NoPlan THEN NoPlan
       ELSE IF NoCoin \in taken \/ (own = NoCoin /\ ~change) THEN NoPlan
       ELSE [burn |-> burn, legs |-> gather.legs, fees |-> fees, fee |-> own]

\* effectiveRatioPercent() and requiredCollateralSats(): rounded up, and one percent
\* on top, rounded down.
EffectiveRatio(ratio, dca) == CeilDiv(ratio * dca, 10000)
BaseCollateral(cents, ratio, dca, price) == CeilDiv(cents * Coin * EffectiveRatio(ratio, dca) * 100, price)
Collateral(cents, ratio, dca, price) ==
    LET base == BaseCollateral(cents, ratio, dca, price) IN base + base \div 100

\* The mint review: the smallest taproot coin that covers the collateral and the fee.
PlanMint(money, collateral) ==
    LET fitting == {c \in money : c.type # "p2wpkh" /\ c.sats >= collateral + DdFee}
    IN IF fitting = {} THEN NoPlan
       ELSE [coin |-> Smallest(fitting), collateral |-> collateral,
             change |-> Folded(Smallest(fitting).sats - collateral - DdFee)]

-----------------------------------------------------------------------------
(* The wallet's coins *)

PlanInit == held = [k \in DgbKinds \union DdKinds |-> 0]

\* One more coin is confirmed.
Receive(k) ==
    /\ Cardinality(Money) + Cardinality(DigiDollars) < MaxCoins
    /\ held' = [held EXCEPT ![k] = @ + 1]

PlanNext == \E k \in DgbKinds \union DdKinds : Receive(k)

PlanSpec == PlanInit /\ [][PlanNext]_held

-----------------------------------------------------------------------------
(* Properties *)

\* Enough for the network, and no dust: what a transaction pays is at least the
\* relay fee of its own bytes, and less than that fee and a folded change.
SpendSound(p, len) ==
    LET paid == Sats(p.inputs) - p.amount - SpendChange(p)
    IN /\ paid >= RelayFee(p.inputs, SpendLens(p, len))
       /\ paid < p.fee + Fold
       /\ SpendChange(p) = 0 \/ SpendChange(p) >= Fold

\* No set of coins would do, were every input priced like the dearest.
Hopeless(S, amount, len) ==
    \A T \in SUBSET S :
        Sats(T) < amount + FeeOf(Cardinality(T), 272 * Cardinality(T),
                                 OutputWeight(len) + OutputWeight(TaprootLen))

SpendsSound(money) ==
    \A len \in ScriptLens :
        /\ \A amount \in Amounts, order \in LargestFirst(money) :
              LET p == PlanSpend(order, amount, len)
              IN IF p = NoPlan THEN Hopeless(money, amount, len) ELSE SpendSound(p, len)
        /\ LET p == PlanMaxSpend(money, len)
           IN p # NoPlan => SpendSound(p, len) /\ SpendChange(p) = 0

\* A consolidation of many coins is priced for what it weighs.
Many(n) == {[sats |-> 60000, type |-> "p2tr", key |-> Home, copy |-> i] : i \in 1 .. n}
ManySound ==
    \A n \in {1, 252, 253} : Fee(Many(n), OutputWeight(TaprootLen)) >= RelayFee(Many(n), <<TaprootLen>>)

TransfersSound(money, dd) ==
    \A cents \in Needs :
        LET p == PlanTransfer(money, dd, cents)
        IN cents >= MinDd =>
              IF p = NoPlan
              THEN \/ \A c \in money : c.sats < DdFee
                   \/ \A c \in dd : c.cents < cents \/ c.cents - cents \in 1 .. MinDd - 1
              ELSE p.fee \in money /\ p.fee.sats - DdFee >= 0 /\ LegalDd(p.coin.cents - cents)

\* What a redemption moves and burns: every leg is legal and under the ceiling, no
\* coin is used twice, and the burn is covered once the legs have arrived.
RedeemSound(p, need, cap) ==
    LET legs == {p.legs[i] : i \in 1 .. Len(p.legs)}
        taken == {p.fees[i] : i \in 1 .. Len(p.fees)}
    IN /\ \A l \in legs : l.cents >= MinDd /\ (cap # NoCap => l.cents <= cap) /\ LegalDd(l.coin.cents - l.cents)
       /\ Cardinality({l.coin : l \in legs}) = Len(p.legs) /\ Cardinality(taken) = Len(p.legs)
       /\ {l.coin : l \in legs} \intersect p.burn = {}
       /\ p.fee \notin taken
       /\ \A c \in taken : c.sats >= DdFee
       /\ p.fee = NoCoin => \E c \in taken : c.sats >= 2 * DdFee
       /\ Cents(p.burn) + Cents(legs) >= need

\* Without a ceiling a redemption is refused only when the DigiDollar that can move
\* or the coins for the fees do not suffice.
RefusedRightly(money, dd, need) ==
    LET own == {c \in dd : c.key = Home}
        others == dd \ own
        feeCoins == {c \in money : c.sats >= DdFee}
    IN \/ Cents(own) + Cents({c \in others : c.cents >= MinDd}) < need
       \/ LET legs == IF Cents(own) >= need THEN 0
                      ELSE Len(PlanGather(Falling(others, CentsOf), need - Cents(own), NoCap).legs)
          IN \/ Cardinality(feeCoins) < legs
             \/ Cardinality(feeCoins) = legs /\ \A c \in feeCoins : c.sats < 2 * DdFee

RedeemsSound(money, dd) ==
    \A need \in Needs, cap \in {Cap, NoCap} :
        LET p == PlanRedeem(money, dd, need, cap)
        IN IF p = NoPlan THEN cap = NoCap => RefusedRightly(money, dd, need) ELSE RedeemSound(p, need, cap)

\* A mint locks enough at its price and ratio, not two percent too much but for the
\* rounding.
QuotesSound ==
    \A cents \in Needs, ratio \in Ratios, dca \in DcaBps, price \in Prices :
        LET c == Collateral(cents, ratio, dca, price)
            owed == cents * Coin * EffectiveRatio(ratio, dca) * 100
        IN c * price >= owed /\ (c - c \div 50 - 2) * price <= owed

\* What its coin holds beyond that is the fee and a change that is no dust.
MintsSound(money) ==
    \A collateral \in Amounts :
        LET p == PlanMint(money, collateral)
        IN IF p = NoPlan
           THEN \A c \in money : c.type = "p2tr" => c.sats < collateral + DdFee
           ELSE /\ p.change = 0 \/ p.change >= Fold
                /\ p.coin.sats - collateral - p.change \in DdFee .. DdFee + Fold - 1
=============================================================================
