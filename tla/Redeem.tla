------------------------------- MODULE Redeem -------------------------------
(***************************************************************************)
(* Redeeming a position (apps/wallet/public/app.js, the redeem flow, and   *)
(* buildSignedRedeemTx() of digidollar-js): the DigiDollar to burn must    *)
(* lie on the position's own address, under one key.  What is missing      *)
(* there is gathered first, one transfer a coin, and burned once it is     *)
(* confirmed.  Reviews, cancellations and a confirmation that waits for    *)
(* minutes interleave in one tab, over one `pendingRedeem`; other devices  *)
(* spend the same coins.                                                   *)
(*                                                                         *)
(* Every coin is worth one unit; what a leg moves of a larger coin, the    *)
(* fees and the ceiling are the business of TxPlan.                        *)
(***************************************************************************)
EXTENDS Integers, Sequences, FiniteSets

CONSTANTS
    Positions,    \* the positions, each with an address of its own
    Away,         \* the wallet's other addresses
    DdIds,        \* DigiDollar coins, kept across the moves
    Need,         \* position -> the coins its redemption burns
    MaxRedeems,   \* bound: redeem reviews started
    MaxOutside    \* bound: coins spent elsewhere

ASSUME RedeemAssumption ==
    /\ Away \notin Positions
    /\ Need \in [Positions -> Nat \ {0}]
    /\ IsFiniteSet(DdIds)
    /\ MaxRedeems \in Nat /\ MaxOutside \in Nat

VARIABLES
    dd,          \* coin -> where it lies, whether in a block, its moves, who made the last
    planning,    \* the reviews under way
    pending,     \* pendingRedeem
    gathers,     \* review -> its gather: the legs, and whether it is done
    going,       \* the confirmation under way
    redemptions, \* the redemptions that were signed
    redeemed,    \* the positions whose collateral is free
    outside      \* coins spent elsewhere

redeemVars == <<dd, planning, pending, gathers, going, redemptions, redeemed, outside>>

\* A coin as a transaction names it: after a move it is another one.
Ref(c) == [id |-> c, hop |-> dd[c].hop]
Unspent(r) == dd[r.id].hop = r.hop /\ dd[r.id].stage # "gone"
CoinsAt(a) == {Ref(c) : c \in {c \in DdIds : dd[c].at = a /\ dd[c].stage # "gone"}}
Confirmed(S) == {r \in S : dd[r.id].stage = "block"}
AllCoins == UNION {CoinsAt(a) : a \in Positions \union {Away}}

\* A burn remembers the review it was picked for.
NoBurn == [coins |-> {}, by |-> 0]
NoRedeem == [number |-> 0, pos |-> Away, burn |-> NoBurn, deferred |-> FALSE, signed |-> 0]
NotGoing == [phase |-> "none", number |-> 0, pos |-> Away, sent |-> {}, burn |-> NoBurn, tx |-> 0]
NoGather == [legs |-> {}, done |-> FALSE]

Throws == going' = NotGoing

-----------------------------------------------------------------------------
(* The review *)

\* The coins of the position, as many as it needs; the legs that bring the rest.  The fee
\* coin may be left to be the change of a leg.
Burns(S, n) == {T \in SUBSET S : Cardinality(T) = IF n < Cardinality(S) THEN n ELSE Cardinality(S)}

RedeemReviewStarts(p) ==
    /\ p \notin redeemed /\ Len(gathers) < MaxRedeems
    /\ Cardinality(AllCoins) >= Need[p]
    /\ \E burn \in Burns(CoinsAt(p), Need[p]), deferred \in BOOLEAN :
       \E legs \in Burns(AllCoins \ CoinsAt(p), Need[p] - Cardinality(burn)) :
          /\ deferred => legs # {}
          /\ gathers' = Append(gathers, [NoGather EXCEPT !.legs = legs])
          /\ planning' = planning \union {[number |-> Len(gathers'), pos |-> p, signed |-> 0,
                          deferred |-> deferred, burn |-> [coins |-> burn, by |-> Len(gathers')]]}
    /\ UNCHANGED <<dd, pending, going, redemptions, redeemed, outside>>

\* The coins are known and so are the fees: the plan replaces whatever waits.  A
\* review that fails is one that is never done.
RedeemReviewDone(plan) ==
    /\ planning' = planning \ {plan}
    /\ pending' = plan
    /\ UNCHANGED <<dd, gathers, going, redemptions, redeemed, outside>>

\* Cancel; a lock or a switch ends the draft the same way.
RedeemCancelled ==
    /\ pending # NoRedeem
    /\ pending' = NoRedeem
    /\ UNCHANGED <<dd, planning, gathers, going, redemptions, redeemed, outside>>

-----------------------------------------------------------------------------
(* Confirm & redeem *)

Gather(n) == IF n = 0 THEN NoGather ELSE gathers[n]

\* Mutant: the builder does not compare.
AnyBurn(p, burn) == burn.coins # {}

\* buildSignedRedeemTx(): the DigiDollar in covers what was minted.
Covers(p, burn) == Cardinality(burn.coins) >= Need[p]

\* Signed once, for the position and with the burn that the confirmation g has, and
\* kept in the draft d there is now; a draft that was signed is sent as it is.
Signs(g, d, burn) ==
    LET tx == Cardinality(redemptions) + 1
    IN CASE d.signed # 0 ->
              /\ going' = [g EXCEPT !.phase = "send", !.tx = d.signed]
              /\ pending' = d /\ UNCHANGED redemptions
         [] d.signed = 0 /\ Covers(g.pos, burn) ->
              /\ redemptions' = redemptions \union
                    {[tx |-> tx, pos |-> g.pos, burn |-> burn.coins, own |-> burn.by = g.number,
                      gathered |-> Gather(g.number).legs # {}]}
              /\ going' = [g EXCEPT !.phase = "send", !.tx = tx]
              /\ pending' = [d EXCEPT !.signed = tx]
         [] OTHER -> Throws /\ pending' = d /\ UNCHANGED redemptions

\* The burn is the draft's of now; a fee coin still to be found is waited for.
Proceeds(g, d) ==
    IF d.deferred
    THEN /\ going' = [g EXCEPT !.phase = "fee", !.burn = d.burn]
         /\ pending' = d /\ UNCHANGED redemptions
    ELSE Signs(g, d, d.burn)

Goes ==
    /\ pending # NoRedeem /\ going = NotGoing
    /\ LET g == [NotGoing EXCEPT !.number = pending.number, !.pos = pending.pos]
       IN IF Gather(g.number).legs = {} \/ Gather(g.number).done THEN Proceeds(g, pending)
          ELSE going' = [g EXCEPT !.phase = "legs"] /\ UNCHANGED <<pending, redemptions>>
    /\ UNCHANGED <<dd, planning, gathers, redeemed, outside>>

\* A leg is broadcast, the same bytes each time: the node takes it, or has it.
LegTaken(r) ==
    /\ going.phase = "legs" /\ r \in Gather(going.number).legs \ going.sent
    /\ \/ /\ Unspent(r)
          /\ dd' = [dd EXCEPT ![r.id] = [at |-> going.pos, stage |-> "mempool", hop |-> r.hop + 1,
                                         by |-> going.number]]
       \/ /\ dd[r.id].hop = r.hop + 1 /\ dd[r.id].by = going.number /\ dd[r.id].stage = "mempool"
          /\ UNCHANGED dd
    /\ \/ going' = [going EXCEPT !.sent = @ \union {r}]
       \/ Throws
    /\ UNCHANGED <<planning, pending, gathers, redemptions, redeemed, outside>>

\* The leg's coin is spent, by another or by the leg itself, which is in a block: an
\* answer nobody reads as success.  Or there was no answer.
LegFails ==
    /\ going.phase = "legs" /\ Throws
    /\ UNCHANGED <<dd, planning, pending, gathers, redemptions, redeemed, outside>>

\* waitForDdOnAddress(): confirmed coins suffice.  Cancelled meanwhile, nothing more
\* happens; planned anew meanwhile, it does.
Arrived ==
    /\ going.phase = "legs" /\ Gather(going.number).legs = going.sent
    /\ Cardinality(Confirmed(CoinsAt(going.pos))) >= Need[going.pos]
    /\ IF pending = NoRedeem THEN Throws /\ UNCHANGED gathers
       ELSE /\ gathers' = [gathers EXCEPT ![going.number].done = TRUE]
            /\ going' = [going EXCEPT !.phase = "scan"]
    /\ UNCHANGED <<dd, planning, pending, redemptions, redeemed, outside>>

\* The coins are scanned again; they become the burn of the draft there is now.
Rescanned ==
    /\ going.phase = "scan"
    /\ \E burn \in Burns(Confirmed(CoinsAt(going.pos)), Need[going.pos]) :
          IF Cardinality(burn) < Need[going.pos] \/ pending = NoRedeem
          THEN Throws /\ UNCHANGED <<pending, redemptions>>
          ELSE Proceeds(going, [pending EXCEPT !.burn = [coins |-> burn, by |-> going.number]])
    /\ UNCHANGED <<dd, planning, gathers, redeemed, outside>>

\* A leg's change pays the fee; the burn was read before the wait.
FeePicked ==
    /\ going.phase = "fee" /\ pending # NoRedeem
    /\ Signs(going, [pending EXCEPT !.deferred = FALSE], going.burn)
    /\ UNCHANGED <<dd, planning, gathers, redeemed, outside>>

\* The scan is incomplete, the change is not indexed yet, or the draft is gone.
RescanFails ==
    /\ going.phase \in {"scan", "fee"} /\ Throws
    /\ UNCHANGED <<dd, planning, pending, gathers, redemptions, redeemed, outside>>

\* The node takes it: the coins are burned, the flow is over, whichever draft there is.
RedeemTaken(t) ==
    /\ going.phase = "send" /\ t.tx = going.tx /\ t.pos \notin redeemed
    /\ \A r \in t.burn : Unspent(r)
    /\ redeemed' = redeemed \union {t.pos}
    /\ dd' = [c \in DdIds |-> IF Ref(c) \in t.burn THEN [dd[c] EXCEPT !.stage = "gone"] ELSE dd[c]]
    /\ \/ pending' = NoRedeem
       \/ UNCHANGED pending   \* the answer was lost
    /\ Throws
    /\ UNCHANGED <<planning, gathers, redemptions, outside>>

\* It is refused, or nothing is heard: the draft stays for another attempt.
RedeemFails ==
    /\ going.phase = "send" /\ Throws
    /\ UNCHANGED <<dd, planning, pending, gathers, redemptions, redeemed, outside>>

-----------------------------------------------------------------------------
(* The chain *)

DdMined(c) ==
    /\ dd[c].stage = "mempool" /\ dd' = [dd EXCEPT ![c].stage = "block"]
    /\ UNCHANGED <<planning, pending, gathers, going, redemptions, redeemed, outside>>

\* Another device, or another flow, spends the coin.
SpentElsewhere(c) ==
    /\ dd[c].stage # "gone" /\ outside < MaxOutside
    /\ outside' = outside + 1
    /\ dd' = [dd EXCEPT ![c].stage = "gone"]
    /\ UNCHANGED <<planning, pending, gathers, going, redemptions, redeemed>>

RedeemInit ==
    /\ dd \in [DdIds -> [at: Positions \union {Away}, stage: {"mempool", "block"}, hop: {0}, by: {0}]]
    /\ planning = {} /\ pending = NoRedeem /\ gathers = <<>> /\ going = NotGoing
    /\ redemptions = {} /\ redeemed = {} /\ outside = 0

RedeemNext ==
    \/ \E p \in Positions : RedeemReviewStarts(p)
    \/ \E plan \in planning : RedeemReviewDone(plan)
    \/ RedeemCancelled
    \/ Goes \/ (\E r \in Gather(going.number).legs : LegTaken(r)) \/ LegFails \/ Arrived
    \/ Rescanned \/ FeePicked \/ RescanFails
    \/ (\E t \in redemptions : RedeemTaken(t)) \/ RedeemFails
    \/ \E c \in DdIds : DdMined(c) \/ SpentElsewhere(c)

RedeemSpec == RedeemInit /\ [][RedeemNext]_redeemVars

-----------------------------------------------------------------------------
(* Properties *)

Lies(r, a) == dd[r.id].hop = r.hop => dd[r.id].at = a

\* "Burnable DD must sit on the position's own address (one signing key)": so must
\* what a redemption burns.
BurnIsOwn == \A t \in redemptions : \A r \in t.burn : Lies(r, t.pos)

\* Whatever is reviewed, cancelled and retried while a gather waits, a redemption
\* that is signed burns enough, of one address; and unless its draft was given the
\* burn of another confirmation (see the findings), of its own position's, and
\* confirmed coins when they had to be gathered.
BurnCovers ==
    \A t \in redemptions :
        /\ Cardinality(t.burn) >= Need[t.pos]
        /\ \E p \in Positions : \A r \in t.burn : Lies(r, p)
        /\ t.own => \A r \in t.burn :
                       Lies(r, t.pos) /\ (t.gathered /\ Unspent(r) => dd[r.id].stage = "block")
=============================================================================
