------------------------------ MODULE MCWallet ------------------------------
(***************************************************************************)
(* The browser's side for TLC: the synchronisation of a wallet, its        *)
(* spending flows, its plans, its redemptions, its gifts, the GitHub       *)
(* backup, what is written down and read, the session of a tab, the        *)
(* ceiling for a transaction, the wizard that splits a wallet into         *)
(* treasuries, their dashboard, and the guard and the handover of one, one *)
(* of them the `part` of a behaviour while the others stay where they      *)
(* start.                                                                  *)
(***************************************************************************)
EXTENDS Sync, Spend, Readback, Redeem, Gift, GithubBackup, Inputs, Session, SpendCap, SplitWizard, TreasuryCards, Handover, TLC

CONSTANTS w1, w2, d1, d2, ta, tb, pa, pb, c1, c2, c3, g1, g2, g3, g4, small, big

\* Kinds of coins around the thresholds: a fold away from a whole fee, two fees, less
\* than one; dollars around the least output and the ceiling.
TheDgb ==
    {[sats |-> 60000, type |-> "p2tr", key |-> "k1"],
     [sats |-> 60000, type |-> "p2wpkh", key |-> "k1"],
     [sats |-> 12050000, type |-> "p2tr", key |-> "k2"],
     [sats |-> 12300000, type |-> "p2wpkh", key |-> "k1"],
     [sats |-> 24200000, type |-> "p2tr", key |-> "k1"]}
TheDd ==
    {[cents |-> 50, key |-> "k1"], [cents |-> 150, key |-> "k1"], [cents |-> 60, key |-> "k2"],
     [cents |-> 150, key |-> "k2"], [cents |-> 250, key |-> "k2"]}

\* Two treasuries of one name; the first device's vault lacks the second's keys.
TheHeld == d1 :> {ta} @@ d2 :> {ta, tb}
TheListed == d1 :> {ta, tb} @@ d2 :> {ta, tb}
TheSlug == ta :> "same" @@ tb :> "same"

\* One position needs two coins and has one, the other needs one.
TheNeed == pa :> 2 @@ pb :> 1

\* One wallet has to merge its coins for a gift, the other has large ones.
TheCoinOf == g1 :> w1 @@ g2 :> w1 @@ g3 :> w2 @@ g4 :> w2

\* The larger treasury fits one wallet once, the smaller the other not at all.
TheNeeds == small :> 100 @@ big :> 250
TheBalance == w1 :> 460 @@ w2 :> 150

VARIABLE part

walletVars == <<syncVars, spendVars, held, redeemVars, giftVars, ghVars, sample, sessionVars, capVars, wizVars, cardVars, handVars, part>>

\* Two wallets, one paid to at index 1 of either chain; either one payment, one
\* opening and one failing request are still to come, or two openings.
SyncBegins ==
    /\ onchain = [w \in Wallets |-> [k \in Kinds |-> IF w = w1 THEN {1} ELSE {}]]
    /\ \E g \in {0, 1} : gen = g /\ pays = IF g = 0 THEN MaxPays ELSE 0
    /\ screen = NoWallet /\ index = 0 /\ handout = [w \in Wallets |-> 0]
    /\ chainUsed = {} /\ depths = [w \in Wallets |-> Unknown]
    /\ walks = {} /\ poll = {}
    /\ scanGen = [k \in Kinds |-> 0] /\ scanBusy = [k \in Kinds |-> 0]
    /\ extraDue = TRUE /\ aged = TRUE /\ painted = Nothing
    /\ atOpen = [k \in Kinds |-> {}]
    /\ syncFaults = IF gen = 0 THEN MaxSyncFaults ELSE 0

RedeemStarts ==
    /\ RedeemInit
    /\ dd[c1] = [dd[c1] EXCEPT !.at = pa, !.stage = "block"]
    /\ dd[c2].at = Away
    /\ dd[c3] = [dd[c3] EXCEPT !.at = Away, !.stage = "block"]

WalletInit ==
    /\ part \in {"sync", "spend", "plan", "redeem", "gift", "backup", "texts", "session", "cap", "split", "cards", "handover"}
    /\ SyncBegins /\ (part # "sync" => gen = 0)
    /\ RedeemStarts /\ (part # "redeem" => dd[c2].stage = "block")
    /\ SpendInit /\ PlanInit /\ GiftInit /\ GhInit
    /\ TextsInit
    /\ SessionInit /\ stored.active = w1
    /\ CapInit /\ (part # "cap" => raw = Absent)
    /\ WizardInit /\ payer = w1 /\ wizard.choice = small
    /\ CardsInit
    /\ HandInit /\ handover.id = ta

WalletNext ==
    /\ UNCHANGED part
    /\ \/ /\ part = "sync" /\ SyncNext
          /\ UNCHANGED <<spendVars, held, redeemVars, giftVars, ghVars, sample, sessionVars, capVars, wizVars, cardVars, handVars>>
       \/ /\ part = "spend" /\ SpendNext
          /\ UNCHANGED <<syncVars, held, redeemVars, giftVars, ghVars, sample, sessionVars, capVars, wizVars, cardVars, handVars>>
       \/ /\ part = "plan" /\ PlanNext
          /\ UNCHANGED <<syncVars, spendVars, redeemVars, giftVars, ghVars, sample, sessionVars, capVars, wizVars, cardVars, handVars>>
       \/ /\ part = "redeem" /\ RedeemNext
          /\ UNCHANGED <<syncVars, spendVars, held, giftVars, ghVars, sample, sessionVars, capVars, wizVars, cardVars, handVars>>
       \/ /\ part = "gift" /\ GiftNext
          /\ UNCHANGED <<syncVars, spendVars, held, redeemVars, ghVars, sample, sessionVars, capVars, wizVars, cardVars, handVars>>
       \/ /\ part = "backup" /\ GhNext
          /\ UNCHANGED <<syncVars, spendVars, held, redeemVars, giftVars, sample, sessionVars, capVars, wizVars, cardVars, handVars>>
       \/ /\ part = "texts" /\ NextSample
          /\ UNCHANGED <<syncVars, spendVars, held, redeemVars, giftVars, ghVars, sessionVars, capVars, wizVars, cardVars, handVars>>
       \/ /\ part = "session" /\ SessionNext
          /\ UNCHANGED <<syncVars, spendVars, held, redeemVars, giftVars, ghVars, sample, capVars, wizVars, cardVars, handVars>>
       \/ /\ part = "cap" /\ CapNext
          /\ UNCHANGED <<syncVars, spendVars, held, redeemVars, giftVars, ghVars, sample, sessionVars, wizVars, cardVars, handVars>>
       \/ /\ part = "split" /\ WizardNext
          /\ UNCHANGED <<syncVars, spendVars, held, redeemVars, giftVars, ghVars, sample, sessionVars, capVars, cardVars, handVars>>
       \/ /\ part = "cards" /\ CardsNext
          /\ UNCHANGED <<syncVars, spendVars, held, redeemVars, giftVars, ghVars, sample, sessionVars, capVars, wizVars, handVars>>
       \/ /\ part = "handover" /\ HandNext
          /\ UNCHANGED <<syncVars, spendVars, held, redeemVars, giftVars, ghVars, sample, sessionVars, capVars, wizVars, cardVars>>

\* Where no wallet is open the synchronisation owes no step.
WalletSpec == WalletInit /\ [][WalletNext]_walletVars /\ (part = "sync" => SyncFairness)
=============================================================================
