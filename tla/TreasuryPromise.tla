--------------------------- MODULE TreasuryPromise ---------------------------
(***************************************************************************)
(* What a treasury batch promises to the person who runs it, without tabs, *)
(* wallets, indexer or retries: for every item the money that left, the    *)
(* coins that were locked, and what the stored record claims.              *)
(*                                                                         *)
(* The claim only moves forward, one stage at a time, and never ahead of   *)
(* the chain. Money leaves for an item only while its record does not      *)
(* claim it was funded, and at most once more for every cut: a tab that    *)
(* died or an answer that was lost. The batch is over when every item is   *)
(* done.                                                                   *)
(***************************************************************************)
EXTENDS Naturals

CONSTANTS Items, MaxCuts

VARIABLES
    sent,       \* payments made to each item
    mints,      \* payments locked by a mint
    claim,      \* what the record claims of each item
    over,       \* is the batch recorded as done?
    cuts        \* interruptions so far

vars == <<sent, mints, claim, over, cuts>>

Init ==
    /\ sent = [i \in Items |-> 0]
    /\ mints = [i \in Items |-> 0]
    /\ claim = [i \in Items |-> "open"]
    /\ over = FALSE
    /\ cuts = 0

Pay(i) ==
    /\ claim[i] = "open" /\ sent[i] <= cuts
    /\ sent' = [sent EXCEPT ![i] = @ + 1]
    /\ UNCHANGED <<mints, claim, over, cuts>>

Lock(i) ==
    /\ claim[i] \in {"paid", "locked"} /\ mints[i] < sent[i]
    /\ mints' = [mints EXCEPT ![i] = @ + 1]
    /\ UNCHANGED <<sent, claim, over, cuts>>

Claim(i) ==
    /\ \/ claim[i] = "open" /\ sent[i] > 0 /\ claim' = [claim EXCEPT ![i] = "paid"]
       \/ claim[i] = "paid" /\ mints[i] > 0 /\ claim' = [claim EXCEPT ![i] = "locked"]
       \/ claim[i] = "locked" /\ claim' = [claim EXCEPT ![i] = "done"]
    /\ UNCHANGED <<sent, mints, over, cuts>>

Close ==
    /\ \A i \in Items : claim[i] = "done"
    /\ over' = TRUE
    /\ UNCHANGED <<sent, mints, claim, cuts>>

Cut ==
    /\ cuts < MaxCuts
    /\ cuts' = cuts + 1
    /\ UNCHANGED <<sent, mints, claim, over>>

Next == (\E i \in Items : Pay(i) \/ Lock(i) \/ Claim(i)) \/ Close \/ Cut

Spec == Init /\ [][Next]_vars
=============================================================================
