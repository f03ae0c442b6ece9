----------------------------- MODULE MCIndexer -----------------------------
(***************************************************************************)
(* The two halves of the indexer for TLC, one at a time: the pool of       *)
(* sessions, and the scans of two requests that share transactions.  The   *)
(* half that is not the `part` of a behaviour stays where it starts, where *)
(* no step is owed by fairness.                                            *)
(***************************************************************************)
EXTENDS ElectrumPool, IndexerScan, TLC

CONSTANTS l1, l2, l3, q1, q2, x1, x2

\* Two lanes of a bulk request and a request of its own, which share x1.
TheOwner == l1 :> q1 @@ l2 :> q1 @@ l3 :> q2
TheHistory == l1 :> <<x1, x2>> @@ l2 :> <<x2, x1>> @@ l3 :> <<x1, x2>>
TheMints == l1 :> {x1} @@ l2 :> {} @@ l3 :> {x1}

VARIABLE part

IndexerInit ==
    /\ Init /\ ScanInit /\ part \in {"pool", "scan"}
    /\ part = "scan" => limit = [c \in Clients |-> RecycleAfter]

IndexerNext ==
    \/ part = "pool" /\ Next /\ UNCHANGED <<scanVars, part>>
    \/ part = "scan" /\ ScanNext /\ UNCHANGED <<vars, part>>

IndexerSpec ==
    /\ IndexerInit /\ [][IndexerNext]_<<vars, scanVars, part>>
    /\ Fairness /\ ScanFairness
=============================================================================
