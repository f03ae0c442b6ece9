-------------------------- MODULE MCTreasuryBatch --------------------------
(* TreasuryBatch for TLC: two tabs are interchangeable in safety runs.     *)
EXTENDS TreasuryBatch, TLC

TabSymmetry == Permutations(Tabs)
=============================================================================
