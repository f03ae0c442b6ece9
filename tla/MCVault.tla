------------------------------ MODULE MCVault ------------------------------
(* Vault for TLC: tabs are interchangeable, and so are the wallets that    *)
(* are added later.                                                        *)
EXTENDS Vault, TLC

VaultSymmetry == Permutations(Tabs) \union Permutations(Wallets \ {First})
=============================================================================
