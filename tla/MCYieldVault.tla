---------------------------- MODULE MCYieldVault -----------------------------
(***************************************************************************)
(* YieldVault for TLC: two interchangeable wallets in the vault's mint,    *)
(* u64 cut down so that sums and casts reach its edge, a price scale of    *)
(* two.                                                                    *)
(***************************************************************************)
EXTENDS YieldVault, TLC

MCWalletMint == [u \in Users |-> VaultMint]

Symmetry == Permutations(Users)
=============================================================================
