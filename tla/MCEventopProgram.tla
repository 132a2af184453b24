--------------------------- MODULE MCEventopProgram --------------------------
(***************************************************************************)
(* The whole program for TLC: two users, one merchant and the vault in one *)
(* mint.  The two users' tokens together are the largest u64, so that the  *)
(* third charge of a wallet fills its total_spent; a subscription's second *)
(* fills its payment_count.                                                *)
(***************************************************************************)
EXTENDS EventopProgram, TLC

MCWalletMint == [u \in Users |-> VaultMint]
MCMerchantMint == [m \in Merchants |-> VaultMint]

Symmetry == Permutations(Users) \cup Permutations(SessionTokens)

=============================================================================
