--------------------------- MODULE MCSubscriptions ---------------------------
(***************************************************************************)
(* Subscriptions for TLC: two mints.  One has a user and two merchants who *)
(* compete for the user's tokens, the other a user and a merchant.         *)
(***************************************************************************)
EXTENDS Subscriptions, TLC

CONSTANTS u1, u2, m1, m2, m3, usdc, usdt

MCUsers == {u1, u2}
MCMerchants == {m1, m2, m3}
MCMints == {usdc, usdt}
MCWalletMint == (u1 :> usdc) @@ (u2 :> usdt)
MCMerchantMint == (m1 :> usdc) @@ (m2 :> usdc) @@ (m3 :> usdt)

\* Merchants of one mint are interchangeable, and so are session tokens.
Symmetry == Permutations({m1, m2}) \cup Permutations(SessionTokens)

=============================================================================
