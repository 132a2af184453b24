------------------------------- MODULE Wallets -------------------------------
(***************************************************************************)
(* Subscription wallets: a PDA account of an owner and a mint, and the     *)
(* token account it is the authority of.  Each owner keeps one wallet, in  *)
(* the mint WalletMint gives.  Every instruction of the program is one     *)
(* atomic transaction: a failed constraint, require!, checked operation or *)
(* CPI reverts it whole, so a failing call is a step that does not happen. *)
(***************************************************************************)
EXTENDS VaultMath, FiniteSets, Tally

CONSTANTS Mints,           \* the tokens
          Users,           \* those who hold tokens and may own a wallet
          WalletMint,      \* SubscriptionWallet.mint of each owner's wallet
          InitialTokens,   \* what each owner's own token account starts with
          TransferAmounts  \* the amounts tried in deposits and withdrawals

ASSUME WalletAssumption ==
  /\ IsFiniteSet(Users)
  /\ WalletMint \in [Users -> Mints]
  /\ InitialTokens \in Amount
  /\ TransferAmounts \subseteq Amount

VARIABLES
  user_tokens,   \* user_token_account.amount, the owner's own account
  wallets,       \* owners whose SubscriptionWallet account exists
  balance        \* wallet_token_account.amount

walletVars == <<user_tokens, wallets, balance>>

\* The largest u64: every tally of the state is taken below it.
Cap == U64 - 1

\* The owners whose wallets are in a mint.
Holders(mint) == {u \in Users : WalletMint[u] = mint}

\* The token program keeps the supply of a mint in a u64.
ASSUME SupplyAssumption ==
  \A mint \in Mints : Cardinality(Holders(mint)) * InitialTokens \in Amount

\* The tokens of a mint that its owners hold, outside their wallets and in them.
TokensIn(mint) ==
  TotalOver(Holders(mint), user_tokens, Cap) + TotalOver(Holders(mint), balance, Cap)

-----------------------------------------------------------------------------
\* The SPL token program moves an amount only if the source covers it and the
\* destination does not overflow.
CanTransfer(source, destination, amount) ==
  /\ source >= amount
  /\ destination + amount \in Amount

WalletInit ==
  /\ user_tokens = [u \in Users |-> InitialTokens]
  /\ wallets = {}
  /\ balance = [u \in Users |-> 0]

\* The account is created once per owner; the fields `init` zeroes are zero
\* already for an account that does not exist.
CreateSubscriptionWallet(u) ==
  /\ u \notin wallets
  /\ wallets' = wallets \cup {u}
  /\ UNCHANGED <<user_tokens, balance>>

\* Whoever holds tokens of the wallet's mint may pay into it: the signer need
\* not be the wallet's owner.
CanPayIn(u, mint, funds, amount) ==
  /\ u \in wallets
  /\ mint = WalletMint[u]
  /\ amount > 0
  /\ CanTransfer(funds, balance[u], amount)

\* A user pays in.  Users who never create a wallet stand for the holders who
\* have nothing else to do with the program; the holders the program itself
\* pays, merchants and treasury, pay in through Subscriptions.
DepositToWallet(payer, u, amount) ==
  /\ CanPayIn(u, WalletMint[payer], user_tokens[payer], amount)
  /\ user_tokens' = [user_tokens EXCEPT ![payer] = @ - amount]
  /\ balance' = [balance EXCEPT ![u] = @ + amount]
  /\ UNCHANGED wallets

\* saturating_sub of the committed part from the balance.
Withdrawable(u) ==
  IF balance[u] >= calculate_committed_balance
  THEN balance[u] - calculate_committed_balance
  ELSE 0

WithdrawFromWallet(u, amount) ==
  /\ u \in wallets
  /\ amount > 0
  /\ amount <= Withdrawable(u)
  /\ CanTransfer(balance[u], user_tokens[u], amount)
  /\ balance' = [balance EXCEPT ![u] = @ - amount]
  /\ user_tokens' = [user_tokens EXCEPT ![u] = @ + amount]
  /\ UNCHANGED wallets

WalletNext ==
  \/ \E u \in Users : CreateSubscriptionWallet(u)
  \/ \E payer, u \in Users, amount \in TransferAmounts :
       DepositToWallet(payer, u, amount)
  \/ \E u \in Users, amount \in TransferAmounts : WithdrawFromWallet(u, amount)

WalletTypeOK ==
  /\ user_tokens \in [Users -> Amount]
  /\ wallets \subseteq Users
  /\ balance \in [Users -> Amount]

=============================================================================
