---------------------------- MODULE WalletsProofs ----------------------------
(***************************************************************************)
(* What the wallet instructions keep, for any number of owners and mints:  *)
(* the width of the token accounts and, mint by mint, their sum.           *)
(***************************************************************************)
EXTENDS Wallets, VaultMathProofs, TallyProofs

\* The bounds as naturals, stated once for the steps below.
LEMMA WalletScales ==
  /\ U64 \in Nat \ {0}
  /\ Cap \in Nat
  /\ Amount = 0 .. Cap
  /\ InitialTokens \in Amount
  /\ TransferAmounts \subseteq Amount
  /\ 0 \in Amount
  /\ IsFiniteSet(Users)
  BY ScaleAssumption, WalletAssumption DEF Amount, Cap

\* A value added to an account by a checked transfer or sum stays a u64, and
\* so does what remains at the source.
LEMMA CheckedArithmetic ==
  /\ \A a, b \in Amount : a >= b => a - b \in Amount
  /\ \A a, b \in Amount : a + b \in Nat
  BY WalletScales DEF Amount

\* Whatever a wallet instruction does, the token accounts keep their width.
LEMMA WalletStepTypes ==
  ASSUME WalletTypeOK, WalletNext
  PROVE  WalletTypeOK'
<1>1. ASSUME NEW u \in Users, CreateSubscriptionWallet(u) PROVE WalletTypeOK'
  BY <1>1 DEF CreateSubscriptionWallet, WalletTypeOK
<1>2. ASSUME NEW payer \in Users, NEW u \in Users, NEW amount \in Amount,
             DepositToWallet(payer, u, amount)
      PROVE  WalletTypeOK'
  BY <1>2, CheckedArithmetic DEF DepositToWallet, CanPayIn, CanTransfer, WalletTypeOK
<1>3. ASSUME NEW u \in Users, NEW amount \in Amount, WithdrawFromWallet(u, amount)
      PROVE  WalletTypeOK'
  BY <1>3, CheckedArithmetic DEF WithdrawFromWallet, CanTransfer, WalletTypeOK
<1> QED
  BY WalletAssumption, <1>1, <1>2, <1>3 DEF WalletNext

LEMMA AccountTally ==
  ASSUME NEW account, account \in [DOMAIN account -> Amount],
         NEW S, IsFiniteSet(S), S \subseteq DOMAIN account
  PROVE  TotalOver(S, account, Cap) \in Nat
<1> DEFINE part == [y \in S |-> account[y]]
<1>1. /\ Cap \in Nat
      /\ part \in Tallies(S, Cap)
  BY WalletScales DEF Tallies
<1> HIDE DEF part
<1> QED
  BY <1>1, TotalIsNat DEF TotalOver, part

\* What replacing one account of a kind does to the sum over some of them.
LEMMA AccountInside ==
  ASSUME NEW account, account \in [DOMAIN account -> Amount],
         NEW S, IsFiniteSet(S), S \subseteq DOMAIN account, NEW u \in S, NEW n \in Amount
  PROVE  TotalOver(S, [account EXCEPT ![u] = n], Cap)
           = TotalOver(S, account, Cap) + (n - account[u])
<1> DEFINE part == [y \in S |-> account[y]]
<1>1. /\ Cap \in Nat
      /\ n \in 0 .. Cap
      /\ part \in Tallies(S, Cap)
  BY WalletScales DEF Tallies
<1>2. [y \in S |-> [account EXCEPT ![u] = n][y]] = [part EXCEPT ![u] = n]
  OBVIOUS
<1>3. part[u] = account[u]
  OBVIOUS
<1> HIDE DEF part
<1>4. Total([part EXCEPT ![u] = n], Cap) = Total(part, Cap) + (n - part[u])
  BY <1>1, TotalUpdate
<1> QED
  BY <1>2, <1>3, <1>4 DEF TotalOver, part

LEMMA AccountOutside ==
  ASSUME NEW account, NEW S, S \subseteq DOMAIN account, NEW u, u \notin S, NEW n
  PROVE  TotalOver(S, [account EXCEPT ![u] = n], Cap) = TotalOver(S, account, Cap)
  BY TotalOverOutside

LEMMA HoldersFinite ==
  ASSUME NEW mint
  PROVE  IsFiniteSet(Holders(mint))
  BY WalletScales, FS_Subset DEF Holders

\* Moving tokens between an owner's account and a wallet of the same mint.
LEMMA TransferKeepsTokens ==
  ASSUME WalletTypeOK, NEW mint, NEW a \in Users, NEW b \in Users,
         WalletMint[a] = WalletMint[b], NEW m \in Amount, NEW n \in Amount,
         user_tokens' = [user_tokens EXCEPT ![a] = m],
         balance' = [balance EXCEPT ![b] = n],
         m + n = user_tokens[a] + balance[b]
  PROVE  TokensIn(mint)' = TokensIn(mint)
<1> DEFINE S == Holders(mint)
<1>1. /\ S \subseteq Users
      /\ IsFiniteSet(S)
      /\ (a \in S <=> b \in S)
  BY HoldersFinite DEF Holders
<1>2. TokensIn(mint)' = TotalOver(S, user_tokens', Cap) + TotalOver(S, balance', Cap)
  BY DEF TokensIn, Holders
<1>3. TokensIn(mint) = TotalOver(S, user_tokens, Cap) + TotalOver(S, balance, Cap)
  BY DEF TokensIn
<1>4. user_tokens \in [Users -> Amount] /\ balance \in [Users -> Amount]
  BY DEF WalletTypeOK
<1> HIDE DEF S
<1>5. /\ TotalOver(S, user_tokens, Cap) \in Nat
      /\ TotalOver(S, balance, Cap) \in Nat
  BY <1>1, <1>4, AccountTally
<1>6. /\ user_tokens[a] \in Nat /\ balance[b] \in Nat
      /\ m \in Nat /\ n \in Nat
  BY <1>4, WalletScales DEF Amount
<1>7. CASE a \in S
  <2>1. TotalOver(S, user_tokens', Cap)
          = TotalOver(S, user_tokens, Cap) + (m - user_tokens[a])
    BY <1>1, <1>4, <1>7, AccountInside
  <2>2. TotalOver(S, balance', Cap) = TotalOver(S, balance, Cap) + (n - balance[b])
    BY <1>1, <1>4, <1>7, AccountInside
  <2> QED
    BY <1>2, <1>3, <1>5, <1>6, <2>1, <2>2
<1>8. CASE a \notin S
  <2>1. TotalOver(S, user_tokens', Cap) = TotalOver(S, user_tokens, Cap)
    BY <1>1, <1>4, <1>8, AccountOutside
  <2>2. TotalOver(S, balance', Cap) = TotalOver(S, balance, Cap)
    BY <1>1, <1>4, <1>8, AccountOutside
  <2> QED
    BY <1>2, <1>3, <2>1, <2>2
<1> QED
  BY <1>7, <1>8

\* No wallet instruction makes, loses or exchanges a token of any mint.
LEMMA WalletStepKeepsTokens ==
  ASSUME WalletTypeOK, WalletNext, NEW mint
  PROVE  TokensIn(mint)' = TokensIn(mint)
<1> USE DEF WalletTypeOK
<1>1. ASSUME NEW u \in Users, CreateSubscriptionWallet(u)
      PROVE  TokensIn(mint)' = TokensIn(mint)
  BY <1>1 DEF CreateSubscriptionWallet, TokensIn
<1>2. \A x \in Users : user_tokens[x] \in Nat /\ balance[x] \in Nat
  BY WalletScales DEF Amount
<1>3. ASSUME NEW payer \in Users, NEW u \in Users, NEW amount \in Amount,
             DepositToWallet(payer, u, amount)
      PROVE  TokensIn(mint)' = TokensIn(mint)
  <2> DEFINE m == user_tokens[payer] - amount
             n == balance[u] + amount
  <2>1. /\ m \in Amount /\ n \in Amount
        /\ user_tokens' = [user_tokens EXCEPT ![payer] = m]
        /\ balance' = [balance EXCEPT ![u] = n]
        /\ WalletMint[payer] = WalletMint[u]
    BY <1>3, CheckedArithmetic DEF DepositToWallet, CanPayIn, CanTransfer
  <2>2. m + n = user_tokens[payer] + balance[u]
    BY <1>2, WalletScales DEF Amount
  <2> HIDE DEF m, n
  <2> QED
    BY <2>1, <2>2, TransferKeepsTokens
<1>4. ASSUME NEW u \in Users, NEW amount \in Amount, WithdrawFromWallet(u, amount)
      PROVE  TokensIn(mint)' = TokensIn(mint)
  <2> DEFINE m == user_tokens[u] + amount
             n == balance[u] - amount
  <2>1. /\ m \in Amount /\ n \in Amount
        /\ user_tokens' = [user_tokens EXCEPT ![u] = m]
        /\ balance' = [balance EXCEPT ![u] = n]
    BY <1>4, CheckedArithmetic DEF WithdrawFromWallet, CanTransfer
  <2>2. m + n = user_tokens[u] + balance[u]
    BY <1>2, WalletScales DEF Amount
  <2> HIDE DEF m, n
  <2> QED
    BY <2>1, <2>2, TransferKeepsTokens
<1> QED
  BY WalletAssumption, <1>1, <1>3, <1>4 DEF WalletNext

\* A step that changes one wallet's balance and no owner's account changes the
\* tokens of that wallet's mint by the difference.
LEMMA BalanceChangesTokens ==
  ASSUME WalletTypeOK, NEW mint, NEW u \in Users, NEW n \in Amount,
         balance' = [balance EXCEPT ![u] = n], user_tokens' = user_tokens
  PROVE  /\ WalletMint[u] = mint => TokensIn(mint)' = TokensIn(mint) + (n - balance[u])
         /\ WalletMint[u] # mint => TokensIn(mint)' = TokensIn(mint)
         /\ TokensIn(mint) \in Nat
<1> DEFINE S == Holders(mint)
<1>1. /\ S \subseteq Users
      /\ IsFiniteSet(S)
      /\ (u \in S <=> WalletMint[u] = mint)
  BY HoldersFinite DEF Holders
<1>2. TokensIn(mint)' = TotalOver(S, user_tokens, Cap) + TotalOver(S, balance', Cap)
  BY DEF TokensIn, Holders
<1>3. TokensIn(mint) = TotalOver(S, user_tokens, Cap) + TotalOver(S, balance, Cap)
  BY DEF TokensIn
<1>4. user_tokens \in [Users -> Amount] /\ balance \in [Users -> Amount]
  BY DEF WalletTypeOK
<1> HIDE DEF S
<1>5. /\ TotalOver(S, user_tokens, Cap) \in Nat
      /\ TotalOver(S, balance, Cap) \in Nat
  BY <1>1, <1>4, AccountTally
<1>6. balance[u] \in Nat /\ n \in Nat
  BY <1>4, WalletScales DEF Amount
<1>7. ASSUME u \in S PROVE TotalOver(S, balance', Cap)
                             = TotalOver(S, balance, Cap) + (n - balance[u])
  BY <1>1, <1>4, <1>7, AccountInside
<1>8. ASSUME u \notin S PROVE TotalOver(S, balance', Cap) = TotalOver(S, balance, Cap)
  BY <1>1, <1>4, <1>8, AccountOutside
<1> QED
  BY <1>1, <1>2, <1>3, <1>5, <1>6, <1>7, <1>8

LEMMA TokensAreNat ==
  ASSUME WalletTypeOK, NEW mint
  PROVE  TokensIn(mint) \in Nat
<1> DEFINE S == Holders(mint)
<1>1. S \subseteq Users /\ IsFiniteSet(S)
  BY HoldersFinite DEF Holders
<1>2. user_tokens \in [Users -> Amount] /\ balance \in [Users -> Amount]
  BY DEF WalletTypeOK
<1> HIDE DEF S
<1>3. /\ TotalOver(S, user_tokens, Cap) \in Nat
      /\ TotalOver(S, balance, Cap) \in Nat
  BY <1>1, <1>2, AccountTally
<1> QED
  BY <1>3 DEF TokensIn, S

\* No account holds more than the sum over the accounts it is one of.
LEMMA AccountWithinTally ==
  ASSUME NEW account, account \in [DOMAIN account -> Amount],
         NEW S, IsFiniteSet(S), S \subseteq DOMAIN account, NEW x \in S
  PROVE  account[x] <= TotalOver(S, account, Cap)
<1> DEFINE part == [y \in S |-> account[y]]
<1>1. /\ Cap \in Nat
      /\ part \in Tallies(S, Cap)
      /\ part[x] = account[x]
  BY WalletScales DEF Tallies
<1> HIDE DEF part
<1>2. part[x] <= Total(part, Cap)
  BY <1>1, TotalBoundsEach
<1> QED
  BY <1>1, <1>2 DEF TotalOver, part

\* A wallet holds tokens of its mint.
LEMMA BalanceWithinTokens ==
  ASSUME WalletTypeOK, NEW u \in Users
  PROVE  balance[u] <= TokensIn(WalletMint[u])
<1> DEFINE S == Holders(WalletMint[u])
<1>1. S \subseteq Users /\ IsFiniteSet(S) /\ u \in S
  BY HoldersFinite DEF Holders
<1>2. user_tokens \in [Users -> Amount] /\ balance \in [Users -> Amount]
  BY DEF WalletTypeOK
<1> HIDE DEF S
<1>3. /\ TotalOver(S, user_tokens, Cap) \in Nat
      /\ TotalOver(S, balance, Cap) \in Nat
      /\ balance[u] <= TotalOver(S, balance, Cap)
  BY <1>1, <1>2, AccountTally, AccountWithinTally
<1>4. balance[u] \in Nat
  BY <1>2, WalletScales
<1>5. TokensIn(WalletMint[u]) = TotalOver(S, user_tokens, Cap) + TotalOver(S, balance, Cap)
  BY DEF TokensIn, S
<1> QED
  BY <1>3, <1>4, <1>5

\* What the owners hold at the start.
LEMMA InitialTokensIn ==
  ASSUME WalletInit, NEW mint
  PROVE  TokensIn(mint) = Cardinality(Holders(mint)) * InitialTokens
<1> DEFINE S == Holders(mint)
<1>1. /\ S \in SUBSET Users
      /\ IsFiniteSet(Users)
      /\ Cap \in Nat
      /\ InitialTokens \in 0 .. Cap
  BY WalletScales DEF Holders
<1>2. TokensIn(mint) = TotalOver(S, [u \in Users |-> InitialTokens], Cap)
                         + TotalOver(S, [u \in Users |-> 0], Cap)
  BY DEF TokensIn, WalletInit
<1> HIDE DEF S
<1>3. TotalOver(S, [u \in Users |-> InitialTokens], Cap) = Cardinality(S) * InitialTokens
  BY <1>1, TotalOverConstant
<1>4. TotalOver(S, [u \in Users |-> 0], Cap) = 0
  BY <1>1, TotalOverZero
<1>5. TotalOver(S, [u \in Users |-> InitialTokens], Cap) \in Nat
  <2>1. [u \in Users |-> InitialTokens] \in Tallies(Users, Cap)
    BY <1>1 DEF Tallies
  <2> QED
    BY <1>1, <2>1, TotalOverIsNat
<1> QED
  BY <1>2, <1>3, <1>4, <1>5 DEF S

=============================================================================
