----------------------------- MODULE LedgerProofs -----------------------------
(***************************************************************************)
(* The ledgers of billing, mint by mint: what leaves a wallet is counted   *)
(* as spent and arrives at merchants and treasury, who hold what they have *)
(* not paid back in, the treasury at most a tenth of all charges.          *)
(***************************************************************************)
EXTENDS SubscriptionsProofs

\* What the merchants of a mint hold.
MerchantsHold(mint) == TotalOver(Sellers(mint), merchant_tokens, Cap)

\* The protocol's part of a fee at any rate the handlers allow.
LEMMA ProtocolPart ==
  ASSUME NEW fee \in Amount, NEW bps \in 0 .. 1000
  PROVE  /\ ProtocolFee(fee, bps) \in 0 .. fee
         /\ ProtocolFee(fee, bps) * 10 <= fee
<1> DEFINE q == (fee * bps) \div MaxBps
<1>0. bps \in 0 .. MaxBps
  BY DEF MaxBps
<1>1. /\ fee \in Nat /\ bps \in Nat /\ bps <= 1000
      /\ MaxBps = 10000
  BY BillingScales DEF Amount, MaxBps
<1>2. fee * bps \in Nat /\ fee * bps <= fee * 1000
  BY <1>1
<1>3. q \in Nat /\ 10000 * q <= fee * bps
  BY <1>1, <1>2, DivBounds
<1>4. ProtocolFee(fee, bps) \in 0 .. fee
  BY <1>0, PartWithinWhole
<1>5. ProtocolFee(fee, bps) <= q
  BY <1>3, TruncateBounds DEF ProtocolFee
<1> HIDE DEF q
<1>6. 10 * q <= fee
  BY <1>1, <1>2, <1>3
<1> QED
  BY <1>1, <1>3, <1>4, <1>5, <1>6

\* What a charge of a fee with a part for the protocol writes.
ChargeMoves(u, m, fee, part) ==
  /\ fee = subscriptions[<<u, m>>].fee_amount
  /\ part * 10 <= fee
  /\ WalletMint[u] = MerchantMint[m]
  /\ merchant_tokens[m] + (fee - part) \in Amount
  /\ merchant_tokens' =
       [merchant_tokens EXCEPT ![m] = merchant_tokens[m] + (fee - part)]
  /\ treasury_tokens' =
       [treasury_tokens EXCEPT ![MerchantMint[m]] = @ + part]
  /\ total_spent[u] + fee \in Amount
  /\ total_spent' = [total_spent EXCEPT ![u] = total_spent[u] + fee]

\* The amounts a charge moves.
LEMMA ChargeAmounts ==
  ASSUME BillingTypeOK, NEW u \in Users, NEW m \in Merchants,
         PaymentDue(u, m), RecordCharge(u, m)
  PROVE  \E fee \in Amount \ {0} : \E part \in 0 .. fee : ChargeMoves(u, m, fee, part)
<1> DEFINE fee == subscriptions[<<u, m>>].fee_amount
           part == ProtocolFee(fee, protocol_fee_bps)
<1>1. fee \in Amount \ {0}
  BY DEF PaymentDue, BillingTypeOK, SubscriptionState
<1>2. protocol_fee_bps \in 0 .. 1000
  BY DEF BillingTypeOK
<1>3. part \in 0 .. fee /\ part * 10 <= fee
  <2> HIDE DEF fee
  <2> QED
    BY <1>1, <1>2, ProtocolPart
<1>4. /\ WalletMint[u] = MerchantMint[m]
      /\ merchant_tokens[m] + (fee - part) \in Amount
      /\ merchant_tokens' =
           [merchant_tokens EXCEPT ![m] = merchant_tokens[m] + (fee - part)]
      /\ treasury_tokens' = [treasury_tokens EXCEPT ![MerchantMint[m]] = @ + part]
      /\ total_spent[u] + fee \in Amount
      /\ total_spent' = [total_spent EXCEPT ![u] = total_spent[u] + fee]
  BY DEF CanRecordCharge, RecordCharge
<1> HIDE DEF fee, part
<1>5. fee = subscriptions[<<u, m>>].fee_amount
  BY DEF fee
<1>6. ChargeMoves(u, m, fee, part)
  BY <1>3, <1>4, <1>5 DEF ChargeMoves
<1> QED
  BY <1>1, <1>3, <1>6

\* What a charge adds to the ledgers of each mint.
ChargeEntry(mint, fee, part) ==
  /\ SpentIn(mint)' = SpentIn(mint) + fee
  /\ MerchantsHold(mint)' = MerchantsHold(mint) + (fee - part)
  /\ treasury_tokens'[mint] = treasury_tokens[mint] + part

NoEntry(mint) ==
  /\ SpentIn(mint)' = SpentIn(mint)
  /\ MerchantsHold(mint)' = MerchantsHold(mint)
  /\ treasury_tokens'[mint] = treasury_tokens[mint]

\* A charge enters the ledgers of the wallet's mint, and no other's.
ChargeEnters(u, m, fee, part) ==
  /\ fee = subscriptions[<<u, m>>].fee_amount
  /\ part * 10 <= fee
  /\ \A mint \in Mints :
       IF WalletMint[u] = mint THEN ChargeEntry(mint, fee, part) ELSE NoEntry(mint)

\* The ledgers of a mint are natural numbers.
LEMMA LedgerTypes ==
  ASSUME BillingTypeOK, NEW mint \in Mints
  PROVE  /\ SpentIn(mint) \in Nat
         /\ MerchantsHold(mint) \in Nat
         /\ treasury_tokens[mint] \in Nat
<1>1. /\ total_spent \in [DOMAIN total_spent -> Amount]
      /\ Holders(mint) \subseteq DOMAIN total_spent
      /\ merchant_tokens \in [DOMAIN merchant_tokens -> Amount]
      /\ Sellers(mint) \subseteq DOMAIN merchant_tokens
  BY DEF BillingTypeOK, Holders, Sellers
<1>2. IsFiniteSet(Holders(mint)) /\ IsFiniteSet(Sellers(mint))
  BY HoldersFinite, BillingScales, FS_Subset DEF Sellers
<1>3. treasury_tokens[mint] \in Nat
  BY BillingScales DEF BillingTypeOK, Amount
<1> QED
  BY <1>1, <1>2, <1>3, AccountTally DEF SpentIn, MerchantsHold

\* Raising what one wallet counts as spent.
LEMMA SpendingEntered ==
  ASSUME total_spent \in [Users -> Amount], NEW u \in Users, NEW n \in Amount,
         total_spent' = [total_spent EXCEPT ![u] = n], NEW mint
  PROVE  SpentIn(mint)' = IF WalletMint[u] = mint
                          THEN SpentIn(mint) + (n - total_spent[u])
                          ELSE SpentIn(mint)
<1> DEFINE S == Holders(mint)
<1>1. S \subseteq Users /\ IsFiniteSet(S) /\ (u \in S <=> WalletMint[u] = mint)
  BY HoldersFinite DEF Holders
<1>2. /\ SpentIn(mint) = TotalOver(S, total_spent, Cap)
      /\ SpentIn(mint)' = TotalOver(S, total_spent', Cap)
  BY DEF SpentIn, Holders
<1> HIDE DEF S
<1>3. ASSUME u \in S PROVE TotalOver(S, total_spent', Cap)
                             = TotalOver(S, total_spent, Cap) + (n - total_spent[u])
  BY <1>1, <1>3, AccountInside
<1>4. ASSUME u \notin S PROVE TotalOver(S, total_spent', Cap)
                                = TotalOver(S, total_spent, Cap)
  BY <1>1, <1>4, AccountOutside
<1> QED
  BY <1>1, <1>2, <1>3, <1>4

\* Replacing what one merchant holds.
LEMMA ReceiptEntered ==
  ASSUME merchant_tokens \in [Merchants -> Amount], NEW m \in Merchants, NEW n \in Amount,
         merchant_tokens' = [merchant_tokens EXCEPT ![m] = n], NEW mint
  PROVE  MerchantsHold(mint)' = IF MerchantMint[m] = mint
                             THEN MerchantsHold(mint) + (n - merchant_tokens[m])
                             ELSE MerchantsHold(mint)
<1> DEFINE S == Sellers(mint)
<1>1. S \subseteq Merchants /\ IsFiniteSet(S) /\ (m \in S <=> MerchantMint[m] = mint)
  BY BillingScales, FS_Subset DEF Sellers
<1>2. /\ MerchantsHold(mint) = TotalOver(S, merchant_tokens, Cap)
      /\ MerchantsHold(mint)' = TotalOver(S, merchant_tokens', Cap)
  BY DEF MerchantsHold, Sellers
<1> HIDE DEF S
<1>3. ASSUME m \in S PROVE TotalOver(S, merchant_tokens', Cap)
                             = TotalOver(S, merchant_tokens, Cap) + (n - merchant_tokens[m])
  BY <1>1, <1>3, AccountInside
<1>4. ASSUME m \notin S PROVE TotalOver(S, merchant_tokens', Cap)
                                = TotalOver(S, merchant_tokens, Cap)
  BY <1>1, <1>4, AccountOutside
<1> QED
  BY <1>1, <1>2, <1>3, <1>4

\* A charge is entered in the ledgers of its mint, and in no other's.
LEMMA ChargeEntered ==
  ASSUME BillingTypeOK, NEW u \in Users, NEW m \in Merchants,
         PaymentDue(u, m), RecordCharge(u, m)
  PROVE  \E fee \in Amount \ {0} : \E part \in 0 .. fee : ChargeEnters(u, m, fee, part)
<1>1. PICK fee \in Amount \ {0} : \E part \in 0 .. fee : ChargeMoves(u, m, fee, part)
  BY ChargeAmounts
<1>2. PICK part \in 0 .. fee : ChargeMoves(u, m, fee, part)
  BY <1>1
<1> DEFINE spends == total_spent[u] + fee
           receives == merchant_tokens[m] + (fee - part)
<1>3. /\ total_spent \in [Users -> Amount]
      /\ merchant_tokens \in [Merchants -> Amount]
      /\ treasury_tokens \in [Mints -> Amount]
      /\ MerchantMint[m] \in Mints
  BY BillingScales DEF BillingTypeOK
<1>4. /\ total_spent[u] \in Nat /\ merchant_tokens[m] \in Nat
      /\ fee \in Nat /\ part \in Nat
  BY <1>3, BillingScales DEF Amount
<1>5. /\ spends \in Amount /\ spends - total_spent[u] = fee
      /\ receives \in Amount /\ receives - merchant_tokens[m] = fee - part
      /\ total_spent' = [total_spent EXCEPT ![u] = spends]
      /\ merchant_tokens' = [merchant_tokens EXCEPT ![m] = receives]
  BY <1>2, <1>4 DEF ChargeMoves
<1> HIDE DEF spends, receives
<1>6. ASSUME NEW mint \in Mints
      PROVE  IF WalletMint[u] = mint THEN ChargeEntry(mint, fee, part) ELSE NoEntry(mint)
  <2>1. SpentIn(mint)' = IF WalletMint[u] = mint
                         THEN SpentIn(mint) + (spends - total_spent[u])
                         ELSE SpentIn(mint)
    BY <1>3, <1>5, SpendingEntered
  <2>2. MerchantsHold(mint)' = IF MerchantMint[m] = mint
                            THEN MerchantsHold(mint) + (receives - merchant_tokens[m])
                            ELSE MerchantsHold(mint)
    BY <1>3, <1>5, ReceiptEntered
  <2>3. treasury_tokens'[mint] = IF WalletMint[u] = mint
                                 THEN treasury_tokens[mint] + part
                                 ELSE treasury_tokens[mint]
    BY <1>2, <1>3 DEF ChargeMoves
  <2> QED
    BY <1>2, <1>5, <2>1, <2>2, <2>3 DEF ChargeMoves, ChargeEntry, NoEntry
<1> QED
  BY <1>2, <1>6 DEF ChargeMoves, ChargeEnters

\* What a payee's deposit does to the ledgers: the tokens of the wallet's mint
\* change hands, and nothing is counted as spent.
PayInEnters(mint) ==
  /\ TokensIn(mint)' \in Int /\ PayeesHold(mint)' \in Int
  /\ TokensIn(mint)' + PayeesHold(mint)' = TokensIn(mint) + PayeesHold(mint)
  /\ treasury_tokens'[mint] \in Nat
  /\ treasury_tokens'[mint] <= treasury_tokens[mint]
  /\ SpentIn(mint)' = SpentIn(mint)

LEMMA MerchantPaysInEnters ==
  ASSUME BillingTypeOK, NEW m \in Merchants, NEW u \in Users, NEW n \in Amount,
         MerchantPaysIn(m, u, n), user_tokens' = user_tokens, total_spent' = total_spent,
         NEW mint \in Mints
  PROVE  PayInEnters(mint)
<1> DEFINE left == merchant_tokens[m] - n
           held == balance[u] + n
<1>1. /\ WalletTypeOK /\ balance[u] \in Nat /\ merchant_tokens[m] \in Nat /\ n \in Nat
      /\ merchant_tokens \in [Merchants -> Amount]
  BY BillingScales DEF BillingTypeOK, WalletTypeOK, Amount
<1>2. /\ left \in Amount /\ left - merchant_tokens[m] = 0 - n
      /\ held \in Amount /\ held - balance[u] = n
      /\ merchant_tokens' = [merchant_tokens EXCEPT ![m] = left]
      /\ balance' = [balance EXCEPT ![u] = held]
      /\ MerchantMint[m] = WalletMint[u]
      /\ treasury_tokens' = treasury_tokens
  BY <1>1 DEF MerchantPaysIn
<1> HIDE DEF left, held
<1>3. /\ WalletMint[u] = mint => TokensIn(mint)' = TokensIn(mint) + (held - balance[u])
      /\ WalletMint[u] # mint => TokensIn(mint)' = TokensIn(mint)
      /\ TokensIn(mint) \in Nat
  BY <1>1, <1>2, BalanceChangesTokens
<1>4. MerchantsHold(mint)' = IF MerchantMint[m] = mint
                             THEN MerchantsHold(mint) + (left - merchant_tokens[m])
                             ELSE MerchantsHold(mint)
  BY <1>1, <1>2, ReceiptEntered
<1>5. /\ MerchantsHold(mint) \in Nat /\ treasury_tokens[mint] \in Nat
      /\ PayeesHold(mint) = MerchantsHold(mint) + treasury_tokens[mint]
      /\ PayeesHold(mint)' = MerchantsHold(mint)' + treasury_tokens[mint]
  BY <1>2, LedgerTypes DEF PayeesHold, MerchantsHold
<1>6. SpentIn(mint)' = SpentIn(mint)
  BY DEF SpentIn, Holders
<1>7. CASE WalletMint[u] = mint
  <2>1. /\ TokensIn(mint)' = TokensIn(mint) + n
        /\ MerchantsHold(mint)' = MerchantsHold(mint) + (0 - n)
    BY <1>2, <1>3, <1>4, <1>7
  <2> QED
    BY <1>1, <1>2, <1>3, <1>5, <1>6, <2>1 DEF PayInEnters
<1>8. CASE WalletMint[u] # mint
  <2>1. TokensIn(mint)' = TokensIn(mint) /\ MerchantsHold(mint)' = MerchantsHold(mint)
    BY <1>2, <1>3, <1>4, <1>8
  <2> QED
    BY <1>2, <1>3, <1>5, <1>6, <2>1 DEF PayInEnters
<1> QED
  BY <1>7, <1>8

LEMMA TreasuryPaysInEnters ==
  ASSUME BillingTypeOK, NEW u \in Users, NEW n \in Amount,
         TreasuryPaysIn(u, n), user_tokens' = user_tokens, total_spent' = total_spent,
         NEW mint \in Mints
  PROVE  PayInEnters(mint)
<1> DEFINE held == balance[u] + n
<1>1. /\ WalletTypeOK /\ balance[u] \in Nat /\ n \in Nat
      /\ treasury_tokens \in [Mints -> Amount] /\ treasury_tokens[mint] \in Nat
  BY BillingScales DEF BillingTypeOK, WalletTypeOK, Amount
<1>2. /\ held \in Amount /\ held - balance[u] = n
      /\ balance' = [balance EXCEPT ![u] = held]
      /\ treasury_tokens' = [treasury_tokens EXCEPT ![WalletMint[u]] = @ - n]
      /\ treasury_tokens[WalletMint[u]] >= n
      /\ merchant_tokens' = merchant_tokens
  BY <1>1 DEF TreasuryPaysIn
<1> HIDE DEF held
<1>3. /\ WalletMint[u] = mint => TokensIn(mint)' = TokensIn(mint) + (held - balance[u])
      /\ WalletMint[u] # mint => TokensIn(mint)' = TokensIn(mint)
      /\ TokensIn(mint) \in Nat
  BY <1>1, <1>2, BalanceChangesTokens
<1>4. treasury_tokens'[mint] = IF WalletMint[u] = mint
                               THEN treasury_tokens[mint] - n
                               ELSE treasury_tokens[mint]
  BY <1>1, <1>2
<1>5. /\ MerchantsHold(mint) \in Nat
      /\ PayeesHold(mint) = MerchantsHold(mint) + treasury_tokens[mint]
      /\ PayeesHold(mint)' = MerchantsHold(mint) + treasury_tokens'[mint]
  BY <1>2, LedgerTypes DEF PayeesHold, MerchantsHold, Sellers
<1>6. SpentIn(mint)' = SpentIn(mint)
  BY DEF SpentIn, Holders
<1>7. CASE WalletMint[u] = mint
  <2>1. /\ TokensIn(mint)' = TokensIn(mint) + n
        /\ treasury_tokens'[mint] = treasury_tokens[mint] - n
        /\ treasury_tokens[mint] >= n
    BY <1>2, <1>3, <1>4, <1>7
  <2> QED
    BY <1>1, <1>3, <1>5, <1>6, <2>1 DEF PayInEnters
<1>8. CASE WalletMint[u] # mint
  <2>1. /\ TokensIn(mint)' = TokensIn(mint)
        /\ treasury_tokens'[mint] = treasury_tokens[mint]
    BY <1>3, <1>4, <1>8
  <2> QED
    BY <1>1, <1>3, <1>5, <1>6, <2>1 DEF PayInEnters
<1> QED
  BY <1>7, <1>8

LEMMA PayInEntered ==
  ASSUME BillingTypeOK, PayeeNext, NEW mint \in Mints
  PROVE  PayInEnters(mint)
<1>1. /\ WalletTypeOK
      /\ merchant_tokens \in [Merchants -> Amount]
      /\ treasury_tokens \in [Mints -> Amount]
  BY DEF BillingTypeOK
<1>2. /\ PayInElsewhere
      /\ \E u \in Users, n \in Amount :
           \/ \E m \in Merchants : MerchantPaysIn(m, u, n)
           \/ TreasuryPaysIn(u, n)
  BY <1>1, PayInMoves
<1>3. user_tokens' = user_tokens /\ total_spent' = total_spent
  BY <1>2 DEF PayInElsewhere, counterVars
<1> QED
  BY <1>2, <1>3, MerchantPaysInEnters, TreasuryPaysInEnters

-----------------------------------------------------------------------------
(* The ledgers agree.                                                      *)

Ledgers == TokensConserved /\ TreasuryTakesAtMostTenth

\* The treasury's part of a charge is at most a tenth of it, in every mint.
LEMMA ChargeKeepsTenth ==
  ASSUME BillingTypeOK, TreasuryTakesAtMostTenth, NEW u \in Users, NEW m \in Merchants,
         PaymentDue(u, m), RecordCharge(u, m)
  PROVE  TreasuryTakesAtMostTenth'
<1>0. PICK fee \in Amount \ {0} : \E part \in 0 .. fee : ChargeEnters(u, m, fee, part)
  BY ChargeEntered
<1>1. PICK part \in 0 .. fee : ChargeEnters(u, m, fee, part)
  BY <1>0
<1>2. fee \in Nat /\ part \in Nat
  BY BillingScales DEF Amount
<1>3. ASSUME NEW mint \in Mints PROVE treasury_tokens'[mint] * 10 <= SpentIn(mint)'
  <2>1. /\ treasury_tokens[mint] * 10 <= SpentIn(mint)
        /\ SpentIn(mint) \in Nat /\ treasury_tokens[mint] \in Nat
    BY LedgerTypes DEF TreasuryTakesAtMostTenth
  <2>2. CASE WalletMint[u] = mint
    BY <1>1, <1>2, <2>1, <2>2 DEF ChargeEnters, ChargeEntry
  <2>3. CASE WalletMint[u] # mint
    BY <1>1, <2>1, <2>3 DEF ChargeEnters, NoEntry
  <2> QED
    BY <2>2, <2>3
<1> QED
  BY <1>3 DEF TreasuryTakesAtMostTenth, SpentIn, Holders

LEMMA PayInKeepsTenth ==
  ASSUME BillingTypeOK, TreasuryTakesAtMostTenth, PayeeNext
  PROVE  TreasuryTakesAtMostTenth'
<1>1. ASSUME NEW mint \in Mints PROVE treasury_tokens'[mint] * 10 <= SpentIn(mint)'
  <2>1. PayInEnters(mint)
    BY PayInEntered
  <2>2. /\ treasury_tokens[mint] * 10 <= SpentIn(mint)
        /\ SpentIn(mint) \in Nat /\ treasury_tokens[mint] \in Nat
    BY LedgerTypes DEF TreasuryTakesAtMostTenth
  <2> QED
    BY <2>1, <2>2 DEF PayInEnters
<1> QED
  BY <1>1 DEF TreasuryTakesAtMostTenth, SpentIn, Holders

\* What a charge takes from the wallets of a mint its payees receive.
LEMMA ChargeConserves ==
  ASSUME BillingTypeOK, TokensConserved, NEW u \in Users, NEW m \in Merchants,
         ExecutePaymentFromWallet(u, m)
  PROVE  TokensConserved'
<1>0. PICK fee \in Amount \ {0} : \E part \in 0 .. fee : ChargeEnters(u, m, fee, part)
  BY ChargeEntered DEF ExecutePaymentFromWallet
<1>1. PICK part \in 0 .. fee : ChargeEnters(u, m, fee, part)
  BY <1>0
<1> DEFINE n == balance[u] - fee
<1>2. /\ balance[u] \in Nat /\ fee \in Nat /\ part \in Nat /\ balance[u] >= fee
      /\ WalletTypeOK
  <2>1. WalletTypeOK /\ balance[u] \in Amount /\ fee \in Amount
    BY DEF BillingTypeOK, WalletTypeOK
  <2>2. \A a \in Amount : a \in Nat
    BY BillingScales DEF Amount
  <2>3. balance[u] >= fee
    BY <1>1 DEF ChargeEnters, ExecutePaymentFromWallet
  <2> QED
    BY <2>1, <2>2, <2>3
<1>3. n - balance[u] = 0 - fee
  BY <1>2
<1>4. /\ n \in Amount
      /\ balance' = [balance EXCEPT ![u] = n]
      /\ user_tokens' = user_tokens
  BY <1>1, <1>2, CheckedArithmetic
     DEF ChargeEnters, ExecutePaymentFromWallet, WalletTypeOK
<1> HIDE DEF n
<1>5. ASSUME NEW mint \in Mints
      PROVE  TokensIn(mint)' + PayeesHold(mint)' = Cardinality(Holders(mint)) * InitialTokens
  <2>1. TokensIn(mint) + PayeesHold(mint) = Cardinality(Holders(mint)) * InitialTokens
    BY DEF TokensConserved
  <2>2. /\ WalletMint[u] = mint => TokensIn(mint)' = TokensIn(mint) + (n - balance[u])
        /\ WalletMint[u] # mint => TokensIn(mint)' = TokensIn(mint)
        /\ TokensIn(mint) \in Nat
    BY <1>2, <1>4, BalanceChangesTokens
  <2>3. /\ MerchantsHold(mint) \in Nat /\ treasury_tokens[mint] \in Nat
        /\ PayeesHold(mint) = MerchantsHold(mint) + treasury_tokens[mint]
        /\ PayeesHold(mint)' = MerchantsHold(mint)' + treasury_tokens'[mint]
    BY LedgerTypes DEF PayeesHold, MerchantsHold
  <2>4. CASE WalletMint[u] = mint
    <3>1. ChargeEntry(mint, fee, part)
      BY <1>1, <2>4 DEF ChargeEnters
    <3> QED
      BY <1>2, <1>3, <2>1, <2>2, <2>3, <2>4, <3>1 DEF ChargeEntry
  <2>5. CASE WalletMint[u] # mint
    <3>1. NoEntry(mint)
      BY <1>1, <2>5 DEF ChargeEnters
    <3> QED
      BY <2>1, <2>2, <2>3, <2>5, <3>1 DEF NoEntry
  <2> QED
    BY <2>4, <2>5
<1> QED
  BY <1>5 DEF TokensConserved, TokensIn, PayeesHold, Holders, Sellers

LEMMA PayInConserves ==
  ASSUME BillingTypeOK, TokensConserved, PayeeNext
  PROVE  TokensConserved'
<1>1. ASSUME NEW mint \in Mints
      PROVE  TokensIn(mint)' + PayeesHold(mint)' = Cardinality(Holders(mint)) * InitialTokens
  BY PayInEntered DEF PayInEnters, TokensConserved
<1> QED
  BY <1>1 DEF TokensConserved, TokensIn, PayeesHold, Holders, Sellers

LEMMA QuietLedgers ==
  ASSUME Ledgers,
         UNCHANGED <<user_tokens, balance, total_spent, merchant_tokens, treasury_tokens>>
  PROVE  Ledgers'
  BY DEF Ledgers, TokensConserved, TreasuryTakesAtMostTenth, TokensIn, PayeesHold, SpentIn,
         Holders, Sellers

LEMMA WalletKeepsLedgers ==
  ASSUME BillingTypeOK, Ledgers, WalletNext, UNCHANGED billingVars
  PROVE  Ledgers'
<1>1. \A mint : TokensIn(mint)' = TokensIn(mint)
  BY WalletStepKeepsTokens DEF BillingTypeOK
<1>2. \A mint : PayeesHold(mint)' = PayeesHold(mint) /\ SpentIn(mint)' = SpentIn(mint)
  BY DEF billingVars, counterVars, payeeVars, SpentIn, PayeesHold, Holders, Sellers
<1>3. \A mint : Holders(mint)' = Holders(mint)
  BY DEF Holders
<1>4. treasury_tokens' = treasury_tokens
  BY DEF billingVars, payeeVars
<1> QED
  BY <1>1, <1>2, <1>3, <1>4 DEF Ledgers, TokensConserved, TreasuryTakesAtMostTenth

LEMMA BookkeepingSpendsNothing ==
  ASSUME BookkeepingNext
  PROVE  UNCHANGED <<total_spent, merchant_tokens, treasury_tokens>>
  BY DEF BookkeepingNext, InitializeProtocol, UpdateProtocolFee, RegisterMerchant,
         SubscribeWithWallet, CancelSubscriptionWallet, ClockAdvances, counterVars,
         payeeVars

LEMMA LedgerStep ==
  ASSUME BillingTypeOK, Ledgers, [BillingNext]_svars
  PROVE  Ledgers'
<1>1. CASE UNCHANGED svars
  BY <1>1, QuietLedgers DEF svars, walletVars, billingVars, counterVars, payeeVars
<1>2. CASE WalletNext /\ UNCHANGED billingVars
  BY <1>2, WalletKeepsLedgers
<1>3. CASE BookkeepingNext /\ UNCHANGED walletVars
  BY <1>3, BookkeepingSpendsNothing, QuietLedgers DEF walletVars
<1>4. CASE PayeeNext
  BY <1>4, PayInKeepsTenth, PayInConserves DEF Ledgers
<1>5. ASSUME NEW u \in Users, NEW m \in Merchants, ExecutePaymentFromWallet(u, m)
      PROVE  Ledgers'
  <2>1. TreasuryTakesAtMostTenth'
    BY <1>5, ChargeKeepsTenth DEF ExecutePaymentFromWallet, Ledgers
  <2> QED
    BY <1>5, <2>1, ChargeConserves DEF Ledgers
<1> QED
  BY <1>1, <1>2, <1>3, <1>4, <1>5 DEF BillingNext

LEMMA LedgersStartEmpty ==
  ASSUME WalletInit, BillingInit
  PROVE  Ledgers
<1>1. \A mint : SpentIn(mint) = 0
  <2> TAKE mint
  <2>1. Holders(mint) \in SUBSET Users /\ Cap \in Nat
    BY BillingScales DEF Holders
  <2> QED
    BY <2>1, TotalOverZero DEF BillingInit, SpentIn
<1>2. \A mint \in Mints : PayeesHold(mint) = 0 /\ treasury_tokens[mint] = 0
  <2> TAKE mint \in Mints
  <2>1. Sellers(mint) \in SUBSET Merchants /\ Cap \in Nat
    BY BillingScales DEF Sellers
  <2>2. TotalOver(Sellers(mint), merchant_tokens, Cap) = 0
    BY <2>1, TotalOverZero DEF BillingInit
  <2> QED
    BY <2>2 DEF BillingInit, PayeesHold
<1>3. \A mint : /\ TokensIn(mint) = Cardinality(Holders(mint)) * InitialTokens
                /\ TokensIn(mint) \in Nat
  <2>1. WalletTypeOK
    BY BillingScales DEF WalletInit, WalletTypeOK
  <2> QED
    BY <2>1, InitialTokensIn, TokensAreNat
<1> QED
  BY <1>1, <1>2, <1>3 DEF Ledgers, TokensConserved, TreasuryTakesAtMostTenth

LEMMA LedgerInvariant == BillingSpec => []Ledgers
<1>1. SubscriptionsInit => Ledgers
  BY LedgersStartEmpty DEF SubscriptionsInit
<1>2. BillingTypeOK /\ Ledgers /\ [BillingNext]_svars => Ledgers'
  BY LedgerStep
<1> QED
  BY <1>1, <1>2, BillingTypeCorrectness, PTL DEF BillingSpec, svars

\* What leaves a wallet for a payee arrives, and what payees pay back in too, in
\* the same token, for any number of mints, wallets, plans and rates.
THEOREM TokensAreConserved == BillingSpec => []TokensConserved
<1>1. Ledgers => TokensConserved
  BY DEF Ledgers
<1> QED
  BY <1>1, LedgerInvariant, PTL

\* The treasury holds at most a tenth of all charges, whatever the rates were
\* when they were made and however fees and casts round.
THEOREM TreasuryIsBounded == BillingSpec => []TreasuryTakesAtMostTenth
<1>1. Ledgers => TreasuryTakesAtMostTenth
  BY DEF Ledgers
<1> QED
  BY <1>1, LedgerInvariant, PTL

-----------------------------------------------------------------------------
(* What a step takes from a wallet.                                        *)

\* What a step takes from each wallet is counted as spent or its owner's.
Explained ==
  \A u \in Users :
    balance'[u] < balance[u] \/ total_spent'[u] # total_spent[u] =>
      balance[u] - balance'[u] =
        (total_spent'[u] - total_spent[u]) + (user_tokens'[u] - user_tokens[u])

LEMMA WalletStepExplained ==
  ASSUME BillingTypeOK, WalletNext, UNCHANGED billingVars
  PROVE  Explained
<1>1. /\ user_tokens \in [Users -> Amount] /\ balance \in [Users -> Amount]
      /\ total_spent' = total_spent
      /\ \A u \in Users : total_spent[u] \in Nat
      /\ \A n \in Amount : n \in Nat
  BY BillingScales DEF BillingTypeOK, WalletTypeOK, billingVars, counterVars, Amount
<1>2. ASSUME NEW u \in Users, CreateSubscriptionWallet(u) PROVE Explained
  BY <1>1, <1>2 DEF CreateSubscriptionWallet, Explained
<1>3. ASSUME NEW payer \in Users, NEW u \in Users, NEW amount \in Amount,
             DepositToWallet(payer, u, amount)
      PROVE  Explained
  BY <1>1, <1>3 DEF DepositToWallet, CanPayIn, Explained
<1>4. ASSUME NEW u \in Users, NEW amount \in Amount, WithdrawFromWallet(u, amount)
      PROVE  Explained
  BY <1>1, <1>4 DEF WithdrawFromWallet, Explained
<1> QED
  BY WalletAssumption, <1>2, <1>3, <1>4 DEF WalletNext

LEMMA PayInExplained ==
  ASSUME BillingTypeOK, PayeeNext
  PROVE  Explained
<1>1. /\ WalletTypeOK
      /\ merchant_tokens \in [Merchants -> Amount]
      /\ treasury_tokens \in [Mints -> Amount]
  BY DEF BillingTypeOK
<1>2. /\ PayInElsewhere
      /\ \E u \in Users, n \in Amount : balance' = [balance EXCEPT ![u] = balance[u] + n]
  BY <1>1, PayInMoves DEF MerchantPaysIn, TreasuryPaysIn
<1>3. \A u \in Users : ~(balance'[u] < balance[u])
  BY <1>1, <1>2, BillingScales DEF WalletTypeOK, Amount
<1> QED
  BY <1>2, <1>3 DEF PayInElsewhere, counterVars, Explained

LEMMA ChargeExplained ==
  ASSUME BillingTypeOK, NEW u \in Users, NEW m \in Merchants,
         ExecutePaymentFromWallet(u, m)
  PROVE  Explained
<1> DEFINE fee == subscriptions[<<u, m>>].fee_amount
<1>1. /\ balance' = [balance EXCEPT ![u] = @ - fee]
      /\ total_spent' = [total_spent EXCEPT ![u] = @ + fee]
      /\ user_tokens' = user_tokens
      /\ fee \in Amount
  BY DEF ExecutePaymentFromWallet, RecordCharge, PaymentDue, BillingTypeOK,
         SubscriptionState
<1> HIDE DEF fee
<1>2. /\ balance \in [Users -> Amount] /\ total_spent \in [Users -> Amount]
      /\ user_tokens \in [Users -> Amount]
      /\ \A n \in Amount : n \in Nat
  BY BillingScales DEF BillingTypeOK, WalletTypeOK, Amount
<1> QED
  BY <1>1, <1>2 DEF Explained

LEMMA StepExplained ==
  ASSUME BillingTypeOK, BillingNext
  PROVE  Explained
<1>1. CASE BookkeepingNext /\ UNCHANGED walletVars
  <2>1. /\ balance' = balance /\ total_spent' = total_spent
        /\ \A u \in Users : balance[u] \in Nat
    BY <1>1, BookkeepingSpendsNothing, BillingScales
       DEF walletVars, BillingTypeOK, WalletTypeOK, Amount
  <2> QED
    BY <2>1 DEF Explained
<1> QED
  BY <1>1, WalletStepExplained, PayInExplained, ChargeExplained DEF BillingNext

\* Owners lose tokens by counted charges and their own withdrawals only, and
\* nothing is counted that has not left the wallet.
THEOREM SpendingIsAllThatLeaves == BillingSpec => OnlyChargesSpend
<1>1. BillingTypeOK /\ [BillingNext]_svars => [Explained]_svars
  BY StepExplained
<1> QED
  BY <1>1, BillingTypeCorrectness, PTL DEF BillingSpec, svars, Explained, OnlyChargesSpend

-----------------------------------------------------------------------------
(* What a wallet's open subscriptions say was paid.                        *)

PaidOf(u) == [key \in OpenSubscriptions(u) |-> subscriptions[key].total_paid]

LEMMA PaidSum ==
  ASSUME NEW u
  PROVE  /\ PaidBy(u) = Total(PaidOf(u), Cap)
         /\ PaidBy(u)' = Total(PaidOf(u)', Cap)
<1>1. PaidOf(u) = [key \in OpenSubscriptions(u) |->
                     [k \in DOMAIN subscriptions |-> subscriptions[k].total_paid][key]]
  BY DEF PaidOf, OpenSubscriptions
<1>2. PaidOf(u)' = [key \in OpenSubscriptions(u)' |->
                      [k \in DOMAIN subscriptions' |-> subscriptions'[k].total_paid][key]]
  BY DEF PaidOf, OpenSubscriptions
<1> QED
  BY <1>1, <1>2 DEF PaidBy, TotalOver

LEMMA PaidTallied ==
  ASSUME BillingTypeOK, NEW u \in Users
  PROVE  /\ IsFiniteSet(OpenSubscriptions(u)) /\ Cap \in Nat
         /\ PaidOf(u) \in Tallies(OpenSubscriptions(u), Cap)
         /\ PaidBy(u) = Total(PaidOf(u), Cap)
         /\ PaidBy(u) \in Nat
         /\ total_spent[u] \in Nat
<1>1. IsFiniteSet(OpenSubscriptions(u)) /\ Cap \in Nat
  BY OpenSubscriptionsFinite, BillingScales
<1>2. PaidOf(u) \in Tallies(OpenSubscriptions(u), Cap)
  BY BillingScales DEF PaidOf, Tallies, OpenSubscriptions, BillingTypeOK, SubscriptionState
<1>3. PaidBy(u) = Total(PaidOf(u), Cap)
  BY PaidSum
<1>4. total_spent[u] \in Nat
  BY BillingScales DEF BillingTypeOK, Amount
<1> QED
  BY <1>1, <1>2, <1>3, <1>4, TotalIsNat

\* A wallet whose subscriptions are left alone counts what it counted.
LEMMA SamePaid ==
  ASSUME BillingTypeOK, NEW u \in Users, PaidOf(u)' = PaidOf(u),
         PaidBy(u) <= total_spent[u], total_spent'[u] = total_spent[u]
  PROVE  PaidBy(u)' <= total_spent'[u]
<1>1. PaidBy(u) = Total(PaidOf(u), Cap) /\ PaidBy(u)' = Total(PaidOf(u)', Cap)
  BY PaidSum
<1> QED
  BY <1>1

\* A charge is counted once by the subscription and once by the wallet.
LEMMA ChargePaid ==
  ASSUME BillingTypeOK, PaidWithinSpent,
         NEW u \in Users, NEW m \in Merchants, PaymentDue(u, m), RecordCharge(u, m)
  PROVE  PaidWithinSpent'
<1> DEFINE key == <<u, m>>
           fee == subscriptions[key].fee_amount
           n == subscriptions[key].total_paid + fee
<1>1. /\ key \in DOMAIN subscriptions
      /\ subscriptions[key] \in SubscriptionState
      /\ DOMAIN subscriptions' = DOMAIN subscriptions
      /\ subscriptions'[key] = ChargedOnce(subscriptions[key])
      /\ \A k \in DOMAIN subscriptions : k # key => subscriptions'[k] = subscriptions[k]
      /\ n \in Amount
      /\ total_spent' = [total_spent EXCEPT ![u] = total_spent[u] + fee]
  <2>1. key \in DOMAIN subscriptions /\ subscriptions[key] \in SubscriptionState
    BY DEF PaymentDue, BillingTypeOK
  <2>2. subscriptions' = WriteAccount(subscriptions, key, ChargedOnce(subscriptions[key]))
    BY DEF RecordCharge
  <2>3. n \in Amount /\ total_spent' = [total_spent EXCEPT ![u] = total_spent[u] + fee]
    BY DEF RecordCharge, CanRecordCharge
  <2> HIDE DEF key
  <2> QED
    BY <2>1, <2>2, <2>3 DEF WriteAccount
<1>2. subscriptions'[key].total_paid = n
  BY <1>1 DEF ChargedOnce, SubscriptionState
<1>3. key[1] = u
  OBVIOUS
<1>4. total_spent \in [Users -> Amount] /\ fee \in Nat /\ subscriptions[key].total_paid \in Nat
  BY <1>1, BillingScales DEF BillingTypeOK, SubscriptionState, Amount
<1>5. n - subscriptions[key].total_paid = fee
  BY <1>4
<1> HIDE DEF key, fee, n
<1>6. \A w \in Users : OpenSubscriptions(w)' = OpenSubscriptions(w)
  BY <1>1 DEF OpenSubscriptions
<1>7. PaidBy(u)' <= total_spent'[u]
  <2>1. /\ IsFiniteSet(OpenSubscriptions(u)) /\ Cap \in Nat
        /\ PaidOf(u) \in Tallies(OpenSubscriptions(u), Cap)
        /\ PaidBy(u) = Total(PaidOf(u), Cap)
        /\ PaidBy(u) \in Nat /\ total_spent[u] \in Nat
        /\ PaidBy(u)' = Total(PaidOf(u)', Cap)
    BY PaidTallied, PaidSum
  <2>2. key \in OpenSubscriptions(u) /\ n \in 0 .. Cap
    BY <1>1, <1>3, BillingScales DEF OpenSubscriptions
  <2>3. PaidOf(u)' = [PaidOf(u) EXCEPT ![key] = n]
    BY <1>1, <1>2, <1>6, <2>2 DEF PaidOf, OpenSubscriptions
  <2>4. PaidOf(u)[key] = subscriptions[key].total_paid
    BY <2>2 DEF PaidOf
  <2>5. Total([PaidOf(u) EXCEPT ![key] = n], Cap)
          = Total(PaidOf(u), Cap) + (n - PaidOf(u)[key])
    BY <2>1, <2>2, TotalUpdate
  <2>6. PaidBy(u)' = PaidBy(u) + fee
    BY <1>5, <2>1, <2>3, <2>4, <2>5, Zenon
  <2>7. total_spent'[u] = total_spent[u] + fee
    BY <1>1, <1>4
  <2>8. PaidBy(u) <= total_spent[u]
    BY DEF PaidWithinSpent
  <2> QED
    BY <1>4, <2>1, <2>6, <2>7, <2>8
<1>8. ASSUME NEW w \in Users, w # u PROVE PaidBy(w)' <= total_spent'[w]
  <2>1. PaidOf(w)' = PaidOf(w)
    BY <1>1, <1>3, <1>6, <1>8 DEF PaidOf, OpenSubscriptions
  <2>2. total_spent'[w] = total_spent[w]
    BY <1>1, <1>4, <1>8
  <2> QED
    BY <2>1, <2>2, SamePaid DEF PaidWithinSpent
<1> QED
  BY <1>7, <1>8 DEF PaidWithinSpent

\* A new subscription has paid nothing.
LEMMA SubscribePaid ==
  ASSUME BillingTypeOK, PaidWithinSpent, NEW u \in Users,
         NEW plan \in PlanKeys, NEW token \in SessionTokens,
         SubscribeWithWallet(u, plan, token)
  PROVE  PaidWithinSpent'
<1> DEFINE key == <<u, plan[1]>>
<1>1. /\ key \notin DOMAIN subscriptions
      /\ DOMAIN subscriptions' = (DOMAIN subscriptions) \cup {key}
      /\ subscriptions'[key].total_paid = 0
      /\ \A k \in DOMAIN subscriptions : subscriptions'[k] = subscriptions[k]
      /\ total_spent' = total_spent
  BY DEF SubscribeWithWallet, WriteAccount, NewSubscription
<1>2. key[1] = u
  OBVIOUS
<1> HIDE DEF key
<1>3. PaidBy(u)' <= total_spent'[u]
  <2>1. /\ OpenSubscriptions(u)' = OpenSubscriptions(u) \cup {key}
        /\ key \notin OpenSubscriptions(u)
    BY <1>1, <1>2 DEF OpenSubscriptions
  <2>2. /\ DOMAIN PaidOf(u)' = DOMAIN PaidOf(u) \cup {key}
        /\ PaidOf(u)'[key] = 0
        /\ \A k \in DOMAIN PaidOf(u) : PaidOf(u)'[k] = PaidOf(u)[k]
        /\ key \notin DOMAIN PaidOf(u)
    BY <1>1, <2>1 DEF PaidOf, OpenSubscriptions
  <2>3. Total(PaidOf(u)', Cap) = Total(PaidOf(u), Cap)
    BY <2>2, BillingScales, TotalWithZero
  <2>4. PaidBy(u) = Total(PaidOf(u), Cap) /\ PaidBy(u)' = Total(PaidOf(u)', Cap)
    BY PaidTallied, PaidSum
  <2> QED
    BY <1>1, <2>3, <2>4 DEF PaidWithinSpent
<1>4. ASSUME NEW w \in Users, w # u PROVE PaidBy(w)' <= total_spent'[w]
  <2>1. OpenSubscriptions(w)' = OpenSubscriptions(w)
    BY <1>1, <1>2, <1>4 DEF OpenSubscriptions
  <2>2. PaidOf(w)' = PaidOf(w)
    BY <1>1, <2>1 DEF PaidOf, OpenSubscriptions
  <2> QED
    BY <1>1, <2>2, SamePaid DEF PaidWithinSpent
<1> QED
  BY <1>3, <1>4 DEF PaidWithinSpent

\* A closed subscription takes what it had paid out of the count.
LEMMA CancelPaid ==
  ASSUME BillingTypeOK, PaidWithinSpent, NEW u \in Users,
         NEW m \in Merchants, NEW plan \in PlanKeys, CancelSubscriptionWallet(u, m, plan)
  PROVE  PaidWithinSpent'
<1>1. /\ DOMAIN subscriptions' \subseteq DOMAIN subscriptions
      /\ \A k \in DOMAIN subscriptions' : subscriptions'[k] = subscriptions[k]
      /\ total_spent' = total_spent
  BY DEF CancelSubscriptionWallet, CloseAccount, Restrict
<1>2. ASSUME NEW w \in Users PROVE PaidBy(w)' <= total_spent'[w]
  <2>1. OpenSubscriptions(w)' \in SUBSET OpenSubscriptions(w)
    BY <1>1 DEF OpenSubscriptions
  <2>2. /\ IsFiniteSet(OpenSubscriptions(w)) /\ Cap \in Nat
        /\ PaidOf(w) \in Tallies(OpenSubscriptions(w), Cap)
        /\ PaidBy(w) = Total(PaidOf(w), Cap)
        /\ PaidBy(w) \in Nat /\ total_spent[w] \in Nat
        /\ PaidBy(w)' = Total(PaidOf(w)', Cap)
    BY PaidTallied, PaidSum
  <2>3. PaidOf(w)' = [k \in OpenSubscriptions(w)' |-> PaidOf(w)[k]]
    BY <1>1, <2>1 DEF PaidOf, OpenSubscriptions
  <2>4. TotalOver(OpenSubscriptions(w)', PaidOf(w), Cap) <= Total(PaidOf(w), Cap)
    BY <2>1, <2>2, TotalOfPart
  <2>5. PaidBy(w)' = TotalOver(OpenSubscriptions(w)', PaidOf(w), Cap)
    BY <2>2, <2>3, Zenon DEF TotalOver
  <2>6. PaidBy(w)' \in Nat /\ PaidBy(w)' <= PaidBy(w)
    <3>1. TotalOver(OpenSubscriptions(w)', PaidOf(w), Cap) \in Nat
      BY <2>1, <2>2, TotalOverIsNat
    <3> QED
      BY <2>2, <2>4, <2>5, <3>1, Zenon
  <2> QED
    BY <1>1, <2>2, <2>6 DEF PaidWithinSpent
<1> QED
  BY <1>2 DEF PaidWithinSpent

LEMMA PaidStep ==
  ASSUME BillingTypeOK, PaidWithinSpent, [BillingNext]_svars
  PROVE  PaidWithinSpent'
<1>1. CASE UNCHANGED <<subscriptions, total_spent>>
  BY <1>1, SamePaid DEF PaidWithinSpent, PaidOf, OpenSubscriptions
<1>2. CASE UNCHANGED svars \/ UNCHANGED billingVars
  BY <1>1, <1>2 DEF svars, billingVars, accountVars, counterVars
<1>3. ASSUME BookkeepingNext PROVE PaidWithinSpent'
  <2>1. ASSUME NEW bps \in FeeRates, InitializeProtocol(bps) \/ UpdateProtocolFee(bps)
        PROVE  PaidWithinSpent'
    BY <1>1, <2>1 DEF InitializeProtocol, UpdateProtocolFee, accountVars, counterVars
  <2>2. ASSUME NEW m \in Merchants, NEW plan_id \in PlanIds, NEW fee \in Fees,
               NEW interval \in Intervals, RegisterMerchant(m, plan_id, fee, interval)
        PROVE  PaidWithinSpent'
    BY <1>1, <2>2 DEF RegisterMerchant, counterVars
  <2>3. CASE ClockAdvances
    BY <1>1, <2>3 DEF ClockAdvances, accountVars, counterVars
  <2> QED
    BY <1>3, <2>1, <2>2, <2>3, SubscribePaid, CancelPaid DEF BookkeepingNext
<1>4. ASSUME NEW u \in Users, NEW m \in Merchants, ExecutePaymentFromWallet(u, m)
      PROVE  PaidWithinSpent'
  BY <1>4, ChargePaid DEF ExecutePaymentFromWallet
<1>5. CASE PayeeNext
  BY <1>1, <1>5, PayInLeavesBilling DEF PayInElsewhere, accountVars, counterVars
<1> QED
  BY <1>2, <1>3, <1>4, <1>5 DEF BillingNext

LEMMA NothingPaidAtFirst ==
  ASSUME BillingTypeOK, BillingInit
  PROVE  PaidWithinSpent
<1> SUFFICES ASSUME NEW u \in Users PROVE PaidBy(u) <= total_spent[u]
  BY DEF PaidWithinSpent
<1>1. PaidOf(u) = [key \in {} |-> 0]
  BY DEF PaidOf, OpenSubscriptions, BillingInit
<1>2. PaidBy(u) = 0
  <2>1. Total([key \in {} |-> 0], Cap) = 0
    BY BillingScales, TotalOfZero
  <2> QED
    BY <1>1, <2>1, PaidTallied, Zenon
<1> QED
  BY <1>2 DEF BillingInit

\* Through any sequence of subscribing, charging and cancelling, what a
\* wallet's open subscriptions say was paid is within what the wallet counts.
THEOREM PaymentsAreSpent == BillingSpec => []PaidWithinSpent
<1>1. BillingTypeOK /\ SubscriptionsInit => PaidWithinSpent
  BY NothingPaidAtFirst DEF SubscriptionsInit
<1>2. BillingTypeOK /\ PaidWithinSpent /\ [BillingNext]_svars => PaidWithinSpent'
  BY PaidStep
<1> QED
  BY <1>1, <1>2, BillingTypeCorrectness, PTL DEF BillingSpec, svars

=============================================================================
