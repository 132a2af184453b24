---------------------------- MODULE EventopProofs -----------------------------
(***************************************************************************)
(* The whole program: the vault's and billing's invariants hold together,  *)
(* every token is accounted for, and the custody promise is kept.  A step  *)
(* of the program is a step of one part that the others do not notice, so  *)
(* the parts' step lemmas carry over.                                      *)
(***************************************************************************)
EXTENDS EventopProgram, YieldVaultProofs, MandatesProofs, LedgerProofs

ProgramTypeOK == VaultTypeOK /\ BillingTypeOK

-----------------------------------------------------------------------------
(* A payment never redeems.                                                *)

\* The handler's last check reads the balance of before the redemption, so it
\* refuses every payment that has needed one.
LEMMA PaymentIsFromWallet ==
  ASSUME ProgramTypeOK, NEW u \in Users, NEW m \in Merchants, Pay(u, m)
  PROVE  ExecutePaymentFromWallet(u, m) /\ UNCHANGED vaultVars
<1>1. /\ balance \in [Users -> Amount] /\ buffer \in Nat
      /\ yield_shares \in [Users -> Amount] /\ total_shares_issued \in Nat
      /\ balance[u] \in Nat /\ yield_shares[u] \in Nat
  BY Scales DEF ProgramTypeOK, VaultTypeOK, WalletTypeOK, Amount
<1>2. subscriptions[<<u, m>>].fee_amount \in Nat
  BY Scales DEF CanPay, Pay, PaymentDue, ProgramTypeOK, BillingTypeOK, SubscriptionState, Amount
<1>3. balance[u] >= subscriptions[<<u, m>>].fee_amount
  BY DEF CanPay, Pay
<1>4. ~NeedsRedemption(u, m)
  BY <1>1, <1>2, <1>3 DEF NeedsRedemption
<1>5. /\ PaymentDue(u, m)
      /\ RecordCharge(u, m)
      /\ balance' = [balance EXCEPT ![u] = @ + 0 - subscriptions[<<u, m>>].fee_amount]
      /\ buffer' = buffer - 0
      /\ yield_shares' = [yield_shares EXCEPT ![u] = @ - 0]
      /\ total_shares_issued' = total_shares_issued - 0
      /\ UNCHANGED <<user_tokens, wallets, configVars, emergencyVars,
                     total_usdc_deposited, is_yield_enabled, lendingVars,
                     protocolVars, merchant_plans, session_tokens,
                     total_subscriptions, current_time>>
  BY <1>4 DEF CanPay, Pay
<1>6. /\ buffer' = buffer /\ yield_shares' = yield_shares
      /\ total_shares_issued' = total_shares_issued
  BY <1>1, <1>5
<1>7. balance' = [balance EXCEPT ![u] = @ - subscriptions[<<u, m>>].fee_amount]
  <2> DEFINE fee == subscriptions[<<u, m>>].fee_amount
  <2>1. fee \in Nat /\ balance' = [balance EXCEPT ![u] = balance[u] + 0 - fee]
    BY <1>2, <1>5
  <2> HIDE DEF fee
  <2>2. balance[u] + 0 - fee = balance[u] - fee
    BY <1>1, <2>1
  <2>3. balance' = [balance EXCEPT ![u] = balance[u] - fee]
    BY <2>1, <2>2
  <2> QED
    BY <2>3 DEF fee
<1> QED
  BY <1>3, <1>5, <1>6, <1>7
     DEF ExecutePaymentFromWallet, vaultVars, positionVars

-----------------------------------------------------------------------------
(* The parts' invariants.                                                  *)

\* What the parts' steps are of the program's steps.
LEMMA PartsOfStep ==
  ASSUME ProgramTypeOK, [ProgramNext]_allVars
  PROVE  \/ [Next]_vars /\ UNCHANGED billingVars
         \/ [BillingNext]_svars /\ UNCHANGED vaultVars
<1>1. CASE UNCHANGED allVars
  BY <1>1 DEF allVars, vars
<1>2. CASE WalletNext /\ UNCHANGED <<vaultVars, billingVars>>
  BY <1>2 DEF Next
<1>3. CASE VaultNext /\ UNCHANGED billingVars
  BY <1>3 DEF Next
<1>4. CASE BookkeepingNext /\ UNCHANGED <<walletVars, vaultVars>>
  BY <1>4 DEF BillingNext
<1>5. CASE PayeeNext /\ UNCHANGED vaultVars
  BY <1>5 DEF BillingNext
<1>6. ASSUME NEW u \in Users, NEW m \in Merchants, Pay(u, m)
      PROVE  BillingNext /\ UNCHANGED vaultVars
  BY <1>6, PaymentIsFromWallet DEF BillingNext
<1> QED
  BY <1>1, <1>2, <1>3, <1>4, <1>5, <1>6 DEF ProgramNext

LEMMA ProgramTypeStep ==
  ASSUME ProgramTypeOK, [ProgramNext]_allVars
  PROVE  ProgramTypeOK'
<1>1. CASE [Next]_vars /\ UNCHANGED billingVars
  <2>1. VaultTypeOK'
    BY <1>1, TypeStep DEF ProgramTypeOK
  <2>2. BillingTypeOK'
    BY <1>1, <2>1
       DEF ProgramTypeOK, VaultTypeOK, BillingTypeOK, billingVars, protocolVars,
           accountVars, counterVars, payeeVars
  <2> QED
    BY <2>1, <2>2 DEF ProgramTypeOK
<1>2. CASE [BillingNext]_svars /\ UNCHANGED vaultVars
  <2>1. BillingTypeOK'
    BY <1>2, BillingStepTyped DEF ProgramTypeOK
  <2>2. VaultTypeOK'
    BY <1>2, <2>1
       DEF ProgramTypeOK, VaultTypeOK, BillingTypeOK, vaultVars, configVars,
           emergencyVars, positionVars, lendingVars
  <2> QED
    BY <2>1, <2>2 DEF ProgramTypeOK
<1> QED
  BY <1>1, <1>2, PartsOfStep

\* Shares depend on nothing billing changes.
LEMMA ProgramShareStep ==
  ASSUME ProgramTypeOK, ShareInv, [ProgramNext]_allVars
  PROVE  ShareInv'
<1>1. CASE [Next]_vars
  BY <1>1, ShareStep DEF ProgramTypeOK
<1>2. CASE UNCHANGED vaultVars
  BY <1>2 DEF ShareInv, SharesBacked, DisabledWalletHoldsNoShares, UntouchedBeforeInit,
              vaultVars, configVars, positionVars
<1> QED
  BY <1>1, <1>2, PartsOfStep

\* The ledgers of billing depend on nothing the vault changes.
LEMMA ProgramTenthStep ==
  ASSUME ProgramTypeOK, TreasuryTakesAtMostTenth, [ProgramNext]_allVars
  PROVE  TreasuryTakesAtMostTenth'
<1>1. CASE UNCHANGED <<total_spent, treasury_tokens>>
  BY <1>1 DEF TreasuryTakesAtMostTenth, SpentIn, Holders
<1>2. CASE UNCHANGED billingVars
  BY <1>1, <1>2 DEF billingVars, counterVars, payeeVars
<1>3. CASE UNCHANGED svars
  BY <1>2, <1>3 DEF svars
<1>4. CASE BookkeepingNext
  BY <1>1, <1>4, BookkeepingSpendsNothing
<1>5. CASE PayeeNext
  BY <1>5, PayInKeepsTenth DEF ProgramTypeOK
<1>6. ASSUME NEW u \in Users, NEW m \in Merchants, ExecutePaymentFromWallet(u, m)
      PROVE  TreasuryTakesAtMostTenth'
  BY <1>6, ChargeKeepsTenth DEF ProgramTypeOK, ExecutePaymentFromWallet
<1> QED
  BY <1>2, <1>3, <1>4, <1>5, <1>6, PartsOfStep DEF BillingNext

-----------------------------------------------------------------------------
(* Every token.                                                            *)

\* A payment takes from the tokens of a mint what its payees receive.
LEMMA PaymentAccounted ==
  ASSUME ProgramTypeOK, EveryTokenAccounted, NEW u \in Users, NEW m \in Merchants,
         ExecutePaymentFromWallet(u, m), UNCHANGED vaultVars
  PROVE  EveryTokenAccounted'
<1>1. BillingTypeOK
  BY DEF ProgramTypeOK
<1>2. PICK fee \in Amount \ {0} : \E part \in 0 .. fee : ChargeEnters(u, m, fee, part)
  BY <1>1, ChargeEntered DEF ExecutePaymentFromWallet
<1>3. PICK part \in 0 .. fee : ChargeEnters(u, m, fee, part)
  BY <1>2
<1> DEFINE n == balance[u] - fee
<1>4. /\ balance[u] \in Nat /\ fee \in Nat /\ part \in Nat /\ balance[u] >= fee
      /\ WalletTypeOK
  BY <1>1, <1>3, BillingScales
     DEF ChargeEnters, ExecutePaymentFromWallet, BillingTypeOK, WalletTypeOK, Amount
<1>5. n - balance[u] = 0 - fee
  BY <1>4
<1>6. /\ n \in Amount
      /\ balance' = [balance EXCEPT ![u] = n]
      /\ user_tokens' = user_tokens
  BY <1>3, <1>4, CheckedArithmetic
     DEF ChargeEnters, ExecutePaymentFromWallet, WalletTypeOK
<1> HIDE DEF n
<1>7. total_usdc_deposited' = total_usdc_deposited
  BY DEF vaultVars, positionVars
<1>8. ASSUME NEW mint \in Mints
      PROVE  TokensIn(mint)' + Principal(mint)' + PayeesHold(mint)'
               = Cardinality(Holders(mint)) * InitialTokens
  <2>1. /\ TokensIn(mint) + Principal(mint) + PayeesHold(mint)
             = Cardinality(Holders(mint)) * InitialTokens
        /\ Principal(mint)' = Principal(mint)
    BY <1>7 DEF EveryTokenAccounted, Principal
  <2>2. /\ WalletMint[u] = mint => TokensIn(mint)' = TokensIn(mint) + (n - balance[u])
        /\ WalletMint[u] # mint => TokensIn(mint)' = TokensIn(mint)
        /\ TokensIn(mint) \in Nat
    BY <1>4, <1>6, BalanceChangesTokens
  <2>3. /\ MerchantsHold(mint) \in Nat /\ treasury_tokens[mint] \in Nat
        /\ PayeesHold(mint) = MerchantsHold(mint) + treasury_tokens[mint]
        /\ PayeesHold(mint)' = MerchantsHold(mint)' + treasury_tokens'[mint]
    BY <1>1, LedgerTypes DEF PayeesHold, MerchantsHold
  <2>4. Principal(mint) \in Nat
    BY Scales DEF Principal, ProgramTypeOK, VaultTypeOK, Amount
  <2>5. CASE WalletMint[u] = mint
    <3>1. ChargeEntry(mint, fee, part)
      BY <1>3, <2>5 DEF ChargeEnters
    <3> QED
      BY <1>4, <1>5, <2>1, <2>2, <2>3, <2>4, <2>5, <3>1 DEF ChargeEntry
  <2>6. CASE WalletMint[u] # mint
    <3>1. NoEntry(mint)
      BY <1>3, <2>6 DEF ChargeEnters
    <3> QED
      BY <2>1, <2>2, <2>3, <2>6, <3>1 DEF NoEntry
  <2> QED
    BY <2>5, <2>6
<1> QED
  BY <1>8 DEF EveryTokenAccounted, TokensIn, PayeesHold, Holders, Sellers, Principal

LEMMA PayInAccounted ==
  ASSUME ProgramTypeOK, EveryTokenAccounted, PayeeNext, UNCHANGED vaultVars
  PROVE  EveryTokenAccounted'
<1>1. ASSUME NEW mint \in Mints
      PROVE  TokensIn(mint)' + Principal(mint)' + PayeesHold(mint)'
               = Cardinality(Holders(mint)) * InitialTokens
  <2>1. BillingTypeOK
    BY DEF ProgramTypeOK
  <2>2. PayInEnters(mint)
    BY <2>1, PayInEntered
  <2>3. Principal(mint)' = Principal(mint) /\ Principal(mint) \in Nat
    BY Scales DEF Principal, vaultVars, positionVars, ProgramTypeOK, VaultTypeOK, Amount
  <2>4. TokensIn(mint) \in Nat /\ PayeesHold(mint) \in Nat
    BY <2>1, TokensAreNat, LedgerTypes DEF PayeesHold, MerchantsHold, BillingTypeOK
  <2>5. TokensIn(mint) + Principal(mint) + PayeesHold(mint)
          = Cardinality(Holders(mint)) * InitialTokens
    BY DEF EveryTokenAccounted
  <2> QED
    BY <2>2, <2>3, <2>4, <2>5 DEF PayInEnters
<1> QED
  BY <1>1 DEF EveryTokenAccounted, TokensIn, PayeesHold, Holders, Sellers, Principal

LEMMA ProgramCountStep ==
  ASSUME ProgramTypeOK, ShareInv, EveryTokenAccounted, [ProgramNext]_allVars
  PROVE  EveryTokenAccounted'
<1>1. CASE [Next]_vars /\ UNCHANGED billingVars
  <2>1. ASSUME NEW mint \in Mints
        PROVE  TokensIn(mint)' + Principal(mint)' + PayeesHold(mint)'
                 = Cardinality(Holders(mint)) * InitialTokens
    <3>1. TokensIn(mint)' + Principal(mint)' = TokensIn(mint) + Principal(mint)
      BY <1>1, CountStep DEF ProgramTypeOK, Unspent
    <3>2. PayeesHold(mint)' = PayeesHold(mint)
      BY <1>1 DEF PayeesHold, Sellers, billingVars, payeeVars
    <3> QED
      BY <3>1, <3>2 DEF EveryTokenAccounted
  <2> QED
    BY <2>1 DEF EveryTokenAccounted, TokensIn, PayeesHold, Principal, Holders, Sellers
<1>2. CASE UNCHANGED <<walletVars, vaultVars, merchant_tokens, treasury_tokens>>
  BY <1>2 DEF EveryTokenAccounted, TokensIn, Principal, PayeesHold, Holders, Sellers,
              walletVars, vaultVars, positionVars
<1>3. CASE WalletNext /\ UNCHANGED billingVars /\ UNCHANGED vaultVars
  BY <1>1, <1>3 DEF Next
<1>4. CASE BookkeepingNext /\ UNCHANGED walletVars /\ UNCHANGED vaultVars
  BY <1>2, <1>4, BookkeepingSpendsNothing
<1>5. ASSUME NEW u \in Users, NEW m \in Merchants, ExecutePaymentFromWallet(u, m),
             UNCHANGED vaultVars
      PROVE  EveryTokenAccounted'
  BY <1>5, PaymentAccounted
<1>6. CASE UNCHANGED svars /\ UNCHANGED vaultVars
  BY <1>2, <1>6 DEF svars, billingVars, payeeVars
<1>7. CASE PayeeNext /\ UNCHANGED vaultVars
  BY <1>7, PayInAccounted
<1> QED
  BY <1>1, <1>3, <1>4, <1>5, <1>6, <1>7, PartsOfStep DEF BillingNext

\* Billing takes away no wallet and changes nothing of the vault.
LEMMA ProgramAccessStep ==
  ASSUME ProgramTypeOK, AccessInv, [ProgramNext]_allVars
  PROVE  AccessInv'
<1>1. CASE [Next]_vars
  BY <1>1, AccessStep DEF ProgramTypeOK
<1>2. CASE [BillingNext]_svars /\ UNCHANGED vaultVars
  <2>1. wallets \subseteq wallets'
    BY <1>2, PayInLeavesBilling
    DEF BillingNext, svars, walletVars, WalletNext, CreateSubscriptionWallet,
        DepositToWallet, WithdrawFromWallet, PayInElsewhere, ExecutePaymentFromWallet
  <2>2. /\ UNCHANGED <<vault_initialized, yield_shares, exchange_price>>
        /\ exchange_price \in Nat /\ exchange_price >= exchange_price
    BY <1>2 DEF vaultVars, configVars, positionVars, lendingVars, ProgramTypeOK, VaultTypeOK
  <2> QED
    BY <2>1, <2>2, AccessKept DEF ProgramTypeOK
<1> QED
  BY <1>1, <1>2, PartsOfStep

\* The accounts and counters of billing.
BooksInv == BillingInv /\ WalletCounterExact /\ PlanCountersCover /\ PaidWithinSpent

LEMMA BooksUntouched ==
  ASSUME BooksInv, UNCHANGED billingVars
  PROVE  BooksInv'
<1> USE DEF billingVars, accountVars, counterVars
<1>1. BillingInv'
  BY DEF BooksInv, BillingInv, Consistent
<1>2. WalletCounterExact'
  BY SameKeysSameCounts DEF BooksInv
<1>3. PlanCountersCover'
  BY QuietCovers, SamePlansSameSum DEF BooksInv
<1>4. PaidWithinSpent'
  BY DEF BooksInv, PaidWithinSpent, PaidBy, OpenSubscriptions
<1> QED
  BY <1>1, <1>2, <1>3, <1>4 DEF BooksInv

LEMMA ProgramBooksStep ==
  ASSUME ProgramTypeOK, BooksInv, [ProgramNext]_allVars
  PROVE  BooksInv'
<1>1. CASE [BillingNext]_svars
  BY <1>1, BillingInvStep, CounterStep, CoverStep, PaidStep DEF BooksInv, ProgramTypeOK
<1> QED
  BY <1>1, BooksUntouched, PartsOfStep

ProgramInv ==
  /\ ProgramTypeOK
  /\ ShareInv
  /\ AccessInv
  /\ TreasuryTakesAtMostTenth
  /\ EveryTokenAccounted
  /\ BooksInv

LEMMA ProgramStart ==
  ASSUME ProgramInit
  PROVE  ProgramInv
<1>0. WalletInit /\ VaultInit /\ BillingInit
  BY DEF ProgramInit, Init
<1>1. ProgramTypeOK
  BY <1>0, VaultStartsTyped, BillingStartsTyped DEF Init, ProgramTypeOK
<1>2. ShareInv /\ AccessInv /\ TreasuryTakesAtMostTenth
  BY <1>0, VaultStartsBacked, VaultStartsOpen, LedgersStartEmpty DEF Init, Ledgers
<1>3. \A mint \in Mints : TokensIn(mint) + PayeesHold(mint)
                            = Cardinality(Holders(mint)) * InitialTokens
  BY <1>0, LedgersStartEmpty DEF Ledgers, TokensConserved
<1>4. \A mint \in Mints : TokensIn(mint) \in Nat /\ PayeesHold(mint) \in Nat
  BY <1>1, LedgerTypes, TokensAreNat
     DEF ProgramTypeOK, BillingTypeOK, PayeesHold, MerchantsHold
<1>5. \A mint \in Mints : Principal(mint) = 0
  BY <1>0 DEF VaultInit, Principal
<1>6. EveryTokenAccounted
  BY <1>3, <1>4, <1>5 DEF EveryTokenAccounted
<1>7. BillingInv
  BY <1>0 DEF BillingInit, BillingInv
<1>8. WalletCounterExact /\ PlanCountersCover /\ PaidWithinSpent
  BY <1>0, <1>1, NothingCountedAtFirst, NothingCoveredAtFirst, NothingPaidAtFirst
  DEF ProgramTypeOK
<1> QED
  BY <1>1, <1>2, <1>6, <1>7, <1>8 DEF ProgramInv, BooksInv

\* The invariant of the whole program is the conjunction of the parts'.
LEMMA ProgramInvariant == ProgramSpec => []ProgramInv
<1>1. ProgramInit => ProgramInv
  BY ProgramStart
<1>2. ProgramInv /\ [ProgramNext]_allVars => ProgramInv'
  BY ProgramTypeStep, ProgramShareStep, ProgramAccessStep, ProgramTenthStep,
     ProgramCountStep, ProgramBooksStep
  DEF ProgramInv
<1> QED
  BY <1>1, <1>2, PTL DEF ProgramSpec

\* Each token of each mint is in an owner's account, a wallet, the vault's
\* principal or a payee's account, whatever payments, deposits by payees,
\* redemptions and rebalances do.
THEOREM TokensAreAccounted == ProgramSpec => []EveryTokenAccounted
<1>1. ProgramInv => EveryTokenAccounted
  BY DEF ProgramInv
<1> QED
  BY <1>1, ProgramInvariant, PTL

-----------------------------------------------------------------------------
(* Custody.                                                                *)

LEMMA BalancesAreNat ==
  ASSUME ProgramTypeOK
  PROVE  /\ \A u \in Users : balance[u] \in Nat /\ user_tokens[u] \in Nat
         /\ balance \in [Users -> Amount]
         /\ total_usdc_deposited \in Nat
  BY Scales DEF ProgramTypeOK, VaultTypeOK, WalletTypeOK, Amount

\* Deposits and withdrawals move tokens between owner and wallet.
LEMMA WalletKeepsCustody ==
  ASSUME ProgramTypeOK, WalletNext, UNCHANGED <<vaultVars, billingVars>>
  PROVE  [Custodian!Next]_(Custodian!vars)
<1>0. UNCHANGED <<total_usdc_deposited, merchant_tokens, treasury_tokens>>
  BY DEF vaultVars, positionVars, billingVars, payeeVars
<1>1. ASSUME NEW u \in Users, CreateSubscriptionWallet(u)
      PROVE  UNCHANGED Custodian!vars
  BY <1>0, <1>1 DEF CreateSubscriptionWallet, Custodian!vars
<1>2. ASSUME NEW payer \in Users, NEW u \in Users, NEW amount \in Amount,
             DepositToWallet(payer, u, amount)
      PROVE  Custodian!Next
  <2>1. amount \in 1 .. user_tokens[payer]
    BY <1>2, BalancesAreNat, Scales DEF DepositToWallet, CanPayIn, CanTransfer, Amount
  <2>2. Custodian!PayIn(payer, u, amount)
    BY <1>0, <1>2 DEF DepositToWallet, CanPayIn, Custodian!PayIn
  <2> QED
    BY <2>1, <2>2 DEF Custodian!Next
<1>3. ASSUME NEW u \in Users, NEW amount \in Amount, WithdrawFromWallet(u, amount)
      PROVE  Custodian!Next
  <2>1. amount \in 1 .. balance[u]
    BY <1>3, BalancesAreNat, Scales DEF WithdrawFromWallet, CanTransfer, Amount
  <2>2. Custodian!PayOut(u, amount)
    BY <1>0, <1>3 DEF WithdrawFromWallet, Custodian!PayOut
  <2> QED
    BY <2>1, <2>2 DEF Custodian!Next
<1> QED
  BY <1>1, <1>2, <1>3, WalletAssumption DEF WalletNext

\* Shares are issued for tokens that become principal.
LEMMA IssueInvests ==
  ASSUME ProgramTypeOK, NEW u \in Users, WalletMint[u] = VaultMint,
         NEW tokens \in Amount, tokens > 0, NEW shares, IssueShares(u, tokens, shares),
         UNCHANGED billingVars
  PROVE  Custodian!Next
<1>1. tokens \in 1 .. balance[u]
  BY BalancesAreNat, Scales DEF IssueShares, CanTransfer, Amount
<1>2. Custodian!Invest(u, tokens)
  BY DEF IssueShares, Custodian!Invest, billingVars, payeeVars
<1> QED
  BY <1>1, <1>2 DEF Custodian!Next

\* Shares are redeemed for principal; dust redeems for nothing.
LEMMA RedeemDivests ==
  ASSUME ProgramTypeOK, NEW u \in Users, WalletMint[u] = VaultMint,
         NEW tokens \in Amount, NEW shares, RedeemShares(u, shares, tokens),
         UNCHANGED billingVars
  PROVE  [Custodian!Next]_(Custodian!vars)
<1>0. UNCHANGED <<user_tokens, merchant_tokens, treasury_tokens>>
  BY DEF RedeemShares, billingVars, payeeVars
<1>1. CASE tokens = 0
  <2>1. balance' = [balance EXCEPT ![u] = balance[u] + tokens]
    BY DEF RedeemShares
  <2>2. balance[u] + tokens = balance[u]
    BY <1>1, BalancesAreNat
  <2>3. [balance EXCEPT ![u] = balance[u]] = balance
    BY BalancesAreNat
  <2>4. balance' = balance
    BY <2>1, <2>2, <2>3
  <2>5. total_usdc_deposited' = total_usdc_deposited
    BY <1>1, BalancesAreNat DEF RedeemShares
  <2> QED
    BY <1>0, <2>4, <2>5 DEF Custodian!vars
<1>2. CASE tokens # 0
  <2>1. tokens \in 1 .. total_usdc_deposited
    BY <1>2, BalancesAreNat, Scales DEF CanPayShares, RedeemShares, Amount
  <2>2. Custodian!Divest(u, tokens)
    BY <1>0 DEF RedeemShares, Custodian!Divest
  <2> QED
    BY <2>1, <2>2 DEF Custodian!Next
<1> QED
  BY <1>1, <1>2

\* The vault's instructions, the authority's included, invest, divest or move
\* nothing an owner has entrusted.
LEMMA VaultKeepsCustody ==
  ASSUME ProgramTypeOK, ShareInv, VaultNext, UNCHANGED billingVars
  PROVE  [Custodian!Next]_(Custodian!vars)
<1>0. /\ VaultTypeOK
      /\ BufferOnlyValue \in Amount /\ total_shares_issued \in Amount
      /\ \A u \in Users : yield_shares[u] \in Amount
  BY Valuations DEF ProgramTypeOK, VaultTypeOK
<1>1. ASSUME UNCHANGED <<walletVars, total_usdc_deposited>>
      PROVE  UNCHANGED Custodian!vars
  BY <1>1 DEF Custodian!vars, walletVars, billingVars, payeeVars
<1>2. ASSUME NEW bps \in BufferRatios, InitializeYieldVault(bps)
      PROVE  UNCHANGED Custodian!vars
  BY <1>1, <1>2 DEF InitializeYieldVault, ShareInv, UntouchedBeforeInit
<1>3. ASSUME NEW u \in Users, NEW amount \in Amount, EnableYield(u, amount)
      PROVE  Custodian!Next
  <2> DEFINE yield_amount == amount - calculate_buffer_amount(amount, target_buffer_bps)
             shares == IF total_shares_issued = 0
                       THEN yield_amount
                       ELSE calculate_shares_for_deposit(yield_amount,
                              total_shares_issued, BufferOnlyValue)
  <2>1. yield_amount \in Amount
    BY <1>0, EnableTypes
  <2>2. yield_amount > 0 /\ IssueShares(u, yield_amount, shares) /\ WalletMint[u] = VaultMint
    BY <1>3 DEF EnableYield, HasVault
  <2> HIDE DEF yield_amount, shares
  <2> QED
    BY <2>1, <2>2, IssueInvests
<1>4. ASSUME NEW u \in Users, NEW amount \in Amount, DepositToYield(u, amount)
      PROVE  Custodian!Next
  BY <1>4, IssueInvests DEF DepositToYield, HasVault
<1>5. ASSUME NEW u \in Users, DisableYield(u) PROVE [Custodian!Next]_(Custodian!vars)
  <2>1. RedeemableValue(yield_shares[u]) \in Amount
    BY <1>0, ResultTypes DEF RedeemableValue
  <2> QED
    BY <1>5, <2>1, RedeemDivests DEF HoldsShares, DisableYield, HasVault
<1>6. ASSUME NEW u \in Users, NEW shares \in Amount, WithdrawFromYield(u, shares)
      PROVE  [Custodian!Next]_(Custodian!vars)
  <2>1. RedeemableValue(shares) \in Amount
    BY <1>0, ResultTypes DEF RedeemableValue
  <2> QED
    BY <1>6, <2>1, RedeemDivests DEF HoldsShares, WithdrawFromYield, HasVault
<1>7. ASSUME LendingAccrues \/ RebalanceVault PROVE UNCHANGED Custodian!vars
  BY <1>1, <1>7 DEF LendingAccrues, RebalanceVault, positionVars
<1>8. ASSUME NEW enabled \in BOOLEAN, SetEmergencyMode(enabled)
      PROVE  UNCHANGED Custodian!vars
  BY <1>1, <1>8 DEF SetEmergencyMode, positionVars
<1> QED
  BY <1>2, <1>3, <1>4, <1>5, <1>6, <1>7, <1>8, VaultAssumption DEF VaultNext

\* A payment is a charge with at most a tenth for the protocol.
LEMMA PaymentKeepsCustody ==
  ASSUME ProgramTypeOK, NEW u \in Users, NEW m \in Merchants,
         ExecutePaymentFromWallet(u, m), UNCHANGED vaultVars
  PROVE  Custodian!Next
<1>1. PICK fee \in Amount \ {0} : \E part \in 0 .. fee : ChargeMoves(u, m, fee, part)
  BY ChargeAmounts DEF ProgramTypeOK, ExecutePaymentFromWallet
<1>2. PICK part \in 0 .. fee : ChargeMoves(u, m, fee, part)
  BY <1>1
<1>3. /\ fee \in Nat /\ fee > 0 /\ part \in Nat
      /\ balance[u] \in Nat
  BY BalancesAreNat, Scales DEF Amount
<1>4. /\ 10 * part <= fee
      /\ fee = subscriptions[<<u, m>>].fee_amount
      /\ WalletMint[u] = MerchantMint[m]
  BY <1>2, <1>3 DEF ChargeMoves
<1>5. fee \in 1 .. balance[u]
  BY <1>3, <1>4 DEF ExecutePaymentFromWallet
<1>6. total_usdc_deposited' = total_usdc_deposited
  BY DEF vaultVars, positionVars
<1>7. Custodian!Charge(u, m, fee, part)
  BY <1>2, <1>3, <1>4, <1>6 DEF ExecutePaymentFromWallet, ChargeMoves, Custodian!Charge
<1> QED
  BY <1>2, <1>5, <1>7 DEF Custodian!Next

\* A payee's deposit stays within the wallet's mint.
LEMMA PayInKeepsCustody ==
  ASSUME ProgramTypeOK, PayeeNext, UNCHANGED vaultVars
  PROVE  Custodian!Next
<1>1. /\ WalletTypeOK
      /\ merchant_tokens \in [Merchants -> Amount]
      /\ treasury_tokens \in [Mints -> Amount]
      /\ \A k \in Amount : k \in Nat
  BY Scales DEF ProgramTypeOK, VaultTypeOK, BillingTypeOK, Amount
<1>2. /\ PayInElsewhere
      /\ \E u \in Users, n \in Amount :
           \/ \E m \in Merchants : MerchantPaysIn(m, u, n)
           \/ TreasuryPaysIn(u, n)
  BY <1>1, PayInMoves
<1>3. user_tokens' = user_tokens /\ total_usdc_deposited' = total_usdc_deposited
  BY <1>2 DEF PayInElsewhere, vaultVars, positionVars
<1>4. ASSUME NEW u \in Users, NEW n \in Amount, NEW m \in Merchants,
             MerchantPaysIn(m, u, n)
      PROVE  Custodian!Next
  <2>1. n \in 1 .. merchant_tokens[m]
    BY <1>1, <1>4 DEF MerchantPaysIn
  <2>2. Custodian!MerchantPaysIn(m, u, n)
    BY <1>3, <1>4 DEF MerchantPaysIn, Custodian!MerchantPaysIn
  <2> QED
    BY <2>1, <2>2 DEF Custodian!Next
<1>5. ASSUME NEW u \in Users, NEW n \in Amount, TreasuryPaysIn(u, n)
      PROVE  Custodian!Next
  <2>1. n \in 1 .. treasury_tokens[WalletMint[u]]
    BY <1>1, <1>5, WalletAssumption DEF TreasuryPaysIn
  <2>2. Custodian!TreasuryPaysIn(u, n)
    BY <1>3, <1>5 DEF TreasuryPaysIn, Custodian!TreasuryPaysIn
  <2> QED
    BY <2>1, <2>2 DEF Custodian!Next
<1> QED
  BY <1>2, <1>4, <1>5

LEMMA CustodyStep ==
  ASSUME ProgramInv, [ProgramNext]_allVars
  PROVE  [Custodian!Next]_(Custodian!vars)
<1>0. ProgramTypeOK /\ ShareInv
  BY DEF ProgramInv
<1>1. CASE UNCHANGED allVars
  BY <1>1 DEF allVars, walletVars, vaultVars, positionVars, billingVars, payeeVars,
              Custodian!vars
<1>2. CASE BookkeepingNext /\ UNCHANGED <<walletVars, vaultVars>>
  BY <1>2, BookkeepingSpendsNothing DEF walletVars, vaultVars, positionVars, Custodian!vars
<1>3. ASSUME NEW u \in Users, NEW m \in Merchants, Pay(u, m)
      PROVE  Custodian!Next
  BY <1>0, <1>3, PaymentIsFromWallet, PaymentKeepsCustody
<1>4. CASE PayeeNext /\ UNCHANGED vaultVars
  BY <1>0, <1>4, PayInKeepsCustody
<1> QED
  BY <1>0, <1>1, <1>2, <1>3, <1>4, WalletKeepsCustody, VaultKeepsCustody DEF ProgramNext

\* The program keeps the custody promise for any owners, mints, vault, prices,
\* plans and schedule.
THEOREM ProgramImplementsCustody == ProgramSpec => KeepsCustody
<1>1. ProgramInit => Custodian!Init
  BY DEF ProgramInit, Init, WalletInit, VaultInit, BillingInit, Custodian!Init
<1>2. ProgramInv /\ [ProgramNext]_allVars => [Custodian!Next]_(Custodian!vars)
  BY CustodyStep
<1> QED
  BY <1>1, <1>2, ProgramInvariant, PTL DEF ProgramSpec, KeepsCustody, Custodian!Spec

-----------------------------------------------------------------------------
(* Mandates.                                                               *)

\* Billing's own invariant under every step of the program.
LEMMA ProgramMandateInvStep ==
  ASSUME ProgramTypeOK, MandateInv, [ProgramNext]_allVars
  PROVE  MandateInv'
<1>1. BillingTypeOK'
  BY ProgramTypeStep DEF ProgramTypeOK
<1>2. CASE UNCHANGED billingVars
  <2>1. BillingInv'
    BY <1>2 DEF MandateInv, BillingInv, Consistent, billingVars, accountVars
  <2>2. PlansOffered'
    BY <1>2 DEF MandateInv, PlansOffered, billingVars, accountVars
  <2> QED
    BY <1>1, <2>1, <2>2 DEF MandateInv
<1>3. CASE [BillingNext]_svars
  BY <1>1, <1>3, BillingInvStep, OfferStep DEF MandateInv
<1> QED
  BY <1>2, <1>3, PartsOfStep

LEMMA ProgramMandateStep ==
  ASSUME ProgramTypeOK, MandateInv, [ProgramNext]_allVars
  PROVE  [Biller!Next]_(Biller!vars)
<1>1. CASE UNCHANGED billingVars
  <2>1. Signed' = Signed
    BY <1>1 DEF billingVars, accountVars, Signed, MandateOf
  <2> QED
    BY <1>1, <2>1 DEF billingVars, counterVars, Biller!vars, Signed
<1>2. CASE [BillingNext]_svars
  BY <1>2, MandateStep
<1> QED
  BY <1>1, <1>2, PartsOfStep

\* The whole program keeps its mandates: neither the vault nor the redeeming
\* path of a payment charges anyone more, or more often, than was signed.
THEOREM ProgramImplementsMandates == ProgramSpec => KeepsMandates
<1>1. ProgramInit => MandateInv /\ Biller!Init
  <2> SUFFICES ASSUME ProgramInit PROVE MandateInv /\ Biller!Init
    OBVIOUS
  <2>1. BillingTypeOK
    BY ProgramStart DEF ProgramInv, ProgramTypeOK
  <2>2. BillingInv /\ PlansOffered /\ Biller!Init
    BY DEF ProgramInit, BillingInit, BillingInv, PlansOffered, Biller!Init
  <2> QED
    BY <2>1, <2>2 DEF MandateInv
<1>2. ProgramInv => ProgramTypeOK
  BY DEF ProgramInv
<1>3. ProgramTypeOK /\ MandateInv /\ [ProgramNext]_allVars
        => MandateInv' /\ [Biller!Next]_(Biller!vars)
  BY ProgramMandateInvStep, ProgramMandateStep
<1> QED
  BY <1>1, <1>2, <1>3, ProgramInvariant, PTL
     DEF ProgramSpec, KeepsMandates, Biller!Spec

-----------------------------------------------------------------------------
(* The vault's promises, with payments made from the same wallets.         *)

\* Every stored integer of the whole program keeps its width.
THEOREM ProgramTypeCorrectness == ProgramSpec => [](VaultTypeOK /\ BillingTypeOK)
<1>1. ProgramInv => VaultTypeOK /\ BillingTypeOK
  BY DEF ProgramInv, ProgramTypeOK
<1> QED
  BY <1>1, ProgramInvariant, PTL

\* The tokens of a mint outside the vault and what the vault counts of them are
\* within the mint's supply.
LEMMA TokensWithinSupply ==
  ASSUME ProgramTypeOK, EveryTokenAccounted, NEW mint \in Mints
  PROVE  /\ TokensIn(mint) \in Nat /\ Principal(mint) \in Nat /\ PayeesHold(mint) \in Nat
         /\ TokensIn(mint) + Principal(mint) + PayeesHold(mint) \in Amount
<1>1. TokensIn(mint) \in Nat /\ PayeesHold(mint) \in Nat
  BY TokensAreNat, LedgerTypes DEF ProgramTypeOK, VaultTypeOK, PayeesHold, MerchantsHold
<1>2. Principal(mint) \in Nat
  BY Scales DEF Principal, ProgramTypeOK, VaultTypeOK, Amount
<1>3. TokensIn(mint) + Principal(mint) + PayeesHold(mint) \in Amount
  BY SupplyAssumption DEF EveryTokenAccounted
<1> QED
  BY <1>1, <1>2, <1>3

\* Shares stay backed, disabled wallets hold none, and the buffer covers every
\* claim at once, whatever payments take from the wallets.
THEOREM ProgramKeepsShares ==
  ProgramSpec => [](SharesBacked /\ DisabledWalletHoldsNoShares /\ ClaimsAreLiquid)
<1>1. ProgramInv => SharesBacked /\ DisabledWalletHoldsNoShares /\ ClaimsAreLiquid
  BY ClaimsWithinBuffer DEF ProgramInv, ProgramTypeOK, ShareInv
<1> QED
  BY <1>1, ProgramInvariant, PTL

\* Although payments take tokens out of the wallets and payees put some back, a
\* redemption is refused by the deposit counter alone.
THEOREM ProgramRefusesByCounterOnly == ProgramSpec => []OnlyCounterRefusesRedemptions
<1>1. ASSUME ProgramTypeOK, EveryTokenAccounted
      PROVE  TokensIn(VaultMint) + total_usdc_deposited \in Amount
  <2>1. VaultMint \in Mints /\ Principal(VaultMint) = total_usdc_deposited
    BY VaultAssumption DEF Principal
  <2>2. /\ TokensIn(VaultMint) \in Nat /\ Principal(VaultMint) \in Nat
        /\ PayeesHold(VaultMint) \in Nat
        /\ TokensIn(VaultMint) + Principal(VaultMint) + PayeesHold(VaultMint) \in Amount
    BY <1>1, <2>1, TokensWithinSupply
  <2>3. TokensIn(VaultMint) + Principal(VaultMint) \in Amount
    BY <2>2, Scales
  <2> QED
    BY <2>1, <2>3
<1>2. ProgramInv => OnlyCounterRefusesRedemptions
  BY <1>1, OnlyCounterRefuses DEF ProgramInv, ProgramTypeOK
<1> QED
  BY <1>2, ProgramInvariant, PTL

\* The keeper finds a vault out of its band only where it can be rebalanced.
THEOREM ProgramCanRebalance == ProgramSpec => []OutOfBandCanRebalance
<1>1. ProgramInv => OutOfBandCanRebalance
  BY RebalanceIsPossible DEF ProgramInv, ProgramTypeOK, AccessInv
<1> QED
  BY <1>1, ProgramInvariant, PTL

\* What a step of the program may do to the vault is what a step of the vault
\* may do, or nothing.
LEMMA ProgramStepOfVault ==
  ASSUME ProgramInv, [ProgramNext]_allVars
  PROVE  /\ VaultTypeOK /\ VaultTypeOK' /\ ShareInv /\ AccessInv
         /\ [Next]_vars \/ UNCHANGED vaultVars
  BY PartsOfStep, ProgramTypeStep DEF ProgramInv, ProgramTypeOK

LEMMA UntouchedVault ==
  ASSUME VaultTypeOK, UNCHANGED vaultVars
  PROVE  /\ ftokens' = ftokens /\ yield_shares' = yield_shares
         /\ \A u \in Users :
              RedeemableValue(yield_shares[u]) <= RedeemableValue(yield_shares[u])'
<1>1. /\ ftokens' = ftokens /\ yield_shares' = yield_shares
      /\ total_shares_issued' = total_shares_issued
      /\ buffer' = buffer /\ exchange_price' = exchange_price
  BY DEF vaultVars, positionVars, lendingVars
<1>2. ASSUME NEW u \in Users
      PROVE  RedeemableValue(yield_shares[u]) <= RedeemableValue(yield_shares[u])'
  <2>1. RedeemableValue(yield_shares[u])' = RedeemableValue(yield_shares[u])
    BY <1>1 DEF RedeemableValue, BufferOnlyValue
  <2>2. RedeemableValue(yield_shares[u]) \in Nat
    <3>1. /\ yield_shares[u] \in Amount /\ total_shares_issued \in Amount
          /\ buffer \in Amount /\ BufferOnlyValue = buffer
      BY Valuations DEF VaultTypeOK
    <3>2. RedeemableValue(yield_shares[u]) \in Amount
      BY <3>1, ResultTypes DEF RedeemableValue
    <3> QED
      BY <3>2, Scales
  <2> QED
    BY <2>1, <2>2
<1> QED
  BY <1>1, <1>2

\* No payment, deposit or redemption of one wallet lowers what another's shares
\* redeem for.
THEOREM ProgramDilutesNoOne == ProgramSpec => OthersKeepRedeemableValue
<1>1. ProgramInv /\ [ProgramNext]_allVars
        => [ftokens' = ftokens =>
              \A u \in Users :
                yield_shares'[u] = yield_shares[u] =>
                  RedeemableValue(yield_shares[u])
                    <= RedeemableValue(yield_shares[u])']_vars
  BY ProgramStepOfVault, UntouchedVault, ClaimKept
<1> QED
  BY <1>1, ProgramInvariant, PTL DEF ProgramSpec, OthersKeepRedeemableValue

\* No step of the program, payments included, makes the owner of the shares it
\* moves richer.
THEOREM ProgramActingGainsNothing == ProgramSpec => ActingWalletGainsNothing
<1>1. ProgramInv /\ [ProgramNext]_allVars
        => [total_shares_issued > 0 =>
              \A u \in Users :
                yield_shares'[u] # yield_shares[u] => Wealth(u)' <= Wealth(u)]_vars
  BY ProgramStepOfVault, UntouchedVault, ActingStep
<1> QED
  BY <1>1, ProgramInvariant, PTL DEF ProgramSpec, ActingWalletGainsNothing

\* During an emergency no step of the program, payments included, lowers what
\* a wallet's shares redeem for.
THEOREM ProgramEmergencyKeepsClaims == ProgramSpec => EmergencyProtectsClaims
<1>1. ProgramInv /\ [ProgramNext]_allVars
        => [emergency_mode /\ emergency_mode' =>
              \A u \in Users :
                yield_shares'[u] = yield_shares[u] =>
                  RedeemableValue(yield_shares[u])
                    <= RedeemableValue(yield_shares[u])']_vars
  BY ProgramStepOfVault, UntouchedVault, EmergencyStep
<1> QED
  BY <1>1, ProgramInvariant, PTL DEF ProgramSpec, EmergencyProtectsClaims

\* The keeper's rebalance ends in the band, whoever pays and is paid in between.
THEOREM ProgramRebalancesOnce == ProgramSpec => RebalanceLandsInBand
<1>1. ASSUME ProgramInv, [ProgramNext]_allVars
      PROVE  [ftokens' # ftokens => RebalanceVault]_vars
  BY <1>1, ProgramStepOfVault, UntouchedVault, OnlyRebalanceLends
<1>2. ProgramInv /\ [ProgramNext]_allVars
        => [ftokens' # ftokens /\ LendingWorth \in Amount => BufferInBand']_vars
  BY <1>1, ProgramStepOfVault, BandStep DEF AccessInv
<1> QED
  BY <1>2, ProgramInvariant, PTL DEF ProgramSpec, RebalanceLandsInBand

\* To its members the vault stays the pool it is alone: what payments take from
\* their wallets is spent elsewhere.
THEOREM ProgramImplementsPool == ProgramSpec => KeepsPool
<1>1. ProgramInit => Pool!Init
  BY DEF ProgramInit, Init, WalletInit, VaultInit, Pool!Init
<1>2. ASSUME ProgramInv, [ProgramNext]_allVars PROVE Pool!Next
  <2>1. CASE UNCHANGED vaultVars
    BY <1>2, <2>1, ProgramStepOfVault, QuietPool
    DEF vaultVars, positionVars, emergencyVars
  <2> QED
    BY <1>2, <2>1, ProgramStepOfVault, PoolStep
<1> QED
  BY <1>1, <1>2, ProgramInvariant, PTL DEF ProgramSpec, KeepsPool, Pool!Spec

\* Payments neither add to the vault's surplus nor take from it.
THEOREM ProgramLosesByRoundingOnly == ProgramSpec => OnlyRoundingIsLost
<1>1. ASSUME ProgramInv, UNCHANGED vaultVars PROVE SurplusStep
  <2>1. /\ UNCHANGED <<ftokens, exchange_price>>
        /\ buffer' = buffer /\ total_usdc_deposited' = total_usdc_deposited
    BY <1>1 DEF vaultVars, positionVars, lendingVars
  <2>2. VaultTypeOK /\ buffer \in Nat /\ total_usdc_deposited \in Nat /\ 0 \in Int
    BY <1>1, Scales DEF ProgramInv, ProgramTypeOK, VaultTypeOK, Amount
  <2>3. buffer' = buffer + 0 /\ total_usdc_deposited' = total_usdc_deposited + 0
    BY <2>1, <2>2
  <2> QED
    BY <2>1, <2>2, <2>3, SurplusKept
<1>2. ProgramInv /\ [ProgramNext]_allVars => [SurplusStep]_vars
  BY <1>1, ProgramStepOfVault, OnlyRoundingStep
<1> QED
  BY <1>2, ProgramInvariant, PTL DEF ProgramSpec, OnlyRoundingIsLost, SurplusStep

-----------------------------------------------------------------------------
(* Billing's promises, with yield earned in the same wallets.              *)

\* A subscription owns its session token, is charged no faster than its
\* interval and on its plan's terms, whether or not its wallet earns yield.
THEOREM ProgramChargesOnTerms ==
  ProgramSpec => [](TokenBindsSubscription /\ ChargesArePaced /\ ChargesFollowPlan)
<1>1. ProgramInv => TokenBindsSubscription /\ ChargesArePaced /\ ChargesFollowPlan
  BY DEF ProgramInv, BooksInv, BillingInv, Consistent, TokenBindsSubscription,
         ChargesArePaced, ChargesFollowPlan
<1> QED
  BY <1>1, ProgramInvariant, PTL

\* The counters of wallets and plans, and what subscriptions say was paid,
\* agree with the accounts that are open.
THEOREM ProgramKeepsBooks ==
  ProgramSpec => [](WalletCounterExact /\ PlanCountersCover /\ PaidWithinSpent)
<1>1. ProgramInv => WalletCounterExact /\ PlanCountersCover /\ PaidWithinSpent
  BY DEF ProgramInv, BooksInv
<1> QED
  BY <1>1, ProgramInvariant, PTL

\* With yield earned in the same wallets too, the treasury holds at most a tenth
\* of all charges.
THEOREM ProgramBoundsTreasury == ProgramSpec => []TreasuryTakesAtMostTenth
<1>1. ProgramInv => TreasuryTakesAtMostTenth
  BY DEF ProgramInv
<1> QED
  BY <1>1, ProgramInvariant, PTL

\* No instruction of the program frees or rebinds a session token.
THEOREM ProgramKeepsTokensBound == ProgramSpec => TokensNeverRebound
<1>1. ProgramInv /\ [ProgramNext]_allVars
        => [\A token \in DOMAIN session_tokens :
              /\ token \in DOMAIN session_tokens'
              /\ session_tokens'[token] = session_tokens[token]]_session_tokens
  <2> SUFFICES ASSUME ProgramInv, [ProgramNext]_allVars, session_tokens' # session_tokens
               PROVE  TrackersKept
    BY DEF TrackersKept
  <2> QED
    BY PartsOfStep, StepKeepsHistory
       DEF ProgramInv, ProgramTypeOK, History, billingVars, accountVars
<1> QED
  BY <1>1, ProgramInvariant, PTL DEF ProgramSpec, TokensNeverRebound

-----------------------------------------------------------------------------
(* Payments that are due and funded.                                       *)

\* However payees pay back in, the accounts of a mint's merchants and treasury
\* leave room for whatever a wallet of the mint still holds: all of it is within
\* the mint's supply.
LEMMA RoomForPayment ==
  ASSUME ProgramTypeOK, EveryTokenAccounted, NEW u \in Users,
         NEW m \in Merchants, WalletMint[u] = MerchantMint[m],
         NEW n \in Nat, n <= balance[u]
  PROVE  /\ merchant_tokens[m] + n \in Amount
         /\ treasury_tokens[MerchantMint[m]] + n \in Amount
<1> DEFINE mint == MerchantMint[m]
<1>1. /\ mint \in Mints /\ WalletMint[u] = mint
      /\ BillingTypeOK /\ WalletTypeOK
  BY BillingScales DEF ProgramTypeOK, VaultTypeOK
<1>2. /\ merchant_tokens \in [Merchants -> Amount]
      /\ m \in Sellers(mint) /\ Sellers(mint) \subseteq Merchants
  BY <1>1 DEF BillingTypeOK, Sellers
<1>3. IsFiniteSet(Sellers(mint))
  BY <1>2, BillingScales, FS_Subset
<1> HIDE DEF mint
<1>4. merchant_tokens[m] <= MerchantsHold(mint)
  BY <1>2, <1>3, AccountWithinTally DEF MerchantsHold
<1>5. PayeesHold(mint) = MerchantsHold(mint) + treasury_tokens[mint]
  BY DEF PayeesHold, MerchantsHold
<1>6. /\ MerchantsHold(mint) \in Nat /\ treasury_tokens[mint] \in Nat
      /\ merchant_tokens[m] \in Nat /\ balance[u] \in Nat
  BY <1>1, <1>2, LedgerTypes, Scales DEF WalletTypeOK, Amount
<1>7. /\ TokensIn(mint) \in Nat /\ Principal(mint) \in Nat
      /\ TokensIn(mint) + Principal(mint) + PayeesHold(mint) \in Amount
  BY <1>1, TokensWithinSupply
<1>8. balance[u] <= TokensIn(mint)
  BY <1>1, BalanceWithinTokens
<1>9. PayeesHold(mint) + n \in Amount
  BY <1>5, <1>6, <1>7, <1>8, Scales
<1>10. \A k \in Nat : k <= PayeesHold(mint) => k + n \in Amount
  BY <1>5, <1>6, <1>9, Scales
<1>11. merchant_tokens[m] + n \in Amount /\ treasury_tokens[mint] + n \in Amount
  BY <1>4, <1>5, <1>6, <1>10
<1> QED
  BY <1>11 DEF mint

\* An open subscription has paid no more than its wallet has spent.
LEMMA PaidBelowSpent ==
  ASSUME BillingTypeOK, PaidWithinSpent, NEW u \in Users, NEW m \in Merchants,
         <<u, m>> \in DOMAIN subscriptions
  PROVE  subscriptions[<<u, m>>].total_paid <= total_spent[u]
<1> DEFINE key == <<u, m>>
<1>1. key \in OpenSubscriptions(u)
  BY DEF OpenSubscriptions
<1> HIDE DEF key
<1>2. /\ IsFiniteSet(OpenSubscriptions(u)) /\ Cap \in Nat
      /\ PaidOf(u) \in Tallies(OpenSubscriptions(u), Cap)
      /\ PaidBy(u) = Total(PaidOf(u), Cap)
      /\ PaidBy(u) \in Nat /\ total_spent[u] \in Nat
  BY PaidTallied
<1>3. PaidOf(u)[key] <= Total(PaidOf(u), Cap)
  BY <1>1, <1>2, TotalBoundsEach
<1>4. PaidOf(u)[key] = subscriptions[key].total_paid /\ PaidOf(u)[key] \in Nat
  BY <1>1, <1>2 DEF PaidOf, Tallies
<1>5. PaidBy(u) <= total_spent[u]
  BY DEF PaidWithinSpent
<1>6. subscriptions[key].total_paid <= total_spent[u]
  BY <1>2, <1>3, <1>4, <1>5
<1> QED
  BY <1>6 DEF key

LEMMA FundedPaymentPasses ==
  ASSUME ProgramInv, NEW u \in Users, NEW m \in Merchants, Payable(u, m),
         ~CountersFull(u, m)
  PROVE  CanPay(u, m)
<1> DEFINE s == subscriptions[<<u, m>>]
           fee == s.fee_amount
           part == ProtocolFee(fee, protocol_fee_bps)
<1>1. /\ ProgramTypeOK /\ BillingTypeOK /\ EveryTokenAccounted
      /\ PaidWithinSpent
  BY DEF ProgramInv, ProgramTypeOK, BooksInv
<1>2. /\ PaymentDue(u, m) /\ balance[u] >= fee /\ WalletMint[u] = MerchantMint[m]
      /\ <<u, m>> \in DOMAIN subscriptions
  BY DEF Payable, PaymentDue
<1>3. s \in SubscriptionState /\ protocol_fee_bps \in 0 .. 1000
  BY <1>1, <1>2 DEF BillingTypeOK
<1>4. /\ fee \in Amount /\ fee \in Nat /\ s.total_paid \in Nat
      /\ balance[u] \in Nat /\ total_spent[u] \in Nat
  BY <1>1, <1>3, Scales
     DEF SubscriptionState, ProgramTypeOK, VaultTypeOK, WalletTypeOK, BillingTypeOK, Amount
<1>5. part \in 0 .. fee
  BY <1>3, <1>4, ProtocolPart
<1>6. s.total_paid <= total_spent[u]
  BY <1>1, <1>2, PaidBelowSpent
<1>7. s.payment_count + 1 \in Counter /\ total_spent[u] + fee \in Amount
  BY DEF CountersFull
<1>8. ~NeedsRedemption(u, m)
  BY <1>2, <1>4 DEF NeedsRedemption
<1> HIDE DEF part
<1>9. /\ part \in Nat /\ fee - part \in Nat
      /\ part <= balance[u] /\ fee - part <= balance[u] /\ fee <= balance[u]
      /\ fee - part \in Amount
  BY <1>2, <1>4, <1>5, Scales
<1>10. /\ merchant_tokens[m] + (fee - part) \in Amount
       /\ treasury_tokens[MerchantMint[m]] + part \in Amount
  BY <1>1, <1>2, <1>4, <1>9, RoomForPayment
<1>11. s.total_paid + fee \in Amount
  <2>1. \A a, b, c \in Nat : a <= b /\ b + c \in Amount => a + c \in Amount
    BY Scales
  <2> QED
    BY <1>4, <1>6, <1>7, <2>1
<1>12. CanRecordCharge(u, m)
  BY <1>2, <1>7, <1>9, <1>10, <1>11 DEF CanRecordCharge, part
<1> QED
  BY <1>2, <1>8, <1>12 DEF CanPay

\* A due payment that the wallet can pay in the plan's token passes every check
\* of the handler but those on two counters that only grow: for any supply that
\* fits a u64 no payee's account overflows, however tokens circulate, and the
\* subscription's total does not before the wallet's.
THEOREM FundedPaymentsPass == ProgramSpec => []FundedPaymentsAreNotRefused
<1>1. ProgramInv => FundedPaymentsAreNotRefused
  BY FundedPaymentPasses DEF FundedPaymentsAreNotRefused
<1> QED
  BY <1>1, ProgramInvariant, PTL

-----------------------------------------------------------------------------
(* A payment that is due stays due.                                        *)

\* What makes a payment due again in the next state.
LEMMA DueCarriesOver ==
  ASSUME NEW u \in Users, NEW m \in Merchants, BillingTypeOK, BillingTypeOK', Payable(u, m),
         config_initialized' = config_initialized,
         <<u, m>> \in DOMAIN subscriptions',
         subscriptions'[<<u, m>>] = subscriptions[<<u, m>>],
         current_time' >= current_time,
         balance'[u] >= balance[u]
  PROVE  Payable(u, m)'
<1> DEFINE s == subscriptions[<<u, m>>]
<1>1. /\ config_initialized
      /\ <<u, m>> \in DOMAIN subscriptions
      /\ current_time - s.last_payment_timestamp >= s.payment_interval
      /\ balance[u] >= s.fee_amount
      /\ WalletMint[u] = MerchantMint[m]
  BY DEF Payable, PaymentDue
<1>2. /\ s.last_payment_timestamp \in Nat /\ s.payment_interval \in Nat
      /\ s.fee_amount \in Nat
      /\ current_time \in Nat /\ current_time' \in Nat
      /\ balance[u] \in Nat /\ balance'[u] \in Nat
  <2>1. s \in SubscriptionState
    BY <1>1 DEF BillingTypeOK
  <2> HIDE DEF s
  <2> QED
    BY <2>1, Scales DEF SubscriptionState, BillingTypeOK, WalletTypeOK, Amount
<1>3. /\ current_time' - s.last_payment_timestamp >= s.payment_interval
      /\ balance'[u] >= s.fee_amount
  <2> HIDE DEF s
  <2> QED
    BY <1>1, <1>2
<1> QED
  BY <1>1, <1>3 DEF Payable, PaymentDue

\* Wallet instructions: only a withdrawal, which the owner receives, lowers u's
\* balance.
LEMMA WalletKeepsDue ==
  ASSUME BillingTypeOK, BillingTypeOK', NEW u \in Users, NEW m \in Merchants,
         Payable(u, m), WalletNext, UNCHANGED billingVars
  PROVE  Payable(u, m)' \/ user_tokens'[u] > user_tokens[u]
<1>0. /\ balance \in [Users -> Nat] /\ user_tokens \in [Users -> Nat]
      /\ current_time \in Nat
      /\ Amount \subseteq Nat
  BY Scales DEF BillingTypeOK, WalletTypeOK, Amount
<1>1. ASSUME balance'[u] >= balance[u] PROVE Payable(u, m)'
  BY <1>0, <1>1, DueCarriesOver
  DEF billingVars, protocolVars, accountVars, Payable, PaymentDue
<1>2. ASSUME NEW w \in Users, CreateSubscriptionWallet(w)
      PROVE  balance'[u] >= balance[u]
  BY <1>0, <1>2 DEF CreateSubscriptionWallet
<1>3. ASSUME NEW payer \in Users, NEW w \in Users, NEW amount \in TransferAmounts,
             DepositToWallet(payer, w, amount)
      PROVE  balance'[u] >= balance[u]
  BY <1>0, <1>3, WalletAssumption DEF DepositToWallet, CanPayIn
<1>4. ASSUME NEW w \in Users, NEW amount \in TransferAmounts,
             WithdrawFromWallet(w, amount)
      PROVE  balance'[u] >= balance[u] \/ user_tokens'[u] > user_tokens[u]
  BY <1>0, <1>4, WalletAssumption DEF WithdrawFromWallet
<1> QED
  BY <1>1, <1>2, <1>3, <1>4 DEF WalletNext

\* The vault: only a deposit of u's lowers u's balance.
LEMMA VaultKeepsDue ==
  ASSUME ProgramTypeOK, ProgramTypeOK', NEW u \in Users, NEW m \in Merchants,
         Payable(u, m), VaultNext, UNCHANGED billingVars
  PROVE  \/ Payable(u, m)'
         \/ total_usdc_deposited' > total_usdc_deposited /\ balance'[u] < balance[u]
<1>0. /\ balance \in [Users -> Nat] /\ balance'[u] \in Nat
      /\ total_usdc_deposited \in Nat
      /\ current_time \in Nat
      /\ \A n \in Amount : n \in Nat
      /\ BillingTypeOK /\ BillingTypeOK' /\ VaultTypeOK
      /\ total_shares_issued \in Amount /\ buffer \in Amount /\ BufferOnlyValue \in Amount
      /\ \A w \in Users : yield_shares[w] \in Amount
  <2>1. VaultTypeOK /\ VaultTypeOK' /\ BillingTypeOK /\ BillingTypeOK'
    BY DEF ProgramTypeOK
  <2>2. /\ BufferOnlyValue = buffer
        /\ total_shares_issued \in Amount /\ buffer \in Amount
        /\ \A w \in Users : yield_shares[w] \in Amount
        /\ total_usdc_deposited \in Amount
    BY <2>1, Valuations DEF VaultTypeOK
  <2>3. \A n \in Amount : n \in Nat
    BY Scales DEF Amount
  <2>4. /\ balance \in [Users -> Amount]
        /\ balance' \in [Users -> Amount]
        /\ current_time \in Nat
    BY <2>1 DEF BillingTypeOK, WalletTypeOK
  <2>5. balance \in [Users -> Nat] /\ balance'[u] \in Nat
    BY <2>3, <2>4
  <2> QED
    BY <2>1, <2>2, <2>3, <2>4, <2>5
<1>1. ASSUME balance'[u] >= balance[u] PROVE Payable(u, m)'
  BY <1>0, <1>1, DueCarriesOver
  DEF billingVars, protocolVars, accountVars, Payable, PaymentDue
<1>2. ASSUME UNCHANGED balance PROVE balance'[u] >= balance[u]
  BY <1>0, <1>2
<1>3. ASSUME NEW w \in Users, NEW tokens \in Nat, NEW shares, tokens > 0,
             IssueShares(w, tokens, shares)
      PROVE  \/ balance'[u] >= balance[u]
             \/ total_usdc_deposited' > total_usdc_deposited /\ balance'[u] < balance[u]
  BY <1>0, <1>3 DEF IssueShares
<1>4. ASSUME NEW w \in Users, NEW shares \in Amount,
             RedeemShares(w, shares, RedeemableValue(shares))
      PROVE  balance'[u] >= balance[u]
  <2>1. RedeemableValue(shares) \in Nat
    BY <1>0, ResultTypes DEF RedeemableValue
  <2> QED
    BY <1>0, <1>4, <2>1 DEF RedeemShares
<1>5. ASSUME NEW w \in Users, NEW amount \in Amount, EnableYield(w, amount)
      PROVE  \/ balance'[u] >= balance[u]
             \/ total_usdc_deposited' > total_usdc_deposited /\ balance'[u] < balance[u]
  <2> DEFINE tokens == amount - calculate_buffer_amount(amount, target_buffer_bps)
             shares == IF total_shares_issued = 0
                       THEN tokens
                       ELSE calculate_shares_for_deposit(tokens, total_shares_issued,
                                                         BufferOnlyValue)
  <2>1. tokens \in Amount
    BY <1>0, EnableTypes
  <2>2. tokens > 0 /\ IssueShares(w, tokens, shares)
    BY <1>5 DEF EnableYield
  <2> HIDE DEF tokens, shares
  <2> QED
    BY <1>0, <1>3, <2>1, <2>2
<1>6. ASSUME NEW w \in Users, NEW amount \in Amount, DepositToYield(w, amount)
      PROVE  \/ balance'[u] >= balance[u]
             \/ total_usdc_deposited' > total_usdc_deposited /\ balance'[u] < balance[u]
  <2>1. amount \in Nat /\ amount > 0
    BY <1>0, <1>6 DEF DepositToYield
  <2> QED
    BY <1>3, <1>6, <2>1 DEF DepositToYield
<1>7. ASSUME NEW w \in Users, DisableYield(w) PROVE balance'[u] >= balance[u]
  BY <1>0, <1>4, <1>7 DEF DisableYield
<1>8. ASSUME NEW w \in Users, NEW shares \in Amount, WithdrawFromYield(w, shares)
      PROVE  balance'[u] >= balance[u]
  BY <1>4, <1>8 DEF WithdrawFromYield
<1>9. ASSUME \/ \E bps \in BufferRatios : InitializeYieldVault(bps)
             \/ LendingAccrues \/ RebalanceVault
             \/ \E enabled \in BOOLEAN : SetEmergencyMode(enabled)
      PROVE  UNCHANGED balance
  BY <1>9 DEF InitializeYieldVault, LendingAccrues, RebalanceVault, SetEmergencyMode,
              walletVars
<1> QED
  BY <1>1, <1>2, <1>5, <1>6, <1>7, <1>8, <1>9, VaultAssumption DEF VaultNext

\* Bookkeeping: only cancelling removes a subscription, and none changes one.
LEMMA BookkeepingKeepsDue ==
  ASSUME BillingTypeOK, BillingTypeOK', NEW u \in Users, NEW m \in Merchants,
         Payable(u, m), BookkeepingNext, UNCHANGED walletVars
  PROVE  Payable(u, m)' \/ <<u, m>> \notin DOMAIN subscriptions'
<1>0. /\ current_time \in Nat
      /\ balance[u] \in Nat /\ balance'[u] = balance[u]
      /\ config_initialized /\ <<u, m>> \in DOMAIN subscriptions
  BY Scales DEF BillingTypeOK, WalletTypeOK, walletVars, Payable, PaymentDue, Amount
<1> DEFINE Carried ==
      /\ config_initialized' = config_initialized
      /\ <<u, m>> \in DOMAIN subscriptions'
           => subscriptions'[<<u, m>>] = subscriptions[<<u, m>>]
      /\ current_time' >= current_time
<1>1. ASSUME NEW bps \in FeeRates, InitializeProtocol(bps) PROVE Carried
  BY <1>0, <1>1 DEF InitializeProtocol
<1>2. ASSUME NEW bps \in FeeRates, UpdateProtocolFee(bps) PROVE Carried
  BY <1>0, <1>2 DEF UpdateProtocolFee, accountVars
<1>3. ASSUME NEW w \in Merchants, NEW plan_id \in PlanIds, NEW fee \in Fees,
             NEW interval \in Intervals, RegisterMerchant(w, plan_id, fee, interval)
      PROVE  Carried
  BY <1>0, <1>3 DEF RegisterMerchant, protocolVars
<1>4. ASSUME NEW w \in Users, NEW plan \in PlanKeys, NEW token \in SessionTokens,
             SubscribeWithWallet(w, plan, token)
      PROVE  Carried
  BY <1>0, <1>4 DEF SubscribeWithWallet, WriteAccount, protocolVars
<1>5. ASSUME NEW w \in Users, NEW n \in Merchants, NEW plan \in PlanKeys,
             CancelSubscriptionWallet(w, n, plan)
      PROVE  Carried
  <2>1. /\ subscriptions' = [key \in (DOMAIN subscriptions) \ {<<w, n>>} |->
                             subscriptions[key]]
        /\ config_initialized' = config_initialized
        /\ current_time' = current_time
    BY <1>5 DEF CancelSubscriptionWallet, CloseAccount, Restrict, protocolVars
  <2>2. current_time' >= current_time
    BY <1>0, <2>1
  <2>3. ASSUME <<u, m>> \in DOMAIN subscriptions'
        PROVE  subscriptions'[<<u, m>>] = subscriptions[<<u, m>>]
    BY <2>1, <2>3
  <2> QED
    BY <2>1, <2>2, <2>3
<1>6. ASSUME ClockAdvances PROVE Carried
  BY <1>0, <1>6 DEF ClockAdvances, protocolVars, accountVars
<1>7. Carried
  <2> HIDE DEF Carried
  <2> QED
    BY <1>1, <1>2, <1>3, <1>4, <1>5, <1>6 DEF BookkeepingNext
<1>8. balance'[u] >= balance[u]
  BY <1>0
<1> QED
  BY <1>0, <1>7, <1>8, DueCarriesOver

\* A payee's deposit only raises a balance.
LEMMA PayInKeepsDue ==
  ASSUME BillingTypeOK, BillingTypeOK', NEW u \in Users, NEW m \in Merchants,
         Payable(u, m), PayeeNext
  PROVE  Payable(u, m)'
<1>1. /\ WalletTypeOK
      /\ merchant_tokens \in [Merchants -> Amount]
      /\ treasury_tokens \in [Mints -> Amount]
      /\ current_time \in Nat
      /\ \A k \in Amount : k \in Nat
  BY Scales DEF BillingTypeOK, Amount
<1>2. /\ PayInElsewhere
      /\ \E w \in Users, n \in Amount : balance' = [balance EXCEPT ![w] = balance[w] + n]
  BY <1>1, PayInMoves DEF MerchantPaysIn, TreasuryPaysIn
<1>3. balance'[u] >= balance[u]
  BY <1>1, <1>2 DEF WalletTypeOK
<1>4. current_time' >= current_time
  BY <1>1, <1>2 DEF PayInElsewhere
<1> QED
  BY <1>2, <1>3, <1>4, DueCarriesOver
  DEF PayInElsewhere, protocolVars, accountVars, Payable, PaymentDue

\* A payment leaves other wallets and their subscriptions as they were.
LEMMA PaymentKeepsDue ==
  ASSUME BillingTypeOK, BillingTypeOK', NEW u \in Users, NEW m \in Merchants,
         Payable(u, m),
         NEW w \in Users, NEW n \in Merchants, ExecutePaymentFromWallet(w, n)
  PROVE  Payable(u, m)' \/ total_spent'[u] > total_spent[u]
<1>0. /\ current_time \in Nat /\ balance \in [Users -> Amount] /\ balance[u] \in Nat
      /\ total_spent \in [Users -> Amount] /\ total_spent[u] \in Nat
      /\ <<u, m>> \in DOMAIN subscriptions
  BY Scales DEF BillingTypeOK, WalletTypeOK, Payable, PaymentDue, Amount
<1>1. CASE w = u
  <2> DEFINE fee == subscriptions[<<u, n>>].fee_amount
  <2>1. /\ <<u, n>> \in DOMAIN subscriptions
        /\ total_spent' = [total_spent EXCEPT ![u] = @ + fee]
    BY <1>1 DEF ExecutePaymentFromWallet, PaymentDue, RecordCharge
  <2>2. fee \in Nat /\ fee > 0
    <3>1. subscriptions[<<u, n>>] \in SubscriptionState
      BY <2>1 DEF BillingTypeOK
    <3> QED
      BY <3>1, Scales DEF SubscriptionState, Amount
  <2> HIDE DEF fee
  <2> QED
    BY <1>0, <2>1, <2>2
<1>2. CASE w # u
  <2>1. /\ balance'[u] = balance[u]
        /\ current_time' = current_time
        /\ config_initialized' = config_initialized
    BY <1>0, <1>2 DEF ExecutePaymentFromWallet, protocolVars
  <2>2. /\ <<u, m>> \in DOMAIN subscriptions'
        /\ subscriptions'[<<u, m>>] = subscriptions[<<u, m>>]
    <3>1. <<u, m>> # <<w, n>>
      BY <1>2
    <3> QED
      BY <1>0, <3>1 DEF ExecutePaymentFromWallet, RecordCharge, WriteAccount
  <2>3. current_time' >= current_time /\ balance'[u] >= balance[u]
    BY <1>0, <2>1
  <2> QED
    BY <2>1, <2>2, <2>3, DueCarriesOver
<1> QED
  BY <1>1, <1>2

\* With FundedPaymentsPass this is what the backend's weak fairness needs: a
\* payment that it could make stays one, however late it calls.
THEOREM FundedPaymentsStay == ProgramSpec => FundedPaymentsStayDue
<1>1. ASSUME ProgramInv, [ProgramNext]_allVars, NEW u \in Users, NEW m \in Merchants,
             Payable(u, m), ~Payable(u, m)'
      PROVE  \/ total_spent'[u] > total_spent[u]
             \/ user_tokens'[u] > user_tokens[u]
             \/ total_usdc_deposited' > total_usdc_deposited /\ balance'[u] < balance[u]
             \/ <<u, m>> \notin DOMAIN subscriptions'
  <2>1. /\ ProgramTypeOK /\ ProgramTypeOK'
        /\ BillingTypeOK /\ BillingTypeOK'
    BY <1>1, ProgramTypeStep DEF ProgramInv, ProgramTypeOK
  <2>2. CASE UNCHANGED allVars
    <3>1. Payable(u, m)' = Payable(u, m)
      BY <2>2 DEF allVars, walletVars, billingVars, protocolVars, accountVars,
                  Payable, PaymentDue
    <3> QED
      BY <1>1, <3>1
  <2>3. CASE WalletNext /\ UNCHANGED <<vaultVars, billingVars>>
    BY <1>1, <2>1, <2>3, WalletKeepsDue
  <2>4. CASE VaultNext /\ UNCHANGED billingVars
    BY <1>1, <2>1, <2>4, VaultKeepsDue
  <2>5. CASE BookkeepingNext /\ UNCHANGED <<walletVars, vaultVars>>
    BY <1>1, <2>1, <2>5, BookkeepingKeepsDue
  <2>6. ASSUME NEW w \in Users, NEW n \in Merchants, Pay(w, n)
        PROVE  Payable(u, m)' \/ total_spent'[u] > total_spent[u]
    BY <1>1, <2>1, <2>6, PaymentIsFromWallet, PaymentKeepsDue
  <2>7. CASE PayeeNext
    BY <1>1, <2>1, <2>7, PayInKeepsDue
  <2> QED
    BY <1>1, <2>2, <2>3, <2>4, <2>5, <2>6, <2>7 DEF ProgramNext
<1>2. ProgramInv /\ [ProgramNext]_allVars
        => [\A u \in Users, m \in Merchants :
              Payable(u, m) /\ ~Payable(u, m)' =>
                \/ total_spent'[u] > total_spent[u]
                \/ user_tokens'[u] > user_tokens[u]
                \/ total_usdc_deposited' > total_usdc_deposited /\ balance'[u] < balance[u]
                \/ <<u, m>> \notin DOMAIN subscriptions']_allVars
  BY <1>1
<1> QED
  BY <1>2, ProgramInvariant, PTL DEF ProgramSpec, FundedPaymentsStayDue

=============================================================================
