-------------------------- MODULE YieldVaultProofs ---------------------------
(***************************************************************************)
(* The yield vault, for every number of wallets, every u64 width, every    *)
(* price scale and every price path: type correctness, share backing, what *)
(* claims keep and may gain, the deposit counter, the emergency and        *)
(* rebalancing.                                                            *)
(***************************************************************************)
EXTENDS YieldVault, WalletsProofs

\* The scales and bounds as naturals, stated once for the steps below.
LEMMA Scales ==
  /\ U64 \in Nat \ {0}
  /\ Cap \in Nat
  /\ Amount = 0 .. Cap
  /\ InitialTokens \in Amount
  /\ PricePrecision \in Nat \ {0}
  /\ SharePrecision \in Nat \ {0}
  /\ 0 \in Amount
  /\ IsFiniteSet(Users)
  BY ScaleAssumption, WalletAssumption DEF Amount, Cap

\* The valuations are natural numbers; the buffer alone is worth itself.
LEMMA Valuations ==
  ASSUME VaultTypeOK
  PROVE  /\ FullValue \in Nat
         /\ BufferOnlyValue = buffer
<1>1. /\ buffer \in Amount /\ ftokens \in Nat /\ exchange_price \in Nat
      /\ buffer \in Nat
      /\ PricePrecision \in Nat \ {0}
  BY Scales DEF VaultTypeOK, Amount
<1>2. ASSUME NEW f \in Nat
      PROVE  Truncate((f * exchange_price) \div PricePrecision) \in Nat
  <2>1. f * exchange_price \in Nat
    BY <1>1
  <2>2. (f * exchange_price) \div PricePrecision \in Nat
    BY <1>1, <2>1, DivBounds
  <2> QED
    BY <2>2, TruncateBounds, Scales DEF Amount
<1>3. FullValue \in Nat
  BY <1>1, <1>2 DEF FullValue, get_vault_total_value
<1>4. Truncate((0 * exchange_price) \div PricePrecision) = 0
  <2>1. 0 * exchange_price = 0
    BY <1>1
  <2>2. 0 \div PricePrecision = 0
    BY <1>1
  <2>3. Truncate(0) = 0
    BY TruncateBounds, Scales
  <2> QED
    BY <2>1, <2>2, <2>3
<1>5. BufferOnlyValue = buffer
  BY <1>1, <1>4 DEF BufferOnlyValue, get_vault_total_value
<1> QED
  BY <1>3, <1>5

\* What the arithmetic returns to the handlers is a u64.
LEMMA ResultTypes ==
  /\ \A d, s, v \in Amount : calculate_shares_for_deposit(d, s, v) \in Amount
  /\ \A d, s, v \in Amount : calculate_usdc_value_of_shares(d, s, v) \in Amount
  /\ \A d \in Amount, b \in 0 .. MaxBps : calculate_buffer_amount(d, b) \in 0 .. d
  /\ \A v \in Nat, b \in 0 .. MaxBps : calculate_buffer_amount(v, b) \in Amount
  /\ \A s \in Amount, v \in Nat : calculate_current_exchange_rate(s, v) \in Nat
<1>1. \A n \in Nat, m \in Nat \ {0} : Truncate(n \div m) \in Amount
  BY DivBounds, TruncateBounds
<1>2. \A d, s \in Nat : d * s \in Nat
  OBVIOUS
<1>3. Amount \subseteq Nat /\ MaxBps \in Nat \ {0} /\ 0 .. MaxBps \subseteq Nat
  BY Scales DEF Amount, MaxBps
<1>4. \A d, s, v \in Amount : calculate_shares_for_deposit(d, s, v) \in Amount
  BY <1>1, <1>2, <1>3 DEF calculate_shares_for_deposit
<1>5. \A d, s, v \in Amount : calculate_usdc_value_of_shares(d, s, v) \in Amount
  BY <1>1, <1>2, <1>3, Scales DEF calculate_usdc_value_of_shares
<1>6. \A d \in Amount, b \in 0 .. MaxBps : calculate_buffer_amount(d, b) \in 0 .. d
  BY PartWithinWhole
<1>7. \A v \in Nat, b \in 0 .. MaxBps : calculate_buffer_amount(v, b) \in Amount
  BY <1>1, <1>2, <1>3 DEF calculate_buffer_amount
<1>8. \A s \in Amount, v \in Nat : calculate_current_exchange_rate(s, v) \in Nat
  BY <1>1, <1>2, <1>3, Scales DEF calculate_current_exchange_rate
<1> QED
  BY <1>4, <1>5, <1>6, <1>7, <1>8

-----------------------------------------------------------------------------
(* Type correctness.                                                       *)

LEMMA IssueSharesTypes ==
  ASSUME VaultTypeOK, NEW u \in Users, NEW tokens \in Amount, NEW shares \in Amount,
         IssueShares(u, tokens, shares)
  PROVE  /\ WalletTypeOK'
         /\ buffer' \in Amount
         /\ total_shares_issued' \in Amount
         /\ total_usdc_deposited' \in Amount
  BY CheckedArithmetic DEF VaultTypeOK, WalletTypeOK, IssueShares, CanTransfer

LEMMA RedeemSharesTypes ==
  ASSUME VaultTypeOK, NEW u \in Users, NEW tokens \in Amount, NEW shares \in Amount,
         RedeemShares(u, shares, tokens)
  PROVE  /\ WalletTypeOK'
         /\ buffer' \in Amount
         /\ total_shares_issued' \in Amount
         /\ total_usdc_deposited' \in Amount
  BY CheckedArithmetic
  DEF CanPayShares, VaultTypeOK, WalletTypeOK, RedeemShares, CanTransfer

\* What enable_yield moves and issues.
LEMMA EnableTypes ==
  ASSUME VaultTypeOK, NEW amount \in Amount
  PROVE  LET yield_amount == amount - calculate_buffer_amount(amount, target_buffer_bps)
             shares == IF total_shares_issued = 0
                       THEN yield_amount
                       ELSE calculate_shares_for_deposit(yield_amount,
                              total_shares_issued, BufferOnlyValue)
         IN yield_amount \in Amount /\ shares \in Amount
<1> DEFINE yield_amount == amount - calculate_buffer_amount(amount, target_buffer_bps)
<1>1. target_buffer_bps \in 0 .. MaxBps
  BY DEF VaultTypeOK, MaxBps
<1>2. calculate_buffer_amount(amount, target_buffer_bps) \in 0 .. amount
  BY <1>1, ResultTypes
<1>3. yield_amount \in Amount
  BY <1>2, Scales DEF Amount
<1>4. total_shares_issued \in Amount /\ BufferOnlyValue \in Amount
  BY Valuations DEF VaultTypeOK
<1> HIDE DEF yield_amount
<1>5. calculate_shares_for_deposit(yield_amount, total_shares_issued, BufferOnlyValue)
        \in Amount
  BY <1>3, <1>4, ResultTypes
<1> QED
  BY <1>3, <1>5 DEF yield_amount

LEMMA InitializedFlags ==
  ASSUME NEW bps, InitializeYieldVault(bps)
  PROVE  /\ vault_initialized' \in BOOLEAN
         /\ emergency_mode' \in BOOLEAN
<1>1. vault_initialized' = TRUE /\ emergency_mode' = FALSE
  BY DEF InitializeYieldVault
<1> QED
  BY <1>1, Zenon

LEMMA TypeStep ==
  ASSUME VaultTypeOK, [Next]_vars
  PROVE  VaultTypeOK'
<1> USE DEF VaultTypeOK
<1>1. ASSUME WalletNext, UNCHANGED vaultVars PROVE VaultTypeOK'
  BY <1>1, WalletStepTypes
     DEF vaultVars, configVars, emergencyVars, positionVars, lendingVars
<1>2. ASSUME NEW bps \in BufferRatios, InitializeYieldVault(bps) PROVE VaultTypeOK'
  <2>1. /\ target_buffer_bps' \in 0 .. 5000
        /\ total_shares_issued' \in Amount
        /\ total_usdc_deposited' \in Amount
        /\ emergency_exchange_rate' \in Nat
    BY <1>2, Scales, VaultAssumption DEF InitializeYieldVault
  <2>3. /\ vault_initialized' \in BOOLEAN
        /\ emergency_mode' \in BOOLEAN
    BY <1>2, InitializedFlags
  <2>4. UNCHANGED <<walletVars, lendingVars, buffer, yield_shares, is_yield_enabled>>
    BY <1>2 DEF InitializeYieldVault
  <2> QED
    BY <2>1, <2>3, <2>4 DEF walletVars, lendingVars, WalletTypeOK
<1>3. ASSUME NEW u \in Users, NEW amount \in Amount, EnableYield(u, amount)
      PROVE  VaultTypeOK'
  <2> DEFINE yield_amount == amount - calculate_buffer_amount(amount, target_buffer_bps)
             shares == IF total_shares_issued = 0
                       THEN yield_amount
                       ELSE calculate_shares_for_deposit(yield_amount,
                              total_shares_issued, BufferOnlyValue)
  <2>1. yield_amount \in Amount /\ shares \in Amount
    BY EnableTypes
  <2>2. /\ IssueShares(u, yield_amount, shares)
        /\ yield_shares' = [yield_shares EXCEPT ![u] = shares]
        /\ is_yield_enabled' = [is_yield_enabled EXCEPT ![u] = TRUE]
    BY <1>3 DEF EnableYield
  <2> HIDE DEF yield_amount, shares
  <2>3. yield_shares' \in [Users -> Amount] /\ is_yield_enabled' \in [Users -> BOOLEAN]
    BY <2>1, <2>2
  <2>4. WalletTypeOK' /\ buffer' \in Amount /\ total_shares_issued' \in Amount
        /\ total_usdc_deposited' \in Amount
    BY <2>1, <2>2, IssueSharesTypes
  <2>5. UNCHANGED <<configVars, emergencyVars, lendingVars>>
    BY <2>2 DEF IssueShares
  <2> QED
    BY <2>2, <2>3, <2>4, <2>5 DEF configVars, emergencyVars, lendingVars
<1>4. ASSUME NEW u \in Users, NEW amount \in Amount, DepositToYield(u, amount)
      PROVE  VaultTypeOK'
  <2> DEFINE shares == calculate_shares_for_deposit(amount, total_shares_issued,
                                                    BufferOnlyValue)
  <2>1. shares \in Amount
    BY Valuations, ResultTypes
  <2>2. /\ IssueShares(u, amount, shares)
        /\ yield_shares[u] + shares \in Amount
        /\ yield_shares' = [yield_shares EXCEPT ![u] = yield_shares[u] + shares]
        /\ UNCHANGED is_yield_enabled
    BY <1>4 DEF DepositToYield
  <2> HIDE DEF shares
  <2>3. yield_shares' \in [Users -> Amount]
    BY <2>2
  <2>4. WalletTypeOK' /\ buffer' \in Amount /\ total_shares_issued' \in Amount
        /\ total_usdc_deposited' \in Amount
    BY <2>1, <2>2, IssueSharesTypes
  <2>5. UNCHANGED <<configVars, emergencyVars, lendingVars>>
    BY <2>2 DEF IssueShares
  <2> QED
    BY <2>2, <2>3, <2>4, <2>5 DEF configVars, emergencyVars, lendingVars
<1>5. ASSUME NEW u \in Users, DisableYield(u) PROVE VaultTypeOK'
  <2> DEFINE tokens == RedeemableValue(yield_shares[u])
  <2>1. yield_shares[u] \in Amount /\ tokens \in Amount
    BY Valuations, ResultTypes DEF RedeemableValue
  <2>2. RedeemShares(u, yield_shares[u], tokens)
    BY <1>5 DEF DisableYield
  <2> HIDE DEF tokens
  <2>3. yield_shares' \in [Users -> Amount] /\ is_yield_enabled' \in [Users -> BOOLEAN]
    BY <1>5, Scales DEF DisableYield
  <2>4. WalletTypeOK' /\ buffer' \in Amount /\ total_shares_issued' \in Amount
        /\ total_usdc_deposited' \in Amount
    BY <2>1, <2>2, RedeemSharesTypes
  <2>5. UNCHANGED <<configVars, emergencyVars, lendingVars>>
    BY <2>2 DEF RedeemShares
  <2> QED
    BY <2>3, <2>4, <2>5 DEF configVars, emergencyVars, lendingVars
<1>6. ASSUME NEW u \in Users, NEW shares \in Amount, WithdrawFromYield(u, shares)
      PROVE  VaultTypeOK'
  <2> DEFINE tokens == RedeemableValue(shares)
  <2>1. tokens \in Amount
    BY Valuations, ResultTypes DEF RedeemableValue
  <2>2. RedeemShares(u, shares, tokens)
    BY <1>6 DEF WithdrawFromYield
  <2> HIDE DEF tokens
  <2>3. yield_shares[u] - shares \in Amount
    BY <1>6, CheckedArithmetic DEF HoldsShares, WithdrawFromYield
  <2>4. yield_shares' \in [Users -> Amount] /\ UNCHANGED is_yield_enabled
    BY <1>6, <2>3 DEF WithdrawFromYield
  <2>5. WalletTypeOK' /\ buffer' \in Amount /\ total_shares_issued' \in Amount
        /\ total_usdc_deposited' \in Amount
    BY <2>1, <2>2, RedeemSharesTypes
  <2>6. UNCHANGED <<configVars, emergencyVars, lendingVars>>
    BY <2>2 DEF RedeemShares
  <2> QED
    BY <2>4, <2>5, <2>6 DEF configVars, emergencyVars, lendingVars
<1>7. ASSUME LendingAccrues PROVE VaultTypeOK'
  BY <1>7 DEF LendingAccrues, walletVars, configVars, emergencyVars, positionVars,
              WalletTypeOK
<1>8. ASSUME RebalanceVault PROVE VaultTypeOK'
  <2>1. UNCHANGED <<walletVars, configVars, emergencyVars, positionVars, exchange_price>>
    BY <1>8 DEF RebalanceVault
  <2>2. TargetBuffer \in Amount /\ buffer \in Amount /\ ftokens \in Amount
        /\ exchange_price \in Nat \ {0} /\ FullValue \in Nat
    <3>1. target_buffer_bps \in 0 .. MaxBps
      BY DEF MaxBps
    <3>2. FullValue \in Nat
      BY Valuations
    <3>3. TargetBuffer \in Amount
      BY <3>1, <3>2, ResultTypes DEF TargetBuffer
    <3> QED
      BY <3>2, <3>3
  <2>3. ASSUME NEW n \in Nat PROVE n * PricePrecision \in Nat
    BY Scales
  <2>4. CASE buffer < TargetBuffer /\ LendingWithdraw(TargetBuffer - buffer)
    <3> DEFINE amount == TargetBuffer - buffer
               owed == amount * PricePrecision + exchange_price - 1
    <3>1. amount \in Nat
      BY <2>2, <2>4, Scales
    <3>2. owed \in Nat
      BY <2>2, <2>3, <3>1
    <3>3. owed \div exchange_price \in Nat
      <4> HIDE DEF owed
      <4> QED
        BY <2>2, <3>2, DivBounds
    <3>4. /\ ftokens >= owed \div exchange_price
          /\ buffer' = buffer + amount /\ buffer + amount \in Amount
          /\ ftokens' = ftokens - owed \div exchange_price
      BY <2>4 DEF CanRecall, FTokensBurned, LendingWithdraw
    <3> HIDE DEF owed, amount
    <3>5. buffer' \in Amount /\ ftokens' \in Amount
      BY <2>2, <3>3, <3>4, Scales
    <3> QED
      BY <2>1, <3>5 DEF walletVars, configVars, emergencyVars, positionVars, WalletTypeOK
  <2>5. CASE buffer - TargetBuffer > FullValue \div 100
             /\ LendingDeposit(buffer - TargetBuffer)
    <3> DEFINE amount == buffer - TargetBuffer
               minted == (amount * PricePrecision) \div exchange_price
    <3>1. FullValue \div 100 \in Nat
      BY <2>2, DivBounds
    <3>2. amount \in Nat
      BY <2>2, <2>5, <3>1, Scales
    <3>3. /\ buffer >= amount
          /\ buffer' = buffer - amount
          /\ ftokens' = ftokens + minted
          /\ ftokens + minted \in Amount
      BY <2>5 DEF CanLend, FTokensMinted, LendingDeposit
    <3> HIDE DEF amount, minted
    <3>4. buffer' \in Amount /\ ftokens' \in Amount
      BY <2>2, <3>2, <3>3, Scales
    <3> QED
      BY <2>1, <3>4 DEF walletVars, configVars, emergencyVars, positionVars, WalletTypeOK
  <2> QED
    BY <1>8, <2>4, <2>5 DEF Excessive, RebalanceVault
<1>9. ASSUME NEW enabled \in BOOLEAN, SetEmergencyMode(enabled) PROVE VaultTypeOK'
  <2>1. calculate_current_exchange_rate(total_shares_issued, FullValue) \in Nat
    BY Valuations, ResultTypes
  <2> QED
    BY <1>9, <2>1 DEF SetEmergencyMode, walletVars, configVars, positionVars,
                      lendingVars, WalletTypeOK
<1>10. CASE UNCHANGED vars
  BY <1>10 DEF vars, walletVars, vaultVars, configVars, emergencyVars, positionVars,
               lendingVars, WalletTypeOK
<1> HIDE DEF VaultTypeOK
<1> QED
  BY <1>1, <1>2, <1>3, <1>4, <1>5, <1>6, <1>7, <1>8, <1>9, <1>10, VaultAssumption
  DEF Next, VaultNext

LEMMA VaultStartsTyped ==
  ASSUME WalletInit, VaultInit
  PROVE  VaultTypeOK
<1>1. WalletTypeOK
  BY Scales DEF WalletInit, WalletTypeOK
<1>2. /\ target_buffer_bps \in 0 .. 5000
      /\ total_shares_issued \in Amount
      /\ total_usdc_deposited \in Amount
      /\ emergency_exchange_rate \in Nat
      /\ buffer \in Amount
      /\ ftokens \in Amount
      /\ exchange_price \in Nat \ {0}
      /\ yield_shares \in [Users -> Amount]
  BY Scales DEF VaultInit
<1>3. /\ vault_initialized \in BOOLEAN
      /\ emergency_mode \in BOOLEAN
      /\ is_yield_enabled \in [Users -> BOOLEAN]
  BY DEF VaultInit
<1> QED
  BY <1>1, <1>2, <1>3 DEF VaultTypeOK

\* Every state the program reaches has well-typed accounts: no checked u64
\* operation of a handler can have stored a value outside its width.
THEOREM TypeCorrectness == Spec => []VaultTypeOK
<1>1. Init => VaultTypeOK
  BY VaultStartsTyped DEF Init
<1>2. VaultTypeOK /\ [Next]_vars => VaultTypeOK'
  BY TypeStep
<1> QED
  BY <1>1, <1>2, PTL DEF Spec

-----------------------------------------------------------------------------
(* Share backing.                                                          *)

\* The inductive invariant: SharesBacked alone is not preserved by
\* enable_yield, which overwrites yield_shares and is only right because a
\* wallet whose yield is off holds none.
\* InitializeYieldVault writes zeroes, which is right because nothing can
\* have touched the vault before.
UntouchedBeforeInit ==
  ~vault_initialized => total_shares_issued = 0 /\ total_usdc_deposited = 0

ShareInv == DisabledWalletHoldsNoShares /\ SharesBacked /\ UntouchedBeforeInit

LEMMA ShareUpdate ==
  ASSUME VaultTypeOK, NEW u \in Users, NEW n \in Amount,
         yield_shares' = [yield_shares EXCEPT ![u] = n]
  PROVE  Total(yield_shares', Cap) = Total(yield_shares, Cap) + (n - yield_shares[u])
<1>1. /\ yield_shares \in Tallies(Users, Cap)
      /\ n \in 0 .. Cap
      /\ Cap \in Nat
      /\ IsFiniteSet(Users)
  BY Scales DEF VaultTypeOK, Tallies
<1>2. Total([yield_shares EXCEPT ![u] = n], Cap)
        = Total(yield_shares, Cap) + (n - yield_shares[u])
  BY <1>1, TotalUpdate
<1> QED
  BY <1>2

\* A step that adds d to one wallet's shares and to the total keeps them equal.
LEMMA BackingStep ==
  ASSUME VaultTypeOK, SharesBacked, NEW u \in Users, NEW n \in Amount,
         yield_shares' = [yield_shares EXCEPT ![u] = n],
         total_shares_issued' = total_shares_issued + (n - yield_shares[u])
  PROVE  SharesBacked'
  BY ShareUpdate DEF SharesBacked

LEMMA ShareStep ==
  ASSUME VaultTypeOK, ShareInv, [Next]_vars
  PROVE  ShareInv'
<1> USE DEF ShareInv
<1>0. /\ total_shares_issued \in Nat
      /\ \A u \in Users : yield_shares[u] \in Nat
      /\ yield_shares \in [Users -> Amount]
      /\ is_yield_enabled \in [Users -> BOOLEAN]
      /\ Amount \subseteq Nat
  BY Scales DEF VaultTypeOK, Amount
<1>1. ASSUME UNCHANGED <<positionVars, vault_initialized>>
      PROVE  ShareInv'
  BY <1>1 DEF SharesBacked, DisabledWalletHoldsNoShares, UntouchedBeforeInit, positionVars
<1>2. ASSUME WalletNext, UNCHANGED vaultVars PROVE ShareInv'
  BY <1>1, <1>2 DEF vaultVars, configVars
<1>3. ASSUME NEW bps \in BufferRatios, InitializeYieldVault(bps) PROVE ShareInv'
  <2>1. /\ UNCHANGED <<total_shares_issued, yield_shares, is_yield_enabled>>
        /\ vault_initialized'
    BY <1>3 DEF InitializeYieldVault, UntouchedBeforeInit
  <2> QED
    BY <2>1 DEF SharesBacked, DisabledWalletHoldsNoShares, UntouchedBeforeInit
<1>4. ASSUME NEW u \in Users, NEW amount \in Amount, EnableYield(u, amount)
      PROVE  ShareInv'
  <2> DEFINE yield_amount == amount - calculate_buffer_amount(amount, target_buffer_bps)
             shares == IF total_shares_issued = 0
                       THEN yield_amount
                       ELSE calculate_shares_for_deposit(yield_amount,
                              total_shares_issued, BufferOnlyValue)
  <2>1. shares \in Amount
    BY EnableTypes
  <2>2. /\ vault_initialized'
        /\ ~is_yield_enabled[u]
        /\ total_shares_issued' = total_shares_issued + shares
        /\ yield_shares' = [yield_shares EXCEPT ![u] = shares]
        /\ is_yield_enabled' = [is_yield_enabled EXCEPT ![u] = TRUE]
    BY <1>4 DEF EnableYield, IssueShares, configVars, HasVault
  <2> HIDE DEF yield_amount, shares
  <2>3. yield_shares[u] = 0
    BY <2>2 DEF DisabledWalletHoldsNoShares
  <2>4. total_shares_issued' = total_shares_issued + (shares - yield_shares[u])
    BY <1>0, <2>1, <2>2, <2>3
  <2>5. SharesBacked'
    BY <2>1, <2>2, <2>4, BackingStep
  <2>6. DisabledWalletHoldsNoShares'
    BY <1>0, <2>2 DEF DisabledWalletHoldsNoShares
  <2> QED
    BY <2>2, <2>5, <2>6 DEF UntouchedBeforeInit
<1>5. ASSUME NEW u \in Users, NEW amount \in Amount, DepositToYield(u, amount)
      PROVE  ShareInv'
  <2> DEFINE shares == calculate_shares_for_deposit(amount, total_shares_issued,
                                                    BufferOnlyValue)
             n == yield_shares[u] + shares
  <2>1. shares \in Amount
    BY Valuations, ResultTypes DEF VaultTypeOK
  <2>2. /\ vault_initialized'
        /\ is_yield_enabled[u]
        /\ total_shares_issued' = total_shares_issued + shares
        /\ n \in Amount
        /\ yield_shares' = [yield_shares EXCEPT ![u] = n]
        /\ UNCHANGED is_yield_enabled
    BY <1>5 DEF DepositToYield, IssueShares, configVars, HasVault
  <2>3. shares = n - yield_shares[u]
    <3> HIDE DEF shares
    <3> QED
      BY <1>0, <2>1
  <2> HIDE DEF shares, n
  <2>4. SharesBacked'
    BY <2>2, <2>3, BackingStep
  <2>5. DisabledWalletHoldsNoShares'
    BY <1>0, <2>2 DEF DisabledWalletHoldsNoShares
  <2> QED
    BY <2>2, <2>4, <2>5 DEF UntouchedBeforeInit
<1>6. ASSUME NEW u \in Users, DisableYield(u) PROVE ShareInv'
  <2>1. /\ vault_initialized'
        /\ total_shares_issued' = total_shares_issued - yield_shares[u]
        /\ yield_shares' = [yield_shares EXCEPT ![u] = 0]
        /\ is_yield_enabled' = [is_yield_enabled EXCEPT ![u] = FALSE]
    BY <1>6 DEF CanPayShares, HoldsShares, DisableYield, RedeemShares, configVars, HasVault
  <2>2. total_shares_issued' = total_shares_issued + (0 - yield_shares[u])
    BY <1>0, <2>1
  <2>3. SharesBacked'
    BY <2>1, <2>2, BackingStep, Scales
  <2>4. DisabledWalletHoldsNoShares'
    BY <1>0, <2>1 DEF DisabledWalletHoldsNoShares
  <2> QED
    BY <2>1, <2>3, <2>4 DEF UntouchedBeforeInit
<1>7. ASSUME NEW u \in Users, NEW shares \in Amount, WithdrawFromYield(u, shares)
      PROVE  ShareInv'
  <2> DEFINE n == yield_shares[u] - shares
  <2>1. /\ vault_initialized'
        /\ is_yield_enabled[u]
        /\ yield_shares[u] >= shares
        /\ total_shares_issued' = total_shares_issued - shares
        /\ yield_shares' = [yield_shares EXCEPT ![u] = n]
        /\ UNCHANGED is_yield_enabled
    BY <1>7 DEF CanPayShares, HoldsShares, WithdrawFromYield, RedeemShares, configVars, HasVault
  <2>2. n \in Amount /\ total_shares_issued' = total_shares_issued + (n - yield_shares[u])
    BY <1>0, <2>1, CheckedArithmetic
  <2> HIDE DEF n
  <2>3. SharesBacked'
    BY <2>1, <2>2, BackingStep
  <2>4. DisabledWalletHoldsNoShares'
    BY <1>0, <2>1 DEF DisabledWalletHoldsNoShares
  <2> QED
    BY <2>1, <2>3, <2>4 DEF UntouchedBeforeInit
<1>8. ASSUME LendingAccrues PROVE ShareInv'
  BY <1>1, <1>8 DEF LendingAccrues, configVars
<1>9. ASSUME RebalanceVault PROVE ShareInv'
  BY <1>1, <1>9 DEF RebalanceVault, configVars
<1>10. ASSUME NEW enabled \in BOOLEAN, SetEmergencyMode(enabled) PROVE ShareInv'
  BY <1>1, <1>10 DEF SetEmergencyMode, configVars
<1>11. CASE UNCHANGED vars
  BY <1>1, <1>11 DEF vars, vaultVars, configVars
<1> QED
  BY <1>2, <1>3, <1>4, <1>5, <1>6, <1>7, <1>8, <1>9, <1>10, <1>11, VaultAssumption
  DEF Next, VaultNext

LEMMA VaultStartsBacked ==
  ASSUME VaultInit
  PROVE  ShareInv
<1>1. Total(yield_shares, Cap) = 0
  BY Scales, TotalOfZero DEF VaultInit
<1> QED
  BY <1>1 DEF VaultInit, ShareInv, DisabledWalletHoldsNoShares, SharesBacked,
              UntouchedBeforeInit

LEMMA InductiveInvariant == Spec => [](VaultTypeOK /\ ShareInv)
<1>1. Init => ShareInv
  BY VaultStartsBacked DEF Init
<1>2. VaultTypeOK /\ ShareInv /\ [Next]_vars => ShareInv'
  BY ShareStep
<1> QED
  BY <1>1, <1>2, TypeCorrectness, PTL DEF Spec

\* The vault's total is the sum of what the wallets hold, whatever the wallets
\* and the authority do.
THEOREM SharesAreBacked == Spec => []SharesBacked
<1>1. ShareInv => SharesBacked
  BY DEF ShareInv
<1> QED
  BY <1>1, InductiveInvariant, PTL

\* A wallet whose yield is off holds nothing that enabling could overwrite.
THEOREM DisabledWalletsHoldNothing == Spec => []DisabledWalletHoldsNoShares
<1>1. ShareInv => DisabledWalletHoldsNoShares
  BY DEF ShareInv
<1> QED
  BY <1>1, InductiveInvariant, PTL

-----------------------------------------------------------------------------
(* Redemptions.                                                            *)

\* Two wallets together hold at most the total.
LEMMA SharesOfTwo ==
  ASSUME VaultTypeOK, SharesBacked, NEW u \in Users, NEW w \in Users
  PROVE  /\ yield_shares[u] \in 0 .. total_shares_issued
         /\ u # w => yield_shares[u] + yield_shares[w] <= total_shares_issued
<1> DEFINE g == [yield_shares EXCEPT ![w] = 0]
<1>1. /\ yield_shares \in Tallies(Users, Cap)
      /\ g \in Tallies(Users, Cap)
      /\ 0 \in 0 .. Cap
      /\ Cap \in Nat
      /\ IsFiniteSet(Users)
      /\ yield_shares[u] \in Nat /\ yield_shares[w] \in Nat
      /\ u # w => g[u] = yield_shares[u]
  BY Scales DEF VaultTypeOK, Tallies
<1>2. Total(g, Cap) = Total(yield_shares, Cap) + (0 - yield_shares[w])
  BY <1>1, TotalUpdate
<1>3. yield_shares[u] <= Total(yield_shares, Cap)
  BY <1>1, TotalBoundsEach
<1> HIDE DEF g
<1>4. g[u] <= Total(g, Cap)
  BY <1>1, TotalBoundsEach
<1>5. Total(yield_shares, Cap) = total_shares_issued /\ total_shares_issued \in Nat
  BY Scales DEF SharesBacked, VaultTypeOK, Amount
<1> QED
  BY <1>1, <1>2, <1>3, <1>4, <1>5

\* In every reachable state the buffer can pay what any one wallet would
\* redeem: the transfer of disable_yield is never refused for lack of buffer.
THEOREM RedemptionIsCovered ==
  Spec => [](\A u \in Users : RedeemableValue(yield_shares[u]) <= buffer)
<1>1. ASSUME VaultTypeOK, ShareInv
      PROVE  \A u \in Users : RedeemableValue(yield_shares[u]) <= buffer
  <2> TAKE u \in Users
  <2>1. /\ yield_shares[u] \in 0 .. total_shares_issued
        /\ total_shares_issued \in Amount
        /\ buffer \in Amount
        /\ BufferOnlyValue = buffer
    BY <1>1, SharesOfTwo, Valuations DEF ShareInv, VaultTypeOK
  <2>2. RedeemableValue(yield_shares[u]) \in 0 .. buffer
    BY <2>1, RedemptionWithinVault DEF RedeemableValue
  <2> QED
    BY <2>1, <2>2
<1> QED
  BY <1>1, InductiveInvariant, PTL

-----------------------------------------------------------------------------
(* No wallet is diluted by another.                                        *)

\* The buffer-only valuation does not see the lending price.
LEMMA BufferValuedAlone ==
  ASSUME NEW b \in Amount, NEW price \in Nat
  PROVE  get_vault_total_value(b, 0, price) = b
<1>1. b \in Nat /\ PricePrecision \in Nat \ {0}
  BY Scales DEF Amount
<1>2. 0 * price = 0 /\ 0 \div PricePrecision = 0
  BY <1>1
<1>3. Truncate(0) = 0
  BY TruncateBounds, Scales
<1> QED
  BY <1>1, <1>2, <1>3 DEF get_vault_total_value

LEMMA ValueBefore ==
  ASSUME VaultTypeOK
  PROVE  \A s \in Amount :
           RedeemableValue(s) =
             calculate_usdc_value_of_shares(s, total_shares_issued, buffer)
  BY BufferValuedAlone DEF RedeemableValue, BufferOnlyValue, VaultTypeOK

LEMMA IssueKeepsValue ==
  ASSUME VaultTypeOK, SharesBacked, NEW u \in Users,
         NEW tokens \in Amount, NEW issued \in Amount,
         total_shares_issued > 0 =>
           issued = calculate_shares_for_deposit(tokens, total_shares_issued,
                                                 BufferOnlyValue),
         buffer' = buffer + tokens, buffer + tokens \in Amount,
         total_shares_issued' = total_shares_issued + issued,
         total_shares_issued + issued \in Amount
  PROVE  calculate_usdc_value_of_shares(yield_shares[u], total_shares_issued, buffer)
           <= calculate_usdc_value_of_shares(yield_shares[u], total_shares_issued',
                                             buffer')
<1>1. /\ yield_shares[u] \in 0 .. total_shares_issued
      /\ total_shares_issued \in Amount /\ total_shares_issued \in Nat
      /\ buffer \in Amount
      /\ BufferOnlyValue = buffer
  BY SharesOfTwo, Valuations, Scales DEF VaultTypeOK, Amount
<1>2. CASE total_shares_issued > 0
  BY <1>1, <1>2, DepositPreservesOthers
<1>3. CASE total_shares_issued = 0
  <2>1. calculate_usdc_value_of_shares(yield_shares[u], total_shares_issued, buffer) = 0
    BY <1>3 DEF calculate_usdc_value_of_shares
  <2>2. calculate_usdc_value_of_shares(yield_shares[u], total_shares_issued', buffer')
          \in Amount
    BY <1>1, ResultTypes DEF VaultTypeOK
  <2> QED
    BY <2>1, <2>2, Scales DEF Amount
<1> QED
  BY <1>1, <1>2, <1>3

LEMMA RedeemKeepsValue ==
  ASSUME VaultTypeOK, SharesBacked, NEW u \in Users, NEW w \in Users, u # w,
         NEW shares \in Amount, shares > 0, yield_shares[w] >= shares,
         RedeemShares(w, shares, RedeemableValue(shares))
  PROVE  calculate_usdc_value_of_shares(yield_shares[u], total_shares_issued, buffer)
           <= calculate_usdc_value_of_shares(yield_shares[u], total_shares_issued',
                                             buffer')
<1> DEFINE paid == calculate_usdc_value_of_shares(shares, total_shares_issued, buffer)
<1>1. /\ total_shares_issued' = total_shares_issued - shares
      /\ buffer' = buffer - paid
  BY ValueBefore DEF RedeemShares
<1>2. /\ total_shares_issued \in Amount /\ total_shares_issued \in Nat
      /\ buffer \in Amount
      /\ yield_shares[u] \in Nat /\ yield_shares[w] \in Nat /\ shares \in Nat
      /\ yield_shares[u] + yield_shares[w] <= total_shares_issued
  BY SharesOfTwo, Scales DEF VaultTypeOK, Amount
<1>3. /\ shares \in 0 .. total_shares_issued
      /\ yield_shares[u] \in 0 .. total_shares_issued - shares
  BY <1>2
<1> QED
  BY <1>1, <1>2, <1>3, RedemptionPreservesOthers

\* A rebalance that moves tokens moves fTokens: the lending program mints at
\* least one on a deposit and burns at least one on a withdrawal.
LEMMA RebalanceMovesFTokens ==
  ASSUME VaultTypeOK, RebalanceVault
  PROVE  ftokens' # ftokens
<1>1. /\ TargetBuffer \in Nat /\ buffer \in Nat /\ ftokens \in Nat
      /\ exchange_price \in Nat \ {0}
      /\ PricePrecision \in Nat \ {0}
  <2>1. target_buffer_bps \in 0 .. MaxBps /\ FullValue \in Nat
    BY Valuations DEF VaultTypeOK, MaxBps
  <2>2. TargetBuffer \in Amount
    BY <2>1, ResultTypes DEF TargetBuffer
  <2> QED
    BY <2>2, Scales DEF VaultTypeOK, Amount
<1>2. ASSUME buffer < TargetBuffer, LendingWithdraw(TargetBuffer - buffer)
      PROVE  ftokens' # ftokens
  <2> DEFINE amount == TargetBuffer - buffer
             owed == amount * PricePrecision + exchange_price - 1
             burned == owed \div exchange_price
  <2>1. ftokens' = ftokens - burned
    BY <1>2 DEF FTokensBurned, LendingWithdraw
  <2>2. amount \in Nat /\ amount >= 1
    BY <1>1, <1>2
  <2> HIDE DEF amount
  <2>3. amount * PricePrecision \in Nat /\ amount * PricePrecision >= 1
    BY <1>1, <2>2
  <2>4. owed \in Nat /\ 1 * exchange_price <= owed
    BY <1>1, <2>3
  <2> HIDE DEF owed
  <2>5. burned \in Nat /\ 1 <= burned
    BY <1>1, <2>4, DivAtLeast, DivBounds
  <2> HIDE DEF burned
  <2> QED
    BY <1>1, <2>1, <2>5
<1>3. ASSUME LendingDeposit(buffer - TargetBuffer)
      PROVE  ftokens' # ftokens
  <2> DEFINE minted == ((buffer - TargetBuffer) * PricePrecision) \div exchange_price
  <2>1. minted > 0 /\ ftokens + minted \in Nat /\ ftokens' = ftokens + minted
    BY <1>3, Scales DEF CanLend, FTokensMinted, LendingDeposit, Amount
  <2>2. minted \in Int
    BY <1>1
  <2> HIDE DEF minted
  <2> QED
    BY <1>1, <2>1, <2>2
<1> QED
  BY <1>2, <1>3 DEF RebalanceVault

LEMMA OthersKeepStep ==
  ASSUME VaultTypeOK, VaultTypeOK', ShareInv, [Next]_vars, ftokens' = ftokens,
         NEW u \in Users, yield_shares'[u] = yield_shares[u]
  PROVE  calculate_usdc_value_of_shares(yield_shares[u], total_shares_issued, buffer)
           <= calculate_usdc_value_of_shares(yield_shares[u], total_shares_issued',
                                             buffer')
<1> DEFINE Kept ==
      calculate_usdc_value_of_shares(yield_shares[u], total_shares_issued, buffer)
        <= calculate_usdc_value_of_shares(yield_shares[u], total_shares_issued', buffer')
<1>0. /\ total_shares_issued \in Amount /\ buffer \in Amount
      /\ total_shares_issued' \in Amount /\ buffer' \in Amount
      /\ yield_shares \in [Users -> Amount]
      /\ yield_shares[u] \in Amount
      /\ \A n \in Amount : n \in Nat
      /\ BufferOnlyValue \in Amount
      /\ total_shares_issued \in Nat
      /\ \A w \in Users : yield_shares[w] \in Nat
      /\ SharesBacked
  BY Valuations, Scales DEF VaultTypeOK, Amount, ShareInv
<1>1. ASSUME UNCHANGED <<total_shares_issued, buffer>> PROVE Kept
  <2>1. calculate_usdc_value_of_shares(yield_shares[u], total_shares_issued, buffer)
          \in Nat
    BY <1>0, ResultTypes, Scales DEF Amount
  <2> QED
    BY <1>1, <2>1
<1>2. ASSUME WalletNext, UNCHANGED vaultVars PROVE Kept
  BY <1>1, <1>2 DEF vaultVars, positionVars
<1>3. ASSUME NEW bps \in BufferRatios, InitializeYieldVault(bps) PROVE Kept
  BY <1>1, <1>3 DEF InitializeYieldVault, ShareInv, UntouchedBeforeInit
<1>4. ASSUME NEW w \in Users, NEW amount \in Amount, EnableYield(w, amount) PROVE Kept
  <2> DEFINE yield_amount == amount - calculate_buffer_amount(amount, target_buffer_bps)
             shares == IF total_shares_issued = 0
                       THEN yield_amount
                       ELSE calculate_shares_for_deposit(yield_amount,
                              total_shares_issued, BufferOnlyValue)
  <2>1. yield_amount \in Amount /\ shares \in Amount
    BY EnableTypes
  <2>2. IssueShares(w, yield_amount, shares)
    BY <1>4 DEF EnableYield
  <2>3. total_shares_issued > 0 =>
          shares = calculate_shares_for_deposit(yield_amount, total_shares_issued,
                                                BufferOnlyValue)
    BY <1>0
  <2> HIDE DEF yield_amount, shares
  <2> QED
    BY <1>0, <2>1, <2>2, <2>3, IssueKeepsValue DEF IssueShares, CanTransfer
<1>5. ASSUME NEW w \in Users, NEW amount \in Amount, DepositToYield(w, amount) PROVE Kept
  <2> DEFINE shares == calculate_shares_for_deposit(amount, total_shares_issued,
                                                    BufferOnlyValue)
  <2>1. shares \in Amount
    BY <1>0, ResultTypes
  <2>2. IssueShares(w, amount, shares)
    BY <1>5 DEF DepositToYield
  <2>3. total_shares_issued > 0 =>
          shares = calculate_shares_for_deposit(amount, total_shares_issued,
                                                BufferOnlyValue)
    OBVIOUS
  <2> HIDE DEF shares
  <2> QED
    BY <1>0, <2>1, <2>2, <2>3, IssueKeepsValue DEF IssueShares, CanTransfer
<1>6. ASSUME NEW w \in Users, DisableYield(w) PROVE Kept
  <2>1. /\ yield_shares[w] > 0
        /\ RedeemShares(w, yield_shares[w], RedeemableValue(yield_shares[w]))
        /\ yield_shares' = [yield_shares EXCEPT ![w] = 0]
    BY <1>6 DEF HoldsShares, DisableYield
  <2>2. yield_shares[w] \in Amount /\ yield_shares[w] >= yield_shares[w] /\ u # w
    BY <1>0, <2>1
  <2> QED
    BY <1>0, <2>1, <2>2, RedeemKeepsValue
<1>7. ASSUME NEW w \in Users, NEW shares \in Amount, WithdrawFromYield(w, shares)
      PROVE  Kept
  <2>1. /\ shares > 0
        /\ yield_shares[w] >= shares
        /\ RedeemShares(w, shares, RedeemableValue(shares))
        /\ yield_shares' = [yield_shares EXCEPT ![w] = yield_shares[w] - shares]
    BY <1>7 DEF HoldsShares, WithdrawFromYield
  <2>2. u # w
    BY <1>0, <2>1
  <2> QED
    BY <1>0, <2>1, <2>2, RedeemKeepsValue
<1>8. ASSUME LendingAccrues PROVE Kept
  BY <1>1, <1>8 DEF LendingAccrues, positionVars
<1>9. ASSUME RebalanceVault PROVE Kept
  BY <1>9, RebalanceMovesFTokens
<1>10. ASSUME NEW enabled \in BOOLEAN, SetEmergencyMode(enabled) PROVE Kept
  BY <1>1, <1>10 DEF SetEmergencyMode, positionVars
<1>11. ASSUME UNCHANGED vars PROVE Kept
  BY <1>1, <1>11 DEF vars, vaultVars, positionVars
<1> HIDE DEF Kept
<1>12. Kept
  BY <1>2, <1>3, <1>4, <1>5, <1>6, <1>7, <1>8, <1>9, <1>10, <1>11, VaultAssumption
  DEF Next, VaultNext
<1> QED
  BY <1>12 DEF Kept

LEMMA ClaimKept ==
  ASSUME VaultTypeOK, VaultTypeOK', ShareInv, [Next]_vars, ftokens' = ftokens,
         NEW u \in Users, yield_shares'[u] = yield_shares[u]
  PROVE  RedeemableValue(yield_shares[u]) <= RedeemableValue(yield_shares[u])'
<1>1. RedeemableValue(yield_shares[u])
        = calculate_usdc_value_of_shares(yield_shares[u], total_shares_issued, buffer)
  BY ValueBefore DEF VaultTypeOK
<1>2. RedeemableValue(yield_shares[u])'
        = calculate_usdc_value_of_shares(yield_shares[u], total_shares_issued', buffer')
  <2>1. buffer' \in Amount /\ exchange_price' \in Nat
    BY DEF VaultTypeOK
  <2>2. get_vault_total_value(buffer', 0, exchange_price') = buffer'
    BY <2>1, BufferValuedAlone
  <2> QED
    BY <2>2 DEF RedeemableValue, BufferOnlyValue
<1> QED
  BY <1>1, <1>2, OthersKeepStep

\* An operation of one wallet never lowers what another's shares redeem for,
\* at any share price, at any rounding and with the cast wrapping or not.
THEOREM NoDilution == Spec => OthersKeepRedeemableValue
<1>1. ASSUME VaultTypeOK, VaultTypeOK', ShareInv, [Next]_vars
      PROVE  [ftokens' = ftokens =>
                \A u \in Users :
                  yield_shares'[u] = yield_shares[u] =>
                    RedeemableValue(yield_shares[u])
                      <= RedeemableValue(yield_shares[u])']_vars
  <2> SUFFICES ASSUME ftokens' = ftokens,
                      NEW u \in Users, yield_shares'[u] = yield_shares[u]
               PROVE  RedeemableValue(yield_shares[u]) <= RedeemableValue(yield_shares[u])'
    OBVIOUS
  <2> QED
    BY <1>1, ClaimKept
<1> QED
  BY <1>1, InductiveInvariant, PTL DEF Spec, OthersKeepRedeemableValue

-----------------------------------------------------------------------------
(* All claims at once.                                                     *)

\* Backed shares priced on the buffer are together worth the buffer at most.
LEMMA ClaimsWithinBuffer ==
  ASSUME VaultTypeOK, ShareInv
  PROVE  ClaimsAreLiquid
<1> DEFINE claims == [u \in Users |-> RedeemableValue(yield_shares[u])]
<1>1. Total(claims, Cap) <= buffer
  <2>1. /\ total_shares_issued \in Amount /\ total_shares_issued \in Nat
        /\ buffer \in Amount /\ buffer \in Nat /\ buffer <= Cap
        /\ BufferOnlyValue = buffer
        /\ yield_shares \in Tallies(Users, Cap)
        /\ Cap \in Nat /\ IsFiniteSet(Users)
        /\ Total(yield_shares, Cap) = total_shares_issued
        /\ \A u \in Users : yield_shares[u] \in 0 .. total_shares_issued
    BY SharesOfTwo, Valuations, Scales
    DEF ShareInv, SharesBacked, VaultTypeOK, Amount, Tallies
  <2>2. \A u \in Users : claims[u] \in 0 .. buffer
    BY <2>1, RedemptionWithinVault DEF RedeemableValue
  <2>3. CASE total_shares_issued = 0
    <3>1. claims = [u \in Users |-> 0]
      BY <2>3 DEF RedeemableValue, calculate_usdc_value_of_shares
    <3>2. Total([u \in Users |-> 0], Cap) = 0
      BY <2>1, TotalOfZero
    <3> HIDE DEF claims
    <3> QED
      BY <2>1, <3>1, <3>2
  <2>4. CASE total_shares_issued > 0
    <3>1. \A u \in Users : claims[u] * total_shares_issued <= yield_shares[u] * buffer
      <4> TAKE u \in Users
      <4> DEFINE s == yield_shares[u]
                 worth == (s * buffer) \div total_shares_issued
      <4>1. claims[u] = worth
        BY <2>1, <2>4, RedemptionWithinVault DEF RedeemableValue
      <4>2. s * buffer \in Nat /\ total_shares_issued \in Nat \ {0}
        BY <2>1, <2>4
      <4> HIDE DEF s
      <4>3. worth \in Nat /\ total_shares_issued * worth <= s * buffer
        BY <4>2, DivBounds
      <4> HIDE DEF worth
      <4>4. worth * total_shares_issued <= s * buffer
        BY <2>1, <4>3
      <4> HIDE DEF claims
      <4> QED
        BY <4>1, <4>4 DEF s
    <3>2. claims \in Tallies(Users, Cap)
      BY <2>1, <2>2 DEF Tallies
    <3> HIDE DEF claims
    <3>3. Total(claims, Cap) * total_shares_issued
            <= Total(yield_shares, Cap) * buffer
      BY <2>1, <3>1, <3>2, TotalInProportion
    <3>4. Total(claims, Cap) \in Nat
      BY <2>1, <3>2, TotalIsNat
    <3> DEFINE sum == Total(claims, Cap)
    <3> HIDE DEF sum
    <3>5. sum \in Nat /\ sum * total_shares_issued <= total_shares_issued * buffer
      BY <2>1, <3>3, <3>4 DEF sum
    <3>6. ASSUME buffer < sum
          PROVE  buffer * total_shares_issued < sum * total_shares_issued
      BY <2>1, <2>4, <3>5, <3>6
    <3>7. buffer * total_shares_issued = total_shares_issued * buffer
      BY <2>1
    <3> QED
      BY <2>1, <3>5, <3>6, <3>7 DEF sum
  <2> QED
    BY <2>1, <2>3, <2>4
<1> QED
  BY <1>1 DEF ClaimsAreLiquid

\* Were every wallet to redeem at today's price, the buffer could pay all of
\* them, whatever the others have done and however the price has moved.
THEOREM ClaimsAreCovered == Spec => []ClaimsAreLiquid
<1>1. VaultTypeOK /\ ShareInv => ClaimsAreLiquid
  BY ClaimsWithinBuffer
<1> QED
  BY <1>1, InductiveInvariant, PTL

-----------------------------------------------------------------------------
(* Nobody gains by acting.                                                 *)

\* The same claim after a step.
LEMMA ValueAfter ==
  ASSUME VaultTypeOK', NEW u \in Users
  PROVE  RedeemableValue(yield_shares[u])'
           = calculate_usdc_value_of_shares(yield_shares'[u], total_shares_issued',
                                            buffer')
<1>1. buffer' \in Amount /\ exchange_price' \in Nat
  BY DEF VaultTypeOK
<1>2. get_vault_total_value(buffer', 0, exchange_price') = buffer'
  BY <1>1, BufferValuedAlone
<1> QED
  BY <1>2 DEF RedeemableValue, BufferOnlyValue

\* A wallet that trades with the buffer at a price that does not lower the
\* price of a share is no richer for it.
LEMMA TradeGainsNothing ==
  ASSUME VaultTypeOK, VaultTypeOK', SharesBacked, NEW u \in Users,
         total_shares_issued > 0,
         user_tokens' = user_tokens,
         balance'[u] + buffer' = balance[u] + buffer,
         yield_shares'[u] + total_shares_issued = yield_shares[u] + total_shares_issued',
         buffer * total_shares_issued' <= buffer' * total_shares_issued
  PROVE  Wealth(u)' <= Wealth(u)
<1> DEFINE T == total_shares_issued
           newT == total_shares_issued'
           s == yield_shares[u]
           news == yield_shares'[u]
           claim == RedeemableValue(s)
           newClaim == RedeemableValue(yield_shares[u])'
<1>1. /\ T \in Amount /\ newT \in Amount /\ buffer \in Amount /\ buffer' \in Amount
      /\ T \in Nat \ {0} /\ newT \in Nat /\ buffer \in Nat /\ buffer' \in Nat
      /\ s \in 0 .. T /\ s \in Amount /\ news \in Nat
      /\ user_tokens[u] \in Nat /\ balance[u] \in Nat /\ balance'[u] \in Nat
  BY SharesOfTwo, Scales DEF VaultTypeOK, WalletTypeOK, Amount
<1>2. news \in 0 .. newT /\ newT - (T - s) = news /\ T - s \in Nat /\ T - s <= newT
  <2> DEFINE a == T
             b == newT
  <2>1. /\ a \in Nat /\ b \in Nat /\ s \in 0 .. a /\ news \in Nat
        /\ news + a = s + b
    BY <1>1
  <2> HIDE DEF a, b, s, news
  <2>2. news \in 0 .. b /\ b - (a - s) = news /\ a - s \in Nat /\ a - s <= b
    BY <2>1
  <2> QED
    BY <2>2 DEF a, b, s, news
<1>3. /\ claim = (s * buffer) \div T
      /\ claim \in Nat
  <2>1. claim = calculate_usdc_value_of_shares(s, T, buffer)
    BY <1>1, ValueBefore
  <2>2. calculate_usdc_value_of_shares(s, T, buffer) = (s * buffer) \div T
    BY <1>1, RedemptionWithinVault
  <2>3. calculate_usdc_value_of_shares(s, T, buffer) \in 0 .. buffer
    BY <1>1, RedemptionWithinVault
  <2> QED
    BY <1>1, <2>1, <2>2, <2>3
<1>4. newClaim = calculate_usdc_value_of_shares(news, newT, buffer')
  BY ValueAfter
<1>5. newClaim \in Nat /\ newClaim <= claim + (buffer' - buffer)
  <2>1. CASE newT = 0
    <3>1. newClaim = 0
      BY <1>4, <2>1 DEF calculate_usdc_value_of_shares
    <3>2. s = T
      BY <1>1, <1>2, <2>1
    <3>3. buffer <= claim
      <4>1. T * buffer \in Nat /\ buffer * T <= T * buffer
        BY <1>1
      <4> HIDE DEF T, s, claim
      <4> QED
        BY <1>1, <1>3, <3>2, <4>1, DivAtLeast
    <3> HIDE DEF claim, newClaim
    <3> QED
      BY <1>1, <1>3, <3>1, <3>3
  <2>2. CASE newT > 0
    <3>1. newClaim = (news * buffer') \div newT /\ newClaim \in Nat
      <4>1. calculate_usdc_value_of_shares(news, newT, buffer') \in 0 .. buffer'
        BY <1>1, <1>2, RedemptionWithinVault
      <4>2. calculate_usdc_value_of_shares(news, newT, buffer')
              = (news * buffer') \div newT
        BY <1>1, <1>2, <2>2, RedemptionWithinVault
      <4> QED
        BY <1>1, <1>4, <4>1, <4>2
    <3> DEFINE others == T - s
    <3>2. others \in Nat /\ others <= T /\ others <= newT /\ T - others = s
          /\ newT - others = news
      BY <1>1, <1>2
    <3>3. buffer * newT <= buffer' * T
      OBVIOUS
    <3> HIDE DEF others, T, newT, s, news, claim, newClaim
    <3>4. ((newT - others) * buffer') \div newT
            <= ((T - others) * buffer) \div T + (buffer' - buffer)
      <4>1. /\ T \in Nat /\ T > 0 /\ newT \in Nat /\ newT > 0
            /\ buffer \in Nat /\ buffer' \in Nat
        BY <1>1, <2>2
      <4> QED
        BY <3>2, <3>3, <4>1, OwnClaimBound, Zenon
    <3> QED
      BY <1>3, <3>1, <3>2, <3>4
  <2> QED
    BY <1>1, <2>1, <2>2
<1>6. /\ Wealth(u) = user_tokens[u] + balance[u] + claim
      /\ Wealth(u)' = user_tokens[u] + balance'[u] + newClaim
  BY DEF Wealth
<1> HIDE DEF claim, newClaim
<1> QED
  BY <1>1, <1>3, <1>5, <1>6

\* Shares are issued at no less than the price of a share.
LEMMA IssueGainsNothing ==
  ASSUME VaultTypeOK, VaultTypeOK', SharesBacked, NEW u \in Users,
         total_shares_issued > 0, NEW tokens \in Amount, NEW issued,
         issued = calculate_shares_for_deposit(tokens, total_shares_issued,
                                               BufferOnlyValue),
         IssueShares(u, tokens, issued),
         yield_shares'[u] = yield_shares[u] + issued
  PROVE  Wealth(u)' <= Wealth(u)
<1>1. /\ total_shares_issued \in Amount /\ buffer \in Amount
      /\ BufferOnlyValue = buffer
      /\ total_shares_issued \in Nat /\ buffer \in Nat /\ tokens \in Nat
      /\ yield_shares[u] \in Nat /\ balance[u] \in Nat
  BY Valuations, Scales DEF VaultTypeOK, WalletTypeOK, Amount
<1>2. issued \in Amount /\ issued * buffer <= tokens * total_shares_issued
  BY <1>1, DepositRoundsForVault
<1>3. issued \in Nat
  BY <1>2, Scales DEF Amount
<1>4. /\ user_tokens' = user_tokens
      /\ balance' = [balance EXCEPT ![u] = balance[u] - tokens]
      /\ balance \in [Users -> Amount]
      /\ buffer' = buffer + tokens
      /\ total_shares_issued' = total_shares_issued + issued
  BY DEF IssueShares, VaultTypeOK, WalletTypeOK
<1>5. buffer * (total_shares_issued + issued)
        <= (buffer + tokens) * total_shares_issued
  <2>1. buffer * (total_shares_issued + issued)
          = buffer * total_shares_issued + issued * buffer
    BY <1>1, <1>3
  <2>2. (buffer + tokens) * total_shares_issued
          = buffer * total_shares_issued + tokens * total_shares_issued
    BY <1>1
  <2>3. /\ buffer * total_shares_issued \in Nat /\ issued * buffer \in Nat
        /\ tokens * total_shares_issued \in Nat
    BY <1>1, <1>3
  <2> QED
    BY <1>2, <2>1, <2>2, <2>3
<1>6. balance'[u] + buffer' = balance[u] + buffer
  BY <1>1, <1>4
<1>7. yield_shares'[u] + total_shares_issued
        = yield_shares[u] + total_shares_issued'
  BY <1>1, <1>3, <1>4
<1> QED
  BY <1>4, <1>5, <1>6, <1>7, TradeGainsNothing

\* Shares are redeemed at no more than the price of a share.
LEMMA RedeemGainsNothing ==
  ASSUME VaultTypeOK, VaultTypeOK', SharesBacked, NEW u \in Users,
         total_shares_issued > 0, NEW shares \in Amount, yield_shares[u] >= shares,
         RedeemShares(u, shares, RedeemableValue(shares)),
         yield_shares'[u] = yield_shares[u] - shares
  PROVE  Wealth(u)' <= Wealth(u)
<1> DEFINE paid == RedeemableValue(shares)
<1>1. /\ total_shares_issued \in Amount /\ buffer \in Amount
      /\ total_shares_issued \in Nat \ {0} /\ buffer \in Nat /\ shares \in Nat
      /\ yield_shares[u] \in 0 .. total_shares_issued /\ balance[u] \in Nat
      /\ shares \in 0 .. total_shares_issued
  BY SharesOfTwo, Scales DEF VaultTypeOK, WalletTypeOK, Amount
<1>2. /\ paid \in Nat
      /\ paid = (shares * buffer) \div total_shares_issued
  <2>1. paid = calculate_usdc_value_of_shares(shares, total_shares_issued, buffer)
    BY ValueBefore
  <2>2. calculate_usdc_value_of_shares(shares, total_shares_issued, buffer)
          \in 0 .. buffer
    BY <1>1, RedemptionWithinVault
  <2>3. calculate_usdc_value_of_shares(shares, total_shares_issued, buffer)
          = (shares * buffer) \div total_shares_issued
    BY <1>1, RedemptionWithinVault
  <2> QED
    BY <1>1, <2>1, <2>2, <2>3
<1>3. total_shares_issued * paid <= shares * buffer
  <2>1. shares * buffer \in Nat
    BY <1>1
  <2> HIDE DEF paid
  <2> QED
    BY <1>1, <1>2, <2>1, DivBounds
<1>4. /\ user_tokens' = user_tokens
      /\ balance' = [balance EXCEPT ![u] = balance[u] + paid]
      /\ balance \in [Users -> Amount]
      /\ buffer' = buffer - paid
      /\ total_shares_issued' = total_shares_issued - shares
  BY DEF RedeemShares, VaultTypeOK, WalletTypeOK
<1> HIDE DEF paid
<1>5. buffer * (total_shares_issued - shares)
        <= (buffer - paid) * total_shares_issued
  <2>1. buffer * (total_shares_issued - shares)
          = buffer * total_shares_issued - shares * buffer
    BY <1>1
  <2>2. (buffer - paid) * total_shares_issued
          = buffer * total_shares_issued - total_shares_issued * paid
    BY <1>1, <1>2
  <2>3. /\ buffer * total_shares_issued \in Nat /\ shares * buffer \in Nat
        /\ total_shares_issued * paid \in Nat
    BY <1>1, <1>2
  <2> QED
    BY <1>3, <2>1, <2>2, <2>3
<1>6. balance'[u] + buffer' = balance[u] + buffer
  BY <1>1, <1>2, <1>4
<1>7. yield_shares'[u] + total_shares_issued
        = yield_shares[u] + total_shares_issued'
  BY <1>1, <1>4
<1> QED
  BY <1>4, <1>5, <1>6, <1>7, TradeGainsNothing

LEMMA ActingStep ==
  ASSUME VaultTypeOK, VaultTypeOK', ShareInv, [Next]_vars, total_shares_issued > 0,
         NEW u \in Users, yield_shares'[u] # yield_shares[u]
  PROVE  Wealth(u)' <= Wealth(u)
<1> DEFINE Poorer == Wealth(u)' <= Wealth(u)
<1>0. /\ yield_shares \in [Users -> Amount]
      /\ \A n \in Amount : n \in Nat
      /\ SharesBacked
  BY Scales DEF VaultTypeOK, Amount, ShareInv
<1>1. ASSUME UNCHANGED yield_shares PROVE FALSE
  BY <1>1
<1>2. ASSUME WalletNext, UNCHANGED vaultVars PROVE FALSE
  BY <1>1, <1>2 DEF vaultVars, positionVars
<1>3. ASSUME NEW bps \in BufferRatios, InitializeYieldVault(bps) PROVE FALSE
  BY <1>1, <1>3 DEF InitializeYieldVault
<1>4. ASSUME NEW w \in Users, NEW amount \in Amount, EnableYield(w, amount) PROVE Poorer
  <2> DEFINE yield_amount == amount - calculate_buffer_amount(amount, target_buffer_bps)
             shares == calculate_shares_for_deposit(yield_amount, total_shares_issued,
                                                    BufferOnlyValue)
             issued == IF total_shares_issued = 0 THEN yield_amount ELSE shares
  <2>1. yield_amount \in Amount
    BY EnableTypes
  <2>2. /\ IssueShares(w, yield_amount, shares)
        /\ ~is_yield_enabled[w]
        /\ yield_shares' = [yield_shares EXCEPT ![w] = shares]
    <3>1. /\ IssueShares(w, yield_amount, issued)
          /\ ~is_yield_enabled[w]
          /\ yield_shares' = [yield_shares EXCEPT ![w] = issued]
      BY <1>4 DEF EnableYield
    <3>2. issued = shares
      BY <1>0
    <3> HIDE DEF issued, shares, yield_amount
    <3> QED
      BY <3>1, <3>2
  <2>3. shares \in Amount
    <3>1. total_shares_issued \in Amount /\ BufferOnlyValue \in Amount
      BY Valuations DEF VaultTypeOK
    <3> HIDE DEF yield_amount
    <3> QED
      BY <2>1, <3>1, ResultTypes
  <2> HIDE DEF yield_amount
  <2>4. w = u
    BY <1>0, <2>2
  <2>5. yield_shares[u] = 0
    BY <2>2, <2>4 DEF ShareInv, DisabledWalletHoldsNoShares
  <2>6. yield_shares'[u] = yield_shares[u] + shares
    <3> HIDE DEF shares
    <3> QED
      BY <1>0, <2>2, <2>3, <2>4, <2>5
  <2> QED
    BY <1>0, <2>1, <2>2, <2>4, <2>6, IssueGainsNothing
<1>5. ASSUME NEW w \in Users, NEW amount \in Amount, DepositToYield(w, amount)
      PROVE  Poorer
  <2> DEFINE shares == calculate_shares_for_deposit(amount, total_shares_issued,
                                                    BufferOnlyValue)
  <2>1. /\ IssueShares(w, amount, shares)
        /\ yield_shares' = [yield_shares EXCEPT ![w] = yield_shares[w] + shares]
    BY <1>5 DEF DepositToYield
  <2>2. w = u
    BY <1>0, <2>1
  <2>3. yield_shares'[u] = yield_shares[u] + shares
    BY <1>0, <2>1, <2>2
  <2> QED
    BY <1>0, <2>1, <2>2, <2>3, IssueGainsNothing
<1>6. ASSUME NEW w \in Users, DisableYield(w) PROVE Poorer
  <2>1. /\ RedeemShares(w, yield_shares[w], RedeemableValue(yield_shares[w]))
        /\ yield_shares' = [yield_shares EXCEPT ![w] = 0]
    BY <1>6 DEF DisableYield
  <2>2. w = u
    BY <1>0, <2>1
  <2>3. /\ yield_shares[u] \in Amount /\ yield_shares[u] >= yield_shares[u]
        /\ yield_shares'[u] = yield_shares[u] - yield_shares[u]
    BY <1>0, <2>1, <2>2
  <2> QED
    BY <1>0, <2>1, <2>2, <2>3, RedeemGainsNothing
<1>7. ASSUME NEW w \in Users, NEW shares \in Amount, WithdrawFromYield(w, shares)
      PROVE  Poorer
  <2>1. /\ yield_shares[w] >= shares
        /\ RedeemShares(w, shares, RedeemableValue(shares))
        /\ yield_shares' = [yield_shares EXCEPT ![w] = yield_shares[w] - shares]
    BY <1>7 DEF HoldsShares, WithdrawFromYield
  <2>2. w = u
    BY <1>0, <2>1
  <2>3. yield_shares'[u] = yield_shares[u] - shares
    BY <1>0, <2>1, <2>2
  <2> QED
    BY <1>0, <2>1, <2>2, <2>3, RedeemGainsNothing
<1>8. ASSUME LendingAccrues PROVE FALSE
  BY <1>1, <1>8 DEF LendingAccrues, positionVars
<1>9. ASSUME RebalanceVault PROVE FALSE
  BY <1>1, <1>9 DEF RebalanceVault, positionVars
<1>10. ASSUME NEW enabled \in BOOLEAN, SetEmergencyMode(enabled) PROVE FALSE
  BY <1>1, <1>10 DEF SetEmergencyMode, positionVars
<1>11. ASSUME UNCHANGED vars PROVE FALSE
  BY <1>1, <1>11 DEF vars, vaultVars, positionVars
<1> HIDE DEF Poorer
<1>12. Poorer
  BY <1>2, <1>3, <1>4, <1>5, <1>6, <1>7, <1>8, <1>9, <1>10, <1>11, VaultAssumption
  DEF Next, VaultNext
<1> QED
  BY <1>12 DEF Poorer

\* While the vault has shares, a deposit or a redemption never enriches the
\* wallet that makes it: every rounding is the vault's.
THEOREM ActingGainsNothing == Spec => ActingWalletGainsNothing
<1>1. ASSUME VaultTypeOK, VaultTypeOK', ShareInv, [Next]_vars
      PROVE  [total_shares_issued > 0 =>
                \A u \in Users :
                  yield_shares'[u] # yield_shares[u] => Wealth(u)' <= Wealth(u)]_vars
  BY <1>1, ActingStep
<1> QED
  BY <1>1, InductiveInvariant, PTL DEF Spec, ActingWalletGainsNothing

-----------------------------------------------------------------------------
(* The deposit counter.                                                    *)

\* The tokens of a mint that have not been charged.
Unspent(mint) == TokensIn(mint) + Principal(mint)

\* A transfer between a wallet in the vault's mint and the buffer that the
\* deposit counter follows keeps the books of every mint.
LEMMA CountFollowsTransfer ==
  ASSUME VaultTypeOK, NEW mint \in Mints, NEW u \in Users, WalletMint[u] = VaultMint,
         NEW n \in Amount, balance' = [balance EXCEPT ![u] = n], user_tokens' = user_tokens,
         total_usdc_deposited' = total_usdc_deposited - (n - balance[u])
  PROVE  Unspent(mint)' = Unspent(mint)
<1>2. WalletTypeOK
  BY DEF VaultTypeOK
<1>3. /\ WalletMint[u] = mint => TokensIn(mint)' = TokensIn(mint) + (n - balance[u])
      /\ WalletMint[u] # mint => TokensIn(mint)' = TokensIn(mint)
      /\ TokensIn(mint) \in Nat
  BY <1>2, BalanceChangesTokens
<1>4. /\ n \in Nat /\ balance[u] \in Nat
      /\ total_usdc_deposited \in Nat
  BY <1>2, Scales DEF WalletTypeOK, VaultTypeOK, Amount
<1>5. CASE mint = VaultMint
  BY <1>3, <1>4, <1>5 DEF Principal, Unspent
<1>6. CASE mint # VaultMint
  BY <1>3, <1>6 DEF Principal, Unspent
<1> QED
  BY <1>5, <1>6

LEMMA IssueKeepsCount ==
  ASSUME VaultTypeOK, NEW mint \in Mints, NEW u \in Users, WalletMint[u] = VaultMint,
         NEW tokens \in Amount, NEW shares, IssueShares(u, tokens, shares)
  PROVE  Unspent(mint)' = Unspent(mint)
<1> DEFINE n == balance[u] - tokens
<1>1. /\ n \in Amount
      /\ balance' = [balance EXCEPT ![u] = n]
      /\ total_usdc_deposited' = total_usdc_deposited + tokens
      /\ user_tokens' = user_tokens
  BY CheckedArithmetic DEF IssueShares, CanTransfer, VaultTypeOK, WalletTypeOK
<1>2. /\ tokens \in Nat /\ total_usdc_deposited \in Nat /\ balance[u] \in Nat
  BY Scales DEF VaultTypeOK, WalletTypeOK, Amount
<1>3. total_usdc_deposited' = total_usdc_deposited - (n - balance[u])
  BY <1>1, <1>2
<1> HIDE DEF n
<1> QED
  BY <1>1, <1>3, CountFollowsTransfer

LEMMA RedeemKeepsCount ==
  ASSUME VaultTypeOK, NEW mint \in Mints, NEW u \in Users, WalletMint[u] = VaultMint,
         NEW tokens \in Amount, NEW shares, RedeemShares(u, shares, tokens)
  PROVE  Unspent(mint)' = Unspent(mint)
<1> DEFINE n == balance[u] + tokens
<1>1. /\ n \in Amount
      /\ balance' = [balance EXCEPT ![u] = n]
      /\ total_usdc_deposited' = total_usdc_deposited - tokens
      /\ user_tokens' = user_tokens
  BY CheckedArithmetic
  DEF CanPayShares, RedeemShares, CanTransfer, VaultTypeOK, WalletTypeOK
<1>2. /\ tokens \in Nat /\ total_usdc_deposited \in Nat /\ balance[u] \in Nat
  BY Scales DEF VaultTypeOK, WalletTypeOK, Amount
<1>3. total_usdc_deposited' = total_usdc_deposited - (n - balance[u])
  BY <1>1, <1>2
<1> HIDE DEF n
<1> QED
  BY <1>1, <1>3, CountFollowsTransfer

LEMMA CountStep ==
  ASSUME VaultTypeOK, ShareInv, NEW mint \in Mints, [Next]_vars
  PROVE  Unspent(mint)' = Unspent(mint)
<1>0. BufferOnlyValue \in Amount /\ total_shares_issued \in Amount
      /\ \A u \in Users : yield_shares[u] \in Amount
  BY Valuations DEF VaultTypeOK
<1>1. ASSUME UNCHANGED <<user_tokens, balance, total_usdc_deposited>>
      PROVE  Unspent(mint)' = Unspent(mint)
  BY <1>1 DEF Unspent, TokensIn, Holders, Principal
<1>2. ASSUME WalletNext, UNCHANGED vaultVars PROVE Unspent(mint)' = Unspent(mint)
  <2>1. TokensIn(mint)' = TokensIn(mint)
    BY <1>2, WalletStepKeepsTokens DEF VaultTypeOK
  <2>2. total_usdc_deposited' = total_usdc_deposited
    BY <1>2 DEF vaultVars, positionVars
  <2> QED
    BY <2>1, <2>2 DEF Unspent, Principal
<1>3. ASSUME NEW bps \in BufferRatios, InitializeYieldVault(bps)
      PROVE  Unspent(mint)' = Unspent(mint)
  BY <1>1, <1>3 DEF InitializeYieldVault, ShareInv, UntouchedBeforeInit, walletVars
<1>4. ASSUME NEW u \in Users, NEW amount \in Amount, EnableYield(u, amount)
      PROVE  Unspent(mint)' = Unspent(mint)
  <2> DEFINE yield_amount == amount - calculate_buffer_amount(amount, target_buffer_bps)
             shares == IF total_shares_issued = 0
                       THEN yield_amount
                       ELSE calculate_shares_for_deposit(yield_amount,
                              total_shares_issued, BufferOnlyValue)
  <2>1. yield_amount \in Amount
    BY EnableTypes
  <2>2. IssueShares(u, yield_amount, shares) /\ WalletMint[u] = VaultMint
    BY <1>4 DEF EnableYield, HasVault
  <2> HIDE DEF yield_amount, shares
  <2> QED
    BY <2>1, <2>2, IssueKeepsCount
<1>5. ASSUME NEW u \in Users, NEW amount \in Amount, DepositToYield(u, amount)
      PROVE  Unspent(mint)' = Unspent(mint)
  BY <1>5, IssueKeepsCount DEF DepositToYield, HasVault
<1>6. ASSUME NEW u \in Users, DisableYield(u) PROVE Unspent(mint)' = Unspent(mint)
  <2>1. RedeemableValue(yield_shares[u]) \in Amount
    BY <1>0, ResultTypes DEF RedeemableValue
  <2> QED
    BY <1>6, <2>1, RedeemKeepsCount DEF HoldsShares, DisableYield, HasVault
<1>7. ASSUME NEW u \in Users, NEW shares \in Amount, WithdrawFromYield(u, shares)
      PROVE  Unspent(mint)' = Unspent(mint)
  <2>1. RedeemableValue(shares) \in Amount
    BY <1>0, ResultTypes DEF RedeemableValue
  <2> QED
    BY <1>7, <2>1, RedeemKeepsCount DEF HoldsShares, WithdrawFromYield, HasVault
<1>8. ASSUME LendingAccrues PROVE Unspent(mint)' = Unspent(mint)
  BY <1>1, <1>8 DEF LendingAccrues, walletVars, positionVars
<1>9. ASSUME RebalanceVault PROVE Unspent(mint)' = Unspent(mint)
  BY <1>1, <1>9 DEF RebalanceVault, walletVars, positionVars
<1>10. ASSUME NEW enabled \in BOOLEAN, SetEmergencyMode(enabled)
       PROVE  Unspent(mint)' = Unspent(mint)
  BY <1>1, <1>10 DEF SetEmergencyMode, walletVars, positionVars
<1>11. CASE UNCHANGED vars
  BY <1>1, <1>11 DEF vars, walletVars, vaultVars, positionVars
<1> QED
  BY <1>2, <1>3, <1>4, <1>5, <1>6, <1>7, <1>8, <1>9, <1>10, <1>11, VaultAssumption
  DEF Next, VaultNext

\* Mint by mint the owners' tokens, the wallets' tokens and the vault's deposit
\* counter always add up to what the owners started with.
THEOREM DepositsAreTracked == Spec => []TrackedDepositsExact
<1>1. Init => TrackedDepositsExact
  <2> SUFFICES ASSUME WalletInit, VaultInit PROVE TrackedDepositsExact
    BY DEF Init
  <2>1. \A mint : TokensIn(mint) = Cardinality(Holders(mint)) * InitialTokens
    BY InitialTokensIn
  <2>2. \A mint \in Mints : TokensIn(mint) \in Nat
    <3>1. WalletTypeOK
      BY Scales DEF WalletInit, WalletTypeOK
    <3> QED
      BY <3>1, TokensAreNat
  <2> QED
    BY <2>1, <2>2 DEF VaultInit, TrackedDepositsExact, Principal
<1>2. VaultTypeOK /\ ShareInv /\ TrackedDepositsExact /\ [Next]_vars
        => TrackedDepositsExact'
  BY CountStep DEF TrackedDepositsExact, Unspent, Holders
<1> QED
  BY <1>1, <1>2, InductiveInvariant, PTL DEF Spec

-----------------------------------------------------------------------------
(* Access to the vault.                                                    *)

\* Whoever holds shares has a wallet in the vault's mint, and the vault exists.
HoldersHaveAccess ==
  \A u \in Users : yield_shares[u] > 0 => u \in wallets /\ HasVault(u)

\* The lending price starts at par and only rises.
PricedAtPar == exchange_price >= PricePrecision

AccessInv == HoldersHaveAccess /\ PricedAtPar

\* Nothing takes a wallet or the vault away, or lowers the price.
LEMMA AccessKept ==
  ASSUME VaultTypeOK, AccessInv, wallets \subseteq wallets',
         vault_initialized => vault_initialized', UNCHANGED yield_shares,
         exchange_price' \in Nat, exchange_price' >= exchange_price
  PROVE  AccessInv'
<1>1. HoldersHaveAccess'
  BY DEF AccessInv, HoldersHaveAccess, HasVault
<1>2. PricedAtPar'
  BY Scales DEF AccessInv, PricedAtPar, VaultTypeOK
<1> QED
  BY <1>1, <1>2 DEF AccessInv

\* Only a wallet with access comes to hold shares.
LEMMA AccessGained ==
  ASSUME VaultTypeOK, AccessInv, NEW u \in Users, u \in wallets, HasVault(u),
         UNCHANGED <<wallets, configVars, lendingVars>>,
         \A w \in Users : w # u => yield_shares'[w] = yield_shares[w]
  PROVE  AccessInv'
<1>1. HoldersHaveAccess'
  BY DEF AccessInv, HoldersHaveAccess, HasVault, configVars
<1>2. PricedAtPar'
  BY DEF AccessInv, PricedAtPar, lendingVars
<1> QED
  BY <1>1, <1>2 DEF AccessInv

LEMMA AccessStep ==
  ASSUME VaultTypeOK, AccessInv, [Next]_vars
  PROVE  AccessInv'
<1>0. /\ exchange_price \in Nat /\ exchange_price >= exchange_price
      /\ yield_shares \in [Users -> Amount]
  BY DEF VaultTypeOK
<1>1. ASSUME UNCHANGED <<wallets, configVars, lendingVars, yield_shares>>
      PROVE  AccessInv'
  BY <1>0, <1>1, AccessKept DEF configVars, lendingVars
<1>2. ASSUME WalletNext, UNCHANGED vaultVars PROVE AccessInv'
  <2>1. wallets \subseteq wallets'
    BY <1>2 DEF WalletNext, CreateSubscriptionWallet, DepositToWallet, WithdrawFromWallet
  <2>2. UNCHANGED <<vault_initialized, yield_shares, exchange_price>>
    BY <1>2 DEF vaultVars, configVars, positionVars, lendingVars
  <2> QED
    BY <1>0, <2>1, <2>2, AccessKept
<1>3. ASSUME NEW bps \in BufferRatios, InitializeYieldVault(bps) PROVE AccessInv'
  <2>1. wallets' = wallets /\ vault_initialized'
        /\ UNCHANGED <<yield_shares, exchange_price>>
    BY <1>3 DEF InitializeYieldVault, walletVars, lendingVars
  <2> QED
    BY <1>0, <2>1, AccessKept
<1>4. ASSUME NEW u \in Users, NEW amount \in YieldAmounts,
             EnableYield(u, amount) \/ DepositToYield(u, amount)
      PROVE  AccessInv'
  <2>1. /\ u \in wallets /\ HasVault(u)
        /\ \A w \in Users : w # u => yield_shares'[w] = yield_shares[w]
        /\ UNCHANGED <<wallets, configVars, lendingVars>>
    BY <1>0, <1>4 DEF EnableYield, DepositToYield, IssueShares
  <2> QED
    BY <2>1, AccessGained
<1>5. ASSUME NEW u \in Users, NEW shares, RedeemShares(u, shares, RedeemableValue(shares)),
             HoldsShares(u, shares),
             \A w \in Users : w # u => yield_shares'[w] = yield_shares[w]
      PROVE  AccessInv'
  <2>1. /\ u \in wallets /\ HasVault(u)
        /\ UNCHANGED <<wallets, configVars, lendingVars>>
    BY <1>5 DEF HoldsShares, RedeemShares
  <2> QED
    BY <1>5, <2>1, AccessGained
<1>6. ASSUME NEW u \in Users, DisableYield(u) PROVE AccessInv'
  BY <1>0, <1>5, <1>6 DEF DisableYield
<1>7. ASSUME NEW u \in Users, NEW shares \in YieldAmounts, WithdrawFromYield(u, shares)
      PROVE  AccessInv'
  BY <1>0, <1>5, <1>7 DEF WithdrawFromYield
<1>8. ASSUME LendingAccrues PROVE AccessInv'
  <2>1. /\ UNCHANGED <<wallets, vault_initialized, yield_shares>>
        /\ exchange_price' = exchange_price + 1
    BY <1>8 DEF LendingAccrues, walletVars, configVars, positionVars
  <2> QED
    BY <1>0, <2>1, AccessKept
<1>9. ASSUME RebalanceVault PROVE AccessInv'
  <2>1. UNCHANGED <<wallets, vault_initialized, yield_shares, exchange_price>>
    BY <1>9 DEF RebalanceVault, walletVars, configVars, positionVars
  <2> QED
    BY <1>0, <2>1, AccessKept
<1>10. ASSUME NEW enabled \in BOOLEAN, SetEmergencyMode(enabled) PROVE AccessInv'
  BY <1>1, <1>10 DEF SetEmergencyMode, walletVars, positionVars
<1>11. CASE UNCHANGED vars
  BY <1>1, <1>11 DEF vars, walletVars, vaultVars, positionVars
<1> QED
  BY <1>2, <1>3, <1>4, <1>6, <1>7, <1>8, <1>9, <1>10, <1>11 DEF Next, VaultNext

LEMMA VaultStartsOpen ==
  ASSUME VaultInit
  PROVE  AccessInv
  BY Scales DEF VaultInit, AccessInv, HoldersHaveAccess, PricedAtPar

LEMMA AccessInvariant == Spec => []AccessInv
<1>1. Init => AccessInv
  BY VaultStartsOpen DEF Init
<1>2. VaultTypeOK /\ AccessInv /\ [Next]_vars => AccessInv'
  BY AccessStep
<1> QED
  BY <1>1, <1>2, TypeCorrectness, PTL DEF Spec

\* In the states where the wallets' tokens and the deposit counter together
\* fit a u64, as the supply of the mint does, nothing but the counter stands in
\* the way of a redemption.
LEMMA OnlyCounterRefuses ==
  ASSUME VaultTypeOK, ShareInv, AccessInv,
         TokensIn(VaultMint) + total_usdc_deposited \in Amount
  PROVE  OnlyCounterRefusesRedemptions
<1> SUFFICES ASSUME NEW u \in Users, NEW shares \in 1 .. yield_shares[u],
                    total_usdc_deposited >= RedeemableValue(shares)
             PROVE  HoldsShares(u, shares) /\ CanPayShares(u, shares, RedeemableValue(shares))
  BY DEF OnlyCounterRefusesRedemptions
<1> DEFINE tokens == RedeemableValue(shares)
<1>1. /\ yield_shares[u] \in Nat /\ buffer \in Amount /\ buffer \in Nat
      /\ total_shares_issued \in Amount /\ total_shares_issued \in Nat
      /\ total_usdc_deposited \in Nat /\ balance[u] \in Nat
      /\ BufferOnlyValue = buffer
      /\ Amount = 0 .. Cap /\ Cap \in Nat
  BY Valuations, Scales DEF VaultTypeOK, WalletTypeOK, Amount
<1>2. yield_shares[u] > 0 /\ shares \in Nat /\ shares > 0 /\ yield_shares[u] >= shares
  BY <1>1
<1>3. u \in wallets /\ HasVault(u) /\ is_yield_enabled[u]
  BY <1>1, <1>2 DEF AccessInv, HoldersHaveAccess, ShareInv, DisabledWalletHoldsNoShares
<1>4. shares \in 0 .. total_shares_issued
  <2>1. yield_shares[u] \in 0 .. total_shares_issued
    BY SharesOfTwo DEF ShareInv
  <2> QED
    BY <1>1, <1>2, <2>1
<1>5. tokens \in 0 .. buffer
  BY <1>1, <1>4, RedemptionWithinVault DEF RedeemableValue
<1>6. balance[u] <= TokensIn(VaultMint) /\ TokensIn(VaultMint) \in Nat
  <2>1. WalletMint[u] = VaultMint /\ WalletTypeOK
    BY <1>3 DEF HasVault, VaultTypeOK
  <2> QED
    BY <2>1, BalanceWithinTokens, TokensAreNat
<1> HIDE DEF tokens
<1>7. total_usdc_deposited >= tokens
  BY DEF tokens
<1>8. balance[u] + tokens \in Amount
  BY <1>1, <1>5, <1>6, <1>7
<1>9. CanPayShares(u, shares, tokens)
  BY <1>1, <1>4, <1>5, <1>7, <1>8 DEF CanPayShares, CanTransfer
<1> QED
  BY <1>2, <1>3, <1>9 DEF HoldsShares, tokens

\* Whatever the wallets, the authority and the price have done, a holder's
\* redemption is refused only where the deposit counter is too small.
THEOREM RedemptionsAreRefusedByCounterOnly == Spec => []OnlyCounterRefusesRedemptions
<1>1. ASSUME VaultTypeOK, TrackedDepositsExact
      PROVE  TokensIn(VaultMint) + total_usdc_deposited \in Amount
  BY <1>1, VaultAssumption, SupplyAssumption DEF TrackedDepositsExact, Principal
<1>2. VaultTypeOK /\ ShareInv /\ AccessInv /\ TrackedDepositsExact
        => OnlyCounterRefusesRedemptions
  BY <1>1, OnlyCounterRefuses
<1> QED
  BY <1>2, InductiveInvariant, AccessInvariant, DepositsAreTracked, PTL

\* Only a rebalance moves tokens between buffer and lending.
LEMMA OnlyRebalanceLends ==
  ASSUME [Next]_vars
  PROVE  RebalanceVault \/ ftokens' = ftokens
<1>1. ASSUME UNCHANGED vars PROVE ftokens' = ftokens
  BY <1>1 DEF vars, vaultVars, lendingVars
<1>2. ASSUME WalletNext, UNCHANGED vaultVars PROVE ftokens' = ftokens
  BY <1>2 DEF vaultVars, lendingVars
<1>3. ASSUME VaultNext PROVE RebalanceVault \/ ftokens' = ftokens
  BY <1>3 DEF VaultNext, lendingVars, InitializeYieldVault, EnableYield, IssueShares,
              DepositToYield, DisableYield, WithdrawFromYield, RedeemShares,
              LendingAccrues, SetEmergencyMode
<1> QED
  BY <1>1, <1>2, <1>3 DEF Next

LEMMA EmergencyStep ==
  ASSUME VaultTypeOK, VaultTypeOK', ShareInv, [Next]_vars, emergency_mode,
         NEW u \in Users, yield_shares'[u] = yield_shares[u]
  PROVE  RedeemableValue(yield_shares[u]) <= RedeemableValue(yield_shares[u])'
<1>1. ~RebalanceVault
  BY DEF RebalanceVault, RebalanceAllowed
<1>2. ftokens' = ftokens
  BY <1>1, OnlyRebalanceLends
<1> QED
  BY <1>2, ClaimKept

\* What another wallet's operation, the authority or the lending program does
\* while an emergency lasts never lowers what a wallet's shares redeem for.
THEOREM EmergencyKeepsClaims == Spec => EmergencyProtectsClaims
<1>1. ASSUME VaultTypeOK, VaultTypeOK', ShareInv, [Next]_vars
      PROVE  [emergency_mode /\ emergency_mode' =>
                \A u \in Users :
                  yield_shares'[u] = yield_shares[u] =>
                    RedeemableValue(yield_shares[u])
                      <= RedeemableValue(yield_shares[u])']_vars
  BY <1>1, EmergencyStep
<1> QED
  BY <1>1, InductiveInvariant, PTL DEF Spec, EmergencyProtectsClaims

-----------------------------------------------------------------------------
(* Rebalancing.                                                            *)

\* What fToken rounding may take from the vault in one rebalance.
RoundedAway(lost) ==
  /\ lost \in Nat
  /\ PricePrecision * lost <= exchange_price + PricePrecision - 2
  /\ exchange_price = PricePrecision => lost = 0

\* The numbers a rebalance calculates with.
LEMMA RebalanceScales ==
  ASSUME VaultTypeOK
  PROVE  /\ buffer \in Nat /\ ftokens \in Nat
         /\ exchange_price \in Nat \ {0} /\ PricePrecision \in Nat \ {0}
         /\ FullValue \in Nat
         /\ TargetBuffer \in Amount /\ TargetBuffer \in Nat
         /\ target_buffer_bps \in 0 .. MaxBps
         /\ LendingWorth \in Nat
         /\ Cap \in Nat /\ Amount = 0 .. Cap
<1>1. target_buffer_bps \in 0 .. MaxBps /\ FullValue \in Nat
  BY Valuations DEF VaultTypeOK, MaxBps
<1>2. TargetBuffer \in Amount
  BY <1>1, ResultTypes DEF TargetBuffer
<1>3. /\ buffer \in Nat /\ ftokens \in Nat
      /\ exchange_price \in Nat \ {0} /\ PricePrecision \in Nat \ {0}
      /\ Cap \in Nat /\ Amount = 0 .. Cap
  BY Scales DEF VaultTypeOK, Amount
<1>4. LendingWorth \in Nat
  <2>1. \A m, n \in Nat : m * n \in Nat
    OBVIOUS
  <2>2. ftokens * exchange_price \in Nat
    BY <1>3, <2>1
  <2> QED
    BY <1>3, <2>2, DivBounds DEF LendingWorth
<1> QED
  BY <1>1, <1>2, <1>3, <1>4

\* A rebalance takes the buffer to its target; rounding takes something from
\* buffer and position together and adds nothing.
LEMMA RebalanceMoves ==
  ASSUME VaultTypeOK, VaultTypeOK', RebalanceVault
  PROVE  /\ buffer' = TargetBuffer
         /\ exchange_price' = exchange_price
         /\ RoundedAway((buffer + LendingWorth) - (buffer' + LendingWorth'))
<1> DEFINE after == (ftokens' * exchange_price) \div PricePrecision
           lost == (buffer + LendingWorth) - (buffer' + after)
<1>1. /\ exchange_price' = exchange_price
      /\ LendingWorth' = after
  BY DEF RebalanceVault, LendingWorth
<1>2. after \in Nat
  <2>1. ftokens' \in Nat
    BY Scales DEF VaultTypeOK, Amount
  <2>2. \A m, n \in Nat : m * n \in Nat
    OBVIOUS
  <2>3. ftokens' * exchange_price \in Nat
    BY <2>1, <2>2, RebalanceScales
  <2> QED
    BY <2>3, RebalanceScales, DivBounds
<1>3. buffer' = TargetBuffer /\ RoundedAway(lost)
  <2>1. CASE buffer < TargetBuffer /\ LendingWithdraw(TargetBuffer - buffer)
    <3> DEFINE amount == TargetBuffer - buffer
               burned == (amount * PricePrecision + exchange_price - 1) \div exchange_price
    <3>1. amount \in Nat
      BY <2>1, RebalanceScales
    <3>2. /\ ftokens >= burned
          /\ buffer' = buffer + amount
          /\ ftokens' = ftokens - burned
      BY <2>1 DEF CanRecall, FTokensBurned, LendingWithdraw
    <3>3. buffer' = TargetBuffer
      BY <3>2, RebalanceScales
    <3>4. lost = LendingWorth - (after + amount)
      <4>1. buffer' = buffer + amount
        BY <3>2
      <4>2. /\ buffer \in Nat /\ LendingWorth \in Nat /\ after \in Nat
            /\ amount \in Nat
        BY <1>2, <3>1, RebalanceScales
      <4> HIDE DEF after, amount
      <4>3. lost = (buffer + LendingWorth) - ((buffer + amount) + after)
        BY <4>1
      <4> HIDE DEF lost
      <4> QED
        BY <4>2, <4>3
    <3> HIDE DEF amount
    <3>5. ((ftokens - burned) * exchange_price) \div PricePrecision + amount
            <= (ftokens * exchange_price) \div PricePrecision
      BY <3>1, <3>2, RebalanceScales, BurnPaysForTokens
    <3>6. lost = (ftokens * exchange_price) \div PricePrecision
                   - (((ftokens - burned) * exchange_price) \div PricePrecision + amount)
      <4>1. after = ((ftokens - burned) * exchange_price) \div PricePrecision
        BY <3>2
      <4> HIDE DEF after, burned, lost
      <4> QED
        BY <3>4, <4>1 DEF LendingWorth
    <3> HIDE DEF lost
    <3>7. /\ PricePrecision * lost <= exchange_price + PricePrecision - 2
          /\ exchange_price = PricePrecision => lost = 0
      BY <3>1, <3>2, <3>6, RebalanceScales, BurnLosesLittle
    <3> HIDE DEF burned
    <3>8. after + amount <= LendingWorth
      BY <3>2, <3>5 DEF LendingWorth
    <3> HIDE DEF after
    <3>9. lost \in Nat
      BY <1>2, <3>1, <3>4, <3>8, RebalanceScales
    <3> QED
      BY <3>3, <3>7, <3>9 DEF RoundedAway
  <2>2. CASE Excessive /\ LendingDeposit(buffer - TargetBuffer)
    <3> DEFINE amount == buffer - TargetBuffer
               minted == (amount * PricePrecision) \div exchange_price
    <3>1. FullValue \div 100 \in Nat
      BY RebalanceScales, DivBounds
    <3>2. amount \in Nat
      BY <2>2, <3>1, RebalanceScales DEF Excessive
    <3>3. /\ buffer' = buffer - amount
          /\ ftokens' = ftokens + minted
      BY <2>2 DEF CanLend, FTokensMinted, LendingDeposit
    <3>4. buffer' = TargetBuffer
      BY <3>3, RebalanceScales
    <3>5. lost = (LendingWorth + amount) - after
      <4>1. buffer' = buffer - amount
        BY <3>3
      <4> HIDE DEF after, amount
      <4> QED
        BY <1>2, <3>2, <4>1, RebalanceScales
    <3> HIDE DEF amount
    <3>6. ((ftokens + minted) * exchange_price) \div PricePrecision
            <= (ftokens * exchange_price) \div PricePrecision + amount
      BY <3>2, RebalanceScales, MintWithinTokens
    <3>7. lost = ((ftokens * exchange_price) \div PricePrecision + amount)
                   - ((ftokens + minted) * exchange_price) \div PricePrecision
      <4>1. after = ((ftokens + minted) * exchange_price) \div PricePrecision
        BY <3>3
      <4> HIDE DEF after, minted, lost
      <4> QED
        BY <3>5, <4>1 DEF LendingWorth
    <3> HIDE DEF lost
    <3>8. /\ PricePrecision * lost <= exchange_price + PricePrecision - 2
          /\ exchange_price = PricePrecision => lost = 0
      BY <3>2, <3>7, RebalanceScales, MintLosesLittle
    <3> HIDE DEF minted
    <3>9. after <= LendingWorth + amount
      BY <3>3, <3>6 DEF LendingWorth
    <3> HIDE DEF after
    <3>10. lost \in Nat
      BY <1>2, <3>2, <3>5, <3>9, RebalanceScales
    <3> QED
      BY <3>4, <3>8, <3>10 DEF RoundedAway
  <2> QED
    BY <2>1, <2>2 DEF RebalanceVault
<1> QED
  BY <1>1, <1>3

LEMMA ValueIsSum ==
  ASSUME VaultTypeOK, LendingWorth \in Amount
  PROVE  FullValue = buffer + LendingWorth
<1>1. Truncate(LendingWorth) = LendingWorth
  BY RebalanceScales, TruncateBounds
<1> QED
  BY <1>1 DEF FullValue, get_vault_total_value, LendingWorth

LEMMA SmallerSum ==
  ASSUME NEW a \in Nat, NEW b \in Nat, NEW sum \in Amount, a + b <= sum
  PROVE  a + b \in Amount
  BY Scales

\* Where the position is a u64's worth, the same of the vault's whole value.
LEMMA RebalanceLosesByRounding ==
  ASSUME VaultTypeOK, VaultTypeOK', RebalanceVault, LendingWorth \in Amount
  PROVE  /\ buffer' = TargetBuffer
         /\ FullValue \in Amount
         /\ FullValue' \in Amount
         /\ FullValue' <= FullValue
         /\ RoundedAway(FullValue - FullValue')
<1>1. /\ buffer' = TargetBuffer /\ FullValue \in Amount
      /\ RoundedAway((buffer + LendingWorth) - (buffer' + LendingWorth'))
      /\ exchange_price' = exchange_price
  BY RebalanceMoves DEF RebalanceVault
<1>2. FullValue = buffer + LendingWorth
  BY ValueIsSum
<1>3. buffer' \in Nat /\ LendingWorth' \in Nat
  <2> DEFINE after == (ftokens' * exchange_price) \div PricePrecision
  <2>1. buffer' \in Nat /\ ftokens' \in Nat
    BY Scales DEF VaultTypeOK, Amount
  <2>2. \A m, n \in Nat : m * n \in Nat
    OBVIOUS
  <2>3. ftokens' * exchange_price \in Nat
    BY <2>1, <2>2, RebalanceScales
  <2>4. after \in Nat
    BY <2>3, RebalanceScales, DivBounds
  <2>5. LendingWorth' = after
    BY <1>1 DEF LendingWorth
  <2> HIDE DEF after
  <2> QED
    BY <2>1, <2>4, <2>5
<1>4. buffer' + LendingWorth' <= buffer + LendingWorth
  <2>1. (buffer + LendingWorth) - (buffer' + LendingWorth') \in Nat
    BY <1>1 DEF RoundedAway
  <2>2. \A a, b, c, d \in Nat : (a + b) - (c + d) \in Nat => c + d <= a + b
    OBVIOUS
  <2>3. buffer \in Nat /\ LendingWorth \in Nat
    BY RebalanceScales
  <2> QED
    BY <1>3, <2>1, <2>2, <2>3
<1>5. LendingWorth' \in Amount
  BY <1>1, <1>2, <1>3, <1>4, RebalanceScales
<1>6. FullValue' = buffer' + LendingWorth'
  <2>1. Truncate(LendingWorth') = LendingWorth'
    BY <1>3, <1>5, TruncateBounds
  <2> QED
    BY <2>1 DEF FullValue, get_vault_total_value, LendingWorth
<1>7. FullValue' \in Amount
  <2>1. buffer + LendingWorth \in Amount
    BY <1>1, <1>2, Zenon
  <2>2. buffer' + LendingWorth' \in Amount
    BY <1>3, <1>4, <2>1, SmallerSum
  <2> QED
    BY <1>6, <2>2, Zenon
<1> QED
  BY <1>1, <1>2, <1>4, <1>6, <1>7

\* The vault a rebalance leaves is in its band: half of what rounding took from
\* it is less than the fToken that rebalancing leaves alone.
LEMMA BandStep ==
  ASSUME VaultTypeOK, VaultTypeOK', PricedAtPar, RebalanceVault, LendingWorth \in Amount
  PROVE  BufferInBand'
<1> DEFINE v == FullValue'
           w == FullValue
           lost == w - v
           target == calculate_buffer_amount(v, target_buffer_bps)
           excess == calculate_buffer_amount(w, target_buffer_bps) - target
<1>1. /\ buffer' = TargetBuffer
      /\ w \in Amount /\ v \in Amount /\ v <= w
      /\ RoundedAway(lost)
  BY RebalanceLosesByRounding
<1>2. /\ target_buffer_bps' = target_buffer_bps
      /\ exchange_price' = exchange_price
      /\ target_buffer_bps \in 0 .. 5000
      /\ target_buffer_bps \in 0 .. MaxBps
  BY DEF RebalanceVault, configVars, VaultTypeOK, MaxBps
<1>3. HealthyBuffer' = target
  BY <1>2 DEF HealthyBuffer
<1>4. /\ target <= calculate_buffer_amount(w, target_buffer_bps)
      /\ target \in Nat
      /\ calculate_buffer_amount(w, target_buffer_bps) \in Nat
  <2>1. target <= calculate_buffer_amount(w, target_buffer_bps)
    BY <1>1, <1>2, PartMonotone
  <2>2. \A n \in Amount : n \in Nat
    BY Scales DEF Amount
  <2>3. \A n \in Amount : calculate_buffer_amount(n, target_buffer_bps) \in Amount
    BY <1>2, <2>2, ResultTypes
  <2> QED
    BY <1>1, <2>1, <2>2, <2>3
<1>5. buffer' - HealthyBuffer' = excess
  BY <1>1, <1>3 DEF TargetBuffer
<1>6. 2 * excess <= lost + 1
  <2>1. ASSUME NEW m \in Amount, NEW n \in Amount, m <= n
        PROVE  2 * (calculate_buffer_amount(n, target_buffer_bps)
                      - calculate_buffer_amount(m, target_buffer_bps)) <= (n - m) + 1
    <3>1. target_buffer_bps \in Nat /\ 2 * target_buffer_bps <= MaxBps
      BY <1>2 DEF MaxBps
    <3> QED
      BY <2>1, <3>1, TargetFollowsHalf
  <2> QED
    BY <1>1, <2>1, Zenon
<1>7. excess \in Nat
  BY <1>4
<1>8. /\ lost \in Nat
      /\ PricePrecision * lost <= exchange_price + PricePrecision - 2
      /\ exchange_price = PricePrecision => lost = 0
  <2> HIDE DEF lost
  <2> QED
    BY <1>1 DEF RoundedAway
<1> HIDE DEF excess, lost
<1>11. (excess * PricePrecision) \div exchange_price = 0
  <2>1. /\ exchange_price \in Nat \ {0} /\ PricePrecision \in Nat \ {0}
        /\ exchange_price >= PricePrecision
    BY RebalanceScales DEF PricedAtPar
  <2> QED
    BY <1>6, <1>7, <1>8, <2>1, ExcessBelowFToken
<1>9. ((buffer' - HealthyBuffer') * PricePrecision) \div exchange_price' = 0
  BY <1>2, <1>5, <1>11, Zenon
<1>10. buffer' - HealthyBuffer' >= 0
  BY <1>5, <1>7
<1> QED
  BY <1>9, <1>10 DEF BufferInBand

\* One rebalance is enough, whatever the price, the ratio and the rounding.
THEOREM OneRebalanceIsEnough == Spec => RebalanceLandsInBand
<1>1. ASSUME VaultTypeOK, VaultTypeOK', AccessInv, [Next]_vars
      PROVE  [ftokens' # ftokens /\ LendingWorth \in Amount => BufferInBand']_vars
  BY <1>1, OnlyRebalanceLends, BandStep DEF AccessInv
<1> QED
  BY <1>1, TypeCorrectness, AccessInvariant, PTL DEF Spec, RebalanceLandsInBand

\* What one step may do to the surplus.
SurplusStep ==
  /\ exchange_price' = exchange_price => Surplus' <= Surplus
  /\ Surplus' >= Surplus - (IF ftokens' = ftokens THEN 0 ELSE FTokenWorth)

LEMMA SurplusAfter ==
  ASSUME NEW worth, LendingWorth' = worth
  PROVE  Surplus' = buffer' + worth - total_usdc_deposited'
<1>1. Surplus' = buffer' + LendingWorth' - total_usdc_deposited'
  BY DEF Surplus
<1> QED
  BY <1>1, Zenon

\* A transfer between a wallet and the buffer moves the counter with it.
LEMMA SurplusKept ==
  ASSUME VaultTypeOK, NEW tokens \in Int, UNCHANGED <<ftokens, exchange_price>>,
         buffer' = buffer + tokens,
         total_usdc_deposited' = total_usdc_deposited + tokens
  PROVE  SurplusStep
<1>1. /\ buffer \in Nat /\ total_usdc_deposited \in Nat /\ LendingWorth \in Nat
  BY RebalanceScales, Scales DEF VaultTypeOK, Amount
<1>2. LendingWorth' = LendingWorth
  BY DEF LendingWorth
<1>3. Surplus' = (buffer + tokens) + LendingWorth - (total_usdc_deposited + tokens)
  BY <1>2, SurplusAfter
<1>4. /\ (buffer + tokens) + LendingWorth - (total_usdc_deposited + tokens) = Surplus
      /\ Surplus \in Int
  BY <1>1 DEF Surplus
<1>5. Surplus' = Surplus
  BY <1>3, <1>4, Zenon
<1> QED
  BY <1>4, <1>5 DEF SurplusStep

\* Interest only adds.
LEMMA SurplusAccrues ==
  ASSUME VaultTypeOK, LendingAccrues
  PROVE  SurplusStep
<1> DEFINE before == ftokens * exchange_price
           after == ftokens * (exchange_price + 1)
<1>1. /\ buffer \in Nat /\ total_usdc_deposited \in Nat /\ LendingWorth \in Nat
      /\ ftokens \in Nat /\ exchange_price \in Nat /\ PricePrecision \in Nat \ {0}
  BY RebalanceScales, Scales DEF VaultTypeOK, Amount
<1>2. /\ UNCHANGED <<buffer, total_usdc_deposited, ftokens>>
      /\ exchange_price' = exchange_price + 1
  BY DEF LendingAccrues, positionVars
<1>3. before \in Nat /\ after \in Nat /\ before <= after
  BY <1>1
<1>4. /\ LendingWorth' = after \div PricePrecision
      /\ LendingWorth = before \div PricePrecision
  BY <1>2 DEF LendingWorth
<1> HIDE DEF before, after
<1>5. /\ after \div PricePrecision \in Nat
      /\ before \div PricePrecision <= after \div PricePrecision
  <2> DEFINE q == before \div PricePrecision
  <2>1. q \in Nat /\ PricePrecision * q <= before
    BY <1>1, <1>3, DivBounds
  <2> HIDE DEF q
  <2>2. q * PricePrecision <= after
    BY <1>1, <1>3, <2>1
  <2>3. q <= after \div PricePrecision
    BY <1>1, <1>3, <2>1, <2>2, DivAtLeast
  <2> QED
    BY <1>1, <1>3, <2>3, DivBounds DEF q
<1> DEFINE grown == after \div PricePrecision
<1>6. grown \in Nat /\ LendingWorth <= grown
  BY <1>4, <1>5, Zenon
<1>7. Surplus' = buffer' + grown - total_usdc_deposited'
  BY <1>4, SurplusAfter, Zenon
<1> HIDE DEF grown
<1>8. /\ Surplus' >= Surplus /\ Surplus' \in Int /\ Surplus \in Int
      /\ exchange_price' # exchange_price
  BY <1>1, <1>2, <1>6, <1>7 DEF Surplus
<1>9. Surplus' >= Surplus - (IF ftokens' = ftokens THEN 0 ELSE FTokenWorth)
  BY <1>2, <1>8
<1> QED
  BY <1>8, <1>9 DEF SurplusStep

\* A rebalance loses what fToken rounding takes, which is an fToken at most.
LEMMA SurplusRebalanced ==
  ASSUME VaultTypeOK, VaultTypeOK', RebalanceVault
  PROVE  SurplusStep
<1> DEFINE lost == (buffer + LendingWorth) - (buffer' + LendingWorth')
           round == exchange_price + PricePrecision - 1
<1>1. RoundedAway(lost) /\ exchange_price' = exchange_price
  BY RebalanceMoves
<1>2. ftokens' # ftokens /\ total_usdc_deposited' = total_usdc_deposited
  BY RebalanceMovesFTokens DEF RebalanceVault, positionVars
<1>3. /\ buffer \in Nat /\ total_usdc_deposited \in Nat /\ LendingWorth \in Nat
      /\ buffer' \in Nat
      /\ exchange_price \in Nat \ {0} /\ PricePrecision \in Nat \ {0}
  BY RebalanceScales, Scales DEF VaultTypeOK, Amount
<1>4. LendingWorth' \in Nat
  <2> DEFINE after == ftokens' * exchange_price
  <2>1. \A m, n \in Nat : m * n \in Nat
    OBVIOUS
  <2>2. ftokens' \in Nat /\ after \in Nat
    <3>1. ftokens' \in Nat
      BY Scales DEF VaultTypeOK, Amount
    <3> QED
      BY <1>3, <2>1, <3>1
  <2>3. LendingWorth' = after \div PricePrecision
    BY <1>1 DEF LendingWorth
  <2> HIDE DEF after
  <2>4. after \div PricePrecision \in Nat
    BY <1>3, <2>2, DivBounds
  <2> QED
    BY <2>3, <2>4, Zenon
<1>5. lost \in Nat /\ PricePrecision * lost <= exchange_price + PricePrecision - 2
  <2> HIDE DEF lost
  <2> QED
    BY <1>1 DEF RoundedAway
<1>6. Surplus' = Surplus - lost
  BY <1>2, <1>3, <1>4 DEF Surplus
<1>7. Surplus \in Int
  BY <1>3 DEF Surplus
<1> HIDE DEF lost
<1>8. lost <= FTokenWorth /\ FTokenWorth \in Nat
  <2>1. round \in Nat /\ lost * PricePrecision <= round
    BY <1>3, <1>5
  <2> HIDE DEF round
  <2>2. lost <= round \div PricePrecision /\ round \div PricePrecision \in Nat
    BY <1>3, <1>5, <2>1, DivAtLeast, DivBounds
  <2> QED
    BY <2>2 DEF FTokenWorth, round
<1>9. Surplus' <= Surplus /\ Surplus' >= Surplus - FTokenWorth
  BY <1>5, <1>6, <1>7, <1>8
<1> QED
  BY <1>2, <1>9 DEF SurplusStep

LEMMA OnlyRoundingStep ==
  ASSUME VaultTypeOK, VaultTypeOK', ShareInv, [Next]_vars
  PROVE  SurplusStep
<1>0. /\ buffer \in Nat /\ total_usdc_deposited \in Nat /\ \A u \in Users : balance[u] \in Nat
      /\ buffer' \in Nat /\ total_usdc_deposited' \in Nat
  BY Scales DEF VaultTypeOK, WalletTypeOK, Amount
<1>1. ASSUME UNCHANGED <<ftokens, exchange_price, buffer, total_usdc_deposited>>
      PROVE  SurplusStep
  <2>1. buffer' = buffer + 0 /\ total_usdc_deposited' = total_usdc_deposited + 0
    BY <1>0, <1>1
  <2> QED
    BY <1>1, <2>1, SurplusKept
<1>2. ASSUME WalletNext, UNCHANGED vaultVars PROVE SurplusStep
  BY <1>1, <1>2 DEF vaultVars, lendingVars, positionVars
<1>3. ASSUME NEW bps \in BufferRatios, InitializeYieldVault(bps) PROVE SurplusStep
  <2>1. total_usdc_deposited = 0 /\ total_usdc_deposited' = 0
    BY <1>3 DEF InitializeYieldVault, ShareInv, UntouchedBeforeInit
  <2> QED
    BY <1>1, <1>3, <2>1 DEF InitializeYieldVault, lendingVars
<1>4. ASSUME NEW u \in Users, NEW tokens \in Nat, NEW shares, IssueShares(u, tokens, shares)
      PROVE  SurplusStep
  <2>1. /\ UNCHANGED <<ftokens, exchange_price>>
        /\ buffer' = buffer + tokens
        /\ total_usdc_deposited' = total_usdc_deposited + tokens
    BY <1>4 DEF IssueShares, lendingVars
  <2> QED
    BY <1>0, <2>1, SurplusKept
<1>5. ASSUME NEW u \in Users, NEW shares, NEW tokens \in Nat, RedeemShares(u, shares, tokens)
      PROVE  SurplusStep
  <2>1. /\ UNCHANGED <<ftokens, exchange_price>>
        /\ buffer' = buffer - tokens
        /\ total_usdc_deposited' = total_usdc_deposited - tokens
    BY <1>5 DEF RedeemShares, lendingVars
  <2> DEFINE paid == 0 - tokens
  <2>2. paid \in Int /\ buffer' = buffer + paid
        /\ total_usdc_deposited' = total_usdc_deposited + paid
    BY <1>0, <2>1
  <2> HIDE DEF paid
  <2> QED
    BY <2>1, <2>2, SurplusKept
<1>6. ASSUME NEW u \in Users, NEW amount \in YieldAmounts, EnableYield(u, amount)
      PROVE  SurplusStep
  <2> DEFINE tokens == amount - calculate_buffer_amount(amount, target_buffer_bps)
  <2>1. tokens \in Nat
    BY EnableTypes, VaultAssumption, Scales DEF Amount
  <2>2. \E shares : IssueShares(u, tokens, shares)
    BY <1>6 DEF EnableYield
  <2> QED
    BY <1>4, <2>1, <2>2
<1>7. ASSUME NEW u \in Users, NEW amount \in YieldAmounts, DepositToYield(u, amount)
      PROVE  SurplusStep
  <2>1. amount \in Nat
    BY VaultAssumption, Scales DEF Amount
  <2> QED
    BY <1>4, <1>7, <2>1 DEF DepositToYield
<1>8. ASSUME NEW shares \in Amount PROVE RedeemableValue(shares) \in Nat
  <2>1. calculate_usdc_value_of_shares(shares, total_shares_issued, buffer) \in Amount
    BY ResultTypes DEF VaultTypeOK
  <2> QED
    BY <2>1, ValueBefore, Scales DEF Amount
<1>9. ASSUME NEW u \in Users, DisableYield(u) PROVE SurplusStep
  <2>1. RedeemableValue(yield_shares[u]) \in Nat
    BY <1>8 DEF VaultTypeOK
  <2> QED
    BY <1>5, <1>9, <2>1 DEF DisableYield
<1>10. ASSUME NEW u \in Users, NEW shares \in YieldAmounts, WithdrawFromYield(u, shares)
       PROVE  SurplusStep
  <2>1. RedeemableValue(shares) \in Nat
    BY <1>8, VaultAssumption
  <2> QED
    BY <1>5, <1>10, <2>1 DEF WithdrawFromYield
<1>11. ASSUME NEW enabled \in BOOLEAN, SetEmergencyMode(enabled) PROVE SurplusStep
  BY <1>1, <1>11 DEF SetEmergencyMode, lendingVars, positionVars
<1>12. CASE UNCHANGED vars
  BY <1>1, <1>12 DEF vars, vaultVars, lendingVars, positionVars
<1> QED
  BY <1>2, <1>3, <1>6, <1>7, <1>9, <1>10, <1>11, <1>12, SurplusAccrues, SurplusRebalanced
  DEF Next, VaultNext

\* The vault earns from interest alone and loses to rounding alone, an fToken
\* at most for every rebalance.
THEOREM RoundingIsTheOnlyLoss == Spec => OnlyRoundingIsLost
<1>1. ASSUME VaultTypeOK, VaultTypeOK', ShareInv, [Next]_vars
      PROVE  [SurplusStep]_vars
  BY <1>1, OnlyRoundingStep
<1> QED
  BY <1>1, InductiveInvariant, PTL DEF Spec, OnlyRoundingIsLost, SurplusStep

\* The position pays for any shortfall of the buffer, fTokens burned rounding
\* up included.
LEMMA ShortfallIsRecalled ==
  ASSUME VaultTypeOK, FullValue \in Amount, LendingWorth \in Amount, buffer < TargetBuffer
  PROVE  CanRecall(TargetBuffer - buffer)
<1> DEFINE amount == TargetBuffer - buffer
           position == ftokens * exchange_price
           owed == amount * PricePrecision + exchange_price - 1
<1>1. /\ buffer \in Nat /\ ftokens \in Nat /\ LendingWorth \in Nat
      /\ exchange_price \in Nat \ {0} /\ PricePrecision \in Nat \ {0}
      /\ TargetBuffer \in Nat /\ TargetBuffer \in Amount
  BY RebalanceScales
<1>2. TargetBuffer <= FullValue
  <2>1. target_buffer_bps \in 0 .. MaxBps
    BY RebalanceScales
  <2>2. calculate_buffer_amount(FullValue, target_buffer_bps) \in 0 .. FullValue
    BY <2>1, ResultTypes
  <2> QED
    BY <2>2, RebalanceScales DEF TargetBuffer
<1>3. amount \in Nat /\ amount <= LendingWorth
  BY <1>1, <1>2, ValueIsSum
<1>4. buffer + amount \in Amount
  BY <1>1
<1> HIDE DEF amount
<1>5. position \in Nat
  <2>1. \A m, n \in Nat : m * n \in Nat
    OBVIOUS
  <2> QED
    BY <1>1, <2>1
<1>6. PricePrecision * LendingWorth <= position
  BY <1>1, <1>5, DivBounds DEF LendingWorth
<1>7. amount * PricePrecision \in Nat /\ amount * PricePrecision <= position
  <2>1. amount * PricePrecision <= LendingWorth * PricePrecision
    BY <1>1, <1>3, MulMonotone
  <2>2. /\ LendingWorth * PricePrecision = PricePrecision * LendingWorth
        /\ LendingWorth * PricePrecision \in Nat
        /\ amount * PricePrecision \in Nat
    BY <1>1, <1>3
  <2> HIDE DEF position
  <2> QED
    BY <1>5, <1>6, <2>1, <2>2
<1>8. owed \in Nat /\ owed < position + exchange_price
  <2> HIDE DEF position
  <2> QED
    BY <1>1, <1>5, <1>7
<1>9. position + exchange_price = (ftokens + 1) * exchange_price
  BY <1>1
<1> HIDE DEF owed, position
<1>10. owed \div exchange_price < ftokens + 1 /\ owed \div exchange_price \in Nat
  BY <1>1, <1>8, <1>9, DivBelow, DivBounds
<1>11. ftokens >= FTokensBurned(amount)
  BY <1>1, <1>10 DEF FTokensBurned, owed
<1> QED
  BY <1>4, <1>11 DEF CanRecall, amount

\* An excess worth an fToken can be lent: at par or above, the position never
\* counts more fTokens than the vault is worth.
LEMMA ExcessIsLent ==
  ASSUME VaultTypeOK, PricedAtPar, FullValue \in Amount, LendingWorth \in Amount,
         buffer >= TargetBuffer, FTokensMinted(buffer - TargetBuffer) # 0
  PROVE  CanLend(buffer - TargetBuffer)
<1> DEFINE amount == buffer - TargetBuffer
           position == ftokens * exchange_price
           paid == amount * PricePrecision
           minted == paid \div exchange_price
<1>1. /\ buffer \in Nat /\ ftokens \in Nat /\ LendingWorth \in Nat
      /\ exchange_price \in Nat \ {0} /\ PricePrecision \in Nat \ {0}
      /\ TargetBuffer \in Nat
      /\ exchange_price >= PricePrecision
  BY RebalanceScales DEF PricedAtPar
<1>2. amount \in Nat /\ amount <= buffer
  BY <1>1
<1>3. minted = FTokensMinted(amount)
  BY DEF FTokensMinted
<1>4. minted # 0
  BY <1>3
<1> HIDE DEF amount
<1>5. paid \in Nat /\ paid <= amount * exchange_price
  BY <1>1, <1>2
<1>6. position \in Nat /\ ftokens * PricePrecision <= position
  BY <1>1
<1>7. LendingWorth = position \div PricePrecision
  BY DEF LendingWorth
<1> HIDE DEF paid, position
<1>8. minted \in Nat /\ minted <= amount
  BY <1>1, <1>2, <1>5, DivAtMost, DivBounds
<1>9. ftokens <= LendingWorth
  BY <1>1, <1>6, <1>7, DivAtLeast
<1> HIDE DEF minted
<1>10. ftokens + minted \in Amount
  <2>1. ftokens + minted <= FullValue
    BY <1>1, <1>2, <1>8, <1>9, ValueIsSum
  <2> QED
    BY <1>1, <1>8, <2>1, SmallerSum
<1>11. minted > 0
  BY <1>4, <1>8
<1>12. buffer >= amount
  BY <1>1, <1>2
<1> QED
  BY <1>3, <1>10, <1>11, <1>12 DEF CanLend, amount

LEMMA RebalanceIsPossible ==
  ASSUME VaultTypeOK, PricedAtPar
  PROVE  OutOfBandCanRebalance
<1> SUFFICES ASSUME FullValue \in Amount, LendingWorth \in Amount, ~BufferInBand
             PROVE  \/ buffer < TargetBuffer /\ CanRecall(TargetBuffer - buffer)
                    \/ Excessive /\ CanLend(buffer - TargetBuffer)
  BY DEF OutOfBandCanRebalance
<1>1. buffer \in Nat /\ TargetBuffer \in Nat
  BY RebalanceScales
<1>2. CASE buffer < TargetBuffer
  BY <1>2, ShortfallIsRecalled
<1>3. CASE buffer >= TargetBuffer
  <2> DEFINE excess == buffer - TargetBuffer
             slack == FullValue \div 100
  <2>1. slack \in Nat /\ excess \in Nat
    BY <1>1, <1>3, RebalanceScales, DivBounds
  <2>2. /\ ~(excess <= slack)
        /\ (excess * PricePrecision) \div exchange_price # 0
    <3>1. HealthyBuffer = TargetBuffer
      BY DEF HealthyBuffer, TargetBuffer
    <3>2. excess >= 0
      BY <2>1
    <3> QED
      BY <3>1, <3>2, Zenon DEF BufferInBand
  <2>3. FTokensMinted(excess) # 0
    BY <2>2 DEF FTokensMinted
  <2> HIDE DEF excess, slack
  <2>4. excess > slack
    BY <2>1, <2>2
  <2>5. Excessive
    BY <2>4 DEF Excessive, excess, slack
  <2> QED
    BY <1>3, <2>3, <2>5, ExcessIsLent DEF excess
<1> QED
  BY <1>1, <1>2, <1>3

\* Outside the emergency, a vault out of its band can always be brought back:
\* neither counter nor lending program ever refuses what the authority asks.
THEOREM RebalanceIsNeverRefused == Spec => []OutOfBandCanRebalance
<1>1. VaultTypeOK /\ AccessInv => OutOfBandCanRebalance
  BY RebalanceIsPossible DEF AccessInv
<1> QED
  BY <1>1, TypeCorrectness, AccessInvariant, PTL
-----------------------------------------------------------------------------
(* The vault is a pool of shares.                                          *)

\* The pool's total is the vault's.
LEMMA IssuedIsTotal ==
  ASSUME SharesBacked
  PROVE  Pool!Issued = total_shares_issued
<1>1. Pool!Units(yield_shares, Cap) = Units(yield_shares, Cap)
  BY DEF Pool!Units, Units
<1>2. Pool!Cardinality(Units(yield_shares, Cap)) = Cardinality(Units(yield_shares, Cap))
  BY DEF Pool!Cardinality, Cardinality
<1> QED
  BY <1>1, <1>2 DEF SharesBacked, Pool!Issued, Pool!Total, Total

\* A deposit buys no more shares than it pays for, wrapped casts included.
LEMMA IssueIsBuy ==
  ASSUME VaultTypeOK, ShareInv, NEW u \in Users, NEW tokens \in Amount, tokens > 0,
         NEW issued \in Amount,
         issued = IF total_shares_issued = 0
                  THEN tokens
                  ELSE calculate_shares_for_deposit(tokens, total_shares_issued,
                                                    BufferOnlyValue),
         IssueShares(u, tokens, issued),
         yield_shares' = [yield_shares EXCEPT ![u] = yield_shares[u] + issued]
  PROVE  Pool!Next
<1>1. /\ total_shares_issued \in Amount /\ buffer \in Amount
      /\ BufferOnlyValue = buffer
      /\ Pool!Issued = total_shares_issued
      /\ total_shares_issued \in Nat /\ buffer \in Nat /\ tokens \in Nat
      /\ balance[u] \in Nat /\ issued \in 0 .. Cap
  BY Valuations, IssuedIsTotal, Scales DEF ShareInv, VaultTypeOK, WalletTypeOK, Amount
<1>2. Pool!MayIssue(issued, tokens)
  <2>1. CASE total_shares_issued = 0
    BY <1>1, <2>1 DEF Pool!MayIssue
  <2>2. CASE total_shares_issued # 0 /\ buffer = 0
    BY <1>1, <2>2 DEF Pool!MayIssue, calculate_shares_for_deposit
  <2>3. CASE total_shares_issued # 0 /\ buffer # 0
    <3>1. issued * buffer <= tokens * total_shares_issued
      BY <1>1, <2>3, DepositRoundsForVault
    <3> QED
      BY <1>1, <2>3, <3>1 DEF Pool!MayIssue
  <2> QED
    BY <2>1, <2>2, <2>3
<1>3. tokens \in 1 .. balance[u]
  BY <1>1 DEF IssueShares, CanTransfer
<1>4. Pool!Buy(u, tokens)
  BY <1>1, <1>2 DEF Pool!Buy, IssueShares, emergencyVars
<1> QED
  BY <1>3, <1>4 DEF Pool!Next

\* A redemption is paid exactly its part, in whole tokens.
LEMMA RedeemIsSell ==
  ASSUME VaultTypeOK, ShareInv, NEW u \in Users, NEW shares \in Amount, shares > 0,
         yield_shares[u] >= shares,
         RedeemShares(u, shares, RedeemableValue(shares)),
         yield_shares' = [yield_shares EXCEPT ![u] = yield_shares[u] - shares]
  PROVE  Pool!Next
<1>1. /\ total_shares_issued \in Amount /\ buffer \in Amount
      /\ Pool!Issued = total_shares_issued
      /\ total_shares_issued \in Nat /\ shares \in Nat
      /\ yield_shares[u] \in 0 .. total_shares_issued
  BY SharesOfTwo, IssuedIsTotal, Scales DEF ShareInv, VaultTypeOK, Amount
<1>2. shares \in 0 .. total_shares_issued /\ total_shares_issued > 0
      /\ shares \in 1 .. yield_shares[u]
  BY <1>1
<1>3. RedeemableValue(shares) = (shares * buffer) \div Pool!Issued
  BY <1>1, <1>2, ValueBefore, RedemptionWithinVault
<1>4. Pool!Sell(u, shares)
  BY <1>3 DEF Pool!Sell, RedeemShares, emergencyVars
<1> QED
  BY <1>2, <1>4 DEF Pool!Next

LEMMA QuietPool ==
  ASSUME VaultTypeOK', UNCHANGED <<yield_shares, buffer, emergency_mode>>
  PROVE  Pool!Next
<1>1. balance' \in [Users -> 0 .. Cap]
  BY Scales DEF VaultTypeOK, WalletTypeOK
<1> QED
  BY <1>1 DEF Pool!Next, Pool!Elsewhere

LEMMA PoolStep ==
  ASSUME VaultTypeOK, VaultTypeOK', ShareInv, [Next]_vars
  PROVE  Pool!Next
<1>0. /\ yield_shares \in [Users -> Amount]
      /\ \A n \in Amount : n \in Nat
      /\ total_shares_issued \in Amount
      /\ BufferOnlyValue \in Amount
  BY Valuations, Scales DEF VaultTypeOK, Amount
<1>1. CASE UNCHANGED <<yield_shares, buffer, emergency_mode>>
  BY <1>1, QuietPool
<1>2. CASE WalletNext /\ UNCHANGED vaultVars
  BY <1>1, <1>2 DEF vaultVars, positionVars, emergencyVars
<1>3. ASSUME NEW bps \in BufferRatios, InitializeYieldVault(bps) PROVE Pool!Next
  <2>1. emergency_mode' = FALSE /\ UNCHANGED <<balance, yield_shares, buffer>>
    BY <1>3 DEF InitializeYieldVault, walletVars
  <2>2. Pool!Freeze
    BY <2>1, Zenon DEF Pool!Freeze
  <2> QED
    BY <2>2 DEF Pool!Next
<1>4. ASSUME NEW u \in Users, NEW amount \in Amount, EnableYield(u, amount)
      PROVE  Pool!Next
  <2> DEFINE tokens == amount - calculate_buffer_amount(amount, target_buffer_bps)
             issued == IF total_shares_issued = 0
                       THEN tokens
                       ELSE calculate_shares_for_deposit(tokens, total_shares_issued,
                                                         BufferOnlyValue)
  <2>1. tokens \in Amount /\ issued \in Amount
    BY EnableTypes
  <2>2. /\ tokens > 0
        /\ IssueShares(u, tokens, issued)
        /\ yield_shares' = [yield_shares EXCEPT ![u] = issued]
    BY <1>4 DEF EnableYield
  <2>3. yield_shares[u] = 0
    BY <1>4 DEF EnableYield, ShareInv, DisabledWalletHoldsNoShares
  <2>4. issued = IF total_shares_issued = 0
                 THEN tokens
                 ELSE calculate_shares_for_deposit(tokens, total_shares_issued,
                                                   BufferOnlyValue)
    OBVIOUS
  <2> HIDE DEF tokens, issued
  <2>5. yield_shares[u] + issued = issued
    BY <1>0, <2>1, <2>3
  <2> QED
    BY <2>1, <2>2, <2>4, <2>5, IssueIsBuy
<1>5. ASSUME NEW u \in Users, NEW amount \in Amount, DepositToYield(u, amount)
      PROVE  Pool!Next
  <2> DEFINE issued == calculate_shares_for_deposit(amount, total_shares_issued,
                                                    BufferOnlyValue)
  <2>1. issued \in Amount
    BY <1>0, ResultTypes
  <2>2. /\ amount > 0
        /\ IssueShares(u, amount, issued)
        /\ yield_shares' = [yield_shares EXCEPT ![u] = yield_shares[u] + issued]
    BY <1>5 DEF DepositToYield
  <2>3. issued = IF total_shares_issued = 0
                 THEN amount
                 ELSE calculate_shares_for_deposit(amount, total_shares_issued,
                                                   BufferOnlyValue)
    BY DEF calculate_shares_for_deposit
  <2> HIDE DEF issued
  <2> QED
    BY <2>1, <2>2, <2>3, IssueIsBuy
<1>6. ASSUME NEW u \in Users, DisableYield(u) PROVE Pool!Next
  <2>1. /\ yield_shares[u] > 0
        /\ RedeemShares(u, yield_shares[u], RedeemableValue(yield_shares[u]))
        /\ yield_shares' = [yield_shares EXCEPT ![u] = 0]
    BY <1>6 DEF HoldsShares, DisableYield
  <2>2. /\ yield_shares[u] \in Amount /\ yield_shares[u] >= yield_shares[u]
        /\ yield_shares[u] - yield_shares[u] = 0
    BY <1>0
  <2> QED
    BY <2>1, <2>2, RedeemIsSell
<1>7. ASSUME NEW u \in Users, NEW shares \in Amount, WithdrawFromYield(u, shares)
      PROVE  Pool!Next
  BY <1>7, RedeemIsSell DEF HoldsShares, WithdrawFromYield
<1>8. CASE LendingAccrues
  BY <1>1, <1>8 DEF LendingAccrues, positionVars, emergencyVars
<1>9. CASE RebalanceVault
  <2>1. buffer' \in 0 .. Cap
    BY Scales DEF VaultTypeOK
  <2> QED
    BY <1>9, <2>1 DEF RebalanceVault, RebalanceAllowed, walletVars, positionVars,
                      emergencyVars, Pool!Next, Pool!Manage
<1>10. ASSUME NEW enabled \in BOOLEAN, SetEmergencyMode(enabled) PROVE Pool!Next
  BY <1>10 DEF SetEmergencyMode, walletVars, positionVars, Pool!Next, Pool!Freeze
<1>11. CASE UNCHANGED vars
  BY <1>1, <1>11 DEF vars, vaultVars, positionVars, emergencyVars
<1> QED
  BY <1>2, <1>3, <1>4, <1>5, <1>6, <1>7, <1>8, <1>9, <1>10, <1>11, VaultAssumption
  DEF Next, VaultNext

\* Behind its flags, counters, casts and fTokens the vault is a pool that sells
\* shares at their price or above and buys them back at exactly their price, and
\* whose reserve nobody lends while it is frozen.
THEOREM VaultImplementsPool == Spec => KeepsPool
<1>1. Init => Pool!Init
  BY DEF Init, WalletInit, VaultInit, Pool!Init
<1>2. VaultTypeOK /\ VaultTypeOK' /\ ShareInv /\ [Next]_vars => [Pool!Next]_(Pool!vars)
  BY PoolStep
<1> QED
  BY <1>1, <1>2, InductiveInvariant, PTL DEF Spec, KeepsPool, Pool!Spec
=============================================================================
