---------------------------- MODULE EventopProgram ---------------------------
(***************************************************************************)
(* The whole program: wallets, the yield vault and subscriptions over the  *)
(* same token accounts, with the payment handler entire, share redemption  *)
(* included.                                                               *)
(***************************************************************************)
EXTENDS YieldVault, Subscriptions

allVars == <<walletVars, vaultVars, billingVars>>

\* The wallet is short of the fee and has shares to redeem.
NeedsRedemption(u, m) ==
  /\ balance[u] < subscriptions[<<u, m>>].fee_amount
  /\ is_yield_enabled[u]
  /\ yield_shares[u] > 0

Shortfall(u, m) == subscriptions[<<u, m>>].fee_amount - balance[u]

SharesNeeded(u, m) ==
  calculate_shares_for_withdrawal(Shortfall(u, m), total_shares_issued, BufferOnlyValue)

\* The redemption a payment makes; it leaves total_usdc_deposited alone.
CanRedeemShortfall(u, m) ==
  /\ HasVault(u)
  /\ yield_shares[u] >= SharesNeeded(u, m)
  /\ CanTransfer(buffer, balance[u], Shortfall(u, m))
  /\ total_shares_issued >= SharesNeeded(u, m)

\* Variant: the wallet's balance is read again after the redemption.
PayReloadingBalance(u, m) ==
  LET redeems == NeedsRedemption(u, m)
      shares == IF redeems THEN SharesNeeded(u, m) ELSE 0
      tokens == IF redeems THEN Shortfall(u, m) ELSE 0
  IN /\ PaymentDue(u, m)
     /\ redeems => CanRedeemShortfall(u, m)
     /\ balance[u] + tokens >= subscriptions[<<u, m>>].fee_amount
     /\ RecordCharge(u, m)
     /\ balance' = [balance EXCEPT ![u] = @ + tokens - subscriptions[<<u, m>>].fee_amount]
     /\ buffer' = buffer - tokens
     /\ yield_shares' = [yield_shares EXCEPT ![u] = @ - shares]
     /\ total_shares_issued' = total_shares_issued - shares
     /\ UNCHANGED <<user_tokens, wallets, configVars, emergencyVars,
                    total_usdc_deposited, is_yield_enabled, lendingVars,
                    protocolVars, merchant_plans, session_tokens,
                    total_subscriptions, current_time>>

\* Variant: payments are suspended during an emergency.
CanPayOutsideEmergency(u, m) ==
  /\ ~emergency_mode
  /\ PaymentDue(u, m)
  /\ balance[u] >= subscriptions[<<u, m>>].fee_amount
  /\ CanRecordCharge(u, m)

\* What the payment handler checks.  The final check reads the wallet's balance
\* as it was deserialized before the redemption's transfer: final_balance is
\* the balance of the state before the step.
CanPay(u, m) ==
  LET final_balance == balance[u]
  IN /\ PaymentDue(u, m)
     /\ NeedsRedemption(u, m) => CanRedeemShortfall(u, m)
     /\ final_balance >= subscriptions[<<u, m>>].fee_amount
     /\ CanRecordCharge(u, m)

\* execute_payment_from_wallet.
Pay(u, m) ==
  LET redeems == NeedsRedemption(u, m)
      shares == IF redeems THEN SharesNeeded(u, m) ELSE 0
      tokens == IF redeems THEN Shortfall(u, m) ELSE 0
  IN /\ CanPay(u, m)
     /\ RecordCharge(u, m)
     /\ balance' = [balance EXCEPT ![u] = @ + tokens - subscriptions[<<u, m>>].fee_amount]
     /\ buffer' = buffer - tokens
     /\ yield_shares' = [yield_shares EXCEPT ![u] = @ - shares]
     /\ total_shares_issued' = total_shares_issued - shares
     /\ UNCHANGED <<user_tokens, wallets, configVars, emergencyVars,
                    total_usdc_deposited, is_yield_enabled, lendingVars,
                    protocolVars, merchant_plans, session_tokens,
                    total_subscriptions, current_time>>

ProgramInit == Init /\ BillingInit

ProgramNext ==
  \/ WalletNext /\ UNCHANGED <<vaultVars, billingVars>>
  \/ VaultNext /\ UNCHANGED billingVars
  \/ BookkeepingNext /\ UNCHANGED <<walletVars, vaultVars>>
  \/ PayeeNext /\ UNCHANGED vaultVars
  \/ \E u \in Users, m \in Merchants : Pay(u, m)

ProgramSpec == ProgramInit /\ [][ProgramNext]_allVars

\* The keeper that rebalances every week and the backend that calls for every
\* due payment.  Nothing is assumed of owners, merchants, the authority's
\* other instructions, interest or the clock.
Keeper == WF_allVars(RebalanceVault /\ UNCHANGED billingVars)

Backend == \A u \in Users, m \in Merchants : WF_allVars(Pay(u, m))

ScheduledSpec == ProgramSpec /\ Keeper /\ Backend

-----------------------------------------------------------------------------
(* Properties.                                                             *)

\* With payments and the vault on the same wallets every token is still in one
\* place: a user's account, a wallet, the vault's principal, a merchant's
\* account or the treasury.
EveryTokenAccounted ==
  \A mint \in Mints :
    TokensIn(mint) + Principal(mint) + PayeesHold(mint)
      = Cardinality(Holders(mint)) * InitialTokens

\* The program keeps the custody promise: through payments, vault and payees'
\* deposits tokens move along its edges only.
Custodian ==
  INSTANCE Custody WITH OwnerMint <- WalletMint,
                        PayeeMint <- MerchantMint,
                        Deposit <- InitialTokens,
                        owned <- user_tokens,
                        held <- balance,
                        principal <- total_usdc_deposited,
                        received <- merchant_tokens,
                        treasury <- treasury_tokens

KeepsCustody == Custodian!Spec

\* The payment is due and the wallet holds it, in the plan's token.
Payable(u, m) ==
  /\ PaymentDue(u, m)
  /\ balance[u] >= subscriptions[<<u, m>>].fee_amount
  /\ WalletMint[u] = MerchantMint[m]

\* A counter that only grows has no room for another charge: the u32 that
\* counts the subscription's payments, or the u64 that adds up what the wallet
\* has ever spent, which is not bounded by the supply, as payees may pay what
\* they received back in.
CountersFull(u, m) ==
  LET s == subscriptions[<<u, m>>]
  IN \/ s.payment_count + 1 \notin Counter
     \/ total_spent[u] + s.fee_amount \notin Amount

\* A due payment that the wallet can pay is refused for these two counters
\* only: not by a payee's account, the subscription's own total, the vault or
\* an emergency, and the wallet's total fills up before the subscription's.
FundedPaymentsAreNotRefused ==
  \A u \in Users, m \in Merchants :
    Payable(u, m) => CanPay(u, m) \/ CountersFull(u, m)

\* A due payment that the wallet can pay stays one until the wallet is charged
\* or its owner withdraws, invests or cancels: being late, a change of the fee
\* rate, other owners and whatever happens to the vault do not undo it.
FundedPaymentsStayDue ==
  [][\A u \in Users, m \in Merchants :
       Payable(u, m) /\ ~Payable(u, m)' =>
         \/ total_spent'[u] > total_spent[u]
         \/ user_tokens'[u] > user_tokens[u]
         \/ total_usdc_deposited' > total_usdc_deposited /\ balance'[u] < balance[u]
         \/ <<u, m>> \notin DOMAIN subscriptions']_allVars

\* A due payment that the wallet can pay is made, or stops being one because
\* the owner withdrew, invested or cancelled or another charge came first, or
\* has reached a counter's limit: neither an emergency nor the vault's state
\* holds it up.
FundedPaymentsHappen ==
  \A u \in Users, m \in Merchants :
    Payable(u, m) ~> ~Payable(u, m) \/ CountersFull(u, m)

\* Whatever deposits, redemptions and interest do to the buffer, the keeper
\* brings it back into its band unless an emergency stops it.
KeeperRestoresBuffer ==
  [](vault_initialized => <>(BufferInBand \/ emergency_mode))

-----------------------------------------------------------------------------
(* What documents say and the code does not do.                            *)

\* A payment that is due is not held up while the wallet and the shares it can
\* redeem from the buffer cover the fee.
DuePaymentsRedeem ==
  \A key \in DOMAIN subscriptions :
    LET u == key[1]
        m == key[2]
    IN PaymentDue(u, m) /\ NeedsRedemption(u, m) /\ CanRedeemShortfall(u, m)
         => ENABLED Pay(u, m)

=============================================================================
