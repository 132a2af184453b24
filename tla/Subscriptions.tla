---------------------------- MODULE Subscriptions ----------------------------
(***************************************************************************)
(* Recurring payments: the protocol configuration, merchant plans,         *)
(* subscriptions, session tokens and the charge itself.                    *)
(*                                                                         *)
(* A kind of account is a function from the seeds of its address to its    *)
(* data; its domain is the set of the accounts that exist.  A wallet whose *)
(* yield is off pays from its token account alone: the path that redeems   *)
(* shares first is in EventopProgram.                                      *)
(***************************************************************************)
EXTENDS Wallets, Functions

CONSTANTS Merchants,
          MerchantMint,  \* MerchantPlan.mint of each merchant's plans
          PlanIds,
          SessionTokens,
          Fees,         \* the fee amounts tried at registration
          Intervals,    \* the payment intervals tried at registration
          FeeRates,     \* the protocol_fee_bps values tried
          MerchantAmounts,  \* the amounts tried when a merchant pays in
          TreasuryAmounts,  \* the amounts tried when the treasury pays in
          U32,          \* 2^32: one more than the largest counter
          MaxTime       \* bound: where the model stops the clock

ASSUME BillingAssumption ==
  /\ IsFiniteSet(Merchants)
  /\ IsFiniteSet(PlanIds)
  /\ MerchantMint \in [Merchants -> Mints]
  /\ Fees \subseteq Amount
  /\ Intervals \subseteq Int
  /\ FeeRates \subseteq Nat
  /\ MerchantAmounts \subseteq Amount
  /\ TreasuryAmounts \subseteq Amount
  /\ U32 \in Nat \ {0}
  /\ MaxTime \in Nat

VARIABLES
  config_initialized,    \* the ProtocolConfig account exists
  protocol_fee_bps,
  merchant_plans,        \* <<merchant, plan id>> -> MerchantPlan
  subscriptions,         \* <<user, merchant>> -> SubscriptionState
  session_tokens,        \* session token -> SessionTokenTracker
  total_subscriptions,   \* SubscriptionWallet.total_subscriptions
  total_spent,           \* SubscriptionWallet.total_spent
  merchant_tokens,       \* merchant_token_account.amount
  treasury_tokens,       \* protocol_treasury.amount, in each mint
  current_time           \* the clock of the chain

protocolVars == <<config_initialized, protocol_fee_bps>>
accountVars == <<merchant_plans, subscriptions, session_tokens>>
counterVars == <<total_subscriptions, total_spent>>
payeeVars == <<merchant_tokens, treasury_tokens>>
billingVars == <<protocolVars, accountVars, counterVars, payeeVars, current_time>>

Counter == 0 .. U32 - 1        \* the values of a u32

PlanKeys == Merchants \X PlanIds
SubscriptionKeys == Users \X Merchants

\* The data of each kind of account.  A plan's fee and interval are positive:
\* no other plan can be registered.
MerchantPlan ==
  [fee_amount : Amount \ {0},
   payment_interval : Nat \ {0},
   total_subscribers : Counter]

SubscriptionState ==
  [plan_id : PlanIds,
   fee_amount : Amount \ {0},
   payment_interval : Nat \ {0},
   last_payment_timestamp : Nat,
   total_paid : Amount,
   payment_count : Counter,
   session_token : SessionTokens]

SessionTokenTracker == [subscription : SubscriptionKeys, timestamp : Nat]

BillingInit ==
  /\ config_initialized = FALSE
  /\ protocol_fee_bps = 0
  /\ merchant_plans = [key \in {} |-> 0]
  /\ subscriptions = [key \in {} |-> 0]
  /\ session_tokens = [token \in {} |-> 0]
  /\ total_subscriptions = [u \in Users |-> 0]
  /\ total_spent = [u \in Users |-> 0]
  /\ merchant_tokens = [m \in Merchants |-> 0]
  /\ treasury_tokens = [mint \in Mints |-> 0]
  /\ current_time = 0

-----------------------------------------------------------------------------
\* Accounts are created, rewritten and closed by address (the account model of
\* the chain, external).
WriteAccount(accounts, key, data) ==
  [k \in (DOMAIN accounts) \cup {key} |-> IF k = key THEN data ELSE accounts[k]]

\* Variant: the account is left open.
CloseAccountLeavingIt(accounts, key) == accounts

CloseAccount(accounts, key) == Restrict(accounts, (DOMAIN accounts) \ {key})

-----------------------------------------------------------------------------
InitializeProtocol(bps) ==
  /\ ~config_initialized
  /\ bps <= 1000
  /\ config_initialized' = TRUE
  /\ protocol_fee_bps' = bps
  /\ UNCHANGED <<accountVars, counterVars, payeeVars, current_time>>

\* Variant: the new rate is not bounded.
UpdateProtocolFeeUnbounded(bps) ==
  /\ config_initialized
  /\ protocol_fee_bps' = bps
  /\ UNCHANGED <<config_initialized, accountVars, counterVars, payeeVars, current_time>>

UpdateProtocolFee(bps) ==
  /\ config_initialized
  /\ bps <= 1000
  /\ protocol_fee_bps' = bps
  /\ UNCHANGED <<config_initialized, accountVars, counterVars, payeeVars, current_time>>

\* A plan is never changed or deactivated once registered: no instruction
\* writes its fee, interval or is_active.
RegisterMerchant(m, plan_id, fee, interval) ==
  /\ <<m, plan_id>> \notin DOMAIN merchant_plans
  /\ fee > 0
  /\ interval > 0
  /\ merchant_plans' =
       WriteAccount(merchant_plans, <<m, plan_id>>,
                    [fee_amount |-> fee, payment_interval |-> interval,
                     total_subscribers |-> 0])
  /\ UNCHANGED <<protocolVars, subscriptions, session_tokens, counterVars,
                 payeeVars, current_time>>

AddSubscribers(key, n) ==
  WriteAccount(merchant_plans, key,
               [merchant_plans[key] EXCEPT !.total_subscribers = n])

\* What a subscription starts with.
NewSubscription(plan, token) ==
  [plan_id |-> plan[2],
   fee_amount |-> merchant_plans[plan].fee_amount,
   payment_interval |-> merchant_plans[plan].payment_interval,
   last_payment_timestamp |-> current_time,
   total_paid |-> 0,
   payment_count |-> 0,
   session_token |-> token]

\* Variant: the session token's tracker is not checked.
SubscribeReusingToken(u, plan, token) ==
  LET key == <<u, plan[1]>>
  IN /\ u \in wallets
     /\ plan \in DOMAIN merchant_plans
     /\ key \notin DOMAIN subscriptions
     /\ merchant_plans[plan].fee_amount * 3 \in Amount
     /\ balance[u] >= merchant_plans[plan].fee_amount * 3
     /\ total_subscriptions[u] + 1 \in Counter
     /\ merchant_plans[plan].total_subscribers + 1 \in Counter
     /\ subscriptions' = WriteAccount(subscriptions, key, NewSubscription(plan, token))
     /\ session_tokens' =
          WriteAccount(session_tokens, token,
                       [subscription |-> key, timestamp |-> current_time])
     /\ total_subscriptions' = [total_subscriptions EXCEPT ![u] = @ + 1]
     /\ merchant_plans' =
          AddSubscribers(plan, merchant_plans[plan].total_subscribers + 1)
     /\ UNCHANGED <<protocolVars, total_spent, payeeVars, current_time>>

SubscribeWithWallet(u, plan, token) ==
  LET key == <<u, plan[1]>>
  IN /\ u \in wallets
     /\ plan \in DOMAIN merchant_plans
     /\ key \notin DOMAIN subscriptions
     /\ token \notin DOMAIN session_tokens
     /\ merchant_plans[plan].fee_amount * 3 \in Amount
     /\ balance[u] >= merchant_plans[plan].fee_amount * 3
     /\ total_subscriptions[u] + 1 \in Counter
     /\ merchant_plans[plan].total_subscribers + 1 \in Counter
     /\ subscriptions' = WriteAccount(subscriptions, key, NewSubscription(plan, token))
     /\ session_tokens' =
          WriteAccount(session_tokens, token,
                       [subscription |-> key, timestamp |-> current_time])
     /\ total_subscriptions' = [total_subscriptions EXCEPT ![u] = @ + 1]
     /\ merchant_plans' =
          AddSubscribers(plan, merchant_plans[plan].total_subscribers + 1)
     /\ UNCHANGED <<protocolVars, total_spent, payeeVars, current_time>>

\* Variant: one unit of time is forgiven.
PaymentDueEarly(u, m) ==
  /\ config_initialized
  /\ <<u, m>> \in DOMAIN subscriptions
  /\ current_time - subscriptions[<<u, m>>].last_payment_timestamp
       >= subscriptions[<<u, m>>].payment_interval - 1

\* Variant: a payment that is late is skipped.
PaymentDueOnTheDot(u, m) ==
  /\ config_initialized
  /\ <<u, m>> \in DOMAIN subscriptions
  /\ current_time - subscriptions[<<u, m>>].last_payment_timestamp
       = subscriptions[<<u, m>>].payment_interval

\* Anyone may ask for a charge, no earlier than an interval after the last.
PaymentDue(u, m) ==
  /\ config_initialized
  /\ <<u, m>> \in DOMAIN subscriptions
  /\ current_time - subscriptions[<<u, m>>].last_payment_timestamp
       >= subscriptions[<<u, m>>].payment_interval

\* Variant: the protocol's part is counted on top of the fee.
ChargedOnceOnTop(s) ==
  [s EXCEPT !.last_payment_timestamp = current_time,
            !.total_paid = @ + s.fee_amount + ProtocolFee(s.fee_amount, protocol_fee_bps),
            !.payment_count = @ + 1]

\* Variant: what the merchant receives is counted as paid.
ChargedOnceNet(s) ==
  [s EXCEPT !.last_payment_timestamp = current_time,
            !.total_paid = @ + s.fee_amount - ProtocolFee(s.fee_amount, protocol_fee_bps),
            !.payment_count = @ + 1]

\* The subscription after a charge.
ChargedOnce(s) ==
  [s EXCEPT !.last_payment_timestamp = current_time,
            !.total_paid = @ + s.fee_amount,
            !.payment_count = @ + 1]

\* Variant: the wallet's token is not compared with the plan's.
RecordChargeInAnyMint(u, m) ==
  LET s == subscriptions[<<u, m>>]
      mint == MerchantMint[m]
      protocol_fee == ProtocolFee(s.fee_amount, protocol_fee_bps)
      merchant_receives == s.fee_amount - protocol_fee
  IN /\ merchant_tokens[m] + merchant_receives \in Amount
     /\ treasury_tokens[mint] + protocol_fee \in Amount
     /\ s.total_paid + s.fee_amount \in Amount
     /\ s.payment_count + 1 \in Counter
     /\ total_spent[u] + s.fee_amount \in Amount
     /\ merchant_tokens' = [merchant_tokens EXCEPT ![m] = @ + merchant_receives]
     /\ treasury_tokens' = [treasury_tokens EXCEPT ![mint] = @ + protocol_fee]
     /\ subscriptions' = WriteAccount(subscriptions, <<u, m>>, ChargedOnce(s))
     /\ total_spent' = [total_spent EXCEPT ![u] = @ + s.fee_amount]

\* What the two transfers and the checked counters of a charge need.  The
\* payees' accounts are in the plan's mint and the wallet in its own, which
\* subscribing has not compared: if they differ the transfers fail.
CanRecordCharge(u, m) ==
  LET s == subscriptions[<<u, m>>]
      mint == MerchantMint[m]
      protocol_fee == ProtocolFee(s.fee_amount, protocol_fee_bps)
      merchant_receives == s.fee_amount - protocol_fee
  IN /\ WalletMint[u] = mint
     /\ merchant_receives \in Amount
     /\ merchant_tokens[m] + merchant_receives \in Amount
     /\ treasury_tokens[mint] + protocol_fee \in Amount
     /\ s.total_paid + s.fee_amount \in Amount
     /\ s.payment_count + 1 \in Counter
     /\ total_spent[u] + s.fee_amount \in Amount

\* The two transfers and the counters of a charge; the caller takes the fee
\* from the wallet.
RecordCharge(u, m) ==
  LET s == subscriptions[<<u, m>>]
      mint == MerchantMint[m]
      protocol_fee == ProtocolFee(s.fee_amount, protocol_fee_bps)
      merchant_receives == s.fee_amount - protocol_fee
  IN /\ CanRecordCharge(u, m)
     /\ merchant_tokens' = [merchant_tokens EXCEPT ![m] = @ + merchant_receives]
     /\ treasury_tokens' = [treasury_tokens EXCEPT ![mint] = @ + protocol_fee]
     /\ subscriptions' = WriteAccount(subscriptions, <<u, m>>, ChargedOnce(s))
     /\ total_spent' = [total_spent EXCEPT ![u] = @ + s.fee_amount]

\* Variant: the wallet pays the protocol's part on top of the fee.
ExecutePaymentOnTop(u, m) ==
  LET s == subscriptions[<<u, m>>]
      charge == s.fee_amount + ProtocolFee(s.fee_amount, protocol_fee_bps)
  IN /\ PaymentDue(u, m)
     /\ balance[u] >= charge
     /\ RecordCharge(u, m)
     /\ balance' = [balance EXCEPT ![u] = @ - charge]
     /\ UNCHANGED <<user_tokens, wallets, protocolVars, merchant_plans,
                    session_tokens, total_subscriptions, current_time>>

ExecutePaymentFromWallet(u, m) ==
  /\ PaymentDue(u, m)
  /\ balance[u] >= subscriptions[<<u, m>>].fee_amount
  /\ RecordCharge(u, m)
  /\ balance' = [balance EXCEPT ![u] = @ - subscriptions[<<u, m>>].fee_amount]
  /\ UNCHANGED <<user_tokens, wallets, protocolVars, merchant_plans,
                 session_tokens, total_subscriptions, current_time>>

\* Variant: the wallet's counter is not lowered.
CancelKeepingCount(u, m, plan) ==
  /\ <<u, m>> \in DOMAIN subscriptions
  /\ plan \in DOMAIN merchant_plans
  /\ subscriptions' = CloseAccount(subscriptions, <<u, m>>)
  /\ merchant_plans' =
       AddSubscribers(plan, IF merchant_plans[plan].total_subscribers > 0
                            THEN merchant_plans[plan].total_subscribers - 1
                            ELSE 0)
  /\ UNCHANGED <<protocolVars, session_tokens, counterVars,
                 payeeVars, current_time>>

\* The plan account is the caller's choice: no constraint ties it to the
\* subscription.  Both counters saturate at zero.
CancelSubscriptionWallet(u, m, plan) ==
  /\ <<u, m>> \in DOMAIN subscriptions
  /\ plan \in DOMAIN merchant_plans
  /\ subscriptions' = CloseAccount(subscriptions, <<u, m>>)
  /\ total_subscriptions' =
       [total_subscriptions EXCEPT ![u] = IF @ > 0 THEN @ - 1 ELSE 0]
  /\ merchant_plans' =
       AddSubscribers(plan, IF merchant_plans[plan].total_subscribers > 0
                            THEN merchant_plans[plan].total_subscribers - 1
                            ELSE 0)
  /\ UNCHANGED <<protocolVars, session_tokens, total_spent,
                 payeeVars, current_time>>

\* deposit_to_wallet takes tokens from any signer, the program's payees
\* included: what a wallet has paid may come back to it or to another.
DepositFromMerchant(m, u, amount) ==
  /\ CanPayIn(u, MerchantMint[m], merchant_tokens[m], amount)
  /\ merchant_tokens' = [merchant_tokens EXCEPT ![m] = @ - amount]
  /\ balance' = [balance EXCEPT ![u] = @ + amount]
  /\ UNCHANGED <<user_tokens, wallets, protocolVars, accountVars, counterVars,
                 treasury_tokens, current_time>>

DepositFromTreasury(mint, u, amount) ==
  /\ CanPayIn(u, mint, treasury_tokens[mint], amount)
  /\ treasury_tokens' = [treasury_tokens EXCEPT ![mint] = @ - amount]
  /\ balance' = [balance EXCEPT ![u] = @ + amount]
  /\ UNCHANGED <<user_tokens, wallets, protocolVars, accountVars, counterVars,
                 merchant_tokens, current_time>>

\* The clock of the chain (external).
ClockAdvances ==
  /\ current_time < MaxTime
  /\ current_time' = current_time + 1
  /\ UNCHANGED <<protocolVars, accountVars, counterVars, payeeVars>>

-----------------------------------------------------------------------------
\* The instructions that leave every wallet's token account alone.
BookkeepingNext ==
  \/ \E bps \in FeeRates : InitializeProtocol(bps)
  \/ \E bps \in FeeRates : UpdateProtocolFee(bps)
  \/ \E m \in Merchants, plan_id \in PlanIds, fee \in Fees, interval \in Intervals :
       RegisterMerchant(m, plan_id, fee, interval)
  \/ \E u \in Users, plan \in PlanKeys, token \in SessionTokens :
       SubscribeWithWallet(u, plan, token)
  \/ \E u \in Users, m \in Merchants, plan \in PlanKeys :
       CancelSubscriptionWallet(u, m, plan)
  \/ ClockAdvances

\* Deposits by those the program has paid.
PayeeNext ==
  \/ \E m \in Merchants, u \in Users, amount \in MerchantAmounts :
       DepositFromMerchant(m, u, amount)
  \/ \E mint \in Mints, u \in Users, amount \in TreasuryAmounts :
       DepositFromTreasury(mint, u, amount)

BillingNext ==
  \/ WalletNext /\ UNCHANGED billingVars
  \/ BookkeepingNext /\ UNCHANGED walletVars
  \/ PayeeNext
  \/ \E u \in Users, m \in Merchants : ExecutePaymentFromWallet(u, m)

SubscriptionsInit == WalletInit /\ BillingInit

BillingSpec == SubscriptionsInit /\ [][BillingNext]_<<walletVars, billingVars>>

-----------------------------------------------------------------------------
(* Properties.                                                             *)

\* Type invariant: every stored integer keeps its width.
BillingTypeOK ==
  /\ WalletTypeOK
  /\ config_initialized \in BOOLEAN
  /\ protocol_fee_bps \in 0 .. 1000
  /\ DOMAIN merchant_plans \subseteq PlanKeys
  /\ \A plan \in DOMAIN merchant_plans : merchant_plans[plan] \in MerchantPlan
  /\ DOMAIN subscriptions \subseteq SubscriptionKeys
  /\ \A key \in DOMAIN subscriptions : subscriptions[key] \in SubscriptionState
  /\ DOMAIN session_tokens \subseteq SessionTokens
  /\ \A token \in DOMAIN session_tokens :
       session_tokens[token] \in SessionTokenTracker
  /\ total_subscriptions \in [Users -> Counter]
  /\ total_spent \in [Users -> Amount]
  /\ merchant_tokens \in [Merchants -> Amount]
  /\ treasury_tokens \in [Mints -> Amount]
  /\ current_time \in Nat

\* The subscriptions a user has open.
OpenSubscriptions(u) == {key \in DOMAIN subscriptions : key[1] = u}

\* A wallet's counter is the number of its open subscriptions: the saturating
\* subtraction of cancel_subscription never hides a miscount.
WalletCounterExact ==
  \A u \in Users : total_subscriptions[u] = Cardinality(OpenSubscriptions(u))

\* Whatever plan a cancellation names, the plans together count at least the
\* open subscriptions: saturation can only lose decrements.
PlanCountersCover ==
  Cardinality(DOMAIN subscriptions)
    <= Total([plan \in DOMAIN merchant_plans |->
                merchant_plans[plan].total_subscribers], U32)

\* An open subscription's session token names that subscription, through any
\* number of cancellations and new subscriptions: no two share a token.
TokenBindsSubscription ==
  \A key \in DOMAIN subscriptions :
    LET token == subscriptions[key].session_token
    IN token \in DOMAIN session_tokens /\ session_tokens[token].subscription = key

\* A session token once used is used for ever, by the same subscription.
TokensNeverRebound ==
  [][\A token \in DOMAIN session_tokens :
       /\ token \in DOMAIN session_tokens'
       /\ session_tokens'[token] = session_tokens[token]]_session_tokens

\* Charges never catch up or double: since a subscription began (the time its
\* session token keeps) at least one interval has passed for each charge.
ChargesArePaced ==
  \A key \in DOMAIN subscriptions :
    LET s == subscriptions[key]
    IN /\ s.payment_count * s.payment_interval
            <= s.last_payment_timestamp - session_tokens[s.session_token].timestamp
       /\ s.last_payment_timestamp <= current_time

\* A subscription is charged on the terms of its merchant's plan, every time.
ChargesFollowPlan ==
  \A key \in DOMAIN subscriptions :
    LET s == subscriptions[key]
        plan == <<key[2], s.plan_id>>
    IN /\ plan \in DOMAIN merchant_plans
       /\ s.payment_interval = merchant_plans[plan].payment_interval
       /\ s.total_paid = s.payment_count * merchant_plans[plan].fee_amount

\* What a user's open subscriptions say was paid.
PaidBy(u) ==
  TotalOver(OpenSubscriptions(u),
            [key \in DOMAIN subscriptions |-> subscriptions[key].total_paid], Cap)

\* What a wallet's open subscriptions say was paid, the wallet counts as
\* spent: closing a subscription and opening it again never counts a payment
\* twice, and no subscription's counter can overflow before the wallet's.
PaidWithinSpent == \A u \in Users : PaidBy(u) <= total_spent[u]

\* The merchants whose plans are in a mint.
Sellers(mint) == {m \in Merchants : MerchantMint[m] = mint}

\* What the wallets of a mint count as spent.
SpentIn(mint) == TotalOver(Holders(mint), total_spent, Cap)

\* An open subscription as its subscriber sees it: the terms are those of the
\* merchant's plan, the beginning is the one the session token remembers.
MandateOf(key) ==
  LET s == subscriptions[key]
      plan == merchant_plans[<<key[2], s.plan_id>>]
  IN [fee |-> plan.fee_amount,
      interval |-> plan.payment_interval,
      since |-> session_tokens[s.session_token].timestamp,
      charges |-> s.payment_count]

Biller ==
  INSTANCE Mandates WITH Payers <- Users,
                         Payees <- Merchants,
                         mandates <- [key \in DOMAIN subscriptions |-> MandateOf(key)],
                         spent <- total_spent,
                         now <- current_time

\* Billing keeps the promise: through plans, session tokens, cancellations and
\* anyone's calls, subscribers spend what they signed and when.
KeepsMandates == Biller!Spec

\* What the payees of a mint hold: its merchants and its treasury.
PayeesHold(mint) ==
  TotalOver(Sellers(mint), merchant_tokens, Cap) + treasury_tokens[mint]

\* Mint by mint, what a charge takes from a wallet is delivered, split between
\* merchant and treasury however the fee rounds, and what the payees pay in
\* arrives: no token is lost, made or turned into one of another mint.
TokensConserved ==
  \A mint \in Mints :
    TokensIn(mint) + PayeesHold(mint) = Cardinality(Holders(mint)) * InitialTokens

\* What leaves a wallet is counted as spent or received by its own owner, to
\* the token, and nothing is counted as spent that has not left it.
OnlyChargesSpend ==
  [][\A u \in Users :
       balance'[u] < balance[u] \/ total_spent'[u] # total_spent[u] =>
         balance[u] - balance'[u] =
           (total_spent'[u] - total_spent[u])
             + (user_tokens'[u] - user_tokens[u])]_<<walletVars, billingVars>>

\* Whatever the rates were over time, the treasury holds at most a tenth of all
\* charges: the 1000 basis points both configuration handlers allow.
TreasuryTakesAtMostTenth ==
  \A mint \in Mints : treasury_tokens[mint] * 10 <= SpentIn(mint)

-----------------------------------------------------------------------------
(* What documents and tests say and the code does not do.                  *)

\* A withdrawal leaves the reserve of three payments of each open
\* subscription in the wallet.
WithdrawalsKeepReserve ==
  [][\A u \in Users :
       user_tokens'[u] > user_tokens[u] =>
         \A key \in OpenSubscriptions(u) :
           balance'[u] >= 3 * subscriptions[key].fee_amount]_<<walletVars, billingVars>>

\* Each plan counts its own open subscriptions.
PlanCounterExact ==
  \A plan \in DOMAIN merchant_plans :
    merchant_plans[plan].total_subscribers =
      Cardinality({key \in DOMAIN subscriptions :
                     <<key[2], subscriptions[key].plan_id>> = plan})

\* The protocol takes at most one percent of what is charged.
TreasuryTakesAtMostOnePercent ==
  \A mint \in Mints : treasury_tokens[mint] * 100 <= SpentIn(mint)

=============================================================================
