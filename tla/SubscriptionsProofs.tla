------------------------- MODULE SubscriptionsProofs -------------------------
(***************************************************************************)
(* Billing for any number of users, merchants, plans and session tokens:   *)
(* types, session tokens, the terms and the pace of charges.               *)
(***************************************************************************)
EXTENDS Subscriptions, WalletsProofs

svars == <<walletVars, billingVars>>

\* The scales and bounds as naturals, stated once for the steps below.
LEMMA BillingScales ==
  /\ U64 \in Nat \ {0}
  /\ U32 \in Nat \ {0}
  /\ Cap \in Nat
  /\ Amount = 0 .. Cap
  /\ 0 \in Amount
  /\ 0 \in Counter
  /\ InitialTokens \in Amount
  /\ IsFiniteSet(Users)
  /\ IsFiniteSet(Merchants)
  /\ MerchantMint \in [Merchants -> Mints]
  /\ Fees \subseteq Amount
  /\ Intervals \subseteq Int
  BY ScaleAssumption, WalletAssumption, BillingAssumption DEF Amount, Cap, Counter

\* A deposit by a merchant or by the treasury of the wallet's mint: n tokens go
\* from one account to the other.
MerchantPaysIn(m, u, n) ==
  /\ MerchantMint[m] = WalletMint[u]
  /\ n > 0
  /\ merchant_tokens[m] >= n
  /\ merchant_tokens[m] - n \in Amount
  /\ balance[u] + n \in Amount
  /\ merchant_tokens' = [merchant_tokens EXCEPT ![m] = merchant_tokens[m] - n]
  /\ balance' = [balance EXCEPT ![u] = balance[u] + n]
  /\ treasury_tokens' = treasury_tokens

TreasuryPaysIn(u, n) ==
  /\ n > 0
  /\ treasury_tokens[WalletMint[u]] >= n
  /\ treasury_tokens[WalletMint[u]] - n \in Amount
  /\ balance[u] + n \in Amount
  /\ treasury_tokens' = [treasury_tokens EXCEPT ![WalletMint[u]] = @ - n]
  /\ balance' = [balance EXCEPT ![u] = balance[u] + n]
  /\ merchant_tokens' = merchant_tokens

\* What a payee's deposit leaves alone: every account of billing but the
\* tokens, every counter and the time.
PayInElsewhere ==
  UNCHANGED <<user_tokens, wallets, protocolVars, accountVars, counterVars, current_time>>

\* A payee's deposit is one or the other.
LEMMA PayInMoves ==
  ASSUME WalletTypeOK, merchant_tokens \in [Merchants -> Amount],
         treasury_tokens \in [Mints -> Amount], PayeeNext
  PROVE  /\ PayInElsewhere
         /\ \E u \in Users, n \in Amount :
              \/ \E m \in Merchants : MerchantPaysIn(m, u, n)
              \/ TreasuryPaysIn(u, n)
<1>1. ASSUME NEW m \in Merchants, NEW u \in Users, NEW n \in MerchantAmounts,
             DepositFromMerchant(m, u, n)
      PROVE  PayInElsewhere /\ n \in Amount /\ MerchantPaysIn(m, u, n)
  <2>1. n \in Amount /\ merchant_tokens[m] \in Amount
    BY BillingAssumption
  <2>2. merchant_tokens[m] >= n
    BY <1>1 DEF DepositFromMerchant, CanPayIn, CanTransfer
  <2> QED
    BY <1>1, <2>1, <2>2, CheckedArithmetic
       DEF DepositFromMerchant, CanPayIn, CanTransfer, PayInElsewhere, MerchantPaysIn
<1>2. ASSUME NEW mint \in Mints, NEW u \in Users, NEW n \in TreasuryAmounts,
             DepositFromTreasury(mint, u, n)
      PROVE  PayInElsewhere /\ n \in Amount /\ TreasuryPaysIn(u, n)
  <2>1. n \in Amount /\ treasury_tokens[mint] \in Amount
    BY BillingAssumption
  <2>2. treasury_tokens[mint] >= n /\ mint = WalletMint[u]
    BY <1>2 DEF DepositFromTreasury, CanPayIn, CanTransfer
  <2> QED
    BY <1>2, <2>1, <2>2, CheckedArithmetic
       DEF DepositFromTreasury, CanPayIn, CanTransfer, PayInElsewhere, TreasuryPaysIn
<1> QED
  BY <1>1, <1>2 DEF PayeeNext

LEMMA PayInLeavesBilling ==
  ASSUME PayeeNext
  PROVE  PayInElsewhere
  BY DEF PayeeNext, DepositFromMerchant, DepositFromTreasury, PayInElsewhere

-----------------------------------------------------------------------------
(* Types.                                                                  *)

\* The data an instruction writes into each kind of account.
LEMMA PlanStaysTyped ==
  ASSUME NEW plan \in MerchantPlan, NEW n \in Counter
  PROVE  [plan EXCEPT !.total_subscribers = n] \in MerchantPlan
  BY DEF MerchantPlan

LEMMA ChargeStaysTyped ==
  ASSUME NEW s \in SubscriptionState, current_time \in Nat,
         s.total_paid + s.fee_amount \in Amount, s.payment_count + 1 \in Counter
  PROVE  ChargedOnce(s) \in SubscriptionState
  BY DEF ChargedOnce, SubscriptionState

\* Registering or recounting a plan keeps every plan well typed.
LEMMA PlansStayTyped ==
  ASSUME BillingTypeOK, NEW plan \in PlanKeys, NEW data \in MerchantPlan,
         merchant_plans' = WriteAccount(merchant_plans, plan, data)
  PROVE  /\ DOMAIN merchant_plans' \subseteq PlanKeys
         /\ \A p \in DOMAIN merchant_plans' : merchant_plans'[p] \in MerchantPlan
<1>1. /\ DOMAIN merchant_plans' = (DOMAIN merchant_plans) \cup {plan}
      /\ merchant_plans'[plan] = data
      /\ \A k \in DOMAIN merchant_plans :
           k # plan => merchant_plans'[k] = merchant_plans[k]
  BY DEF WriteAccount
<1> QED
  BY <1>1 DEF BillingTypeOK

\* Opening or charging a subscription keeps every subscription well typed.
LEMMA SubscriptionsStayTyped ==
  ASSUME BillingTypeOK, NEW key \in SubscriptionKeys, NEW data \in SubscriptionState,
         subscriptions' = WriteAccount(subscriptions, key, data)
  PROVE  /\ DOMAIN subscriptions' \subseteq SubscriptionKeys
         /\ \A k \in DOMAIN subscriptions' : subscriptions'[k] \in SubscriptionState
<1>1. /\ DOMAIN subscriptions' = (DOMAIN subscriptions) \cup {key}
      /\ subscriptions'[key] = data
      /\ \A k \in DOMAIN subscriptions :
           k # key => subscriptions'[k] = subscriptions[k]
  BY DEF WriteAccount
<1> QED
  BY <1>1 DEF BillingTypeOK

\* Using a session token keeps every tracker well typed.
LEMMA TrackersStayTyped ==
  ASSUME BillingTypeOK, NEW token \in SessionTokens, NEW data \in SessionTokenTracker,
         session_tokens' = WriteAccount(session_tokens, token, data)
  PROVE  /\ DOMAIN session_tokens' \subseteq SessionTokens
         /\ \A t \in DOMAIN session_tokens' : session_tokens'[t] \in SessionTokenTracker
<1>1. /\ DOMAIN session_tokens' = (DOMAIN session_tokens) \cup {token}
      /\ session_tokens'[token] = data
      /\ \A k \in DOMAIN session_tokens :
           k # token => session_tokens'[k] = session_tokens[k]
  BY DEF WriteAccount
<1> QED
  BY <1>1 DEF BillingTypeOK

LEMMA RegisterTyped ==
  ASSUME BillingTypeOK, NEW m \in Merchants, NEW plan_id \in PlanIds,
         NEW fee \in Fees, NEW interval \in Intervals,
         RegisterMerchant(m, plan_id, fee, interval), UNCHANGED walletVars
  PROVE  BillingTypeOK'
<1> DEFINE data == [fee_amount |-> fee, payment_interval |-> interval,
                    total_subscribers |-> 0]
<1>1. data \in MerchantPlan
  BY BillingScales DEF RegisterMerchant, MerchantPlan
<1>2. <<m, plan_id>> \in PlanKeys
  BY DEF PlanKeys
<1>3. merchant_plans' = WriteAccount(merchant_plans, <<m, plan_id>>, data)
  BY DEF RegisterMerchant
<1> HIDE DEF data
<1>4. /\ DOMAIN merchant_plans' \subseteq PlanKeys
      /\ \A p \in DOMAIN merchant_plans' : merchant_plans'[p] \in MerchantPlan
  BY <1>1, <1>2, <1>3, PlansStayTyped
<1> QED
  BY <1>4 DEF RegisterMerchant, BillingTypeOK, protocolVars, counterVars, payeeVars,
              walletVars, WalletTypeOK

LEMMA SubscribeTyped ==
  ASSUME BillingTypeOK, NEW u \in Users, NEW plan \in PlanKeys,
         NEW token \in SessionTokens,
         SubscribeWithWallet(u, plan, token), UNCHANGED walletVars
  PROVE  BillingTypeOK'
<1> DEFINE key == <<u, plan[1]>>
           n == merchant_plans[plan].total_subscribers + 1
           fresh == NewSubscription(plan, token)
           tracker == [subscription |-> key, timestamp |-> current_time]
           counted == [merchant_plans[plan] EXCEPT !.total_subscribers = n]
<1>1. /\ key \in SubscriptionKeys
      /\ merchant_plans[plan] \in MerchantPlan
      /\ plan[2] \in PlanIds
      /\ current_time \in Nat
      /\ n \in Counter
  BY DEF SubscribeWithWallet, BillingTypeOK, SubscriptionKeys, PlanKeys
<1>2. fresh \in SubscriptionState
  BY <1>1, BillingScales DEF NewSubscription, SubscriptionState, MerchantPlan
<1>3. tracker \in SessionTokenTracker
  BY <1>1 DEF SessionTokenTracker
<1>4. counted \in MerchantPlan
  BY <1>1, PlanStaysTyped
<1>5. /\ subscriptions' = WriteAccount(subscriptions, key, fresh)
      /\ session_tokens' = WriteAccount(session_tokens, token, tracker)
      /\ merchant_plans' = WriteAccount(merchant_plans, plan, counted)
  BY DEF SubscribeWithWallet, AddSubscribers
<1>6. total_subscriptions' \in [Users -> Counter]
  BY DEF SubscribeWithWallet, BillingTypeOK
<1> HIDE DEF key, n, fresh, tracker, counted
<1>7. /\ DOMAIN merchant_plans' \subseteq PlanKeys
      /\ \A p \in DOMAIN merchant_plans' : merchant_plans'[p] \in MerchantPlan
  BY <1>4, <1>5, PlansStayTyped
<1>8. /\ DOMAIN subscriptions' \subseteq SubscriptionKeys
      /\ \A k \in DOMAIN subscriptions' : subscriptions'[k] \in SubscriptionState
  BY <1>1, <1>2, <1>5, SubscriptionsStayTyped
<1>9. /\ DOMAIN session_tokens' \subseteq SessionTokens
      /\ \A t \in DOMAIN session_tokens' : session_tokens'[t] \in SessionTokenTracker
  BY <1>3, <1>5, TrackersStayTyped
<1> QED
  BY <1>6, <1>7, <1>8, <1>9
     DEF SubscribeWithWallet, BillingTypeOK, protocolVars, payeeVars, walletVars,
         WalletTypeOK

\* What a charge does to the subscription and the payees, the wallet apart.
LEMMA ChargeTyped ==
  ASSUME BillingTypeOK, NEW u \in Users, NEW m \in Merchants,
         PaymentDue(u, m), RecordCharge(u, m)
  PROVE  /\ DOMAIN subscriptions' \subseteq SubscriptionKeys
         /\ \A k \in DOMAIN subscriptions' : subscriptions'[k] \in SubscriptionState
         /\ total_spent' \in [Users -> Amount]
         /\ merchant_tokens' \in [Merchants -> Amount]
         /\ treasury_tokens' \in [Mints -> Amount]
<1> DEFINE s == subscriptions[<<u, m>>]
           charged == ChargedOnce(s)
<1>1. /\ <<u, m>> \in SubscriptionKeys
      /\ s \in SubscriptionState
      /\ current_time \in Nat
  BY DEF PaymentDue, BillingTypeOK, SubscriptionKeys
<1>2. s.total_paid + s.fee_amount \in Amount /\ s.payment_count + 1 \in Counter
  BY DEF CanRecordCharge, RecordCharge
<1>3. subscriptions' = WriteAccount(subscriptions, <<u, m>>, charged)
  BY DEF RecordCharge
<1>4. /\ total_spent' \in [Users -> Amount]
      /\ merchant_tokens' \in [Merchants -> Amount]
      /\ treasury_tokens' \in [Mints -> Amount]
  BY DEF CanRecordCharge, RecordCharge, BillingTypeOK
<1> HIDE DEF s
<1>5. charged \in SubscriptionState
  BY <1>1, <1>2, ChargeStaysTyped
<1> HIDE DEF charged
<1> QED
  BY <1>1, <1>3, <1>4, <1>5, SubscriptionsStayTyped

LEMMA ExecuteTyped ==
  ASSUME BillingTypeOK, NEW u \in Users, NEW m \in Merchants,
         ExecutePaymentFromWallet(u, m)
  PROVE  BillingTypeOK'
<1>1. /\ DOMAIN subscriptions' \subseteq SubscriptionKeys
      /\ \A k \in DOMAIN subscriptions' : subscriptions'[k] \in SubscriptionState
      /\ total_spent' \in [Users -> Amount]
      /\ merchant_tokens' \in [Merchants -> Amount]
      /\ treasury_tokens' \in [Mints -> Amount]
  BY ChargeTyped DEF ExecutePaymentFromWallet
<1>2. subscriptions[<<u, m>>].fee_amount \in Amount
  BY DEF ExecutePaymentFromWallet, PaymentDue, BillingTypeOK, SubscriptionState
<1>3. balance' \in [Users -> Amount]
  BY <1>2, BillingScales DEF ExecutePaymentFromWallet, BillingTypeOK, WalletTypeOK
<1> QED
  BY <1>1, <1>3 DEF ExecutePaymentFromWallet, BillingTypeOK, WalletTypeOK, protocolVars

LEMMA CancelTyped ==
  ASSUME BillingTypeOK, NEW u \in Users, NEW m \in Merchants, NEW plan \in PlanKeys,
         CancelSubscriptionWallet(u, m, plan), UNCHANGED walletVars
  PROVE  BillingTypeOK'
<1> DEFINE n == IF merchant_plans[plan].total_subscribers > 0
                THEN merchant_plans[plan].total_subscribers - 1
                ELSE 0
           counted == [merchant_plans[plan] EXCEPT !.total_subscribers = n]
<1>1. merchant_plans[plan] \in MerchantPlan
  BY DEF CancelSubscriptionWallet, BillingTypeOK
<1>2. n \in Counter
  BY <1>1, BillingScales DEF MerchantPlan, Counter
<1>3. merchant_plans' = WriteAccount(merchant_plans, plan, counted)
  BY DEF CancelSubscriptionWallet, AddSubscribers
<1>4. total_subscriptions' \in [Users -> Counter]
  BY BillingScales DEF CancelSubscriptionWallet, BillingTypeOK, Counter
<1> HIDE DEF n
<1>5. counted \in MerchantPlan
  BY <1>1, <1>2, PlanStaysTyped
<1> HIDE DEF counted
<1>6. /\ DOMAIN merchant_plans' \subseteq PlanKeys
      /\ \A p \in DOMAIN merchant_plans' : merchant_plans'[p] \in MerchantPlan
  BY <1>3, <1>5, PlansStayTyped
<1>7. /\ DOMAIN subscriptions' \subseteq SubscriptionKeys
      /\ \A k \in DOMAIN subscriptions' : subscriptions'[k] \in SubscriptionState
  BY DEF CancelSubscriptionWallet, CloseAccount, Restrict, BillingTypeOK
<1> QED
  BY <1>4, <1>6, <1>7
     DEF CancelSubscriptionWallet, BillingTypeOK, protocolVars, payeeVars, walletVars,
         WalletTypeOK

LEMMA PayInTyped ==
  ASSUME BillingTypeOK, PayeeNext
  PROVE  BillingTypeOK'
<1>1. /\ WalletTypeOK
      /\ merchant_tokens \in [Merchants -> Amount]
      /\ treasury_tokens \in [Mints -> Amount]
  BY DEF BillingTypeOK
<1>2. /\ PayInElsewhere
      /\ \E u \in Users, n \in Amount :
           \/ \E m \in Merchants : MerchantPaysIn(m, u, n)
           \/ TreasuryPaysIn(u, n)
  BY <1>1, PayInMoves
<1>3. /\ balance' \in [Users -> Amount]
      /\ merchant_tokens' \in [Merchants -> Amount]
      /\ treasury_tokens' \in [Mints -> Amount]
  BY <1>1, <1>2 DEF MerchantPaysIn, TreasuryPaysIn, WalletTypeOK
<1> QED
  BY <1>2, <1>3 DEF PayInElsewhere, BillingTypeOK, WalletTypeOK, protocolVars, accountVars,
                    counterVars

LEMMA BillingStepTyped ==
  ASSUME BillingTypeOK, [BillingNext]_svars
  PROVE  BillingTypeOK'
<1>1. CASE UNCHANGED svars
  BY <1>1 DEF svars, walletVars, billingVars, protocolVars, accountVars, counterVars,
              payeeVars, BillingTypeOK, WalletTypeOK
<1>2. CASE WalletNext /\ UNCHANGED billingVars
  <2>1. WalletTypeOK'
    BY <1>2, WalletStepTypes DEF BillingTypeOK
  <2> QED
    BY <1>2, <2>1 DEF billingVars, protocolVars, accountVars, counterVars, payeeVars,
                      BillingTypeOK
<1>3. ASSUME BookkeepingNext, UNCHANGED walletVars PROVE BillingTypeOK'
  <2>1. ASSUME NEW bps \in FeeRates, InitializeProtocol(bps) PROVE BillingTypeOK'
    BY <1>3, <2>1, BillingAssumption
       DEF InitializeProtocol, BillingTypeOK, accountVars, counterVars, payeeVars,
           walletVars, WalletTypeOK
  <2>2. ASSUME NEW bps \in FeeRates, UpdateProtocolFee(bps) PROVE BillingTypeOK'
    BY <1>3, <2>2, BillingAssumption
       DEF UpdateProtocolFee, BillingTypeOK, accountVars, counterVars, payeeVars,
           walletVars, WalletTypeOK
  <2>3. ASSUME NEW m \in Merchants, NEW plan_id \in PlanIds, NEW fee \in Fees,
               NEW interval \in Intervals, RegisterMerchant(m, plan_id, fee, interval)
        PROVE  BillingTypeOK'
    BY <1>3, <2>3, RegisterTyped
  <2>4. ASSUME NEW u \in Users, NEW plan \in PlanKeys, NEW token \in SessionTokens,
               SubscribeWithWallet(u, plan, token)
        PROVE  BillingTypeOK'
    BY <1>3, <2>4, SubscribeTyped
  <2>5. ASSUME NEW u \in Users, NEW m \in Merchants, NEW plan \in PlanKeys,
               CancelSubscriptionWallet(u, m, plan)
        PROVE  BillingTypeOK'
    BY <1>3, <2>5, CancelTyped
  <2>6. CASE ClockAdvances
    BY <1>3, <2>6 DEF ClockAdvances, BillingTypeOK, protocolVars, accountVars,
                      counterVars, payeeVars, walletVars, WalletTypeOK
  <2> QED
    BY <1>3, <2>1, <2>2, <2>3, <2>4, <2>5, <2>6 DEF BookkeepingNext
<1>4. ASSUME NEW u \in Users, NEW m \in Merchants, ExecutePaymentFromWallet(u, m)
      PROVE  BillingTypeOK'
  BY <1>4, ExecuteTyped
<1>5. CASE PayeeNext
  BY <1>5, PayInTyped
<1> QED
  BY <1>1, <1>2, <1>3, <1>4, <1>5 DEF BillingNext

LEMMA BillingStartsTyped ==
  ASSUME WalletInit, BillingInit
  PROVE  BillingTypeOK
<1>1. WalletTypeOK
  BY BillingScales DEF WalletInit, WalletTypeOK
<1>2. /\ DOMAIN merchant_plans = {}
      /\ DOMAIN subscriptions = {}
      /\ DOMAIN session_tokens = {}
  BY DEF BillingInit
<1>3. /\ total_subscriptions \in [Users -> Counter]
      /\ total_spent \in [Users -> Amount]
      /\ merchant_tokens \in [Merchants -> Amount]
      /\ treasury_tokens \in [Mints -> Amount]
  BY BillingScales DEF BillingInit
<1>4. /\ protocol_fee_bps \in 0 .. 1000
      /\ current_time \in Nat
  BY DEF BillingInit
<1>5. config_initialized \in BOOLEAN
  BY Zenon DEF BillingInit
<1> QED
  BY <1>1, <1>2, <1>3, <1>4, <1>5 DEF BillingTypeOK

\* Every account billing writes keeps the width of its fields, and the rate of
\* the protocol never exceeds its bound.
THEOREM BillingTypeCorrectness == BillingSpec => []BillingTypeOK
<1>1. SubscriptionsInit => BillingTypeOK
  BY BillingStartsTyped DEF SubscriptionsInit
<1>2. BillingTypeOK /\ [BillingNext]_svars => BillingTypeOK'
  BY BillingStepTyped
<1> QED
  BY <1>1, <1>2, PTL DEF BillingSpec, svars

-----------------------------------------------------------------------------
(* What no step undoes.                                                    *)

\* Registered plans keep their terms, whatever happens to their counters.
PlansKept ==
  \A plan \in DOMAIN merchant_plans :
    /\ plan \in DOMAIN merchant_plans'
    /\ merchant_plans'[plan].fee_amount = merchant_plans[plan].fee_amount
    /\ merchant_plans'[plan].payment_interval = merchant_plans[plan].payment_interval

\* A used session token keeps its tracker.
TrackersKept ==
  \A token \in DOMAIN session_tokens :
    /\ token \in DOMAIN session_tokens'
    /\ session_tokens'[token] = session_tokens[token]

\* Time does not go back.
ClockKept == current_time' \in Nat /\ current_time <= current_time'

History == PlansKept /\ TrackersKept /\ ClockKept

LEMMA RecountKeepsPlans ==
  ASSUME BillingTypeOK, NEW plan \in DOMAIN merchant_plans, NEW n,
         merchant_plans' = AddSubscribers(plan, n)
  PROVE  PlansKept
<1>1. merchant_plans[plan] \in MerchantPlan
  BY DEF BillingTypeOK
<1>2. /\ [merchant_plans[plan] EXCEPT !.total_subscribers = n].fee_amount
           = merchant_plans[plan].fee_amount
      /\ [merchant_plans[plan] EXCEPT !.total_subscribers = n].payment_interval
           = merchant_plans[plan].payment_interval
  BY <1>1 DEF MerchantPlan
<1> QED
  BY <1>2 DEF AddSubscribers, WriteAccount, PlansKept

LEMMA StepKeepsHistory ==
  ASSUME BillingTypeOK, [BillingNext]_svars
  PROVE  History
<1> current_time \in Nat
  BY DEF BillingTypeOK
<1>1. CASE UNCHANGED <<merchant_plans, session_tokens, current_time>>
  BY <1>1 DEF History, PlansKept, TrackersKept, ClockKept
<1>2. CASE UNCHANGED svars
  BY <1>1, <1>2 DEF svars, billingVars, accountVars
<1>3. CASE UNCHANGED billingVars
  BY <1>1, <1>3 DEF billingVars, accountVars
<1>4. ASSUME BookkeepingNext PROVE History
  <2>1. ASSUME NEW bps \in FeeRates, InitializeProtocol(bps) PROVE History
    BY <1>1, <2>1 DEF InitializeProtocol, accountVars
  <2>2. ASSUME NEW bps \in FeeRates, UpdateProtocolFee(bps) PROVE History
    BY <1>1, <2>2 DEF UpdateProtocolFee, accountVars
  <2>3. ASSUME NEW m \in Merchants, NEW plan_id \in PlanIds, NEW fee \in Fees,
               NEW interval \in Intervals, RegisterMerchant(m, plan_id, fee, interval)
        PROVE  History
    BY <2>3 DEF RegisterMerchant, WriteAccount, History, PlansKept, TrackersKept,
                ClockKept
  <2>4. ASSUME NEW u \in Users, NEW plan \in PlanKeys, NEW token \in SessionTokens,
               SubscribeWithWallet(u, plan, token)
        PROVE  History
    <3>1. PlansKept
      BY <2>4, RecountKeepsPlans DEF SubscribeWithWallet
    <3>2. TrackersKept
      BY <2>4 DEF SubscribeWithWallet, WriteAccount, TrackersKept
    <3> QED
      BY <2>4, <3>1, <3>2 DEF SubscribeWithWallet, History, ClockKept
  <2>5. ASSUME NEW u \in Users, NEW m \in Merchants, NEW plan \in PlanKeys,
               CancelSubscriptionWallet(u, m, plan)
        PROVE  History
    <3>1. PlansKept
      BY <2>5, RecountKeepsPlans DEF CancelSubscriptionWallet
    <3> QED
      BY <2>5, <3>1 DEF CancelSubscriptionWallet, History, TrackersKept, ClockKept
  <2>6. ASSUME ClockAdvances PROVE History
    BY <2>6 DEF ClockAdvances, accountVars, History, PlansKept, TrackersKept, ClockKept
  <2> QED
    BY <1>4, <2>1, <2>2, <2>3, <2>4, <2>5, <2>6 DEF BookkeepingNext
<1>5. ASSUME NEW u \in Users, NEW m \in Merchants, ExecutePaymentFromWallet(u, m)
      PROVE  History
  BY <1>1, <1>5 DEF ExecutePaymentFromWallet
<1>6. CASE PayeeNext
  BY <1>1, <1>6, PayInLeavesBilling DEF PayInElsewhere, accountVars
<1> QED
  BY <1>2, <1>3, <1>4, <1>5, <1>6 DEF BillingNext

\* A session token is never freed nor given to another subscription, through
\* any sequence of cancellations and new subscriptions.
THEOREM TokensStayBound == BillingSpec => TokensNeverRebound
<1>1. BillingTypeOK /\ [BillingNext]_svars
        => [\A token \in DOMAIN session_tokens :
              /\ token \in DOMAIN session_tokens'
              /\ session_tokens'[token] = session_tokens[token]]_session_tokens
  BY StepKeepsHistory DEF History, TrackersKept
<1> QED
  BY <1>1, BillingTypeCorrectness, PTL DEF BillingSpec, svars, TokensNeverRebound

-----------------------------------------------------------------------------
(* Session tokens, terms and pace of the open subscriptions.               *)

\* What holds of each open subscription.
Consistent(key) ==
  LET s == subscriptions[key]
      tracker == session_tokens[s.session_token]
      plan == <<key[2], s.plan_id>>
  IN /\ s.session_token \in DOMAIN session_tokens
     /\ tracker.subscription = key
     /\ s.payment_count * s.payment_interval
          <= s.last_payment_timestamp - tracker.timestamp
     /\ s.last_payment_timestamp <= current_time
     /\ plan \in DOMAIN merchant_plans
     /\ s.payment_interval = merchant_plans[plan].payment_interval
     /\ s.fee_amount = merchant_plans[plan].fee_amount
     /\ s.total_paid = s.payment_count * s.fee_amount

BillingInv == \A key \in DOMAIN subscriptions : Consistent(key)

\* A subscription a step leaves alone stays consistent.
LEMMA UntouchedStaysConsistent ==
  ASSUME BillingTypeOK, History, NEW key \in DOMAIN subscriptions, Consistent(key),
         key \in DOMAIN subscriptions', subscriptions'[key] = subscriptions[key]
  PROVE  Consistent(key)'
<1>1. /\ subscriptions[key] \in SubscriptionState
      /\ current_time \in Nat
  BY DEF BillingTypeOK
<1> QED
  BY <1>1 DEF History, PlansKept, TrackersKept, ClockKept, Consistent, SubscriptionState

\* A new subscription starts consistent: no charge, on the plan's terms.
LEMMA SubscribeConsistent ==
  ASSUME BillingTypeOK, History, NEW u \in Users, NEW plan \in PlanKeys,
         NEW token \in SessionTokens, SubscribeWithWallet(u, plan, token)
  PROVE  Consistent(<<u, plan[1]>>)'
<1> DEFINE key == <<u, plan[1]>>
           s == NewSubscription(plan, token)
<1>1. /\ subscriptions'[key] = s
      /\ token \in DOMAIN session_tokens'
      /\ session_tokens'[token] = [subscription |-> key, timestamp |-> current_time]
  BY DEF SubscribeWithWallet, WriteAccount
<1>2. /\ s.session_token = token
      /\ s.payment_count = 0
      /\ s.total_paid = 0
      /\ s.last_payment_timestamp = current_time
      /\ s.plan_id = plan[2]
      /\ s.fee_amount = merchant_plans[plan].fee_amount
      /\ s.payment_interval = merchant_plans[plan].payment_interval
  BY DEF NewSubscription
<1>3. /\ <<key[2], plan[2]>> = plan
      /\ plan \in DOMAIN merchant_plans
  BY DEF SubscribeWithWallet, PlanKeys
<1>4. /\ merchant_plans[plan].payment_interval \in Nat
      /\ merchant_plans[plan].fee_amount \in Nat
      /\ current_time \in Nat
      /\ current_time' = current_time
  BY <1>3, BillingScales DEF BillingTypeOK, MerchantPlan, SubscribeWithWallet
<1>5. /\ plan \in DOMAIN merchant_plans'
      /\ merchant_plans'[plan].fee_amount = merchant_plans[plan].fee_amount
      /\ merchant_plans'[plan].payment_interval = merchant_plans[plan].payment_interval
  BY <1>3 DEF History, PlansKept
<1> HIDE DEF key, s
<1>6. /\ s.payment_count * s.payment_interval <= current_time - current_time
      /\ s.total_paid = s.payment_count * s.fee_amount
      /\ s.last_payment_timestamp <= current_time'
  BY <1>2, <1>4
<1>7. /\ session_tokens'[s.session_token].subscription = key
      /\ session_tokens'[s.session_token].timestamp = current_time
      /\ s.session_token \in DOMAIN session_tokens'
  BY <1>1, <1>2
<1>8. /\ <<key[2], s.plan_id>> \in DOMAIN merchant_plans'
      /\ s.payment_interval
           = merchant_plans'[<<key[2], s.plan_id>>].payment_interval
      /\ s.fee_amount = merchant_plans'[<<key[2], s.plan_id>>].fee_amount
  BY <1>2, <1>3, <1>5
<1>9. Consistent(key)'
  BY <1>1, <1>2, <1>6, <1>7, <1>8 DEF Consistent
<1> QED
  BY <1>9 DEF key

LEMMA OneMore ==
  ASSUME NEW a \in Nat, NEW b \in Nat
  PROVE  (a + 1) * b = a * b + b /\ a * b \in Nat
  OBVIOUS

\* A charge comes an interval or more after the last one, which pays for the
\* interval it adds to the count.
LEMMA ChargeConsistent ==
  ASSUME BillingTypeOK, History, NEW u \in Users, NEW m \in Merchants,
         Consistent(<<u, m>>), PaymentDue(u, m), RecordCharge(u, m),
         UNCHANGED <<merchant_plans, session_tokens, current_time>>
  PROVE  Consistent(<<u, m>>)'
<1> DEFINE key == <<u, m>>
           s == subscriptions[key]
           t == ChargedOnce(s)
           begun == session_tokens[s.session_token].timestamp
<1>1. /\ s \in SubscriptionState
      /\ current_time \in Nat
      /\ s.session_token \in DOMAIN session_tokens
      /\ current_time - s.last_payment_timestamp >= s.payment_interval
  BY DEF BillingTypeOK, PaymentDue, Consistent
<1>2. session_tokens[s.session_token] \in SessionTokenTracker
  BY <1>1 DEF BillingTypeOK
<1>3. subscriptions'[key] = t
  BY DEF RecordCharge, WriteAccount
<1>4. /\ s.payment_count * s.payment_interval <= s.last_payment_timestamp - begun
      /\ s.total_paid = s.payment_count * s.fee_amount
  BY DEF Consistent
<1> HIDE DEF key, s
<1>5. /\ t.session_token = s.session_token
      /\ t.plan_id = s.plan_id
      /\ t.payment_interval = s.payment_interval
      /\ t.fee_amount = s.fee_amount
      /\ t.payment_count = s.payment_count + 1
      /\ t.last_payment_timestamp = current_time
      /\ t.total_paid = s.total_paid + s.fee_amount
  BY <1>1 DEF ChargedOnce, SubscriptionState
<1>6. /\ s.payment_count \in Nat /\ s.payment_interval \in Nat /\ s.fee_amount \in Nat
      /\ s.last_payment_timestamp \in Nat /\ s.total_paid \in Nat
      /\ begun \in Nat
  BY <1>1, <1>2, BillingScales
     DEF SubscriptionState, SessionTokenTracker, Counter
<1> HIDE DEF t, begun
<1>7. /\ (s.payment_count + 1) * s.payment_interval
           = s.payment_count * s.payment_interval + s.payment_interval
      /\ (s.payment_count + 1) * s.fee_amount
           = s.payment_count * s.fee_amount + s.fee_amount
      /\ s.payment_count * s.payment_interval \in Nat
      /\ s.payment_count * s.fee_amount \in Nat
  BY <1>6, OneMore
<1>8. /\ (s.payment_count + 1) * s.payment_interval <= current_time - begun
      /\ s.total_paid + s.fee_amount = (s.payment_count + 1) * s.fee_amount
  BY <1>1, <1>4, <1>6, <1>7
<1>9. /\ t.payment_count * t.payment_interval <= t.last_payment_timestamp - begun
      /\ t.last_payment_timestamp <= current_time
      /\ t.total_paid = t.payment_count * t.fee_amount
  BY <1>1, <1>5, <1>8
<1>10. Consistent(key)'
  <2>1. Consistent(key)
    BY DEF key
  <2> QED
    BY <1>3, <1>5, <1>9, <2>1 DEF Consistent, s, begun
<1> QED
  BY <1>10 DEF key

LEMMA BillingInvStep ==
  ASSUME BillingTypeOK, BillingInv, [BillingNext]_svars
  PROVE  BillingInv'
<1>1. History
  BY StepKeepsHistory
<1>2. ASSUME NEW key \in DOMAIN subscriptions, key \in DOMAIN subscriptions',
             subscriptions'[key] = subscriptions[key]
      PROVE  Consistent(key)'
  BY <1>1, <1>2, UntouchedStaysConsistent DEF BillingInv
<1>3. CASE subscriptions' = subscriptions
  BY <1>2, <1>3 DEF BillingInv
<1>4. CASE UNCHANGED svars \/ UNCHANGED billingVars
  BY <1>3, <1>4 DEF svars, billingVars, accountVars
<1>5. ASSUME BookkeepingNext PROVE BillingInv'
  <2>1. ASSUME NEW bps \in FeeRates, InitializeProtocol(bps) PROVE BillingInv'
    BY <1>3, <2>1 DEF InitializeProtocol, accountVars
  <2>2. ASSUME NEW bps \in FeeRates, UpdateProtocolFee(bps) PROVE BillingInv'
    BY <1>3, <2>2 DEF UpdateProtocolFee, accountVars
  <2>3. ASSUME NEW m \in Merchants, NEW plan_id \in PlanIds, NEW fee \in Fees,
               NEW interval \in Intervals, RegisterMerchant(m, plan_id, fee, interval)
        PROVE  BillingInv'
    BY <1>3, <2>3 DEF RegisterMerchant
  <2>4. ASSUME NEW u \in Users, NEW plan \in PlanKeys, NEW token \in SessionTokens,
               SubscribeWithWallet(u, plan, token)
        PROVE  BillingInv'
    <3>1. Consistent(<<u, plan[1]>>)'
      BY <1>1, <2>4, SubscribeConsistent
    <3>2. /\ DOMAIN subscriptions' = (DOMAIN subscriptions) \cup {<<u, plan[1]>>}
          /\ \A key \in DOMAIN subscriptions :
               key # <<u, plan[1]>> => subscriptions'[key] = subscriptions[key]
      BY <2>4 DEF SubscribeWithWallet, WriteAccount
    <3> QED
      BY <1>2, <3>1, <3>2 DEF BillingInv
  <2>5. ASSUME NEW u \in Users, NEW m \in Merchants, NEW plan \in PlanKeys,
               CancelSubscriptionWallet(u, m, plan)
        PROVE  BillingInv'
    <3>1. /\ DOMAIN subscriptions' = (DOMAIN subscriptions) \ {<<u, m>>}
          /\ \A key \in DOMAIN subscriptions' : subscriptions'[key] = subscriptions[key]
      BY <2>5 DEF CancelSubscriptionWallet, CloseAccount, Restrict
    <3> QED
      BY <1>2, <3>1 DEF BillingInv
  <2>6. CASE ClockAdvances
    BY <1>3, <2>6 DEF ClockAdvances, accountVars
  <2> QED
    BY <1>5, <2>1, <2>2, <2>3, <2>4, <2>5, <2>6 DEF BookkeepingNext
<1>6. ASSUME NEW u \in Users, NEW m \in Merchants, ExecutePaymentFromWallet(u, m)
      PROVE  BillingInv'
  <2>1. /\ <<u, m>> \in DOMAIN subscriptions
        /\ Consistent(<<u, m>>)
    BY <1>6 DEF ExecutePaymentFromWallet, PaymentDue, BillingInv
  <2>2. Consistent(<<u, m>>)'
    BY <1>1, <1>6, <2>1, ChargeConsistent DEF ExecutePaymentFromWallet
  <2>3. /\ DOMAIN subscriptions' = (DOMAIN subscriptions) \cup {<<u, m>>}
        /\ \A key \in DOMAIN subscriptions :
             key # <<u, m>> => subscriptions'[key] = subscriptions[key]
    BY <1>6 DEF ExecutePaymentFromWallet, RecordCharge, WriteAccount
  <2> QED
    BY <1>2, <2>2, <2>3 DEF BillingInv
<1>7. CASE PayeeNext
  BY <1>3, <1>7, PayInLeavesBilling DEF PayInElsewhere, accountVars
<1> QED
  BY <1>4, <1>5, <1>6, <1>7 DEF BillingNext

LEMMA BillingInvariant == BillingSpec => [](BillingTypeOK /\ BillingInv)
<1>1. SubscriptionsInit => BillingInv
  BY DEF SubscriptionsInit, BillingInit, BillingInv
<1>2. BillingTypeOK /\ BillingInv /\ [BillingNext]_svars => BillingInv'
  BY BillingInvStep
<1> QED
  BY <1>1, <1>2, BillingTypeCorrectness, PTL DEF BillingSpec, svars

\* An open subscription owns its session token: no two share one.
THEOREM TokensAreBound == BillingSpec => []TokenBindsSubscription
<1>1. BillingInv => TokenBindsSubscription
  BY DEF BillingInv, Consistent, TokenBindsSubscription
<1> QED
  BY <1>1, BillingInvariant, PTL

\* Since a subscription began an interval has passed for every charge: late
\* and repeated calls never catch up, for any interval and any schedule.
THEOREM PacedCharging == BillingSpec => []ChargesArePaced
<1>1. BillingInv => ChargesArePaced
  BY DEF BillingInv, Consistent, ChargesArePaced
<1> QED
  BY <1>1, BillingInvariant, PTL

\* What a subscriber has paid is the number of charges times the fee of the
\* merchant's plan.
THEOREM ChargingOnTerms == BillingSpec => []ChargesFollowPlan
<1>1. BillingInv => ChargesFollowPlan
  BY DEF BillingInv, Consistent, ChargesFollowPlan
<1> QED
  BY <1>1, BillingInvariant, PTL

-----------------------------------------------------------------------------
(* The wallets' subscription counters.                                     *)

LEMMA OpenSubscriptionsFinite ==
  ASSUME BillingTypeOK, NEW u
  PROVE  /\ IsFiniteSet(OpenSubscriptions(u))
         /\ Cardinality(OpenSubscriptions(u)) \in Nat
<1>1. IsFiniteSet(SubscriptionKeys)
  BY BillingScales, FS_Product DEF SubscriptionKeys
<1>2. OpenSubscriptions(u) \subseteq SubscriptionKeys
  BY DEF OpenSubscriptions, BillingTypeOK
<1>3. IsFiniteSet(OpenSubscriptions(u))
  BY <1>1, <1>2, FS_Subset
<1> QED
  BY <1>3, FS_CardinalityType

\* A step that opens no subscription and closes none keeps every count.
LEMMA SameKeysSameCounts ==
  ASSUME WalletCounterExact, DOMAIN subscriptions' = DOMAIN subscriptions,
         total_subscriptions' = total_subscriptions
  PROVE  WalletCounterExact'
<1>1. \A u \in Users : OpenSubscriptions(u)' = OpenSubscriptions(u)
  BY DEF OpenSubscriptions
<1> QED
  BY <1>1 DEF WalletCounterExact

LEMMA SubscribeCounts ==
  ASSUME BillingTypeOK, WalletCounterExact, NEW u \in Users, NEW plan \in PlanKeys,
         NEW token \in SessionTokens, SubscribeWithWallet(u, plan, token)
  PROVE  WalletCounterExact'
<1> DEFINE key == <<u, plan[1]>>
<1>1. /\ key \notin DOMAIN subscriptions
      /\ DOMAIN subscriptions' = (DOMAIN subscriptions) \cup {key}
      /\ total_subscriptions' = [total_subscriptions EXCEPT ![u] = @ + 1]
  BY DEF SubscribeWithWallet, WriteAccount
<1>2. key[1] = u
  OBVIOUS
<1> HIDE DEF key
<1>3. /\ OpenSubscriptions(u)' = OpenSubscriptions(u) \cup {key}
      /\ key \notin OpenSubscriptions(u)
      /\ \A w \in Users : w # u => OpenSubscriptions(w)' = OpenSubscriptions(w)
  BY <1>1, <1>2 DEF OpenSubscriptions
<1>4. Cardinality(OpenSubscriptions(u)') = Cardinality(OpenSubscriptions(u)) + 1
  BY <1>3, OpenSubscriptionsFinite, FS_AddElement
<1>5. total_subscriptions \in [Users -> Counter]
  BY DEF BillingTypeOK
<1>6. ASSUME NEW w \in Users
      PROVE  total_subscriptions'[w] = Cardinality(OpenSubscriptions(w)')
  <2>1. CASE w = u
    BY <1>1, <1>4, <1>5, <2>1 DEF WalletCounterExact
  <2>2. CASE w # u
    BY <1>1, <1>3, <1>5, <2>2 DEF WalletCounterExact
  <2> QED
    BY <2>1, <2>2
<1> QED
  BY <1>6 DEF WalletCounterExact

\* The saturating subtraction never saturates: the subscription being closed
\* is one the counter counts.
LEMMA CancelCounts ==
  ASSUME BillingTypeOK, WalletCounterExact, NEW u \in Users, NEW m \in Merchants,
         NEW plan \in PlanKeys, CancelSubscriptionWallet(u, m, plan)
  PROVE  WalletCounterExact'
<1> DEFINE key == <<u, m>>
<1>1. /\ key \in DOMAIN subscriptions
      /\ DOMAIN subscriptions' = (DOMAIN subscriptions) \ {key}
      /\ total_subscriptions' =
           [total_subscriptions EXCEPT ![u] = IF @ > 0 THEN @ - 1 ELSE 0]
  BY DEF CancelSubscriptionWallet, CloseAccount, Restrict
<1>2. key[1] = u
  OBVIOUS
<1> HIDE DEF key
<1>3. /\ OpenSubscriptions(u)' = OpenSubscriptions(u) \ {key}
      /\ key \in OpenSubscriptions(u)
      /\ \A w \in Users : w # u => OpenSubscriptions(w)' = OpenSubscriptions(w)
  BY <1>1, <1>2 DEF OpenSubscriptions
<1>4. /\ Cardinality(OpenSubscriptions(u)') = Cardinality(OpenSubscriptions(u)) - 1
      /\ Cardinality(OpenSubscriptions(u)') \in Nat
  <2>1. IsFiniteSet(OpenSubscriptions(u))
    BY OpenSubscriptionsFinite
  <2>2. /\ IsFiniteSet(OpenSubscriptions(u) \ {key})
        /\ Cardinality(OpenSubscriptions(u) \ {key})
             = Cardinality(OpenSubscriptions(u)) - 1
    BY <1>3, <2>1, FS_RemoveElement
  <2>3. Cardinality(OpenSubscriptions(u) \ {key}) \in Nat
    BY <2>2, FS_CardinalityType
  <2> QED
    BY <1>3, <2>2, <2>3
<1>5. /\ total_subscriptions \in [Users -> Counter]
      /\ Cardinality(OpenSubscriptions(u)) \in Nat
  BY OpenSubscriptionsFinite DEF BillingTypeOK
<1>6. ASSUME NEW w \in Users
      PROVE  total_subscriptions'[w] = Cardinality(OpenSubscriptions(w)')
  <2>1. CASE w = u
    BY <1>1, <1>4, <1>5, <2>1 DEF WalletCounterExact
  <2>2. CASE w # u
    BY <1>1, <1>3, <1>5, <2>2 DEF WalletCounterExact
  <2> QED
    BY <2>1, <2>2
<1> QED
  BY <1>6 DEF WalletCounterExact

LEMMA CounterStep ==
  ASSUME BillingTypeOK, WalletCounterExact, [BillingNext]_svars
  PROVE  WalletCounterExact'
<1>1. CASE UNCHANGED <<subscriptions, total_subscriptions>>
  BY <1>1, SameKeysSameCounts
<1>2. CASE UNCHANGED svars \/ UNCHANGED billingVars
  BY <1>1, <1>2 DEF svars, billingVars, accountVars, counterVars
<1>3. ASSUME BookkeepingNext PROVE WalletCounterExact'
  <2>1. ASSUME NEW bps \in FeeRates, InitializeProtocol(bps) PROVE WalletCounterExact'
    BY <1>1, <2>1 DEF InitializeProtocol, accountVars, counterVars
  <2>2. ASSUME NEW bps \in FeeRates, UpdateProtocolFee(bps) PROVE WalletCounterExact'
    BY <1>1, <2>2 DEF UpdateProtocolFee, accountVars, counterVars
  <2>3. ASSUME NEW m \in Merchants, NEW plan_id \in PlanIds, NEW fee \in Fees,
               NEW interval \in Intervals, RegisterMerchant(m, plan_id, fee, interval)
        PROVE  WalletCounterExact'
    BY <1>1, <2>3 DEF RegisterMerchant, counterVars
  <2>4. ASSUME NEW u \in Users, NEW plan \in PlanKeys, NEW token \in SessionTokens,
               SubscribeWithWallet(u, plan, token)
        PROVE  WalletCounterExact'
    BY <2>4, SubscribeCounts
  <2>5. ASSUME NEW u \in Users, NEW m \in Merchants, NEW plan \in PlanKeys,
               CancelSubscriptionWallet(u, m, plan)
        PROVE  WalletCounterExact'
    BY <2>5, CancelCounts
  <2>6. CASE ClockAdvances
    BY <1>1, <2>6 DEF ClockAdvances, accountVars, counterVars
  <2> QED
    BY <1>3, <2>1, <2>2, <2>3, <2>4, <2>5, <2>6 DEF BookkeepingNext
<1>4. ASSUME NEW u \in Users, NEW m \in Merchants, ExecutePaymentFromWallet(u, m)
      PROVE  WalletCounterExact'
  <2>1. /\ DOMAIN subscriptions' = DOMAIN subscriptions
        /\ total_subscriptions' = total_subscriptions
    BY <1>4 DEF ExecutePaymentFromWallet, PaymentDue, RecordCharge, WriteAccount
  <2> QED
    BY <2>1, SameKeysSameCounts
<1>5. CASE PayeeNext
  BY <1>1, <1>5, PayInLeavesBilling DEF PayInElsewhere, accountVars, counterVars
<1> QED
  BY <1>2, <1>3, <1>4, <1>5 DEF BillingNext

LEMMA NothingCountedAtFirst ==
  ASSUME BillingInit
  PROVE  WalletCounterExact
<1>1. \A u \in Users : OpenSubscriptions(u) = {}
  BY DEF BillingInit, OpenSubscriptions
<1> QED
  BY <1>1, FS_EmptySet DEF BillingInit, WalletCounterExact

\* A wallet's counter is the number of its open subscriptions, for any number
\* of users and merchants and any sequence of subscribing and cancelling.
THEOREM WalletsCountTheirSubscriptions == BillingSpec => []WalletCounterExact
<1>1. SubscriptionsInit => WalletCounterExact
  BY NothingCountedAtFirst DEF SubscriptionsInit
<1>2. BillingTypeOK /\ WalletCounterExact /\ [BillingNext]_svars => WalletCounterExact'
  BY CounterStep
<1> QED
  BY <1>1, <1>2, BillingTypeCorrectness, PTL DEF BillingSpec, svars

-----------------------------------------------------------------------------
(* The plans' subscriber counters.                                         *)

PlanCounts == [plan \in DOMAIN merchant_plans |-> merchant_plans[plan].total_subscribers]

Counted == Total(PlanCounts, U32)

Opened == Cardinality(DOMAIN subscriptions)

LEMMA PlanCountsTallied ==
  ASSUME BillingTypeOK
  PROVE  /\ IsFiniteSet(DOMAIN merchant_plans)
         /\ PlanCounts \in Tallies(DOMAIN merchant_plans, U32)
         /\ U32 \in Nat
         /\ Counted \in Nat
<1>1. IsFiniteSet(PlanKeys)
  BY BillingAssumption, FS_Product DEF PlanKeys
<1>2. IsFiniteSet(DOMAIN merchant_plans)
  BY <1>1, FS_Subset DEF BillingTypeOK
<1>3. PlanCounts \in Tallies(DOMAIN merchant_plans, U32)
  BY BillingScales DEF PlanCounts, Tallies, BillingTypeOK, MerchantPlan, Counter
<1>4. U32 \in Nat
  BY BillingScales
<1>5. Counted \in Nat
  BY <1>2, <1>3, <1>4, TotalIsNat DEF Counted
<1> QED
  BY <1>2, <1>3, <1>4, <1>5

\* The open subscriptions are finitely many.
LEMMA OpenedFinite ==
  ASSUME BillingTypeOK
  PROVE  IsFiniteSet(DOMAIN subscriptions) /\ Opened \in Nat
<1>1. IsFiniteSet(SubscriptionKeys)
  BY BillingScales, FS_Product DEF SubscriptionKeys
<1>2. IsFiniteSet(DOMAIN subscriptions)
  BY <1>1, FS_Subset DEF BillingTypeOK
<1> QED
  BY <1>2, FS_CardinalityType DEF Opened

\* Recounting one plan changes the sum by the difference.
LEMMA RecountChangesSum ==
  ASSUME BillingTypeOK, NEW plan \in DOMAIN merchant_plans, NEW n \in Counter,
         merchant_plans' = AddSubscribers(plan, n)
  PROVE  Counted' = Counted + (n - merchant_plans[plan].total_subscribers)
<1> DEFINE S == DOMAIN merchant_plans
           f == PlanCounts
<1>1. \A p \in S : merchant_plans[p] \in MerchantPlan
  BY DEF BillingTypeOK
<1>2. /\ DOMAIN merchant_plans' = S
      /\ \A p \in S :
           merchant_plans'[p].total_subscribers =
             IF p = plan THEN n ELSE merchant_plans[p].total_subscribers
  BY <1>1 DEF AddSubscribers, WriteAccount, MerchantPlan
<1>3. PlanCounts' = [f EXCEPT ![plan] = n]
  BY <1>2 DEF PlanCounts
<1>4. f[plan] = merchant_plans[plan].total_subscribers
  BY DEF PlanCounts
<1>5. /\ IsFiniteSet(S) /\ f \in Tallies(S, U32) /\ U32 \in Nat /\ plan \in S
      /\ n \in 0 .. U32
  BY PlanCountsTallied DEF Counter
<1> HIDE DEF S, f
<1>6. Total([f EXCEPT ![plan] = n], U32) = Total(f, U32) + (n - f[plan])
  BY <1>5, TotalUpdate
<1> QED
  BY <1>3, <1>4, <1>6 DEF Counted, f

\* A new plan counts nobody.
LEMMA RegisterCountsNone ==
  ASSUME NEW m \in Merchants, NEW plan_id \in PlanIds, NEW fee, NEW interval,
         RegisterMerchant(m, plan_id, fee, interval)
  PROVE  Counted' = Counted
<1> DEFINE key == <<m, plan_id>>
<1>1. /\ key \notin DOMAIN merchant_plans
      /\ DOMAIN merchant_plans' = (DOMAIN merchant_plans) \cup {key}
      /\ merchant_plans'[key].total_subscribers = 0
      /\ \A p \in DOMAIN merchant_plans : merchant_plans'[p] = merchant_plans[p]
  BY DEF RegisterMerchant, WriteAccount
<1> HIDE DEF key
<1>2. Units(PlanCounts', U32) = Units(PlanCounts, U32)
  <2>1. /\ DOMAIN PlanCounts' = DOMAIN PlanCounts \cup {key}
        /\ PlanCounts'[key] = 0
        /\ \A p \in DOMAIN PlanCounts : PlanCounts'[p] = PlanCounts[p]
    BY <1>1 DEF PlanCounts
  <2> QED
    BY <2>1 DEF Units
<1> QED
  BY <1>2 DEF Counted, Total

LEMMA SubscribeCovers ==
  ASSUME BillingTypeOK, PlanCountersCover, NEW u \in Users, NEW plan \in PlanKeys,
         NEW token \in SessionTokens, SubscribeWithWallet(u, plan, token)
  PROVE  PlanCountersCover'
<1> DEFINE key == <<u, plan[1]>>
           c == merchant_plans[plan].total_subscribers
           n == c + 1
<1>1. /\ key \notin DOMAIN subscriptions
      /\ DOMAIN subscriptions' = (DOMAIN subscriptions) \cup {key}
      /\ plan \in DOMAIN merchant_plans
      /\ n \in Counter
      /\ merchant_plans' = AddSubscribers(plan, n)
  BY DEF SubscribeWithWallet, WriteAccount
<1>2. c \in Nat
  BY <1>1, BillingScales DEF BillingTypeOK, MerchantPlan, Counter
<1>3. n - c = 1
  BY <1>2
<1> HIDE DEF key, n
<1>4. Counted' = Counted + (n - c)
  BY <1>1, RecountChangesSum
<1>5. Opened' = Opened + 1
  BY <1>1, OpenedFinite, FS_AddElement DEF Opened
<1> QED
  BY <1>3, <1>4, <1>5, OpenedFinite, PlanCountsTallied
     DEF PlanCountersCover, Counted, Opened, PlanCounts

\* A cancellation closes one subscription and lowers the sum by one at most.
LEMMA CancelCovers ==
  ASSUME BillingTypeOK, PlanCountersCover, NEW u \in Users, NEW m \in Merchants,
         NEW plan \in PlanKeys, CancelSubscriptionWallet(u, m, plan)
  PROVE  PlanCountersCover'
<1> DEFINE c == merchant_plans[plan].total_subscribers
           n == IF c > 0 THEN c - 1 ELSE 0
<1>1. /\ <<u, m>> \in DOMAIN subscriptions
      /\ DOMAIN subscriptions' = (DOMAIN subscriptions) \ {<<u, m>>}
      /\ plan \in DOMAIN merchant_plans
      /\ merchant_plans' = AddSubscribers(plan, n)
  BY DEF CancelSubscriptionWallet, CloseAccount, Restrict
<1>2. c \in Counter /\ U32 \in Nat \ {0}
  BY <1>1, BillingScales DEF BillingTypeOK, MerchantPlan
<1>3. n \in Counter /\ n - c >= 0 - 1 /\ n \in Int /\ c \in Int
  BY <1>2 DEF Counter
<1> HIDE DEF n
<1>4. Counted' = Counted + (n - c)
  BY <1>1, <1>3, RecountChangesSum
<1>5. Opened' = Opened - 1
  BY <1>1, OpenedFinite, FS_RemoveElement DEF Opened
<1> HIDE DEF c
<1> QED
  BY <1>3, <1>4, <1>5, OpenedFinite, PlanCountsTallied
     DEF PlanCountersCover, Counted, Opened, PlanCounts

LEMMA QuietCovers ==
  ASSUME PlanCountersCover, Counted' = Counted,
         DOMAIN subscriptions' = DOMAIN subscriptions
  PROVE  PlanCountersCover'
  BY DEF PlanCountersCover, Counted, PlanCounts

LEMMA SamePlansSameSum ==
  ASSUME UNCHANGED merchant_plans
  PROVE  Counted' = Counted
  BY DEF Counted, PlanCounts

LEMMA CoverStep ==
  ASSUME BillingTypeOK, PlanCountersCover, [BillingNext]_svars
  PROVE  PlanCountersCover'
<1>1. CASE UNCHANGED <<subscriptions, merchant_plans>>
  BY <1>1, QuietCovers, SamePlansSameSum
<1>2. CASE UNCHANGED svars \/ UNCHANGED billingVars
  BY <1>1, <1>2 DEF svars, billingVars, accountVars
<1>3. ASSUME BookkeepingNext PROVE PlanCountersCover'
  <2>1. ASSUME NEW bps \in FeeRates, InitializeProtocol(bps) PROVE PlanCountersCover'
    BY <1>1, <2>1 DEF InitializeProtocol, accountVars
  <2>2. ASSUME NEW bps \in FeeRates, UpdateProtocolFee(bps) PROVE PlanCountersCover'
    BY <1>1, <2>2 DEF UpdateProtocolFee, accountVars
  <2>3. ASSUME NEW m \in Merchants, NEW plan_id \in PlanIds, NEW fee \in Fees,
               NEW interval \in Intervals, RegisterMerchant(m, plan_id, fee, interval)
        PROVE  PlanCountersCover'
    <3>1. subscriptions' = subscriptions
      BY <2>3 DEF RegisterMerchant
    <3> QED
      BY <2>3, <3>1, RegisterCountsNone, QuietCovers
  <2>4. ASSUME NEW u \in Users, NEW plan \in PlanKeys, NEW token \in SessionTokens,
               SubscribeWithWallet(u, plan, token)
        PROVE  PlanCountersCover'
    BY <2>4, SubscribeCovers
  <2>5. ASSUME NEW u \in Users, NEW m \in Merchants, NEW plan \in PlanKeys,
               CancelSubscriptionWallet(u, m, plan)
        PROVE  PlanCountersCover'
    BY <2>5, CancelCovers
  <2>6. CASE ClockAdvances
    BY <1>1, <2>6 DEF ClockAdvances, accountVars
  <2> QED
    BY <1>3, <2>1, <2>2, <2>3, <2>4, <2>5, <2>6 DEF BookkeepingNext
<1>4. ASSUME NEW u \in Users, NEW m \in Merchants, ExecutePaymentFromWallet(u, m)
      PROVE  PlanCountersCover'
  <2>1. /\ DOMAIN subscriptions' = DOMAIN subscriptions
        /\ UNCHANGED merchant_plans
    BY <1>4 DEF ExecutePaymentFromWallet, PaymentDue, RecordCharge, WriteAccount
  <2> QED
    BY <2>1, QuietCovers, SamePlansSameSum
<1>5. CASE PayeeNext
  BY <1>1, <1>5, PayInLeavesBilling DEF PayInElsewhere, accountVars
<1> QED
  BY <1>2, <1>3, <1>4, <1>5 DEF BillingNext

LEMMA NothingCoveredAtFirst ==
  ASSUME BillingInit
  PROVE  PlanCountersCover
<1>1. /\ DOMAIN subscriptions = {}
      /\ PlanCounts = [plan \in {} |-> 0]
  BY DEF BillingInit, PlanCounts
<1>2. Cardinality(DOMAIN subscriptions) = 0
  BY <1>1, FS_EmptySet
<1>3. Counted = 0
  BY <1>1, BillingScales, TotalOfZero DEF Counted
<1> QED
  BY <1>2, <1>3 DEF PlanCountersCover, Counted, PlanCounts

\* The plans together count at least the open subscriptions, whatever plan each
\* cancellation names.
THEOREM PlansCountAtLeast == BillingSpec => []PlanCountersCover
<1>1. SubscriptionsInit => PlanCountersCover
  BY NothingCoveredAtFirst DEF SubscriptionsInit
<1>2. BillingTypeOK /\ PlanCountersCover /\ [BillingNext]_svars => PlanCountersCover'
  BY CoverStep
<1> QED
  BY <1>1, <1>2, BillingTypeCorrectness, PTL DEF BillingSpec, svars

=============================================================================
