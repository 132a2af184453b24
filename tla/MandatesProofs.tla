---------------------------- MODULE MandatesProofs ----------------------------
(***************************************************************************)
(* Billing implements the mandates: every step of the accounts, counters   *)
(* and clock is a signature, a charge, a revocation or a tick of the       *)
(* abstract specification, or changes nothing in it.                       *)
(***************************************************************************)
EXTENDS SubscriptionsProofs

\* What the refinement maps the accounts to.
Signed == [key \in DOMAIN subscriptions |-> MandateOf(key)]

\* Plans are registered on the terms the merchants offer.
PlansOffered ==
  \A plan \in DOMAIN merchant_plans :
    /\ merchant_plans[plan].fee_amount \in Fees
    /\ merchant_plans[plan].payment_interval \in Intervals

MandateInv == BillingTypeOK /\ BillingInv /\ PlansOffered

\* No step but a registration brings in terms.
LEMMA OldTermsStayOffered ==
  ASSUME PlansOffered, PlansKept, DOMAIN merchant_plans' \subseteq DOMAIN merchant_plans
  PROVE  PlansOffered'
  BY DEF PlansOffered, PlansKept

LEMMA OfferStep ==
  ASSUME BillingTypeOK, PlansOffered, [BillingNext]_svars
  PROVE  PlansOffered'
<1>1. PlansKept
  BY StepKeepsHistory DEF History
<1>2. CASE DOMAIN merchant_plans' \subseteq DOMAIN merchant_plans
  BY <1>1, <1>2, OldTermsStayOffered
<1>3. CASE UNCHANGED svars \/ UNCHANGED billingVars
  BY <1>2, <1>3 DEF svars, billingVars, accountVars
<1>4. ASSUME BookkeepingNext PROVE PlansOffered'
  <2>1. ASSUME NEW m \in Merchants, NEW plan_id \in PlanIds, NEW fee \in Fees,
               NEW interval \in Intervals, RegisterMerchant(m, plan_id, fee, interval)
        PROVE  PlansOffered'
    BY <2>1 DEF RegisterMerchant, WriteAccount, PlansOffered
  <2>2. ASSUME NEW u \in Users, NEW plan \in PlanKeys, NEW token \in SessionTokens,
               SubscribeWithWallet(u, plan, token)
        PROVE  PlansOffered'
    BY <1>2, <2>2 DEF SubscribeWithWallet, AddSubscribers, WriteAccount
  <2>3. ASSUME NEW u \in Users, NEW m \in Merchants, NEW plan \in PlanKeys,
               CancelSubscriptionWallet(u, m, plan)
        PROVE  PlansOffered'
    BY <1>2, <2>3 DEF CancelSubscriptionWallet, AddSubscribers, WriteAccount
  <2>4. CASE UNCHANGED merchant_plans
    BY <1>2, <2>4
  <2> QED
    BY <1>4, <2>1, <2>2, <2>3, <2>4
       DEF BookkeepingNext, InitializeProtocol, UpdateProtocolFee, ClockAdvances, accountVars
<1>5. ASSUME NEW u \in Users, NEW m \in Merchants, ExecutePaymentFromWallet(u, m)
      PROVE  PlansOffered'
  BY <1>2, <1>5 DEF ExecutePaymentFromWallet
<1>6. CASE PayeeNext
  BY <1>2, <1>6, PayInLeavesBilling DEF PayInElsewhere, accountVars
<1> QED
  BY <1>3, <1>4, <1>5, <1>6 DEF BillingNext

LEMMA MandateInvariant == BillingSpec => []MandateInv
<1>1. SubscriptionsInit => PlansOffered
  BY DEF SubscriptionsInit, BillingInit, PlansOffered
<1>2. BillingTypeOK /\ PlansOffered /\ [BillingNext]_svars => PlansOffered'
  BY OfferStep
<1> QED
  BY <1>1, <1>2, BillingInvariant, PTL DEF BillingSpec, svars, MandateInv

-----------------------------------------------------------------------------
(* Steps and what they are of the mandates.                                *)

\* A subscription that keeps its plan, token and count keeps its mandate.
LEMMA MandateKept ==
  ASSUME BillingInv, History, NEW key \in DOMAIN subscriptions,
         subscriptions'[key] = subscriptions[key]
  PROVE  MandateOf(key)' = MandateOf(key)
<1>1. Consistent(key)
  BY DEF BillingInv
<1> QED
  BY <1>1 DEF Consistent, History, PlansKept, TrackersKept, MandateOf

LEMMA QuietMandates ==
  ASSUME BillingInv, History, UNCHANGED subscriptions
  PROVE  Signed' = Signed
<1>1. \A key \in DOMAIN subscriptions : MandateOf(key)' = MandateOf(key)
  BY MandateKept
<1> QED
  BY <1>1 DEF Signed

LEMMA SubscribeSigns ==
  ASSUME MandateInv, History, NEW u \in Users, NEW plan \in PlanKeys,
         NEW token \in SessionTokens, SubscribeWithWallet(u, plan, token)
  PROVE  \E m \in Merchants, mandate \in Biller!Offers : Biller!Sign(u, m, mandate)
<1> DEFINE key == <<u, plan[1]>>
           mandate == [fee |-> merchant_plans[plan].fee_amount,
                       interval |-> merchant_plans[plan].payment_interval,
                       since |-> current_time,
                       charges |-> 0]
<1>1. /\ plan \in DOMAIN merchant_plans
      /\ merchant_plans[plan] \in MerchantPlan
      /\ merchant_plans[plan].fee_amount \in Fees
      /\ merchant_plans[plan].payment_interval \in Intervals
      /\ plan[1] \in Merchants
      /\ <<plan[1], plan[2]>> = plan
  BY DEF SubscribeWithWallet, MandateInv, BillingTypeOK, PlansOffered, PlanKeys
<1>2. mandate \in Biller!Offers
  BY <1>1 DEF Biller!Offers
<1>3. /\ key \notin DOMAIN subscriptions
      /\ DOMAIN subscriptions' = (DOMAIN subscriptions) \cup {key}
      /\ subscriptions'[key] = NewSubscription(plan, token)
      /\ \A k \in DOMAIN subscriptions : subscriptions'[k] = subscriptions[k]
      /\ session_tokens'[token] = [subscription |-> key, timestamp |-> current_time]
      /\ UNCHANGED <<total_spent, current_time>>
  BY DEF SubscribeWithWallet, WriteAccount
<1>4. \A k \in DOMAIN subscriptions : MandateOf(k)' = MandateOf(k)
  BY <1>3, MandateKept DEF MandateInv
<1>5. MandateOf(key)' = mandate
  <2>1. /\ NewSubscription(plan, token).plan_id = plan[2]
        /\ NewSubscription(plan, token).session_token = token
        /\ NewSubscription(plan, token).payment_count = 0
    BY DEF NewSubscription
  <2>2. /\ merchant_plans'[plan].fee_amount = merchant_plans[plan].fee_amount
        /\ merchant_plans'[plan].payment_interval = merchant_plans[plan].payment_interval
    BY <1>1 DEF History, PlansKept
  <2>3. <<key[1], key[2]>> = key /\ <<key[2], plan[2]>> = plan
    BY <1>1
  <2> QED
    BY <1>3, <2>1, <2>2, <2>3 DEF MandateOf
<1>6. /\ mandate.fee > 0 /\ mandate.interval > 0
      /\ mandate.since = current_time /\ mandate.charges = 0
  BY <1>1, BillingScales DEF MerchantPlan
<1>7. /\ DOMAIN Signed = DOMAIN subscriptions
      /\ Signed' = [k \in (DOMAIN Signed) \cup {key} |->
                      IF k = key THEN mandate ELSE Signed[k]]
  BY <1>3, <1>4, <1>5 DEF Signed
<1> HIDE DEF mandate
<1>8. Biller!Sign(u, plan[1], mandate)
  BY <1>3, <1>6, <1>7 DEF Biller!Sign, Signed
<1> QED
  BY <1>1, <1>2, <1>8

LEMMA ChargeCollects ==
  ASSUME MandateInv, History, NEW u \in Users, NEW m \in Merchants,
         PaymentDue(u, m), RecordCharge(u, m),
         UNCHANGED <<merchant_plans, session_tokens, current_time>>
  PROVE  Biller!Collect(u, m)
<1> DEFINE key == <<u, m>>
           s == subscriptions[key]
           mandate == MandateOf(key)
           charged == [mandate EXCEPT !.charges = @ + 1]
<1>1. /\ key \in DOMAIN subscriptions
      /\ s \in SubscriptionState
      /\ Consistent(key)
  BY DEF PaymentDue, MandateInv, BillingTypeOK, BillingInv
<1>2. /\ subscriptions' = WriteAccount(subscriptions, key, ChargedOnce(s))
      /\ total_spent' = [total_spent EXCEPT ![u] = @ + s.fee_amount]
  BY DEF RecordCharge
<1>3. /\ DOMAIN subscriptions' = DOMAIN subscriptions
      /\ subscriptions'[key] = ChargedOnce(s)
      /\ \A k \in DOMAIN subscriptions : k # key => subscriptions'[k] = subscriptions[k]
  BY <1>1, <1>2 DEF WriteAccount
<1>4. /\ ChargedOnce(s).plan_id = s.plan_id
      /\ ChargedOnce(s).session_token = s.session_token
      /\ ChargedOnce(s).payment_count = s.payment_count + 1
      /\ ChargedOnce(s).last_payment_timestamp = current_time
      /\ ChargedOnce(s).payment_interval = s.payment_interval
  BY <1>1 DEF ChargedOnce, SubscriptionState
<1>5. /\ mandate.fee = s.fee_amount
      /\ mandate.interval = s.payment_interval
      /\ mandate.since = session_tokens[s.session_token].timestamp
      /\ mandate.charges = s.payment_count
      /\ mandate = [fee |-> mandate.fee, interval |-> mandate.interval,
                    since |-> mandate.since, charges |-> mandate.charges]
  BY <1>1 DEF MandateOf, Consistent
<1>6. MandateOf(key)' = charged
  BY <1>3, <1>4 DEF MandateOf
<1>7. \A k \in DOMAIN subscriptions : k # key => MandateOf(k)' = MandateOf(k)
  BY <1>3, MandateKept DEF MandateInv
<1>8. charged.charges * mandate.interval <= current_time - mandate.since
  <2>1. Consistent(key)'
    BY <1>1, ChargeConsistent DEF MandateInv
  <2>2. (s.payment_count + 1) * s.payment_interval
          <= current_time - session_tokens[s.session_token].timestamp
    BY <1>3, <1>4, <2>1 DEF Consistent
  <2>3. charged.charges = s.payment_count + 1
    BY <1>5
  <2> QED
    BY <1>5, <2>2, <2>3
<1>9. /\ Signed[key] = mandate
      /\ DOMAIN Signed = DOMAIN subscriptions
      /\ Signed' = [Signed EXCEPT ![key] = charged]
  BY <1>1, <1>3, <1>6, <1>7 DEF Signed
<1>10. total_spent' = [total_spent EXCEPT ![u] = @ + mandate.fee]
  BY <1>2, <1>5
<1> HIDE DEF s, mandate
<1> QED
  BY <1>1, <1>8, <1>9, <1>10 DEF Biller!Collect, Signed

LEMMA CancelRevokes ==
  ASSUME MandateInv, History, NEW u \in Users, NEW m \in Merchants, NEW plan \in PlanKeys,
         CancelSubscriptionWallet(u, m, plan)
  PROVE  Biller!Revoke(u, m)
<1>1. /\ <<u, m>> \in DOMAIN subscriptions
      /\ DOMAIN subscriptions' = (DOMAIN subscriptions) \ {<<u, m>>}
      /\ \A k \in DOMAIN subscriptions' : subscriptions'[k] = subscriptions[k]
      /\ UNCHANGED <<total_spent, current_time>>
  BY DEF CancelSubscriptionWallet, CloseAccount, Restrict
<1>2. \A k \in DOMAIN subscriptions' : MandateOf(k)' = MandateOf(k)
  BY <1>1, MandateKept DEF MandateInv
<1>3. /\ DOMAIN Signed = DOMAIN subscriptions
      /\ Signed' = [k \in (DOMAIN Signed) \ {<<u, m>>} |-> Signed[k]]
  BY <1>1, <1>2 DEF Signed
<1> QED
  BY <1>1, <1>3 DEF Biller!Revoke, Signed

LEMMA MandateStep ==
  ASSUME MandateInv, [BillingNext]_svars
  PROVE  [Biller!Next]_(Biller!vars)
<1>1. History
  BY StepKeepsHistory DEF MandateInv
<1>2. ASSUME UNCHANGED <<subscriptions, total_spent, current_time>>
      PROVE  [Biller!Next]_(Biller!vars)
  <2>1. Signed' = Signed
    BY <1>1, <1>2, QuietMandates DEF MandateInv
  <2> QED
    BY <1>2, <2>1 DEF Biller!vars, Signed
<1>3. CASE UNCHANGED svars \/ UNCHANGED billingVars
  BY <1>2, <1>3 DEF svars, billingVars, accountVars, counterVars
<1>4. ASSUME BookkeepingNext PROVE [Biller!Next]_(Biller!vars)
  <2>1. CASE \E bps \in FeeRates : InitializeProtocol(bps) \/ UpdateProtocolFee(bps)
    BY <1>2, <2>1 DEF InitializeProtocol, UpdateProtocolFee, accountVars, counterVars
  <2>2. ASSUME NEW m \in Merchants, NEW plan_id \in PlanIds, NEW fee \in Fees,
               NEW interval \in Intervals, RegisterMerchant(m, plan_id, fee, interval)
        PROVE  [Biller!Next]_(Biller!vars)
    BY <1>2, <2>2 DEF RegisterMerchant, counterVars
  <2>3. ASSUME NEW u \in Users, NEW plan \in PlanKeys, NEW token \in SessionTokens,
               SubscribeWithWallet(u, plan, token)
        PROVE  [Biller!Next]_(Biller!vars)
    BY <1>1, <2>3, SubscribeSigns DEF Biller!Next
  <2>4. ASSUME NEW u \in Users, NEW m \in Merchants, NEW plan \in PlanKeys,
               CancelSubscriptionWallet(u, m, plan)
        PROVE  [Biller!Next]_(Biller!vars)
    BY <1>1, <2>4, CancelRevokes DEF Biller!Next
  <2>5. ASSUME ClockAdvances PROVE [Biller!Next]_(Biller!vars)
    <3>1. Signed' = Signed /\ total_spent' = total_spent /\ current_time' = current_time + 1
      BY <1>1, <2>5, QuietMandates DEF ClockAdvances, accountVars, counterVars, MandateInv
    <3> QED
      BY <3>1 DEF Biller!Next, Biller!Tick, Signed
  <2> QED
    BY <1>4, <2>1, <2>2, <2>3, <2>4, <2>5 DEF BookkeepingNext
<1>5. ASSUME NEW u \in Users, NEW m \in Merchants, ExecutePaymentFromWallet(u, m)
      PROVE  [Biller!Next]_(Biller!vars)
  <2>1. Biller!Collect(u, m)
    BY <1>1, <1>5, ChargeCollects DEF ExecutePaymentFromWallet
  <2> QED
    BY <2>1 DEF Biller!Next
<1>6. CASE PayeeNext
  BY <1>2, <1>6, PayInLeavesBilling DEF PayInElsewhere, accountVars, counterVars
<1> QED
  BY <1>3, <1>4, <1>5, <1>6 DEF BillingNext

\* Billing keeps its mandates: subscribers spend what they signed and no more
\* often than they signed, for any plans, tokens, rates and order of calls.
THEOREM BillingImplementsMandates == BillingSpec => KeepsMandates
<1>1. SubscriptionsInit => Biller!Init
  BY DEF SubscriptionsInit, BillingInit, Biller!Init
<1>2. MandateInv /\ [BillingNext]_svars => [Biller!Next]_(Biller!vars)
  BY MandateStep
<1> QED
  BY <1>1, <1>2, MandateInvariant, PTL DEF BillingSpec, svars, KeepsMandates, Biller!Spec
=============================================================================
