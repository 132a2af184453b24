------------------------------ MODULE Mandates -------------------------------
(***************************************************************************)
(* What the program promises about recurring charges.  A payer signs a     *)
(* mandate with a payee: a fee, an interval and the time it begins.  From  *)
(* then on the fee is collected at most once for every interval that has   *)
(* passed, a revoked mandate is not collected from, and payers spend       *)
(* nothing else.  Plans, session tokens, protocol rates and the way a      *)
(* charge is asked for are not the payer's concern.                        *)
(***************************************************************************)
EXTENDS Integers

CONSTANTS Payers, Payees,
          Fees, Intervals   \* the terms that may be signed

VARIABLES
  mandates,   \* <<payer, payee>> -> fee, interval, begin and charges so far
  spent,      \* what each payer has spent
  now

vars == <<mandates, spent, now>>

Init ==
  /\ mandates = [key \in {} |-> 0]
  /\ spent = [u \in Payers |-> 0]
  /\ now = 0

Sign(u, m, mandate) ==
  /\ <<u, m>> \notin DOMAIN mandates
  /\ mandate.fee > 0
  /\ mandate.interval > 0
  /\ mandate.since = now
  /\ mandate.charges = 0
  /\ mandates' = [key \in (DOMAIN mandates) \cup {<<u, m>>} |->
                    IF key = <<u, m>> THEN mandate ELSE mandates[key]]
  /\ UNCHANGED <<spent, now>>

\* One charge; with it there have been no more charges than intervals.
Collect(u, m) ==
  LET mandate == mandates[<<u, m>>]
      charged == [mandate EXCEPT !.charges = @ + 1]
  IN /\ <<u, m>> \in DOMAIN mandates
     /\ charged.charges * mandate.interval <= now - mandate.since
     /\ mandates' = [mandates EXCEPT ![<<u, m>>] = charged]
     /\ spent' = [spent EXCEPT ![u] = @ + mandate.fee]
     /\ UNCHANGED now

Revoke(u, m) ==
  /\ <<u, m>> \in DOMAIN mandates
  /\ mandates' = [key \in (DOMAIN mandates) \ {<<u, m>>} |-> mandates[key]]
  /\ UNCHANGED <<spent, now>>

Tick ==
  /\ now' = now + 1
  /\ UNCHANGED <<mandates, spent>>

\* The mandates that can begin at this time.
Offers ==
  [fee : Fees, interval : Intervals, since : {now}, charges : {0}]

Next ==
  \/ \E u \in Payers, m \in Payees, mandate \in Offers :
       Sign(u, m, mandate)
  \/ \E u \in Payers, m \in Payees : Collect(u, m) \/ Revoke(u, m)
  \/ Tick

Spec == Init /\ [][Next]_vars

=============================================================================
