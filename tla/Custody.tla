------------------------------ MODULE Custody --------------------------------
(***************************************************************************)
(* What the program promises about custody, whatever its vault and its     *)
(* schedule do: every token an owner has handed over is in some wallet, in *)
(* the vault's principal, or paid to a merchant with a bounded part for    *)
(* the treasury, who may pay it in again, and moves along these edges      *)
(* only.  Every edge stays within one mint.                                *)
(***************************************************************************)
EXTENDS Integers

CONSTANTS Mints, Users, Merchants,
          OwnerMint,   \* the mint of each owner's accounts
          PayeeMint,   \* the mint each merchant is paid in
          VaultMint,   \* the mint of the vault
          Deposit      \* what each owner starts with

VARIABLES
  owned,       \* what each owner holds outside the program
  held,        \* what each wallet holds
  principal,   \* what the wallets have put into the vault and not taken back
  received,    \* what each merchant was paid and has not paid in
  treasury     \* what the protocol was paid and has not paid in, in each mint

vars == <<owned, held, principal, received, treasury>>

Init ==
  /\ owned = [u \in Users |-> Deposit]
  /\ held = [u \in Users |-> 0]
  /\ principal = 0
  /\ received = [m \in Merchants |-> 0]
  /\ treasury = [mint \in Mints |-> 0]

\* Any owner may pay into any wallet of the same mint.
PayIn(payer, u, n) ==
  /\ OwnerMint[payer] = OwnerMint[u]
  /\ owned' = [owned EXCEPT ![payer] = @ - n]
  /\ held' = [held EXCEPT ![u] = @ + n]
  /\ UNCHANGED <<principal, received, treasury>>

\* So may a merchant, and the treasury of that mint, from what they were paid.
MerchantPaysIn(m, u, n) ==
  /\ PayeeMint[m] = OwnerMint[u]
  /\ received' = [received EXCEPT ![m] = @ - n]
  /\ held' = [held EXCEPT ![u] = @ + n]
  /\ UNCHANGED <<owned, principal, treasury>>

TreasuryPaysIn(u, n) ==
  /\ treasury' = [treasury EXCEPT ![OwnerMint[u]] = @ - n]
  /\ held' = [held EXCEPT ![u] = @ + n]
  /\ UNCHANGED <<owned, principal, received>>

\* A wallet pays out to its own owner only.
PayOut(u, n) ==
  /\ held' = [held EXCEPT ![u] = @ - n]
  /\ owned' = [owned EXCEPT ![u] = @ + n]
  /\ UNCHANGED <<principal, received, treasury>>

Invest(u, n) ==
  /\ OwnerMint[u] = VaultMint
  /\ held' = [held EXCEPT ![u] = @ - n]
  /\ principal' = principal + n
  /\ UNCHANGED <<owned, received, treasury>>

Divest(u, n) ==
  /\ OwnerMint[u] = VaultMint
  /\ held' = [held EXCEPT ![u] = @ + n]
  /\ principal' = principal - n
  /\ UNCHANGED <<owned, received, treasury>>

\* A charge takes the fee from one wallet; at most a tenth is the protocol's.
Charge(u, m, fee, part) ==
  /\ OwnerMint[u] = PayeeMint[m]
  /\ fee > 0
  /\ 10 * part <= fee
  /\ held' = [held EXCEPT ![u] = @ - fee]
  /\ received' = [received EXCEPT ![m] = @ + (fee - part)]
  /\ treasury' = [treasury EXCEPT ![PayeeMint[m]] = @ + part]
  /\ UNCHANGED <<owned, principal>>

Next ==
  \/ \E payer, u \in Users : \E n \in 1 .. owned[payer] : PayIn(payer, u, n)
  \/ \E m \in Merchants, u \in Users : \E n \in 1 .. received[m] : MerchantPaysIn(m, u, n)
  \/ \E u \in Users : \E n \in 1 .. treasury[OwnerMint[u]] : TreasuryPaysIn(u, n)
  \/ \E u \in Users : \E n \in 1 .. held[u] : PayOut(u, n) \/ Invest(u, n)
  \/ \E u \in Users : \E n \in 1 .. principal : Divest(u, n)
  \/ \E u \in Users, m \in Merchants : \E fee \in 1 .. held[u] :
       \E part \in 0 .. fee : Charge(u, m, fee, part)

Spec == Init /\ [][Next]_vars

=============================================================================
