----------------------------- MODULE SharePool -------------------------------
(***************************************************************************)
(* What the yield vault promises its members: shares of one reserve,       *)
(* bought at no less than what a share is worth, and sold for exactly what *)
(* they are worth in whole tokens, by their holder only.  A manager may    *)
(* put the reserve to work elsewhere, unless the pool is frozen, and       *)
(* touches no shares.  Counters, flags, lending and prices are not the     *)
(* members' concern.                                                       *)
(***************************************************************************)
EXTENDS Tally

CONSTANTS Members,
          Limit     \* what a member can have of tokens or shares

VARIABLES
  held,      \* the tokens each member can pay with
  shares,    \* the shares each member has
  reserve,   \* the tokens that back them
  frozen

vars == <<held, shares, reserve, frozen>>

Init ==
  /\ held = [u \in Members |-> 0]
  /\ shares = [u \in Members |-> 0]
  /\ reserve = 0
  /\ frozen = FALSE

Issued == Total(shares, Limit)

\* No more shares than the tokens are worth; one for one where none has a price.
MayIssue(n, tokens) ==
  IF Issued = 0 \/ reserve = 0
  THEN n = tokens
  ELSE n * reserve <= tokens * Issued

Buy(u, tokens) ==
  /\ held' = [held EXCEPT ![u] = @ - tokens]
  /\ reserve' = reserve + tokens
  /\ \E n \in 0 .. Limit :
       /\ MayIssue(n, tokens)
       /\ shares' = [shares EXCEPT ![u] = @ + n]
  /\ UNCHANGED frozen

Sell(u, n) ==
  LET tokens == (n * reserve) \div Issued
  IN /\ shares' = [shares EXCEPT ![u] = @ - n]
     /\ held' = [held EXCEPT ![u] = @ + tokens]
     /\ reserve' = reserve - tokens
     /\ UNCHANGED frozen

Manage ==
  /\ ~frozen
  /\ reserve' \in 0 .. Limit
  /\ UNCHANGED <<held, shares, frozen>>

Freeze == frozen' \in BOOLEAN /\ UNCHANGED <<held, shares, reserve>>

\* What members do with their tokens outside the pool.
Elsewhere ==
  /\ held' \in [Members -> 0 .. Limit]
  /\ UNCHANGED <<shares, reserve, frozen>>

Next ==
  \/ \E u \in Members : \E tokens \in 1 .. held[u] : Buy(u, tokens)
  \/ \E u \in Members : \E n \in 1 .. shares[u] : Sell(u, n)
  \/ Manage
  \/ Freeze
  \/ Elsewhere

Spec == Init /\ [][Next]_vars

=============================================================================
