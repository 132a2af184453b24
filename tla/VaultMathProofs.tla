--------------------------- MODULE VaultMathProofs ---------------------------
(***************************************************************************)
(* What the share arithmetic of the program guarantees for every u64       *)
(* width: redemptions never exceed the vault, and rounding and the         *)
(* truncating cast only ever work against the wallet that is acting.       *)
(***************************************************************************)
EXTENDS VaultMath, TLAPS

\* Integer division: quotient, remainder and rounding.
LEMMA DivBounds ==
  ASSUME NEW a \in Nat, NEW b \in Nat \ {0}
  PROVE  /\ a \div b \in Nat
         /\ b * (a \div b) <= a
         /\ a < b * (a \div b) + b
  OBVIOUS

LEMMA DivAtMost ==
  ASSUME NEW a \in Nat, NEW b \in Nat \ {0}, NEW c \in Nat, a <= c * b
  PROVE  a \div b <= c
  BY DivBounds

\* c <= a / b when c * b <= a.
LEMMA DivAtLeast ==
  ASSUME NEW a \in Nat, NEW b \in Nat \ {0}, NEW c \in Nat, c * b <= a
  PROVE  c <= a \div b
<1> DEFINE q == a \div b
<1>1. /\ q \in Nat
      /\ a < b * q + b
  BY DivBounds
<1> HIDE DEF q
<1>2. c * b < b * (q + 1)
  BY <1>1
<1>3. ASSUME q + 1 <= c PROVE b * (q + 1) <= c * b
  BY <1>1, <1>3
<1> QED
  BY <1>1, <1>2, <1>3 DEF q

LEMMA MulMonotone ==
  ASSUME NEW a \in Nat, NEW b \in Nat, NEW c \in Nat, a <= b
  PROVE  a * c <= b * c
  OBVIOUS

\* The cast to u64 keeps a u64 and never makes a number larger.
LEMMA TruncateBounds ==
  ASSUME NEW n \in Nat
  PROVE  /\ Truncate(n) \in Amount
         /\ Truncate(n) <= n
         /\ n \in Amount => Truncate(n) = n
<1> DEFINE w == U64
<1>1. w \in Nat \ {0}
  BY ScaleAssumption
<1> HIDE DEF w
<1>2. /\ n % w \in 0 .. w - 1
      /\ n % w <= n
      /\ n < w => n % w = n
  BY <1>1
<1>3. Truncate(n) = n % w /\ Amount = 0 .. w - 1
  BY DEF Truncate, Amount, w
<1> QED
  BY <1>1, <1>2, <1>3

\* What is kept of a deposit for the wallet, and what is charged as a fee,
\* never exceeds the amount it is taken from.
LEMMA PartWithinWhole ==
  ASSUME NEW amount \in Amount, NEW bps \in 0 .. MaxBps
  PROVE  /\ calculate_buffer_amount(amount, bps) \in 0 .. amount
         /\ ProtocolFee(amount, bps) \in 0 .. amount
<1> DEFINE whole == amount * bps
           part == whole \div MaxBps
<1>1. /\ amount \in Nat
      /\ bps \in Nat
      /\ bps <= MaxBps
      /\ MaxBps \in Nat \ {0}
  BY ScaleAssumption DEF Amount, MaxBps
<1>2. whole \in Nat /\ whole <= amount * MaxBps
  <2> HIDE DEF MaxBps
  <2> QED
    BY <1>1
<1> HIDE DEF whole
<1>3. part \in Nat /\ part <= amount
  BY <1>1, <1>2, DivBounds, DivAtMost
<1> HIDE DEF part
<1>4. Truncate(part) \in 0 .. amount
  BY <1>1, <1>3, TruncateBounds, ScaleAssumption DEF Amount
<1> QED
  BY <1>4 DEF part, whole, calculate_buffer_amount, ProtocolFee

\* A deposit is credited at most its proportional share, whatever the cast
\* does: shares * value <= deposit * total.
LEMMA DepositRoundsForVault ==
  ASSUME NEW deposit \in Amount, NEW total \in Amount, NEW value \in Amount,
         total > 0
  PROVE  /\ calculate_shares_for_deposit(deposit, total, value) \in Amount
         /\ calculate_shares_for_deposit(deposit, total, value) * value
              <= deposit * total
<1> DEFINE q == (deposit * total) \div value
<1>0. deposit \in Nat /\ total \in Nat /\ value \in Nat
  BY ScaleAssumption DEF Amount
<1>1. CASE value = 0
  BY <1>0, <1>1 DEF calculate_shares_for_deposit
<1>2. CASE value > 0
  <2>1. deposit * total \in Nat /\ value \in Nat \ {0}
    BY <1>0, <1>2
  <2>2. q \in Nat /\ value * q <= deposit * total
    BY <2>1, DivBounds
  <2> HIDE DEF q
  <2>3. Truncate(q) \in Amount /\ Truncate(q) \in Nat /\ Truncate(q) <= q
    BY <2>2, TruncateBounds, ScaleAssumption DEF Amount
  <2>4. Truncate(q) * value <= q * value
    BY <1>0, <2>2, <2>3, MulMonotone
  <2>5. q * value = value * q
    BY <1>0, <2>2
  <2>6. Truncate(q) * value <= deposit * total
    BY <1>0, <2>1, <2>2, <2>3, <2>4, <2>5
  <2> QED
    BY <1>0, <1>2, <2>3, <2>6 DEF q, calculate_shares_for_deposit
<1> QED
  BY <1>0, <1>1, <1>2

\* Shares out of the issued ones are worth the rounded-down proportional part
\* of the vault, which the cast leaves intact, so a redemption can be paid.
LEMMA RedemptionWithinVault ==
  ASSUME NEW total \in Amount, NEW shares \in 0 .. total, NEW value \in Amount
  PROVE  /\ calculate_usdc_value_of_shares(shares, total, value) \in 0 .. value
         /\ total > 0 =>
              calculate_usdc_value_of_shares(shares, total, value)
                = (shares * value) \div total
<1> DEFINE q == (shares * value) \div total
<1>0. shares \in Nat /\ total \in Nat /\ value \in Nat
  BY ScaleAssumption DEF Amount
<1>1. CASE total = 0
  BY <1>0, <1>1 DEF calculate_usdc_value_of_shares
<1>2. CASE total > 0
  <2>1. /\ shares * value \in Nat
        /\ total \in Nat \ {0}
        /\ shares * value <= value * total
    BY <1>0, <1>2, MulMonotone
  <2>2. q \in Nat /\ q <= value
    BY <1>0, <2>1, DivBounds, DivAtMost
  <2> HIDE DEF q
  <2>3. Truncate(q) = q
    BY <1>0, <2>2, TruncateBounds, ScaleAssumption DEF Amount
  <2> QED
    BY <1>0, <1>2, <2>2, <2>3 DEF q, calculate_usdc_value_of_shares
<1> QED
  BY <1>0, <1>1, <1>2

\* A deposit never lowers what any other holding is worth.
LEMMA DepositPreservesOthers ==
  ASSUME NEW deposit \in Amount, NEW total \in Amount, NEW value \in Amount,
         total > 0, value + deposit \in Amount,
         NEW shares \in 0 .. total,
         NEW issued, issued = calculate_shares_for_deposit(deposit, total, value),
         total + issued \in Amount
  PROVE  calculate_usdc_value_of_shares(shares, total, value)
           <= calculate_usdc_value_of_shares(shares, total + issued, value + deposit)
<1> DEFINE before == (shares * value) \div total
           after == (shares * (value + deposit)) \div (total + issued)
<1>1. /\ deposit \in Nat /\ total \in Nat \ {0} /\ value \in Nat /\ shares \in Nat
      /\ issued \in Nat
      /\ issued * value <= deposit * total
  BY DepositRoundsForVault, ScaleAssumption DEF Amount
<1>2. /\ before \in Nat
      /\ before * total <= shares * value
  <2>1. shares * value \in Nat
    BY <1>1
  <2>2. before \in Nat /\ total * before <= shares * value
    BY <1>1, <2>1, DivBounds
  <2> HIDE DEF before
  <2> QED
    BY <1>1, <2>2
<1> HIDE DEF before
\* before * issued <= (shares * value / total) * issued <= shares * deposit
<1>3. before * issued <= shares * deposit
  <2>1. (before * total) * issued <= (shares * value) * issued
    BY <1>1, <1>2
  <2>2. (shares * value) * issued = shares * (issued * value)
    BY <1>1
  <2>3. shares * (issued * value) <= shares * (deposit * total)
    BY <1>1
  <2>4. (before * issued) * total <= (shares * deposit) * total
    BY <1>1, <1>2, <2>1, <2>2, <2>3
  <2>5. before * issued \in Nat /\ shares * deposit \in Nat
    BY <1>1, <1>2
  <2>6. ASSUME NEW x \in Nat, NEW y \in Nat, x * total <= y * total
        PROVE  x <= y
    BY <1>1, <2>6
  <2> QED
    BY <2>4, <2>5, <2>6
<1>4. before * (total + issued) <= shares * (value + deposit)
  BY <1>1, <1>2, <1>3
<1>5. before <= after
  <2>1. shares * (value + deposit) \in Nat /\ total + issued \in Nat \ {0}
    BY <1>1
  <2> QED
    BY <1>2, <1>4, <2>1, DivAtLeast
<1>6. shares \in 0 .. total + issued /\ total + issued > 0
  BY <1>1
<1>7. calculate_usdc_value_of_shares(shares, total, value) = before
  BY <1>1, RedemptionWithinVault DEF before
<1>8. calculate_usdc_value_of_shares(shares, total + issued, value + deposit) = after
  BY <1>6, RedemptionWithinVault
<1> QED
  BY <1>5, <1>7, <1>8

\* A redemption never lowers what any other holding is worth.
LEMMA RedemptionPreservesOthers ==
  ASSUME NEW total \in Amount, NEW value \in Amount,
         NEW redeemed \in 0 .. total, redeemed > 0,
         NEW shares \in 0 .. total - redeemed,
         NEW paid, paid = calculate_usdc_value_of_shares(redeemed, total, value)
  PROVE  calculate_usdc_value_of_shares(shares, total, value)
           <= calculate_usdc_value_of_shares(shares, total - redeemed, value - paid)
<1> DEFINE before == (shares * value) \div total
           after == (shares * (value - paid)) \div (total - redeemed)
<1>1. /\ total \in Nat \ {0} /\ value \in Nat /\ redeemed \in Nat /\ shares \in Nat
      /\ shares + redeemed <= total
      /\ total - redeemed \in Amount
      /\ shares \in 0 .. total
  BY ScaleAssumption DEF Amount
<1>2. /\ paid \in 0 .. value
      /\ paid = (redeemed * value) \div total
  BY <1>1, RedemptionWithinVault
<1>3. /\ paid \in Nat /\ value - paid \in Amount
      /\ paid * total <= redeemed * value
  <2>1. redeemed * value \in Nat
    BY <1>1
  <2>2. total * paid <= redeemed * value
    BY <1>1, <1>2, <2>1, DivBounds
  <2> QED
    BY <1>1, <1>2, <2>2, ScaleAssumption DEF Amount
<1>4. /\ before \in Nat
      /\ before * total <= shares * value
  <2>1. shares * value \in Nat
    BY <1>1
  <2>2. before \in Nat /\ total * before <= shares * value
    BY <1>1, <2>1, DivBounds
  <2> HIDE DEF before
  <2> QED
    BY <1>1, <2>2
<1> HIDE DEF before
<1>5. calculate_usdc_value_of_shares(shares, total, value) = before
  BY <1>1, RedemptionWithinVault DEF before
<1>6. CASE shares = 0
  <2>1. before = 0
    BY <1>1, <1>4, <1>6
  <2>2. calculate_usdc_value_of_shares(shares, total - redeemed, value - paid)
          \in 0 .. value - paid
    BY <1>1, <1>3, RedemptionWithinVault
  <2> QED
    BY <1>3, <1>5, <2>1, <2>2
<1>7. CASE shares > 0
  <2>1. total - redeemed \in Nat \ {0}
    BY <1>1, <1>7
  \* before * (total - redeemed) <= shares * (value - paid), scaled by total
  <2>2. (before * total) * (total - redeemed) <= (shares * value) * (total - redeemed)
    BY <1>1, <1>4, <2>1
  <2>3. shares * (paid * total) <= shares * (redeemed * value)
    BY <1>1, <1>3
  <2>4. (shares * value) * (total - redeemed)
          = shares * (value * total) - shares * (redeemed * value)
    BY <1>1
  <2>5. (shares * (value - paid)) * total
          = shares * (value * total) - shares * (paid * total)
    BY <1>1, <1>3
  <2>6. (before * (total - redeemed)) * total = (before * total) * (total - redeemed)
    BY <1>1, <1>4
  <2>7. (before * (total - redeemed)) * total <= (shares * (value - paid)) * total
    <3>1. /\ (before * total) * (total - redeemed) \in Int
          /\ shares * (value * total) \in Int
          /\ shares * (redeemed * value) \in Int
          /\ shares * (paid * total) \in Int
          /\ (shares * value) * (total - redeemed) \in Int
      BY <1>1, <1>3, <1>4
    <3> QED
      BY <2>2, <2>3, <2>4, <2>5, <2>6, <3>1
  <2>8. before * (total - redeemed) \in Nat /\ shares * (value - paid) \in Nat
    BY <1>1, <1>2, <1>3, <1>4, <2>1
  <2>9. ASSUME NEW x \in Nat, NEW y \in Nat, x * total <= y * total
        PROVE  x <= y
    BY <1>1, <2>9
  <2>10. before * (total - redeemed) <= shares * (value - paid)
    BY <2>7, <2>8, <2>9
  <2>11. before <= after
    BY <1>4, <2>1, <2>8, <2>10, DivAtLeast
  <2>12. shares \in 0 .. total - redeemed /\ total - redeemed > 0
    BY <1>1, <2>1
  <2>13. calculate_usdc_value_of_shares(shares, total - redeemed, value - paid) = after
    BY <1>1, <1>3, <2>12, RedemptionWithinVault
  <2> QED
    BY <1>5, <2>11, <2>13
<1> QED
  BY <1>1, <1>6, <1>7

-----------------------------------------------------------------------------
(* The buffer target and the lending position.                             *)

\* What one holding may gain when shares and value change together.  The other
\* holdings stay `others`, the price does not fall, so what the others are worth
\* does not either, and this one's rounded claim grows by no more than the value.
LEMMA OwnClaimBound ==
  ASSUME NEW total \in Nat, total > 0, NEW newTotal \in Nat, newTotal > 0,
         NEW value \in Nat, NEW newValue \in Nat,
         NEW others \in Nat, others <= total, others <= newTotal,
         value * newTotal <= newValue * total
  PROVE  ((newTotal - others) * newValue) \div newTotal
           <= ((total - others) * value) \div total + (newValue - value)
<1> DEFINE own == total - others
           newOwn == newTotal - others
           q == (own * value) \div total
           r == (newOwn * newValue) \div newTotal
           gain == r - (newValue - value)
<1>1. own \in Nat /\ newOwn \in Nat
  OBVIOUS
<1>2. own * value \in Nat /\ newOwn * newValue \in Nat
  <2> HIDE DEF own, newOwn
  <2> QED
    BY <1>1
<1>3. r \in Nat /\ newTotal * r <= newOwn * newValue
  <2> HIDE DEF own, newOwn
  <2> QED
    BY <1>2, DivBounds
<1>4. q \in Nat
  <2> HIDE DEF own, newOwn
  <2> QED
    BY <1>2, DivBounds
<1>5. newOwn * newValue = newTotal * newValue - others * newValue
  OBVIOUS
<1>6. own * value = total * value - others * value
  OBVIOUS
<1> HIDE DEF own, newOwn, q, r
<1>7. others * newValue <= newTotal * (newValue - r)
  <2>1. newTotal * (newValue - r) = newTotal * newValue - newTotal * r
    BY <1>3
  <2>2. newTotal * newValue \in Int /\ others * newValue \in Int /\ newTotal * r \in Int
    BY <1>3
  <2> QED
    BY <1>3, <1>5, <2>1, <2>2
<1>8. newTotal * (others * value) <= newTotal * (total * (newValue - r))
  <2>1. others * (value * newTotal) <= others * (newValue * total)
    <3>1. value * newTotal \in Nat /\ newValue * total \in Nat
      OBVIOUS
    <3> DEFINE a == value * newTotal
               b == newValue * total
    <3> HIDE DEF a, b
    <3>2. a \in Nat /\ b \in Nat /\ a <= b
      BY <3>1 DEF a, b
    <3>3. others * a <= others * b
      BY <3>2
    <3> QED
      BY <3>3 DEF a, b
  <2>2. (others * newValue) * total <= (newTotal * (newValue - r)) * total
    <3> DEFINE a == others * newValue
               b == newTotal * (newValue - r)
    <3>1. a \in Int /\ b \in Int /\ a <= b
      BY <1>3, <1>7
    <3> HIDE DEF a, b
    <3>2. a * total <= b * total
      BY <3>1
    <3> QED
      BY <3>2 DEF a, b
  <2>3. others * (newValue * total) = (others * newValue) * total
    OBVIOUS
  <2>4. others * (value * newTotal) = newTotal * (others * value)
    OBVIOUS
  <2>5. (newTotal * (newValue - r)) * total = newTotal * (total * (newValue - r))
    BY <1>3
  <2>6. /\ others * (value * newTotal) \in Int /\ (others * newValue) * total \in Int
        /\ (newTotal * (newValue - r)) * total \in Int
    BY <1>3
  <2> QED
    BY <2>1, <2>2, <2>3, <2>4, <2>5, <2>6
<1>9. others * value <= total * (newValue - r)
  <2> DEFINE a == others * value
             b == total * (newValue - r)
  <2>1. a \in Int /\ b \in Int /\ newTotal * a <= newTotal * b
    BY <1>3, <1>8
  <2> HIDE DEF a, b
  <2>2. ASSUME b < a PROVE newTotal * b < newTotal * a
    BY <2>1, <2>2
  <2>3. a <= b
    BY <2>1, <2>2
  <2> QED
    BY <2>3 DEF a, b
<1>10. gain * total <= own * value
  <2>1. gain * total = total * value - total * (newValue - r)
    BY <1>3
  <2>2. total * value \in Int /\ total * (newValue - r) \in Int /\ others * value \in Int
    BY <1>3
  <2> QED
    BY <1>6, <1>9, <2>1, <2>2
<1>11. gain <= q
  <2>1. CASE gain \in Nat
    <3> HIDE DEF gain
    <3> QED
      BY <1>2, <1>10, <2>1, DivAtLeast DEF q
  <2>2. CASE gain \notin Nat
    BY <1>3, <1>4, <2>2
  <2> QED
    BY <2>1, <2>2
<1> QED
  BY <1>3, <1>4, <1>11 DEF own, newOwn, q, r

\* The target of a smaller vault is no larger.
LEMMA PartMonotone ==
  ASSUME NEW v \in Amount, NEW w \in Amount, v <= w, NEW bps \in 0 .. MaxBps
  PROVE  calculate_buffer_amount(v, bps) <= calculate_buffer_amount(w, bps)
<1> DEFINE q == (v * bps) \div MaxBps
           r == (w * bps) \div MaxBps
<1>1. /\ v \in Nat /\ w \in Nat /\ bps \in Nat
      /\ MaxBps \in Nat \ {0}
      /\ bps <= MaxBps
  BY ScaleAssumption DEF Amount, MaxBps
<1>2. v * bps \in Nat /\ w * bps \in Nat /\ v * bps <= w * bps
  BY <1>1, MulMonotone
<1>3. v * bps <= v * MaxBps /\ w * bps <= w * MaxBps
  BY <1>1
<1>4. q \in Nat /\ q <= v /\ MaxBps * q <= v * bps
  BY <1>1, <1>2, <1>3, DivBounds, DivAtMost
<1>5. r \in Nat /\ r <= w
  BY <1>1, <1>2, <1>3, DivBounds, DivAtMost
<1> HIDE DEF q
<1>6. q * MaxBps <= w * bps
  BY <1>1, <1>2, <1>4
<1>7. q <= r
  BY <1>1, <1>2, <1>4, <1>6, DivAtLeast
<1> HIDE DEF r
<1>8. q \in Amount /\ r \in Amount
  BY <1>1, <1>4, <1>5, ScaleAssumption DEF Amount
<1>9. Truncate(q) = q /\ Truncate(r) = r
  BY <1>4, <1>5, <1>8, TruncateBounds
<1> QED
  BY <1>7, <1>9 DEF calculate_buffer_amount, q, r

\* A quotient below a bound, when the dividend is below its multiple.
LEMMA DivBelow ==
  ASSUME NEW a \in Nat, NEW b \in Nat \ {0}, NEW c \in Nat, a < c * b
  PROVE  a \div b < c
<1> DEFINE q == a \div b
<1>1. q \in Nat /\ b * q <= a
  BY DivBounds
<1> HIDE DEF q
<1>2. c <= q => c * b <= q * b
  BY <1>1, MulMonotone
<1>3. q * b <= a
  BY <1>1
<1>4. c * b \in Nat /\ q * b \in Nat
  BY <1>1
<1>5. q < c
  BY <1>1, <1>2, <1>3, <1>4
<1> QED
  BY <1>5 DEF q

\* Burning fTokens for an amount, rounded up, lowers the worth of the position
\* by at least that amount.
LEMMA BurnPaysForTokens ==
  ASSUME NEW f \in Nat, NEW amount \in Nat,
         NEW scale \in Nat \ {0}, NEW price \in Nat \ {0},
         NEW burned, burned = (amount * scale + price - 1) \div price, f >= burned
  PROVE  ((f - burned) * price) \div scale + amount <= (f * price) \div scale
<1> DEFINE owed == amount * scale + price - 1
           rest == f - burned
           left == (rest * price) \div scale
<1>1. amount * scale \in Nat
  OBVIOUS
<1>2. owed \in Nat
  BY <1>1
<1>3. burned \in Nat /\ owed < price * burned + price
  <2> HIDE DEF owed
  <2>1. burned = owed \div price
    BY DEF owed
  <2> QED
    BY <1>2, <2>1, DivBounds
<1>4. price * burned \in Nat /\ amount * scale <= price * burned
  <2>1. price * burned \in Nat
    BY <1>3
  <2> QED
    BY <1>1, <1>3, <2>1
<1>5. rest \in Nat
  BY <1>3
<1>6. rest * price \in Nat /\ f * price \in Nat /\ rest * price = f * price - price * burned
  BY <1>3
<1> HIDE DEF rest
<1>7. left \in Nat /\ scale * left <= rest * price
  BY <1>6, DivBounds
<1> HIDE DEF left
<1>8. (left + amount) * scale = scale * left + amount * scale
  BY <1>7
<1>9. scale * left \in Nat
  BY <1>7
<1>10. (left + amount) * scale <= f * price
  BY <1>1, <1>4, <1>6, <1>7, <1>8, <1>9
<1>11. left + amount <= (f * price) \div scale
  <2> DEFINE sum == left + amount
             whole == f * price
  <2>1. sum \in Nat /\ whole \in Nat /\ sum * scale <= whole
    BY <1>6, <1>7, <1>10
  <2> HIDE DEF sum, whole
  <2>2. sum <= whole \div scale
    BY <2>1, DivAtLeast
  <2> QED
    BY <2>2 DEF sum, whole
<1> QED
  BY <1>11 DEF left, rest

\* Minting fTokens for an amount, rounded down, raises the worth of the
\* position by at most that amount.
LEMMA MintWithinTokens ==
  ASSUME NEW f \in Nat, NEW amount \in Nat,
         NEW scale \in Nat \ {0}, NEW price \in Nat \ {0},
         NEW minted, minted = (amount * scale) \div price
  PROVE  ((f + minted) * price) \div scale <= (f * price) \div scale + amount
<1> DEFINE worth == (f * price) \div scale
           more == f + minted
<1>1. amount * scale \in Nat /\ f * price \in Nat
  OBVIOUS
<1>2. minted \in Nat /\ price * minted <= amount * scale
  BY <1>1, DivBounds
<1>3. worth \in Nat /\ f * price < scale * worth + scale
  BY <1>1, DivBounds
<1>4. more \in Nat /\ more * price = f * price + price * minted
  BY <1>2
<1>5. more * price \in Nat
  BY <1>4
<1> HIDE DEF worth, more
<1>6. (worth + amount + 1) * scale = scale * worth + amount * scale + scale
  BY <1>3
<1>7. scale * worth \in Nat /\ price * minted \in Nat
  BY <1>2, <1>3
<1>8. more * price < (worth + amount + 1) * scale
  BY <1>1, <1>2, <1>3, <1>4, <1>6, <1>7
<1>9. (more * price) \div scale < worth + amount + 1
  BY <1>3, <1>5, <1>8, DivBelow
<1>10. (more * price) \div scale \in Nat
  BY <1>5, DivBounds
<1>11. (more * price) \div scale <= worth + amount
  BY <1>3, <1>9, <1>10
<1> QED
  BY <1>11 DEF worth, more
\* What burning rounds away of the position is less than the price of an fToken
\* and one unit together; at par it is nothing.
LEMMA BurnLosesLittle ==
  ASSUME NEW f \in Nat, NEW amount \in Nat,
         NEW scale \in Nat \ {0}, NEW price \in Nat \ {0},
         NEW burned, burned = (amount * scale + price - 1) \div price, f >= burned,
         NEW lost, lost = (f * price) \div scale
                            - (((f - burned) * price) \div scale + amount)
  PROVE  /\ scale * lost <= price + scale - 2
         /\ price = scale => lost = 0
<1> DEFINE owed == amount * scale + price - 1
           rest == f - burned
           left == (rest * price) \div scale
           worth == (f * price) \div scale
<1>1. amount * scale \in Nat /\ owed \in Nat
  <2>1. amount * scale \in Nat
    OBVIOUS
  <2> QED
    BY <2>1
<1>2. /\ burned \in Nat /\ price * burned <= owed /\ owed < price * burned + price
      /\ owed = amount * scale + price - 1
  <2>1. burned = owed \div price
    OBVIOUS
  <2>2. owed = amount * scale + price - 1
    OBVIOUS
  <2> HIDE DEF owed
  <2> QED
    BY <1>1, <2>1, <2>2, DivBounds
<1> HIDE DEF owed
<1>3. rest \in Nat /\ rest = f - burned
  BY <1>2
<1>4. /\ rest * price \in Nat /\ f * price \in Nat /\ price * burned \in Nat
      /\ rest * price = f * price - price * burned
  BY <1>2
<1> HIDE DEF rest
<1>5. left \in Nat /\ rest * price < scale * left + scale
  BY <1>4, DivBounds
<1>6. worth \in Nat /\ scale * worth <= f * price
  BY <1>4, DivBounds
<1>7. lost = worth - (left + amount)
  BY DEF rest
<1> HIDE DEF left, worth
<1>8. scale * lost = scale * worth - scale * left - amount * scale
  <2>1. scale * (worth - (left + amount)) = scale * worth - scale * (left + amount)
    BY <1>5, <1>6
  <2>2. scale * (left + amount) = scale * left + amount * scale
    BY <1>5
  <2>3. scale * lost = scale * (worth - (left + amount))
    BY <1>7, Zenon
  <2>4. /\ scale * worth \in Nat /\ scale * left \in Nat
        /\ scale * (left + amount) \in Nat
    BY <1>1, <1>5, <1>6, <2>2
  <2> QED
    BY <1>1, <2>1, <2>2, <2>3, <2>4
<1>9. scale * worth \in Nat /\ scale * left \in Nat
  BY <1>5, <1>6
<1>10. scale * lost <= price + scale - 2
  BY <1>1, <1>2, <1>4, <1>5, <1>6, <1>8, <1>9
<1>11. ASSUME price = scale PROVE lost = 0
  <2>1. worth = f
    BY <1>11 DEF worth
  <2>2. left = rest
    BY <1>3, <1>11 DEF left
  <2>3. price * burned <= price * amount + price - 1
        /\ price * amount + price - 1 < price * burned + price
    BY <1>1, <1>2, <1>11
  <2>4. burned = amount
    <3>1. ASSUME burned >= amount + 1 PROVE FALSE
      <4>1. price * burned >= price * (amount + 1)
        BY <1>2, <3>1
      <4>2. price * (amount + 1) = price * amount + price
        OBVIOUS
      <4> QED
        BY <1>4, <2>3, <4>1, <4>2
    <3>2. ASSUME burned + 1 <= amount PROVE FALSE
      <4>1. price * (burned + 1) <= price * amount
        BY <1>2, <3>2
      <4>2. price * (burned + 1) = price * burned + price
        BY <1>2
      <4>3. price * amount \in Nat
        OBVIOUS
      <4> QED
        BY <1>4, <2>3, <4>1, <4>2, <4>3
    <3> QED
      BY <1>2, <3>1, <3>2
  <2> QED
    BY <1>2, <1>3, <1>7, <2>1, <2>2, <2>4
<1> QED
  BY <1>10, <1>11

\* The same of what minting rounds away.
LEMMA MintLosesLittle ==
  ASSUME NEW f \in Nat, NEW amount \in Nat,
         NEW scale \in Nat \ {0}, NEW price \in Nat \ {0},
         NEW minted, minted = (amount * scale) \div price,
         NEW lost, lost = ((f * price) \div scale + amount)
                            - ((f + minted) * price) \div scale
  PROVE  /\ scale * lost <= price + scale - 2
         /\ price = scale => lost = 0
<1> DEFINE more == f + minted
           grown == (more * price) \div scale
           worth == (f * price) \div scale
<1>1. amount * scale \in Nat /\ f * price \in Nat
  OBVIOUS
<1>2. minted \in Nat /\ amount * scale < price * minted + price
  BY <1>1, DivBounds
<1>3. /\ more \in Nat /\ more * price \in Nat /\ price * minted \in Nat
      /\ more * price = f * price + price * minted
      /\ more = f + minted
  BY <1>2
<1> HIDE DEF more
<1>4. grown \in Nat /\ more * price < scale * grown + scale
  BY <1>3, DivBounds
<1>5. worth \in Nat /\ scale * worth <= f * price
  BY <1>1, DivBounds
<1>6. lost = (worth + amount) - grown
  BY DEF more
<1> HIDE DEF grown, worth
<1>7. scale * lost = scale * worth + amount * scale - scale * grown
  <2>1. scale * ((worth + amount) - grown) = scale * (worth + amount) - scale * grown
    BY <1>4, <1>5
  <2>2. scale * (worth + amount) = scale * worth + amount * scale
    BY <1>5
  <2>3. scale * lost = scale * ((worth + amount) - grown)
    BY <1>6, Zenon
  <2>4. /\ scale * worth \in Nat /\ scale * grown \in Nat
        /\ scale * (worth + amount) \in Nat
    BY <1>1, <1>4, <1>5, <2>2
  <2> QED
    BY <1>1, <2>1, <2>2, <2>3, <2>4
<1>8. scale * worth \in Nat /\ scale * grown \in Nat
  BY <1>4, <1>5
<1>9. scale * lost <= price + scale - 2
  BY <1>1, <1>2, <1>3, <1>4, <1>5, <1>7, <1>8
<1>10. ASSUME price = scale PROVE lost = 0
  <2>1. worth = f
    BY <1>10 DEF worth
  <2>2. grown = more
    BY <1>3, <1>10 DEF grown
  <2>3. minted = amount
    BY <1>10
  <2> QED
    BY <1>3, <1>6, <2>1, <2>2, <2>3
<1> QED
  BY <1>9, <1>10

\* A vault smaller by d has a target smaller by half of that, rounded up, at
\* most: no vault keeps more than half of its value in the buffer.
LEMMA TargetFollowsHalf ==
  ASSUME NEW v \in Amount, NEW w \in Amount, v <= w, NEW bps \in Nat,
         2 * bps <= MaxBps
  PROVE  2 * (calculate_buffer_amount(w, bps) - calculate_buffer_amount(v, bps))
           <= (w - v) + 1
<1> DEFINE q == (v * bps) \div MaxBps
           r == (w * bps) \div MaxBps
<1>1. /\ v \in Nat /\ w \in Nat /\ bps \in Nat /\ w - v \in Nat
      /\ MaxBps \in Nat \ {0}
      /\ 2 * bps <= MaxBps
      /\ bps \in 0 .. MaxBps
  BY ScaleAssumption DEF Amount, MaxBps
<1>2. v * bps \in Nat /\ w * bps \in Nat
  BY <1>1
<1>3. q \in Nat /\ v * bps < MaxBps * q + MaxBps
  <2> DEFINE a == v * bps
             b == MaxBps
  <2>1. a \in Nat /\ b \in Nat \ {0}
    BY <1>1, <1>2
  <2> HIDE DEF a, b
  <2>2. a \div b \in Nat /\ a < b * (a \div b) + b
    BY <2>1, DivBounds
  <2> QED
    BY <2>2 DEF a, b
<1>4. r \in Nat /\ MaxBps * r <= w * bps
  <2> HIDE DEF MaxBps
  <2> QED
    BY <1>1, <1>2, DivBounds
<1>5. calculate_buffer_amount(v, bps) = q /\ calculate_buffer_amount(w, bps) = r
  <2>1. ASSUME NEW n \in Amount
        PROVE  calculate_buffer_amount(n, bps) = (n * bps) \div MaxBps
    <3> DEFINE part == (n * bps) \div MaxBps
    <3>1. n \in Nat /\ n * bps \in Nat /\ n * bps <= n * MaxBps
      <4>1. n \in Nat
        BY ScaleAssumption DEF Amount
      <4> HIDE DEF MaxBps
      <4> QED
        BY <1>1, <4>1
    <3>2. part \in Nat /\ part <= n
      BY <1>1, <3>1, DivBounds, DivAtMost
    <3> HIDE DEF part
    <3>3. part \in Amount
      BY <3>1, <3>2, ScaleAssumption DEF Amount
    <3>4. Truncate(part) = part
      BY <3>2, <3>3, TruncateBounds
    <3> QED
      BY <3>4 DEF part, calculate_buffer_amount
  <2> QED
    BY <2>1
<1> HIDE DEF q, r
<1>6. w * bps - v * bps = (w - v) * bps
  BY <1>1
<1>7. 2 * ((w - v) * bps) <= (w - v) * MaxBps
  <2> DEFINE d == w - v
  <2>1. d \in Nat
    BY <1>1
  <2> HIDE DEF d, MaxBps
  <2>2. (2 * bps) * d <= MaxBps * d
    BY <1>1, <2>1, MulMonotone
  <2>3. 2 * (d * bps) = (2 * bps) * d /\ d * MaxBps = MaxBps * d
    BY <1>1, <2>1
  <2> QED
    BY <2>2, <2>3 DEF d
<1>8. 2 * (r - q) < (w - v) + 2
  BY <1>1, <1>2, <1>3, <1>4, <1>6, <1>7 DEF MaxBps
<1> QED
  BY <1>1, <1>3, <1>4, <1>5, <1>8

\* Half of such a loss is less than an fToken.
LEMMA ExcessBelowFToken ==
  ASSUME NEW excess \in Nat, NEW lost \in Nat, NEW scale \in Nat \ {0},
         NEW price \in Nat \ {0}, price >= scale,
         scale * lost <= price + scale - 2, price = scale => lost = 0,
         2 * excess <= lost + 1
  PROVE  (excess * scale) \div price = 0
<1>1. excess * scale \in Nat /\ scale * lost \in Nat
  OBVIOUS
<1>2. excess * scale < 1 * price
  <2>1. CASE price = scale
    <3>1. excess = 0
      BY <2>1
    <3> QED
      BY <3>1
  <2>2. CASE price > scale /\ excess <= 1
    <3>1. excess * scale <= 1 * scale
      BY <2>2, MulMonotone
    <3> QED
      BY <1>1, <2>2, <3>1
  <2>3. CASE excess >= 2
    <3>1. 2 * scale <= excess * scale
      BY <2>3, MulMonotone
    <3>2. (2 * excess) * scale <= (lost + 1) * scale
      BY MulMonotone
    <3>3. (2 * excess) * scale = 2 * (excess * scale) /\ (lost + 1) * scale = scale * lost + scale
      OBVIOUS
    <3> QED
      BY <1>1, <3>1, <3>2, <3>3
  <2> QED
    BY <2>1, <2>2, <2>3
<1>3. (excess * scale) \div price < 1 /\ (excess * scale) \div price \in Nat
  BY <1>1, <1>2, DivBelow, DivBounds
<1> QED
  BY <1>3
=============================================================================
