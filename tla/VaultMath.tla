------------------------------ MODULE VaultMath ------------------------------
(***************************************************************************)
(* The pure arithmetic of the subscription program: utils/calculations.rs, *)
(* the vault valuation of utils/vault_operations.rs and the fee formula of *)
(* the payment handler.  The code multiplies in u128, which never          *)
(* overflows for u64 operands, divides rounding down, and casts back with  *)
(* `as u64`, which keeps the low 64 bits; the cast is kept here as a       *)
(* remainder by U64.  The three scales are constants so that TLC can use   *)
(* small ones; every lemma about these operators holds for all of them.    *)
(***************************************************************************)
EXTENDS Integers

CONSTANTS U64,              \* 2^64: one more than the largest u64
          SharePrecision,   \* 1_000_000: scale of the rate per share
          PricePrecision    \* 1_000_000_000: scale of the lending price

ASSUME ScaleAssumption ==
  /\ U64 \in Nat \ {0}
  /\ SharePrecision \in Nat \ {0}
  /\ PricePrecision \in Nat \ {0}

Amount == 0 .. U64 - 1      \* the values of a u64

MaxBps == 10000             \* 100% in basis points

Truncate(n) == n % U64      \* `as u64` of a u128

-----------------------------------------------------------------------------
calculate_buffer_amount(total_amount, buffer_bps) ==
  Truncate((total_amount * buffer_bps) \div MaxBps)

\* Variant for the sensitivity of the properties: the division rounds up.
SharesForDepositRoundedUp(deposit_amount, total_shares, total_vault_value) ==
  IF total_shares = 0 \/ total_vault_value = 0
  THEN deposit_amount
  ELSE Truncate((deposit_amount * total_shares + total_vault_value - 1)
                  \div total_vault_value)

calculate_shares_for_deposit(deposit_amount, total_shares, total_vault_value) ==
  IF total_shares = 0 \/ total_vault_value = 0
  THEN deposit_amount
  ELSE Truncate((deposit_amount * total_shares) \div total_vault_value)

\* Variant: the division rounds up.
ValueOfSharesRoundedUp(shares, total_shares, total_vault_value) ==
  IF total_shares = 0
  THEN 0
  ELSE Truncate((shares * total_vault_value + total_shares - 1) \div total_shares)

calculate_usdc_value_of_shares(shares, total_shares, total_vault_value) ==
  IF total_shares = 0
  THEN 0
  ELSE Truncate((shares * total_vault_value) \div total_shares)

calculate_shares_for_withdrawal(withdraw_amount, total_shares, total_vault_value) ==
  IF total_vault_value = 0
  THEN 0
  ELSE Truncate((withdraw_amount * total_shares) \div total_vault_value)

calculate_current_exchange_rate(total_shares, total_vault_value) ==
  IF total_shares = 0
  THEN SharePrecision
  ELSE Truncate((total_vault_value * SharePrecision) \div total_shares)

\* The reserve of a wallet's open subscriptions: a placeholder in the code.
calculate_committed_balance == 0

\* What the vault holds: its buffer and its lending position at the lending
\* price.  A caller that passes no fToken account values zero fTokens.  The
\* sum is checked in the code: callers require it to be an Amount.
get_vault_total_value(buffer_amount, ftoken_balance, exchange_rate) ==
  buffer_amount + Truncate((ftoken_balance * exchange_rate) \div PricePrecision)

\* The protocol's part of a charge.
ProtocolFee(base_amount, fee_bps) ==
  Truncate((base_amount * fee_bps) \div MaxBps)

=============================================================================
