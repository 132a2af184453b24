# Verification of the Eventop subscription program

This directory models the on-chain program in
`src/programs/subscription-protocol/src` in TLA+: its state, every instruction,
and the arithmetic of its yield vault. TLC checks the models on small
instances; TLAPS proves the theorems listed below for all values of the
constants.

The program is a Solana/Anchor program. Each instruction is one atomic
transaction on accounts: a failed constraint, `require!`, checked operation or
call reverts it whole. So every instruction is one action, and a failing call
is a step that does not happen. Concurrency is the interleaving of instructions
sent by anybody in any order.

## Inventory

| Component | State | Operations | What makes it correct |
|---|---|---|---|
| Subscription wallets (`instructions/wallet`) | a wallet account per owner, in one mint, and its token account | create, deposit (by any holder of the mint: owners, outsiders, merchants, the treasury), withdraw (by the owner) | tokens leave a wallet to its owner, to the vault, or as a charge, and not otherwise |
| Arithmetic (`utils/calculations.rs`, valuation in `utils/vault_operations.rs`) | none | share issue, share value, buffer target, exchange rate, fee | rounding and the `as u64` casts favour the vault, never the caller |
| Yield operations (`instructions/yield_ops`) | `yield_shares`, `is_yield_enabled` per wallet; `total_shares_issued`, `total_usdc_deposited`, the buffer | enable, deposit, withdraw, disable | total = sum of shares; no holder is diluted by another, none gains by acting; the buffer covers all claims at once |
| Vault management (`initialize_yield_vault`, `vault_management`) | target ratio, emergency flag and frozen rate, fToken balance | initialize, rebalance (both directions), set emergency | claims are safe in an emergency; a rebalance is possible when it is needed and one is enough; the buffer returns to its band |
| Protocol configuration (`instructions/protocol`) | `protocol_fee_bps`, authority, treasury | initialize, update fee | the rate stays within its bound |
| Plans and subscriptions (`instructions/subscription`) | `MerchantPlan` (in one mint), `SubscriptionState`, `SessionTokenTracker`, counters | register, subscribe, cancel | counters never miss an open subscription, a session token serves one subscription for ever, terms are the plan's |
| Payment (`execute_payment.rs`) | timestamps, `total_paid`, `payment_count`, `total_spent`, merchant and treasury token accounts | execute payment, by anyone; redeems shares if the wallet is short | one charge per interval; what a charge takes is delivered, in the same mint, and counted; a funded payment is made |
| External: Jupiter Lend, SPL token, Anchor | fToken position, price, balances, accounts | deposit, withdraw, accrue; transfer; create, close | modelled as the program uses them |

The components interact through shared accounts: a wallet's token account is
debited by withdrawals, by yield deposits and by charges, and the payment
handler redeems shares from the vault the yield operations and the authority
work on.

The hard parts are interleavings of several wallets with the authority's
rebalancing and the rising lending price; integer rounding, wrapping casts and
checked subtractions; values read before an inner call and used after it;
sequences such as subscribe, cancel, subscribe again, late and repeated payment
calls, and rate changes in between; a wallet and a plan in different mints.
PROJECT.json lists each at its line, under "hazards".

## Modules

- **VaultMath**: the formulas. The scales 2^64, 10^6 and 10^9 are the constants
  `U64`, `SharePrecision` and `PricePrecision`; a cast is a remainder by `U64`.
- **Tally**: the sum of a function as the cardinality of a set of units, so
  that its laws follow from finite-set theorems without recursion.
- **Wallets**: wallets and owners' token accounts; the other modules extend it.
  A wallet has a mint, `WalletMint[u]`, and only the same mint moves in and out.
  `CanPayIn` is what a deposit needs, whoever signs it; `DepositToWallet` is the
  deposit of a user. Users that never create a wallet are the outsiders who
  hold the token.
- **YieldVault** (extends Wallets): the vault of one mint and all its
  instructions, and the lending program as environment. A wallet of another
  mint leads to an address where there is no vault (`HasVault`). `Spec` is
  wallets and vault together.
- **Subscriptions** (extends Wallets): configuration, plans, subscriptions,
  session tokens, charges and the clock. A kind of account is a function from
  its address seeds to its data; its domain is the accounts that exist. The
  wallet's mint and the plan's are compared nowhere in `subscribe`, so they are
  not here; the token transfers of a charge fail if they differ. The deposits
  of those the program pays, `DepositFromMerchant` and `DepositFromTreasury`,
  are here too, where their accounts are: what was paid can be paid in and
  spent again. `BillingSpec` is wallets and billing together.
- **EventopProgram** (extends YieldVault and Subscriptions): the whole program.
  `Pay` is the whole payment handler, share redemption included, with the final
  balance check reading the balance from before the redemption, as the
  deserialized account in the handler does. `ScheduledSpec` adds fairness.
- **Custody**: an abstract specification of where tokens may go, each edge
  within one mint, the payees' deposits included. EventopProgram instantiates it
  with `owned <- user_tokens`, `held <- balance`, `principal <-
  total_usdc_deposited`, `received <- merchant_tokens`, `treasury <-
  treasury_tokens`.
- **Mandates**: an abstract specification of recurring billing as the payer
  sees it: a mandate is signed with a fee and an interval, collected from at
  most once per interval that has passed since, and revoked. It has no plans,
  session tokens, rates, timestamps or vault. Subscriptions instantiates it: an
  open subscription is a mandate that began when its session token was
  registered, its `payment_count` is the charges so far, `spent` is
  `total_spent`.
- **SharePool**: an abstract specification of the vault as its members see it:
  shares of a reserve cost at least what they are worth, are bought back from
  their holder for exactly what they are worth in whole tokens, and the manager
  moves the reserve and nothing else, and not while the pool is frozen. It has
  no share counter, deposit counter, flags, casts, lending or prices. YieldVault
  instantiates it with `held <- balance`, `shares <- yield_shares`, `reserve <-
  buffer`, `frozen <- emergency_mode`. The reserve is the buffer, not the vault:
  with the whole value as reserve a redemption would have to be paid more (see
  `RedemptionPaysFullShare`).
- **MCYieldVault, MCSubscriptions, MCEventopProgram**: mint assignments and
  symmetry sets for TLC.
- **TallyProofs, VaultMathProofs, WalletsProofs, YieldVaultProofs,
  SubscriptionsProofs, LedgerProofs, MandatesProofs, EventopProofs**: the
  proofs.

State keeps the source's names: `total_shares_issued` is the field of
`YieldVault`, `buffer` is `vault_buffer.amount`, `balance[u]` is the amount of
u's wallet token account, and so on. The action names are the instruction
names. Operators whose comment starts with "Variant" are deliberate bugs used
to show that the properties are sensitive; no specification uses them.

## Runs

Passing:

- **yield_vault** (MCYieldVault.cfg), 418,425 states. Two interchangeable
  wallets with 3 tokens each, u64 cut to 0..11, lending price from 1.0 to 2.0
  in halves, target ratios 25%, 50% and one above the allowed bound. Within
  these bounds: a share count that wraps in the cast, deposits that mint no
  shares, an empty buffer under issued shares, a vault that keeps tokens after
  the last share is redeemed, shares worth more than the deposit counter, and
  deposits during an emergency. It shows that shares, counter, buffer and
  claims stay consistent, that emergencies leave claims alone
  (`EmergencyProtectsClaims`), and that one rebalance is enough: it ends in the
  band at the prices it leaves, so that fToken rounding never makes it cause the
  opposite one (`RebalanceLandsInBand`). It also shows what the checked
  operations and the lending position never refuse: a rebalance where the
  buffer is out of its band (`OutOfBandCanRebalance`), and a redemption, unless
  the deposit counter is below the payment (`OnlyCounterRefusesRedemptions`);
  that nothing but the fToken's rounding costs the vault anything
  (`OnlyRoundingIsLost`); and that the vault implements SharePool
  (`KeepsPool`).
- **subscriptions** (MCSubscriptions.cfg), 747,795 states. Two mints: one user
  and two interchangeable merchants in the first, one user and one merchant in
  the second, so a user can subscribe across mints; two session tokens, an
  interval of 2 and time up to 4, so that a charge can be early, punctual, late
  and repeated; a fee of 10 so that the highest rate takes one token, counters
  of at most 2 so that they reach their limit. 0 and over-limit values are
  among the inputs and are refused. Merchants pay in what a charge brought them
  (18 is two charges' worth) and the treasury its part. It shows the pacing and
  the terms, that tokens of a mint are neither lost nor made
  (`TokensConserved`), that what leaves a wallet is counted as spent or goes to
  its owner (`OnlyChargesSpend`), that no cancellation and new subscription makes the
  payments on record exceed what the wallet spent (`PaidWithinSpent`), and that
  billing implements Mandates (`KeepsMandates`).
- **program** (MCEventopProgram.cfg), 317,363 states. Two users and one
  merchant with payments, shares and rebalancing over the same wallets, while
  merchant and treasury pay in what they received. The bounds make both
  counters that only grow fill up, each alone too: `payment_count` takes two
  charges, and the supply of 30 is the largest u64, so that three charges of 10
  fill a wallet's `total_spent` and a fourth, of a second subscription paid with
  tokens that came back, does not fit. A deposit of 20 to yield leaves a wallet short of its
  fee, so payments that need a redemption come up, and are refused. It checks
  conservation across both parts (`EveryTokenAccounted`), that a due payment
  the wallet can pay is refused only when one of the two counters is full
  (`FundedPaymentsAreNotRefused`), that it stays due until the wallet is charged
  or its owner withdraws, invests or cancels (`FundedPaymentsStayDue`), and that
  the program implements Custody (`KeepsCustody`), with a tenth of each charge
  going to the treasury. The price is constant here: accrual is in the
  yield_vault and schedule runs.
- **schedule** (MCSchedule.cfg), 1,270,842 states, liveness under
  `ScheduledSpec`. One user with 260 tokens, deposits of 160 at a target of
  25% and a price from 1.00 to 1.02, so that rebalancing rounds, the one
  percent dead zone holds more than one token, and interest moves the buffer
  out of its band; a fee of 30 competes with withdrawals and deposits, and what
  it brings the payees can come back. No symmetry, which is not sound for liveness.

Deadlock checking is off: clock, price and supply are bounded, and the program
may rest.

Each property has a mutant: a variant of one definition under which TLC finds
it violated (PROJECT.json, "mutants").

Violations, each of something the repository says:

- **due_payments_redeem**: "automatic yield redemption if needed"
  (`lib.rs:158`). The handler reads `final_balance` from data deserialized
  before the redemption's transfer, so a payment that needs a redemption is
  always refused.
- **emergency_stops_deposits**: "Disables new deposits" (`v2_yield.md:295`).
  Only rebalancing reads `emergency_mode`. The frozen rate is stored and never
  used either.
- **deposits_mint_shares**: "Require share amount > dust threshold"
  (`v2_yield.md:328`). A deposit worth less than a share is taken and issues
  none.
- **redemption_pays_full_share**: "proportional share of vault value, including
  accrued yield" (`v2_yield.md:261`). Wallet operations price shares on the
  buffer alone; after a rebalance a redemption is underpaid, and a later
  deposit gets more shares than its part for the same reason.
- **funds_are_withdrawable**: "withdrawable at any time" (`v2_yield.md:30`).
  Paid-out value, yield included, is subtracted from `total_usdc_deposited` with
  a checked subtraction.
- **withdrawals_keep_reserve**: "automatically reserves a payment buffer"
  (`README.md:58`). The committed balance is a constant 0.
- **plan_counter_exact**: the counter is expected back at 0 after a cancellation
  (`tests/subscription-protocol.ts:606`). Cancellation accepts any plan account.
- **treasury_one_percent**: "Maximum 1% fee" (`README.md:31`). The handlers
  accept 1000 basis points.

## Fairness

Nothing in the program runs by itself. Only `ScheduledSpec` states fairness,
and only for the two callers the repository describes:

- `WF(RebalanceVault)`: "Weekly keeper runs" (`docs/v2_yield.md:149`), "Weekly
  keeper ensures buffer stays healthy" (`:333`).
- `WF(Pay(u, m))` for each subscription: the backend queries the subscriptions
  that are due and calls `execute_payment_from_wallet` for each
  (`tests/subscription-protocol.ts:1023`).

Weak fairness suffices: a payment that stays payable, and a rebalance that
stays possible, stay enabled until they happen. Nothing is assumed of owners,
merchants, the authority's other instructions, interest or the clock. A payment
that a withdrawal or an investment makes unpayable again is not promised, nor
one whose counters are full, and neither is a rebalance in an emergency: these
are exits of the properties.

## Proofs

Assumptions: the constants are naturals, the sets of users, merchants and
plan identifiers are finite, and a mint's supply is below `U64`
(`ScaleAssumption`, `WalletAssumption`, `SupplyAssumption`, `VaultAssumption`,
`BillingAssumption`). TLC evaluates them in the runs. The token program keeps
the supply of a mint in a u64, which is what `SupplyAssumption` says; the
theorems about instructions that are *not* refused need it, since no account
can then be too full to receive.

**TallyProofs**: how a sum changes when one value does (`TotalUpdate`), that it
bounds each value, and `TotalInProportion`: if every g[x] is at most the part
b/a of f[x], so is the sum. The last numbers the units of g, a times over, into
the units of f, b times over. **VaultMathProofs**: every rounding and cast.
**WalletsProofs**: the wallet instructions keep types and each mint's tokens.

**YieldVaultProofs**

- `TypeCorrectness` by induction over the actions; the guards that model
  checked operations are exactly what keeps the widths.
- `SharesAreBacked`, `DisabledWalletsHoldNothing`. "The total is the sum of the
  shares" is not inductive: enabling overwrites the wallet's shares, so the
  step needs that a disabled wallet holds none, and initialization resets the
  total, so it needs that no wallet holds shares before
  (`UntouchedBeforeInit`). `ShareInv` is the conjunction of the three.
- `RedemptionIsCovered` from `ShareInv`: one wallet's shares are at most the
  total, so their rounded value is at most the buffer and the cast leaves it
  intact. `ClaimsAreCovered` is the same for all wallets at once, by
  `TotalInProportion` with the total of shares and the buffer.
- `NoDilution`: a deposit is credited at most its proportional part even if
  the cast wraps, and a redemption is paid at most its part
  (`DepositPreservesOthers`, `RedemptionPreservesOthers`); cross-multiplying
  both, another holding's rounded value cannot fall.
- `ActingGainsNothing`: a trade that does not lower the price of a share adds
  to the acting wallet's claim at most what it pays in, and takes from it at
  least what it is paid (`TradeGainsNothing`, on `OwnClaimBound`).
- `DepositsAreTracked`: each step moves tokens of one mint between three
  tallies.
- `EmergencyKeepsClaims`: `NoDilution`'s step, as only a rebalance lends.
- `OneRebalanceIsEnough`: fTokens are minted rounding down and burned rounding
  up, so the vault is worth no more after a rebalance than before, its target is
  no higher, and the buffer is at or above the old one. Rounding takes at most
  one fToken from the vault and a target is at most half of it, so the buffer
  ends above its new target by half an fToken at most, for which none would be
  minted.
- `RebalanceIsNeverRefused`: an excess is in the buffer and fits the counters.
  A shortfall is at most what the position is worth, rounded down, and as an
  fToken is worth a token or more (`PricedAtPar`), the fTokens it takes, rounded
  up, are no more than the position has.
- `RoundingIsTheOnlyLoss`: with prices standing still, each action changes what
  the vault is worth and its deposit counter by the same amount, except where
  fTokens are rounded.
- `RedemptionsAreRefusedByCounterOnly`: whoever holds shares has a wallet and
  a vault (`AccessInv`), the buffer and the share total cover the redemption
  (`ShareInv`), and the wallet has room for what it is paid, if the counter is
  at least that: wallet and counter together are within the supply.
- `VaultImplementsPool`: each step is a step of SharePool. The pool's total is
  the sum of the shares, so the counter the vault divides by must be that sum
  (`SharesBacked`), a wallet that enables must hold none
  (`DisabledWalletHoldsNoShares`), and one wallet's shares must be within the
  total, or the cast of a payment could cut it.

**SubscriptionsProofs**. `StepKeepsHistory` shows what no step undoes: plans
keep their terms, used session tokens keep their tracker (`TokensStayBound`),
time does not go back. The inductive invariant `BillingInv` says that every
open subscription is `Consistent`: its token's tracker names it, its charges
are paced, its terms are its plan's and its total is count times fee. Pacing
alone is not inductive: it counts from the time the tracker keeps, so a step
must know that the tracker is this subscription's and is never rewritten; and
the total needs the fee fixed by the plan. `TokensAreBound`, `PacedCharging`
and `ChargingOnTerms` follow. `WalletsCountTheirSubscriptions` counts the open
subscriptions of a wallet as the cardinality of a finite set that a
subscription adds to and a cancellation removes from, so the saturating
subtraction never saturates. `PlansCountAtLeast` keeps the sum over the plans
at least the open subscriptions, whatever plan a cancellation names.

**LedgerProofs**: `PaymentsAreSpent` sums `total_paid` over a wallet's open
subscriptions: a charge adds the same to both sides, a cancellation takes a
term from one, and a new subscription starts at 0. `TokensAreConserved` and
`TreasuryIsBounded` follow each charge and each payee's deposit through the
tallies of its mint and are proved together (`Ledgers`). That a wallet pays only
in its own mint is the guard of the transfers, not of subscribing.
`SpendingIsAllThatLeaves` is about single steps (`OnlyChargesSpend`): each action
explains what it takes from a wallet.

**MandatesProofs**: `BillingImplementsMandates`. Every billing step is a step
of Mandates or a stutter. `MandateInv` is types, `BillingInv` and that plans
offer only the terms in `Fees` and `Intervals`: pacing in timestamps is what
makes the next charge one that Mandates allows.

**EventopProofs**: a program step is a wallet, vault, bookkeeping or payment
step (`PartsOfStep`), and a payment is one of `ExecutePaymentFromWallet` with
the vault unchanged: `final_balance` is read before the redemption, so a
redemption that was needed fails the check (lemma `PaymentIsFromWallet`). That is
the defect the run due_payments_redeem reports, not a promise of the program;
the proofs use it because it is what the handler does, and where it is repaired
this lemma is the one to replace. The invariants of the parts are therefore
invariants of the whole (`ProgramInv`), and with them `TokensAreAccounted`,
`ProgramImplementsCustody` and `ProgramImplementsMandates`. A payment is a step of neither part alone, so the
promises of vault and billing are proved again for the program: types
(`ProgramTypeCorrectness`), shares and claims (`ProgramKeepsShares`,
`ProgramDilutesNoOne`, `ProgramActingGainsNothing`,
`ProgramEmergencyKeepsClaims`), rebalancing (`ProgramCanRebalance`,
`ProgramRebalancesOnce`, `ProgramLosesByRoundingOnly`), refusals
(`ProgramRefusesByCounterOnly`), the pool (`ProgramImplementsPool`), and billing
(`ProgramChargesOnTerms`, `ProgramKeepsBooks`, `ProgramBoundsTreasury`,
`ProgramKeepsTokensBound`).

`FundedPaymentsPass` needs both parts. A due payment with an active plan and
enough in the wallet could still fail in a checked addition or a transfer. By
`EveryTokenAccounted` what merchants and treasury hold, the wallets' balances and
the vault's principal are within the supply of the mint however the tokens
circulate, so the payees' accounts have room for a fee that is still in the
wallet. The running totals are another matter: payees may pay received tokens
back in, so `total_spent` grows past any supply and can refuse a payment that the
wallet can pay, and so can the subscription's own `payment_count`, a u32. These
two the property excepts (`CountersFull`), and no other: `total_paid` is at most
`total_spent` by `PaidWithinSpent`. `FundedPaymentsStay` goes through the
instructions for what can end `Payable`: its conjuncts are bounds that time and
deposits only relax, and accounts that no instruction but the subscriber's
cancellation and its charges rewrites.

Only model-checked: the liveness properties `FundedPaymentsHappen` and
`KeeperRestoresBuffer`, and the violations. Liveness under fairness and ENABLED
are beyond the prover's backends. Their safety halves are proved: the payment
that must happen passes every check (`FundedPaymentsPass`, with its two counters) and nobody but its
payer takes that back (`FundedPaymentsStay`), the rebalance that
must happen is possible and one is enough (`ProgramCanRebalance`,
`ProgramRebalancesOnce`).

## Not modelled

- Tokens minted or burned while the program runs, or brought from outside the
  program by accounts that are none of the modelled holders: the supply of each
  mint is fixed and its holders are the users, the merchants, the treasury and
  the vault. A user without a wallet is an outsider who pays in.
- More than one wallet per owner, and more than one vault. Wallets of one owner
  in several mints share nothing but the addresses of the owner's subscriptions,
  which hold the owner, the merchant and the plan's mint, not the wallet's. A
  merchant with plans in two mints is two merchants here, as in the addresses.
- Tokens sent directly to the buffer or fToken account by somebody else, and
  token accounts other than the canonical ones: several token accounts of one
  wallet address, or of a merchant.
- Signers and authorities beyond who owns what: ownership constraints are in
  the parameters of the actions.
- Lengths and contents of names; events and error codes.
- `older_version/lib.rs`, which is commented out as a whole; helper methods of
  the state structs no instruction calls (`calculate_fee`, `is_valid`,
  `calculate_yield_value`, `is_operational`, `is_payment_due`).
- The inside of Jupiter Lend: deposits round the fTokens down, withdrawals
  round them up, the price only rises, and withdrawals always have liquidity, which
  is an assumption: `v2_yield.md:283` expects withdrawals that fail. What
  `OutOfBandCanRebalance` and `KeeperRestoresBuffer` say holds while it does.

## Plan

Done: every instruction, the composition, the abstract specifications with
their refinements, per-mint accounting, liveness under the documented callers,
what is never refused, and a proof of every safety property and refinement the
passing runs check; the vault's and billing's are proved again for the whole
program, except `TrackedDepositsExact`, `TokensConserved` and `OnlyChargesSpend`,
whose place `EveryTokenAccounted` and `KeepsCustody` take there.

Left, in this order: the promises of SharePool to its members (no dilution, no
gain by acting) proved of SharePool itself, so that the vault's follow from the
refinement; tokens that enter and leave a mint's circulation, as an inflow in the
accounting identities; an owner with wallets in two mints, who can open only one
subscription to a merchant with either; several token accounts of one wallet.
