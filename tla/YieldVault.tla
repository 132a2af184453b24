----------------------------- MODULE YieldVault ------------------------------
(***************************************************************************)
(* The pooled yield vault of one mint: wallets exchange tokens for shares  *)
(* of the vault's buffer, the authority moves tokens between the buffer    *)
(* and a lending position (fTokens), and an emergency switch.  Shares are  *)
(* priced on the buffer alone: the handlers pass no fToken account to the  *)
(* valuation.                                                              *)
(***************************************************************************)
EXTENDS Wallets

CONSTANTS VaultMint,      \* the mint in the vault's seeds
          BufferRatios,   \* the target_buffer_bps values tried at initialization
          YieldAmounts,   \* the tokens and shares tried in yield operations
          MaxPrice        \* bound: where the model stops raising the price

ASSUME VaultAssumption ==
  /\ VaultMint \in Mints
  /\ BufferRatios \subseteq Nat
  /\ YieldAmounts \subseteq Amount
  /\ MaxPrice \in Nat

VARIABLES
  vault_initialized,        \* the YieldVault account exists
  target_buffer_bps,
  total_shares_issued,
  total_usdc_deposited,
  emergency_mode,
  emergency_exchange_rate,
  buffer,                   \* vault_buffer.amount
  ftokens,                  \* jupiter_ftoken_account.amount
  exchange_price,           \* token_exchange_price of the lending account
  yield_shares,             \* SubscriptionWallet.yield_shares
  is_yield_enabled          \* SubscriptionWallet.is_yield_enabled

configVars == <<vault_initialized, target_buffer_bps>>
emergencyVars == <<emergency_mode, emergency_exchange_rate>>
positionVars == <<total_shares_issued, total_usdc_deposited,
                  yield_shares, is_yield_enabled>>
lendingVars == <<ftokens, exchange_price>>
vaultVars == <<configVars, emergencyVars, positionVars, lendingVars, buffer>>
vars == <<walletVars, vaultVars>>

VaultInit ==
  /\ vault_initialized = FALSE
  /\ target_buffer_bps = 0
  /\ total_shares_issued = 0
  /\ total_usdc_deposited = 0
  /\ emergency_mode = FALSE
  /\ emergency_exchange_rate = 0
  /\ buffer = 0
  /\ ftokens = 0
  /\ exchange_price = PricePrecision
  /\ yield_shares = [u \in Users |-> 0]
  /\ is_yield_enabled = [u \in Users |-> FALSE]

-----------------------------------------------------------------------------
\* The valuation the wallet operations pass to the share arithmetic: buffer
\* given, fToken account not given.
BufferOnlyValue == get_vault_total_value(buffer, 0, exchange_price)

\* The valuation the authority's operations use: both accounts given.
FullValue == get_vault_total_value(buffer, ftokens, exchange_price)

\* Variant: a redemption is priced on the whole vault.
RedeemableFullValue(shares) ==
  calculate_usdc_value_of_shares(shares, total_shares_issued, FullValue)

\* What a redemption of these shares would pay now.
RedeemableValue(shares) ==
  calculate_usdc_value_of_shares(shares, total_shares_issued, BufferOnlyValue)

\* The vault at the address a wallet's mint leads to is this one, and exists.
HasVault(u) == WalletMint[u] = VaultMint /\ vault_initialized

InitializeYieldVault(bps) ==
  /\ ~vault_initialized
  /\ bps <= 5000
  /\ vault_initialized' = TRUE
  /\ target_buffer_bps' = bps
  /\ total_shares_issued' = 0
  /\ total_usdc_deposited' = 0
  /\ emergency_mode' = FALSE
  /\ emergency_exchange_rate' = SharePrecision
  /\ UNCHANGED <<walletVars, lendingVars, buffer, yield_shares, is_yield_enabled>>

\* Variant: the deposit counter follows the shares instead of the tokens.
IssueSharesCountingShares(u, tokens, shares) ==
  /\ CanTransfer(balance[u], buffer, tokens)
  /\ total_shares_issued + shares \in Amount
  /\ total_usdc_deposited + shares \in Amount
  /\ balance' = [balance EXCEPT ![u] = @ - tokens]
  /\ buffer' = buffer + tokens
  /\ total_shares_issued' = total_shares_issued + shares
  /\ total_usdc_deposited' = total_usdc_deposited + shares
  /\ UNCHANGED <<user_tokens, wallets, configVars, emergencyVars, lendingVars>>

\* A wallet pays tokens into the buffer and the vault issues shares for them.
IssueShares(u, tokens, shares) ==
  /\ CanTransfer(balance[u], buffer, tokens)
  /\ total_shares_issued + shares \in Amount
  /\ total_usdc_deposited + tokens \in Amount
  /\ balance' = [balance EXCEPT ![u] = @ - tokens]
  /\ buffer' = buffer + tokens
  /\ total_shares_issued' = total_shares_issued + shares
  /\ total_usdc_deposited' = total_usdc_deposited + tokens
  /\ UNCHANGED <<user_tokens, wallets, configVars, emergencyVars, lendingVars>>

EnableYield(u, amount) ==
  LET buffer_amount == calculate_buffer_amount(amount, target_buffer_bps)
      yield_amount == amount - buffer_amount
      shares_to_issue ==
        IF total_shares_issued = 0
        THEN yield_amount
        ELSE calculate_shares_for_deposit(yield_amount, total_shares_issued,
                                          BufferOnlyValue)
  IN /\ u \in wallets
     /\ HasVault(u)
     /\ ~is_yield_enabled[u]
     /\ amount > 0
     /\ balance[u] >= amount
     /\ yield_amount > 0
     /\ IssueShares(u, yield_amount, shares_to_issue)
     /\ yield_shares' = [yield_shares EXCEPT ![u] = shares_to_issue]
     /\ is_yield_enabled' = [is_yield_enabled EXCEPT ![u] = TRUE]

\* Variant: a further deposit overwrites the wallet's shares, as enabling does.
DepositToYieldOverwriting(u, amount) ==
  LET shares_to_issue ==
        calculate_shares_for_deposit(amount, total_shares_issued, BufferOnlyValue)
  IN /\ u \in wallets
     /\ HasVault(u)
     /\ is_yield_enabled[u]
     /\ amount > 0
     /\ IssueShares(u, amount, shares_to_issue)
     /\ yield_shares' = [yield_shares EXCEPT ![u] = shares_to_issue]
     /\ UNCHANGED is_yield_enabled

DepositToYield(u, amount) ==
  LET shares_to_issue ==
        calculate_shares_for_deposit(amount, total_shares_issued, BufferOnlyValue)
  IN /\ u \in wallets
     /\ HasVault(u)
     /\ is_yield_enabled[u]
     /\ amount > 0
     /\ balance[u] >= amount
     /\ yield_shares[u] + shares_to_issue \in Amount
     /\ IssueShares(u, amount, shares_to_issue)
     /\ yield_shares' = [yield_shares EXCEPT ![u] = @ + shares_to_issue]
     /\ UNCHANGED is_yield_enabled

\* What the wallet operations check of a redemption of shares.
HoldsShares(u, shares) ==
  /\ u \in wallets
  /\ HasVault(u)
  /\ is_yield_enabled[u]
  /\ shares > 0
  /\ yield_shares[u] >= shares

\* What the transfer and the counters of a redemption need.
CanPayShares(u, shares, tokens) ==
  /\ CanTransfer(buffer, balance[u], tokens)
  /\ total_shares_issued >= shares
  /\ total_usdc_deposited >= tokens

\* Variant: the subtraction from the deposit counter is not checked.
RedeemSharesUnchecked(u, shares, tokens) ==
  /\ CanTransfer(buffer, balance[u], tokens)
  /\ total_shares_issued >= shares
  /\ buffer' = buffer - tokens
  /\ balance' = [balance EXCEPT ![u] = @ + tokens]
  /\ total_shares_issued' = total_shares_issued - shares
  /\ total_usdc_deposited' = total_usdc_deposited - tokens
  /\ UNCHANGED <<user_tokens, wallets, configVars, emergencyVars, lendingVars>>

\* The vault pays a wallet from the buffer and cancels shares for it.
RedeemShares(u, shares, tokens) ==
  /\ CanPayShares(u, shares, tokens)
  /\ buffer' = buffer - tokens
  /\ balance' = [balance EXCEPT ![u] = @ + tokens]
  /\ total_shares_issued' = total_shares_issued - shares
  /\ total_usdc_deposited' = total_usdc_deposited - tokens
  /\ UNCHANGED <<user_tokens, wallets, configVars, emergencyVars, lendingVars>>

\* Variant: switching yield off leaves the redeemed shares on the wallet.
DisableYieldKeepingShares(u) ==
  /\ HoldsShares(u, yield_shares[u])
  /\ RedeemShares(u, yield_shares[u], RedeemableValue(yield_shares[u]))
  /\ is_yield_enabled' = [is_yield_enabled EXCEPT ![u] = FALSE]
  /\ UNCHANGED yield_shares

DisableYield(u) ==
  /\ HoldsShares(u, yield_shares[u])
  /\ RedeemShares(u, yield_shares[u], RedeemableValue(yield_shares[u]))
  /\ yield_shares' = [yield_shares EXCEPT ![u] = 0]
  /\ is_yield_enabled' = [is_yield_enabled EXCEPT ![u] = FALSE]

WithdrawFromYield(u, shares_to_redeem) ==
  /\ HoldsShares(u, shares_to_redeem)
  /\ RedeemShares(u, shares_to_redeem, RedeemableValue(shares_to_redeem))
  /\ yield_shares' = [yield_shares EXCEPT ![u] = @ - shares_to_redeem]
  /\ UNCHANGED is_yield_enabled

-----------------------------------------------------------------------------
\* The lending program (external) mints fTokens rounding down, refuses a
\* deposit too small to mint one, and burns fTokens rounding up.
FTokensMinted(amount) == (amount * PricePrecision) \div exchange_price

FTokensBurned(amount) ==
  (amount * PricePrecision + exchange_price - 1) \div exchange_price

CanLend(amount) ==
  /\ buffer >= amount
  /\ FTokensMinted(amount) > 0
  /\ ftokens + FTokensMinted(amount) \in Amount

\* Variant: the last fToken is never burned.
CanRecallButOne(amount) ==
  /\ ftokens > FTokensBurned(amount)
  /\ buffer + amount \in Amount

CanRecall(amount) ==
  /\ ftokens >= FTokensBurned(amount)
  /\ buffer + amount \in Amount

LendingDeposit(amount) ==
  /\ CanLend(amount)
  /\ buffer' = buffer - amount
  /\ ftokens' = ftokens + FTokensMinted(amount)

LendingWithdraw(amount) ==
  /\ CanRecall(amount)
  /\ buffer' = buffer + amount
  /\ ftokens' = ftokens - FTokensBurned(amount)

\* Interest (external): the lending price only rises.
LendingAccrues ==
  /\ exchange_price < MaxPrice
  /\ exchange_price' = exchange_price + 1
  /\ UNCHANGED <<walletVars, configVars, emergencyVars, positionVars,
                 buffer, ftokens>>

\* Variant: the target is a part of the buffer alone.
TargetOfBufferAlone == calculate_buffer_amount(BufferOnlyValue, target_buffer_bps)

TargetBuffer == calculate_buffer_amount(FullValue, target_buffer_bps)

\* Variant: the emergency switch is not consulted.
RebalanceAllowedAlways == vault_initialized

RebalanceAllowed == vault_initialized /\ ~emergency_mode

\* Variant: a shortfall within one percent is left alone, as an excess is.
RebalanceVaultLazily ==
  /\ RebalanceAllowed
  /\ FullValue \in Amount
  /\ \/ /\ TargetBuffer - buffer > FullValue \div 100
        /\ LendingWithdraw(TargetBuffer - buffer)
     \/ /\ buffer - TargetBuffer > FullValue \div 100
        /\ LendingDeposit(buffer - TargetBuffer)
  /\ UNCHANGED <<walletVars, configVars, emergencyVars, positionVars, exchange_price>>

\* The excess the authority's instruction does not leave alone.
Excessive == buffer - TargetBuffer > FullValue \div 100

RebalanceVault ==
  /\ RebalanceAllowed
  /\ FullValue \in Amount
  /\ \/ buffer < TargetBuffer /\ LendingWithdraw(TargetBuffer - buffer)
     \/ Excessive /\ LendingDeposit(buffer - TargetBuffer)
  /\ UNCHANGED <<walletVars, configVars, emergencyVars, positionVars, exchange_price>>

SetEmergencyMode(enabled) ==
  /\ vault_initialized
  /\ enabled => FullValue \in Amount
  /\ emergency_mode' = enabled
  /\ emergency_exchange_rate' =
       IF enabled
       THEN calculate_current_exchange_rate(total_shares_issued, FullValue)
       ELSE emergency_exchange_rate
  /\ UNCHANGED <<walletVars, configVars, positionVars, lendingVars, buffer>>

-----------------------------------------------------------------------------
Init == WalletInit /\ VaultInit

\* The instructions of the vault, and the lending price.
VaultNext ==
  \/ \E bps \in BufferRatios : InitializeYieldVault(bps)
  \/ \E u \in Users, amount \in YieldAmounts : EnableYield(u, amount)
  \/ \E u \in Users, amount \in YieldAmounts : DepositToYield(u, amount)
  \/ \E u \in Users : DisableYield(u)
  \/ \E u \in Users, shares \in YieldAmounts : WithdrawFromYield(u, shares)
  \/ LendingAccrues
  \/ RebalanceVault
  \/ \E enabled \in BOOLEAN : SetEmergencyMode(enabled)

Next ==
  \/ WalletNext /\ UNCHANGED vaultVars
  \/ VaultNext

Spec == Init /\ [][Next]_vars

-----------------------------------------------------------------------------
(* Properties.                                                             *)

\* Type invariant: every stored integer is a u64.
VaultTypeOK ==
  /\ WalletTypeOK
  /\ vault_initialized \in BOOLEAN
  /\ target_buffer_bps \in 0 .. 5000
  /\ total_shares_issued \in Amount
  /\ total_usdc_deposited \in Amount
  /\ emergency_mode \in BOOLEAN
  /\ emergency_exchange_rate \in Nat
  /\ buffer \in Amount
  /\ ftokens \in Amount
  /\ exchange_price \in Nat \ {0}
  /\ yield_shares \in [Users -> Amount]
  /\ is_yield_enabled \in [Users -> BOOLEAN]

\* A wallet whose yield is off holds no shares: enable_yield overwrites
\* yield_shares, so any left over would be lost from the wallet and stay in
\* the total.
DisabledWalletHoldsNoShares ==
  \A u \in Users : ~is_yield_enabled[u] => yield_shares[u] = 0

\* The shares the vault has issued are exactly the ones the wallets hold: no
\* interleaving of enabling, deposits and redemptions loses or forges one.
SharesBacked == total_shares_issued = Total(yield_shares, Cap)

\* No run on the buffer: were every wallet to redeem at today's price, the
\* buffer could pay all of them.
ClaimsAreLiquid ==
  Total([u \in Users |-> RedeemableValue(yield_shares[u])], Cap) <= buffer

\* What the vault counts as deposited in a mint.
Principal(mint) == IF mint = VaultMint THEN total_usdc_deposited ELSE 0

\* Mint by mint, the vault's deposit counter is exactly what left the owners'
\* and wallets' token accounts and has not come back, although yield is paid
\* out through the same counter.
TrackedDepositsExact ==
  \A mint \in Mints :
    TokensIn(mint) + Principal(mint) = Cardinality(Holders(mint)) * InitialTokens

\* An operation of one wallet never lowers what another wallet's shares would
\* redeem for.  Only moving the buffer to or from lending may.
OthersKeepRedeemableValue ==
  [][ftokens' = ftokens =>
       \A u \in Users :
         yield_shares'[u] = yield_shares[u] =>
           RedeemableValue(yield_shares[u]) <= RedeemableValue(yield_shares[u])']_vars

\* What an owner has in the owner's account, the wallet and redeemable shares.
Wealth(u) == user_tokens[u] + balance[u] + RedeemableValue(yield_shares[u])

\* A wallet's own deposit or redemption never makes its owner richer:
\* rounding and the truncating casts never favour the wallet that acts.  (The
\* exception the guard leaves out: a wallet entering a vault without shares
\* takes over what the buffer holds.)
ActingWalletGainsNothing ==
  [][total_shares_issued > 0 =>
       \A u \in Users :
         yield_shares'[u] # yield_shares[u] => Wealth(u)' <= Wealth(u)]_vars

\* While the emergency lasts nothing that happens to the vault, other holders'
\* operations and the authority's included, lowers what a wallet's shares
\* would redeem for.
EmergencyProtectsClaims ==
  [][emergency_mode /\ emergency_mode' =>
       \A u \in Users :
         yield_shares'[u] = yield_shares[u] =>
           RedeemableValue(yield_shares[u]) <= RedeemableValue(yield_shares[u])']_vars

\* What the lending position is worth, before the cast to u64.
LendingWorth == (ftokens * exchange_price) \div PricePrecision

\* The part of the whole vault the buffer ought to hold.
HealthyBuffer == calculate_buffer_amount(FullValue, target_buffer_bps)

\* The buffer holds its part of the vault, and no more above it than the one
\* percent, or the part of an fToken, that rebalancing leaves alone.
BufferInBand ==
  LET excess == buffer - HealthyBuffer
  IN /\ excess >= 0
     /\ \/ excess <= FullValue \div 100
        \/ (excess * PricePrecision) \div exchange_price = 0

\* One rebalance is enough: although it aims at a part of what the vault was
\* worth before fTokens were rounded away, the next finds nothing to do, neither
\* to lend more nor to draw back what this one has lent.
RebalanceLandsInBand ==
  [][ftokens' # ftokens /\ LendingWorth \in Amount => BufferInBand']_vars

\* The arithmetic never stands in the way of a rebalance: the counters have
\* room for it, and no rounding leaves the position an fToken short of the
\* shortfall.  That the lending program has the tokens to pay is assumed.
OutOfBandCanRebalance ==
  RebalanceAllowed /\ FullValue \in Amount /\ LendingWorth \in Amount /\ ~BufferInBand
    => \/ buffer < TargetBuffer /\ CanRecall(TargetBuffer - buffer)
       \/ Excessive /\ CanLend(buffer - TargetBuffer)

\* What one fToken is worth, rounded up.
FTokenWorth == (exchange_price + PricePrecision - 1) \div PricePrecision

\* What the vault has beyond what it counts as deposited.
Surplus == buffer + LendingWorth - total_usdc_deposited

\* Interest is the only income, and rounding the only cost: at a given price
\* no operation adds to the surplus, only a rebalance lowers it, and by one
\* fToken at most.
OnlyRoundingIsLost ==
  [][/\ exchange_price' = exchange_price => Surplus' <= Surplus
     /\ Surplus' >= Surplus - (IF ftokens' = ftokens THEN 0 ELSE FTokenWorth)]_vars

\* A holder is refused a redemption for one reason only, that the deposit
\* counter is smaller than the payment: buffer, share total, wallet balance
\* and flags always allow it.
OnlyCounterRefusesRedemptions ==
  \A u \in Users : \A shares \in 1 .. yield_shares[u] :
    total_usdc_deposited >= RedeemableValue(shares)
      => HoldsShares(u, shares) /\ CanPayShares(u, shares, RedeemableValue(shares))

\* The wallets are the members of a pool whose reserve is the buffer.
Pool ==
  INSTANCE SharePool WITH Members <- Users,
                          Limit <- Cap,
                          held <- balance,
                          shares <- yield_shares,
                          reserve <- buffer,
                          frozen <- emergency_mode

\* Refinement: behind its flags, counters, casts and fTokens the vault is a pool
\* that sells shares at their price or above and buys them back at their price.
KeepsPool == Pool!Spec

-----------------------------------------------------------------------------
(* What documents say and the code does not do.                            *)

\* A deposit is refused unless it is worth more than a dust of shares: what
\* leaves the wallet brings it at least one.
DepositsMintShares ==
  [][\A u \in Users :
       total_usdc_deposited' > total_usdc_deposited /\ balance'[u] < balance[u] =>
         yield_shares'[u] > yield_shares[u]]_vars

\* Emergency mode disables new deposits.
EmergencyStopsDeposits ==
  [][emergency_mode => total_usdc_deposited' <= total_usdc_deposited]_vars

\* A wallet that redeems all its shares gets their part of the whole vault,
\* the lending position included.
RedemptionPaysFullShare ==
  [][\A u \in Users :
       DisableYield(u) =>
         balance'[u] - balance[u]
           >= calculate_usdc_value_of_shares(yield_shares[u], total_shares_issued,
                                             FullValue)]_vars

\* Whoever holds shares can have them redeemed now.
FundsAreWithdrawable ==
  \A u \in Users : yield_shares[u] > 0 => ENABLED DisableYield(u)

=============================================================================
