CONSTANTS
  U64 = 12
  SharePrecision = 1
  PricePrecision = 2
  Mints = {usdc}
  Users = {u1, u2}
  WalletMint <- MCWalletMint
  VaultMint = usdc
  InitialTokens = 3
  TransferAmounts = {0, 1, 2, 3, 4, 5, 6, 7, 8, 9, 10, 11}
  YieldAmounts = {0, 1, 2, 3, 4, 5, 6, 7, 8, 9, 10, 11}
  BufferRatios = {2500, 5000, 5001}
  MaxPrice = 4
SPECIFICATION Spec
SYMMETRY Symmetry
INVARIANTS
  VaultTypeOK
  SharesBacked
  DisabledWalletHoldsNoShares
  ClaimsAreLiquid
  TrackedDepositsExact
  OutOfBandCanRebalance
  OnlyCounterRefusesRedemptions
PROPERTIES
  OthersKeepRedeemableValue
  ActingWalletGainsNothing
  EmergencyProtectsClaims
  RebalanceLandsInBand
  OnlyRoundingIsLost
  KeepsPool
CHECK_DEADLOCK FALSE
