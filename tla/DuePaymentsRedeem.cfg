CONSTANTS
  U64 = 8
  SharePrecision = 1
  PricePrecision = 1
  Mints = {usdc}
  Users = {u1, u2}
  WalletMint <- MCWalletMint
  VaultMint = usdc
  InitialTokens = 3
  TransferAmounts = {1, 3}
  YieldAmounts = {0, 1, 2, 3, 4, 5, 6, 7}
  BufferRatios = {2500}
  MaxPrice = 1
  Merchants = {m1}
  MerchantMint <- MCMerchantMint
  PlanIds = {p1}
  SessionTokens = {t1}
  Fees = {1}
  Intervals = {1}
  FeeRates = {1000}
  MerchantAmounts = {1}
  TreasuryAmounts = {1}
  U32 = 3
  MaxTime = 2
SPECIFICATION ProgramSpec
SYMMETRY Symmetry
INVARIANTS
  DuePaymentsRedeem
CHECK_DEADLOCK FALSE
