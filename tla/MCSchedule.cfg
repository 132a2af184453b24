CONSTANTS
  U64 = 100000
  SharePrecision = 1
  PricePrecision = 100
  Mints = {usdc}
  Users = {u1}
  WalletMint <- MCWalletMint
  VaultMint = usdc
  InitialTokens = 260
  TransferAmounts = {260}
  YieldAmounts = {160}
  BufferRatios = {2500}
  MaxPrice = 102
  Merchants = {m1}
  MerchantMint <- MCMerchantMint
  PlanIds = {p1}
  SessionTokens = {t1}
  Fees = {30}
  Intervals = {1}
  FeeRates = {1000}
  MerchantAmounts = {18}
  TreasuryAmounts = {2}
  U32 = 16
  MaxTime = 2
SPECIFICATION ScheduledSpec
PROPERTIES
  FundedPaymentsHappen
  KeeperRestoresBuffer
CHECK_DEADLOCK FALSE
