CONSTANTS
  U64 = 64
  SharePrecision = 1
  PricePrecision = 1
  u1 = u1
  u2 = u2
  m1 = m1
  m2 = m2
  m3 = m3
  usdc = usdc
  usdt = usdt
  Mints <- MCMints
  Users <- MCUsers
  WalletMint <- MCWalletMint
  InitialTokens = 40
  TransferAmounts = {0, 20}
  Merchants <- MCMerchants
  MerchantMint <- MCMerchantMint
  PlanIds = {p1}
  SessionTokens = {t1, t2}
  Fees = {0, 10}
  Intervals = {0, 2}
  FeeRates = {0, 1000, 2000}
  MerchantAmounts = {18}
  TreasuryAmounts = {2}
  U32 = 3
  MaxTime = 4
SPECIFICATION BillingSpec
SYMMETRY Symmetry
PROPERTIES
  WithdrawalsKeepReserve
CHECK_DEADLOCK FALSE
