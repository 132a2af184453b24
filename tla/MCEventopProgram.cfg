CONSTANTS
  U64 = 31
  SharePrecision = 1
  PricePrecision = 1
  Mints = {usdc}
  Users = {u1, u2}
  WalletMint <- MCWalletMint
  VaultMint = usdc
  InitialTokens = 15
  TransferAmounts = {15}
  YieldAmounts = {20}
  BufferRatios = {2500}
  MaxPrice = 1
  Merchants = {m1}
  MerchantMint <- MCMerchantMint
  PlanIds = {p1}
  SessionTokens = {t1, t2}
  Fees = {10}
  Intervals = {1}
  FeeRates = {1000}
  MerchantAmounts = {9, 18}
  TreasuryAmounts = {2}
  U32 = 3
  MaxTime = 4
SPECIFICATION ProgramSpec
SYMMETRY Symmetry
INVARIANTS
  EveryTokenAccounted
  FundedPaymentsAreNotRefused
PROPERTIES
  FundedPaymentsStayDue
  KeepsCustody
CHECK_DEADLOCK FALSE
