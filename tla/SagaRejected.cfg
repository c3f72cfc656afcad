SPECIFICATION FairSpec
CONSTANTS
  u1 = u1
  u2 = u2
  nobody = nobody
  w1 = w1
  w2 = w2
  k1 = k1
  k2 = k2
  h1 = h1
  h2 = h2
  r1 = r1
  r2 = r2
  d1 = d1
  Pending = Pending
  Pool = Pool
  NoRow = NoRow
  NoKey = NoKey
  NoRequest = NoRequest
  Users <- MCUsers
  Wallets <- MCWallets
  OwnerOf <- MCOwnerOf
  Keys <- MCKeys
  Requests <- TwoRequests
  OpeningBalance <- MCOpeningBalance
  Deposits <- NoDeposits
  DepositOf <- NoDepositOf
  Outcomes <- AllOutcomes
  Handlers <- TwoHandlers
  Runners <- OneRunner
  Overlap = FALSE
  MaxDeaths = 0
PROPERTIES
  RejectedIsReleased
