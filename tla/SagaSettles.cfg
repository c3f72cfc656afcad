SPECIFICATION FairSpec
CONSTANTS
  u1 = u1
  u2 = u2
  nobody = nobody
  w1 = w1
  w2 = w2
  k1 = k1
  k2 = k2
  h1 = h1
  h2 = h2
  r1 = r1
  r2 = r2
  d1 = d1
  Pending = Pending
  Pool = Pool
  NoRow = NoRow
  NoKey = NoKey
  NoRequest = NoRequest
  Users <- MixedUsers
  Wallets <- MCWallets
  OwnerOf <- MixedOwnerOf
  Keys <- MCKeys
  Requests <- FewRequests
  OpeningBalance <- SecondEmpty
  Deposits <- OneDeposit
  DepositOf <- MCDepositOf
  Outcomes <- AllOutcomes
  Handlers <- TwoHandlers
  Runners <- OneRunner
  Overlap = FALSE
  MaxDeaths = 1
INVARIANTS
  TypeOK
  PendingCovers
  DebitedOnce
  DriftIsInFlight
  OnlyDepositsHide
  ReportedByRuns
PROPERTIES
  ImplementsLedger
  DecidedIsResolved
  ImplementsWithdrawal
