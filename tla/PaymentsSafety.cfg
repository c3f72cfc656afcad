SPECIFICATION FairSpec
CONSTANTS
  s1 = s1
  s2 = s2
  w1 = w1
  w2 = w2
  stranger = stranger
  n1 = n1
  n2 = n2
  n9 = n9
  e1 = e1
  e2 = e2
  k1 = k1
  k2 = k2
  Pool = Pool
  NoRow = NoRow
  NoRequest = NoRequest
  NoServer = NoServer
  Servers <- TwoServers
  Wallets <- MCWallets
  Numbers <- MCNumbers
  WalletOfNumber <- MCWalletOfNumber
  References <- MCReferences
  Keys <- MCKeys
  Deposits <- MCDeposits
  Transfers <- MCTransfers
  PoolSizes = {2, 3}
  MaxDeaths = 1
INVARIANTS
  TypeOK
  LedgerMatchesRecords
PROPERTIES
  ImplementsLedger
  DepositsArrive
  EveryRequestEnds
