SPECIFICATION Spec
CONSTANTS
  w1 = w1
  w2 = w2
  pool = pool
  dollars = dollars
  ghost = ghost
  c1 = c1
  c2 = c2
  c3 = c3
  NoAccount = NoAccount
  NoCall = NoCall
  AccountIds <- MCAccountIds
  Accounts <- MCAccounts
  Liability <- MCLiability
  Currencies <- MCCurrencies
  CurrencyOf <- MCCurrencyOf
  OpeningSums <- MCOpeningSums
  Transactions <- WithTwice
  Calls <- TwoCalls
INVARIANTS
  NoOverdraft
