SPECIFICATION RetryingSpec
CONSTANTS
  u1 = u1
  h1 = h1
  h2 = h2
  h3 = h3
  NoUser = NoUser
  NoProfile = NoProfile
  Users <- OneUser
  Handlers <- ThreeHandlers
  MaxFailures = 2
INVARIANTS
  TypeOK
  WalletIffAllowed
  ResolvedOnce
  ClearedByDecision
  TiersAreEarned
  AccountAuditedOnce
PROPERTIES
  EveryWalletGetsAccount
