SPECIFICATION Spec
CONSTANTS
  u1 = u1
  u2 = u2
  t1 = t1
  t2 = t2
  t3 = t3
  t4 = t4
  h1 = h1
  h2 = h2
  h3 = h3
  NoUser = NoUser
  NoHandler = NoHandler
  NoToken = NoToken
  Users <- TwoUsers
  Tokens <- MCTokens
  Handlers <- MCHandlers
SYMMETRY MCSymmetry
INVARIANTS
  TypeOK
  OneTokenPerSession
  LatestLoginRules
PROPERTIES
  ImplementsSession
