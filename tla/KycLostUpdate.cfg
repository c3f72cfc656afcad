SPECIFICATION Spec
CONSTANTS
  u1 = u1
  h1 = h1
  h2 = h2
  h3 = h3
  NoUser = NoUser
  NoProfile = NoProfile
  Users <- OneUser
  Handlers <- TwoHandlers
  MaxFailures = 0
INVARIANTS
  DispositionHolds
