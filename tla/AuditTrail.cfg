SPECIFICATION FairSpec
CONSTANTS
  h1 = h1
  h2 = h2
  bayo = bayo
  bayoMail = bayoMail
  ada = ada
  adaMail = adaMail
  newMail = newMail
  newMAIL = newMAIL
  NoActor = NoActor
  NoEmail = NoEmail
  NoEntry = NoEntry
  Any = Any
  Ids <- MCIds
  Handlers <- MCHandlers
  Emails <- MCEmails
  Spellings <- MCSpellings
  Normal <- MCNormal
  Existing <- MCExisting
  Profiled <- MCProfiled
  Filters <- MCFilters
  Limits = {1}
  MaxTime = 2
INVARIANTS
  TypeOK
  RegisteredOnce
  AnswersAreAudited
  WalkShowsAll
PROPERTIES
  EveryRequestEnds
