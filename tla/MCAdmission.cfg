SPECIFICATION MCSpec
CONSTANTS
  MaxClients = 3
  MaxPhones = 3
  MaxInits = 3
  MaxSessions = 2
  MaxPending = 1
  ChallengeTTL = 1
  IdleTimeout = 1
  MaxTime = 1
  MaxEpochs = 1
  None = None
  Burrows = {b1, b2, b3}
  Minters = {b1}
  MaxFileSwaps = 1
  Requests = {r1, r2}
  Credentials = {k1, k2}
  MaxMints = 3
  MaxTokens = 2
  TokenTTL = 2
  MaxNow = 2
  Nobody = Nobody
  MaxOffers = 3
  MaxCrashes = 1
  Nothing = Nothing
INVARIANTS
  NothingOutlivesItsSocket
  OneSessionPerPhone
  ApiFollowsSession
  OnePasskeyPerToken
  NewestCodeSurvives
  OfferEnrollsFirstOnly
  NewestOfferSurvives
PROPERTIES
  OutcomesHold
  TokensEndForCause
CHECK_DEADLOCK FALSE
