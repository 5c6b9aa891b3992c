SPECIFICATION Spec
SYMMETRY Symmetry
CONSTANTS
  Request = {r1, r2}
  Token = {t1, t2, t3}
  NoToken = NoToken
  Admin = {ann, bob}
  NoAdmin = NoAdmin
  MaxAttempts = 2
  Minute = 1
  MaxSessions = 2
  TTL = 3
  NoSession = NoSession
  MaxTries = 4
  MaxTime = 5
INVARIANTS
  SessionsMatchPassword
  RateBounded
PROPERTIES
  RevokedStaysRevoked
  SignedOutForAReason
