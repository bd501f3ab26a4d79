\* One request at a time, Redis answering, any request cut short.
SPECIFICATION Spec
CONSTANTS
  r1 = r1
  r2 = r2
  p1 = p1
  p2 = p2
  Requests = {r1}
  Passwords = {p1, p2}
  Seconds = {1, 2}
  MaxVersion = 2
  RedisMayFail = FALSE
INVARIANTS
  RevokedTokensRejected
  RevokedKeysGone
  CurrentTokensAdmitted
