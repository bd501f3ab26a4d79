\* Two requests in flight, nothing failing, no tokens issued while another request
\* revokes: a guard fallback undoes a revocation's cache write.
SPECIFICATION Spec
CONSTANTS
  r1 = r1
  r2 = r2
  p1 = p1
  p2 = p2
  Requests = {r1, r2}
  Passwords = {p1, p2}
  Seconds = {1}
  MaxVersion = 2
  RedisMayFail = FALSE
CONSTRAINT IssuesOrRevokes
INVARIANT RevokedTokensRejected
