\* Two requests in flight, Redis failing at will, any request cut short.
SPECIFICATION Spec
CONSTANTS
  r1 = r1
  r2 = r2
  p1 = p1
  p2 = p2
  Requests = {r1, r2}
  Passwords = {p1, p2}
  Seconds = {1}
  MaxVersion = 2
  RedisMayFail = TRUE
SYMMETRY Symmetry
INVARIANTS
  VersionsNeverAhead
  RevokedNeverRefreshed
  InactiveNeverMints
PROPERTY ImplementsGrants
