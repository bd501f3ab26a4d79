\* One request at a time, Redis failing at will, any request cut short.
SPECIFICATION Spec
CONSTANTS
  q1 = q1
  Requests = {q1}
  MaxSecrets = 4
\* Once MaxSecrets are generated and none was sent, nothing is left to do.
CHECK_DEADLOCK FALSE
CONSTRAINT Unslipped
INVARIANTS
  SpentNeverAccepted
  OnlyLatestAccepted
  SecuredNeverHurried
