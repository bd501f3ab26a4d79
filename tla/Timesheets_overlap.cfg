\* Two engineers whose requests may overlap.
SPECIFICATION Spec
CONSTANTS
  e1 = e1
  e2 = e2
  c1 = c1
  c2 = c2
  q1 = q1
  q2 = q2
  u1 = u1
  u2 = u2
  office = office
  NoContent = NoContent
  Nobody = Nobody
  Engineers = {e1, e2}
  Contents = {c1}
  Reviewers = {office}
  Requests = {q1, q2}
  Unlocks = {u1, u2}
  ClientsWait = FALSE
SYMMETRY Symmetry
INVARIANTS
  ReviewsOnRecord
  LateWritesUnlocked
PROPERTY VerdictsFinal
