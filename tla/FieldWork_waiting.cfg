\* Assessments, vehicle checks, shifts, prices and a team; the clients wait for their answers.
SPECIFICATION FieldSpec
CONSTANTS
  p1 = p1
  p2 = p2
  p3 = p3
  s1 = s1
  s2 = s2
  Engineers = {p1, p2, p3}
  Office = Office
  Requests = {q1, q2, q3}
  ClientsWait = TRUE
  FirstDay = 0
  LastDay = 1
  CheckSlots = {s1, s2}
  OfficeWaits = TRUE
  Members = {m1, m2}
  ShiftIds = {h1, h2, h3}
  DutySlots = {s1, s2}
  MembersWait = TRUE
  Crew = {e1, e2}
  Codes = {c1}
  Prices = {3}
  Quantities = {50}
  Jobs = {j}
  BlankJob = BlankJob
  PriceSlots = {s1, s2}
  Staff = {p1, p2, p3}
  Lists = {{p1, p2}, {p2, p3}, {p1, p3}}
  TeamSlots = {s1, s2}
SYMMETRY Symmetry
CHECK_DEADLOCK FALSE
INVARIANTS
  OneSignatureEach
  SubmittedSigned
  OneShiftAtATime
  TeamChangesKept
  DraftsPrivate
  SharesAddUp
  UsedCardsKept
  FieldTypeOK
PROPERTIES
  SignaturesKept
  StatusNeverGoesBack
  ChecksOnlyAdvance
