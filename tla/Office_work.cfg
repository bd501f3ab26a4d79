\* Leave, departments, team members, accounts and registration.
SPECIFICATION OfficeSpec
CONSTANTS
  m1 = m1
  m2 = m2
  s1 = s1
  s2 = s2
  jo = jo
  jon = jon
  Leaves = {l1, l2}
  Applicants = {s1, s2}
  Reviewers = {office}
  Entitlement = 2
  Requested <- OneDayOrTwo
  DeptIds = {d1, d2}
  RecordIds = {m1, m2}
  DeptSlots = {s1, s2}
  Emails <- Addresses
  UserName <- Names
  MemberIds = {m1, m2}
  AccountIds = {m1, m2}
  Images = {i1, i2, i3}
  None = None
  HrSlots = {s1, s2}
  Users = {m1, m2}
  AdminSlots = {s1, s2}
  RegSlots = {browser}
  MaxCodes = 3
SYMMETRY Symmetry
CHECK_DEADLOCK FALSE
INVARIANTS
  OfficeTypeOK
  NeverChargedTwice
  OrphansOnlyRaced
  PhotosShown
  AccountsFollow
  AdminRemains
  VerifiedByLatest
PROPERTY
  ImplementsLedger
