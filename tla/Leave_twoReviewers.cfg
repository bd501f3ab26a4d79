\* Two reviews at a time: one leave is charged twice.
SPECIFICATION Spec
CONSTANTS
  l1 = l1
  l2 = l2
  a1 = a1
  a2 = a2
  v1 = v1
  v2 = v2
  Leaves = {l1, l2}
  Applicants = {a1, a2}
  Reviewers = {v1, v2}
  Entitlement = 2
  Requested <- OneDayOrTwo
SYMMETRY Symmetry
INVARIANT NeverChargedTwice
