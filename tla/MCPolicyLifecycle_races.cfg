SPECIFICATION Spec
CONSTANTS
  Candidate = {c1}
  Proc = {p1, p2}
  Review = {r1, r2}
  Clone <- Clones
SYMMETRY Symmetry
INVARIANTS
  AttestationsMatch
  TransitionsFollowReview
PROPERTIES
  ImplementsPolicyReview
