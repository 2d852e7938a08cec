SPECIFICATION Spec
CONSTANTS
  s1 = s1
  s2 = s2
  d1 = d1
  f = f
  g = g
  v1 = v1
  v2 = v2
  v3 = v3
  None = None
  Server = {s1, s2}
  Source = {d1}
  SourceOf <- MCSharedSource
  PinOf <- MCOnePin
  File = {f, g}
  ReviewId = {v1, v2, v3}
  MaxRevision = 4
INVARIANTS
  TypeOK
  LeasesHaveHistory
  ReviewsAreSpentOnce
  RevisionsAreReviewed
SYMMETRY MCSymmetry
