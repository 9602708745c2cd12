SPECIFICATION HSpec
CONSTANTS
  r1 = r1
  r2 = r2
  n1 = n1
  c1 = c1
  c2 = c2
  p1 = p1
  p2 = p2
  Null = Null
  Reviewers <- TwoReviewers
  Names <- OneName
  Contents <- TwoContents
  Procs <- TwoProcs
  MaxVersions = 2
  MaxSubmits = 2
SYMMETRY Symmetry
INVARIANT TypeOK
INVARIANT VersionsContiguous
INVARIANT AloneApprovedMeansAllSigned
INVARIANT AloneReviewCanBeDecided
INVARIANT AloneFileKept
CHECK_DEADLOCK FALSE
