SPECIFICATION Spec
CONSTANTS
  a1 = a1
  a2 = a2
  a3 = a3
  u1 = u1
  u2 = u2
  s1 = s1
  i1 = i1
  i2 = i2
  p1 = p1
  p2 = p2
  Null = Null
  Appts <- TwoAppts
  Users <- TwoUsers
  StoreUsers <- Store
  Slots <- OneSlot
  Items <- TwoItems
  Procs <- TwoProcs
  Capacities = {1, 2}
SYMMETRY Symmetry
INVARIANT TypeOK
INVARIANT IssuedAtMostOnce
INVARIANT OverbookedByOverlapOnly
PROPERTY IssuedOnlyByCompletion
PROPERTY ClosedStaysClosed
