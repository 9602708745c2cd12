SPECIFICATION Spec
CONSTANTS
  i1 = i1
  w1 = w1
  w2 = w2
  d1 = d1
  d2 = d2
  p1 = p1
  p2 = p2
  Null = Null
  Items <- OneItem
  Warehouses <- TwoWarehouses
  Docs <- OneDoc
  Procs <- TwoProcs
  Quantities = {1}
  Counts = {0, 1, 3}
  Prices = {1, 4}
  MaxRows = 3
INVARIANT LedgerNeverDrifts
CHECK_DEADLOCK FALSE
