SPECIFICATION Spec
CONSTANTS
  i1 = i1
  w1 = w1
  w2 = w2
  d1 = d1
  d2 = d2
  p1 = p1
  p2 = p2
  Null = Null
  Items <- OneItem
  Warehouses <- TwoWarehouses
  Docs <- TwoDocs
  Procs <- OneProc
  Quantities = {1, 2}
  Counts = {0, 1, 3}
  Prices = {0, 3}
  MaxRows = 4
INVARIANT LedgerNeverDrifts
INVARIANT CostWithinPrices
CHECK_DEADLOCK FALSE
PROPERTY ImplementsStockLedger
