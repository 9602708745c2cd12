SPECIFICATION FairAccess
CONSTANTS
  u1 = u1
  u2 = u2
  t1 = t1
  t2 = t2
  NoOne = NoOne
  Users <- TwoUsers
  FirstAdmin = u1
  Outsiders <- Strangers
  Tabs <- TwoTabs
  Owners <- Seats
  Policies <- Closing
  Groups <- Membership
  MaxFailures = 1
INVARIANT AccessTypeOK
INVARIANT AdminsKeepTheDoor
PROPERTY GateOpens
