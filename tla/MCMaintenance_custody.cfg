SPECIFICATION HSpec
CONSTANTS
  a1 = a1
  a2 = a2
  c1 = c1
  c2 = c2
  w1 = w1
  w2 = w2
  s1 = s1
  p1 = p1
  p2 = p2
  cron = cron
  Null = Null
  Assignments <- TwoAssignments
  Clerks <- TwoClerks
  WorkOrders <- OneWorkOrder
  Schedules <- OneSchedule
  Workers <- OneWorker
  Intervals = {1}
  LeadDays = 0
  MAX_CATCH_UP_STEPS = 5000
  LastDay = 0
INVARIANT OneHolder
INVARIANT AloneDecommissionedIsHome
CHECK_DEADLOCK FALSE
