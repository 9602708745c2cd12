SPECIFICATION HFairSpec
CONSTANTS
  a1 = a1
  a2 = a2
  c1 = c1
  c2 = c2
  w1 = w1
  w2 = w2
  s1 = s1
  p1 = p1
  p2 = p2
  cron = cron
  Null = Null
  Assignments <- None
  Clerks <- None
  WorkOrders <- TwoWorkOrders
  Schedules <- OneSchedule
  Workers <- OneWorker
  Intervals = {1}
  LeadDays = 0
  MAX_CATCH_UP_STEPS = 5000
  LastDay = 1
INVARIANT TypeOK
INVARIANT OneOpenPerSchedule
INVARIANT AloneUnderMaintenanceHasWork
PROPERTY NextDueAfterService
PROPERTY AloneOpenedForTheDueDate
PROPERTY DueIsOpened
CHECK_DEADLOCK FALSE
