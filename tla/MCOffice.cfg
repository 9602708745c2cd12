SPECIFICATION OfficeSpec
CONSTANTS
  c1 = c1
  c2 = c2
  r1 = r1
  r2 = r2
  m1 = m1
  m2 = m2
  Null = Null
  Cashiers <- Two
  Amounts <- HalfCents
  Officers <- Two
  Measures <- TwoActions
  Clerks <- Three
  Requests <- Two
  Reviewers <- Raters
  Ratings <- FiveStars
  Clicks <- Two
  Days = 2
  DayLength = 2
  Starts <- Morning
  Grace = 0
  Entries <- Typed
  Servers <- Three
  LastDay = 2
  NoDay = 0
  Admins <- Two
  Edits <- SomeEdits
  Default <- Hours
  MinSlot = 1
  MaxSlot = 5
  MaxCapacity = 2
  MaxTime = 8
  MaxMishaps = 1
  Nothing = Nothing
INVARIANT OfficeTypeOK
INVARIANT PaymentsSettle
INVARIANT RowsTellTheirStory
INVARIANT AppraisalsFinish
INVARIANT DaysAreRecordedRight
INVARIANT RemindedOncePerDay
INVARIANT HoursToBook
INVARIANT ReadYourWrites
INVARIANT OffersAccepted
PROPERTY AloneClosesWhenDone
CHECK_DEADLOCK FALSE
