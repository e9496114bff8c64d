\* A tenant that does not pay, with the platform and an API request meanwhile.
SPECIFICATION FairSpec
CONSTANTS
  s1 = s1
  s2 = s2
  basic = basic
  pro = pro
  r1 = r1
  r2 = r2
  w = w
  None = None
  SubOrders <- MCOneOrder
  Plans <- MCOnePlan
  DefaultPlan <- basic
  Cycles <- MCCycles
  CycleDays <- MCCycleDays
  TrialDays = 1
  GraceOverdueDays = 0
  GraceBannedDays = 1
  Requests <- MCOneRequest
  Worker = w
  HasCache = TRUE
  MaxDay = 3
  MaxInterventions = 1
  Grants <- MCGrants
PROPERTIES UnpaidIsBanned BanReachesCache
CHECK_DEADLOCK FALSE
