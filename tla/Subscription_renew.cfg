\* Two orders of one tenant, notified by two requests, with the platform and the
\* worker in between.
SPECIFICATION Spec
CONSTANTS
  s1 = s1
  s2 = s2
  basic = basic
  pro = pro
  r1 = r1
  r2 = r2
  w = w
  None = None
  SubOrders <- MCSubOrders
  Plans <- MCPlans
  DefaultPlan <- basic
  Cycles <- MCCycles
  CycleDays <- MCCycleDays
  TrialDays = 1
  GraceOverdueDays = 0
  GraceBannedDays = 1
  Requests <- MCRequests
  Worker = w
  HasCache = FALSE
  MaxDay = 2
  MaxInterventions = 1
  Grants <- MCGrants
SYMMETRY Symmetric
VIEW WithoutAdmins
INVARIANTS TypeOK NoFreeTime SwitchIsPaidFor
PROPERTIES PaidOrderIsFinal
CHECK_DEADLOCK FALSE
