\* Payments in production and outside it, with the admin's changes of points.
SPECIFICATION Spec
CONSTANTS
  o1 = o1
  o2 = o2
  p1 = p1
  p2 = p2
  p3 = p3
  r1 = r1
  r2 = r2
  None = None
  Orders <- MCOrders
  Payments <- MCPayments
  Requests <- MCRequests
  Earned <- MCEarned
  Productions = {TRUE, FALSE}
  Adjustments <- MCAdjustments
  MaxLogs = 2
SYMMETRY Symmetric
INVARIANTS TypeOK PaidOrderIsPaidFor RecordedAfterOrder PointsOncePerOrder
CHECK_DEADLOCK FALSE
