\* A notification whose first processing died after recording the payment.
SPECIFICATION Spec
CONSTANTS
  o1 = o1
  o2 = o2
  p1 = p1
  p2 = p2
  p3 = p3
  r1 = r1
  r2 = r2
  None = None
  Orders <- MCOneOrder
  Payments <- MCTwoPayments
  Requests <- MCRequests
  Earned <- MCEarnedOne
  Productions = {TRUE}
  Adjustments <- MCNoAdjustments
  MaxLogs = 2
INVARIANT AcknowledgedIsDone
CHECK_DEADLOCK FALSE
