\* A cancellation that read the after-sale before it was refunded.
SPECIFICATION AfterSaleSpec
CONSTANTS
  mug = mug
  o1 = o1
  r1 = r1
  a1 = a1
  a2 = a2
  d1 = d1
  d2 = d2
  t1 = t1
  None = None
  Orders <- MCOrders
  Products <- MCProducts
  Skus <- MCEmpty
  SkuProduct <- MCNoMap
  MemberCoupons <- MCEmpty
  Templates <- MCTemplates
  TemplateOf <- MCNoMap
  Requests <- MCRequests
  Carts <- MCCarts
  InitStock <- MCStock
  InitVirtual <- MCEmpty
  FirstDay <- MCEmpty
  OrderLimit = 0
  UseLimit = 0
  MaxStock = 0
  MerchantOps = {}
  AfterSales <- MCAfterSales
  Calls <- MCCalls
SYMMETRY Symmetric
PROPERTY RefundedStaysRefunded
CHECK_DEADLOCK FALSE
