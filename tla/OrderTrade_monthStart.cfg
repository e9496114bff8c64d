\* One request at a time, around the first day of the month.
SPECIFICATION Spec
CONSTANTS
  mug = mug
  shirt = shirt
  ebook = ebook
  shirtL = shirtL
  o1 = o1
  o2 = o2
  o3 = o3
  r1 = r1
  r2 = r2
  c1 = c1
  c2 = c2
  t1 = t1
  None = None
  Orders <- MCOrders
  Requests <- MCOneRequest
  Templates <- MCTemplates
  Products <- MCMug
  Skus <- MCNone
  SkuProduct <- MCNoSkuProduct
  Carts <- MCMugCarts
  InitStock <- MCMugStock
  InitVirtual <- MCNone
  MemberCoupons <- MCNoCoupons
  TemplateOf <- MCNoTemplateOf
  FirstDay <- MCFirst
  OrderLimit = 1
  UseLimit = 0
  MaxStock = 0
  MerchantOps = {"shelf"}
INVARIANT MonthlyLimitHolds
CHECK_DEADLOCK FALSE
