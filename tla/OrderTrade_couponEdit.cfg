\* The admin changes the status of a coupon while a checkout uses it: the refusal to
\* change a used coupon is decided by the row as it was read before the UPDATE.
SPECIFICATION Spec
CONSTANTS
  mug = mug
  shirt = shirt
  ebook = ebook
  shirtL = shirtL
  o1 = o1
  o2 = o2
  o3 = o3
  r1 = r1
  r2 = r2
  c1 = c1
  c2 = c2
  t1 = t1
  None = None
  Orders <- MCOrders
  Requests <- MCRequests
  Templates <- MCTemplates
  Products <- MCMug
  Skus <- MCNone
  SkuProduct <- MCNoSkuProduct
  Carts <- MCMugCarts
  InitStock <- MCMugStock
  InitVirtual <- MCNone
  MemberCoupons <- MCCoupons
  TemplateOf <- MCTemplateOf
  FirstDay <- MCNone
  OrderLimit = 0
  UseLimit = 1
  MaxStock = 0
  MerchantOps = {"coupon"}
SYMMETRY CouponSymmetric
VIEW WithoutHistory
PROPERTY UsedCouponStaysUsed
CHECK_DEADLOCK FALSE
