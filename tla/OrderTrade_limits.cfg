\* Three checkouts against a month's limit of one order and a coupon's limit of one
\* use, while the merchant edits the product, counts its stock, switches the coupon
\* and changes the status of the member's coupons.
SPECIFICATION Spec
CONSTANTS
  mug = mug
  shirt = shirt
  ebook = ebook
  shirtL = shirtL
  o1 = o1
  o2 = o2
  o3 = o3
  r1 = r1
  r2 = r2
  c1 = c1
  c2 = c2
  t1 = t1
  None = None
  Orders <- MCThreeOrders
  Requests <- MCRequests
  Templates <- MCTemplates
  Products <- MCMug
  Skus <- MCNone
  SkuProduct <- MCNoSkuProduct
  Carts <- MCMugCarts
  InitStock <- MCTwoMugs
  InitVirtual <- MCNone
  MemberCoupons <- MCCoupons
  TemplateOf <- MCTemplateOf
  FirstDay <- MCNone
  OrderLimit = 1
  UseLimit = 1
  MaxStock = 0
  MerchantOps = {"template","coupon","virtual","adjust"}
SYMMETRY ThreeSymmetric
VIEW WithoutHistory
INVARIANTS QuotaOvershoot DiscountIsBacked UseLimitHolds
PROPERTIES ImplementsLifecycle OnlyARaceTakesBack
CHECK_DEADLOCK FALSE
