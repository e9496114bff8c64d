\* Two checkouts racing with payments, cancellations, shipments and deletions
\* of products; is_virtual and stock are not edited.
SPECIFICATION Spec
CONSTANTS
  mug = mug
  shirt = shirt
  ebook = ebook
  shirtL = shirtL
  o1 = o1
  o2 = o2
  o3 = o3
  r1 = r1
  r2 = r2
  c1 = c1
  c2 = c2
  t1 = t1
  None = None
  Orders <- MCOrders
  Requests <- MCRequests
  Templates <- MCTemplates
  Products <- MCProducts
  Skus <- MCSkus
  SkuProduct <- MCSkuProduct
  Carts <- MCCarts
  InitStock <- MCStock
  InitVirtual <- MCVirtual
  MemberCoupons <- MCNoCoupons
  TemplateOf <- MCNoTemplateOf
  FirstDay <- MCNone
  OrderLimit = 0
  UseLimit = 0
  MaxStock = 0
  MerchantOps = {"delete"}
SYMMETRY Symmetric
INVARIANTS TypeOK HoldsItsItems ShelfLedger AuditTrail
CHECK_DEADLOCK FALSE
