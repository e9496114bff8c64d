---------------------------- MODULE MCOrderTrade ----------------------------
(***************************************************************************)
(* Instances of OrderTrade for TLC: one product sold by SKU, one sold      *)
(* without, one virtual.                                                   *)
(***************************************************************************)
EXTENDS OrderTrade, TLC

CONSTANTS mug, shirt, ebook, shirtL, o1, o2, o3, r1, r2, c1, c2, t1

Items(m, l, e) == mug :> m @@ shirt :> 0 @@ ebook :> e @@ shirtL :> l

MCProducts == {mug, shirt, ebook}
MCSkus == {shirtL}
MCSkuProduct == shirtL :> shirt
MCOrders == {o1, o2}
MCThreeOrders == {o1, o2, o3}
MCRequests == {r1, r2}
MCOneRequest == {r1}
MCFirst == {o1}

\* Two mugs and one shirt: a second mixed cart finds a mug but no shirt.
MCStock == Items(2, 1, 0)
MCCarts == {Items(1, 1, 1), Items(0, 0, 1)}
MCVirtual == {ebook}

\* The runs of the limits sell one product without SKUs.
MCMug == {mug}
MCNone == {}
MCNoSkuProduct == << >>
MCMugStock == mug :> 3
MCTwoMugs == mug :> 2
MCMugCarts == {mug :> 1}

MCCoupons == {c1, c2}
MCNoCoupons == {}
MCTemplates == {t1}
MCTemplateOf == c1 :> t1 @@ c2 :> t1
MCNoTemplateOf == << >>

\* No action reads the logs or the history of held units, and neither do the
\* properties of the runs that use this view: states that differ in them only
\* have the same future.
WithoutHistory == <<product, stock, order, coupon, enabled, req>>

Symmetric == Permutations(MCOrders) \cup Permutations(MCRequests)
CouponSymmetric == Symmetric \cup Permutations(MCCoupons)
ThreeSymmetric == CouponSymmetric \cup Permutations(MCThreeOrders)
=============================================================================
