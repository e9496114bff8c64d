---------------------------- MODULE MCAfterSale -----------------------------
(***************************************************************************)
(* Instances of AfterSale for TLC: one mug, sold to one order.             *)
(***************************************************************************)
EXTENDS AfterSale, TLC

CONSTANTS mug, o1, r1, a1, a2, d1, d2, t1

MCOrders == {o1}
MCProducts == {mug}
MCEmpty == {}
MCNoMap == << >>
MCRequests == {r1}
MCTemplates == {t1}
MCStock == mug :> 1
MCCarts == {mug :> 1}
MCAfterSales == {a1, a2}
MCCalls == {d1, d2}

\* No action reads the logs, and of the properties only the type invariant, whose
\* part about an entry is settled by the step that appends it: two states that
\* differ in the logs only have the same future.
WithoutLogs == <<product, stock, order, coupon, enabled, held, req, afterSale, call>>

Symmetric == Permutations(MCAfterSales) \cup Permutations(MCCalls)
=============================================================================
