----------------------------- MODULE MCPayment ------------------------------
(***************************************************************************)
(* Instances of Payment for TLC.                                           *)
(***************************************************************************)
EXTENDS Payment, TLC

CONSTANTS o1, o2, p1, p2, p3, r1, r2

MCOrders == {o1, o2}
MCOneOrder == {o1}
MCPayments == {p1, p2, p3}
MCTwoPayments == {p1, p2}
MCRequests == {r1, r2}
MCEarned == o1 :> 2 @@ o2 :> 3
MCEarnedOne == o1 :> 2
MCAdjustments == {-1, 1}
MCNoAdjustments == {}

Symmetric == Permutations(MCPayments) \cup Permutations(MCRequests)
=============================================================================
