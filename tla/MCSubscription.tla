--------------------------- MODULE MCSubscription ---------------------------
(***************************************************************************)
(* Instances of Subscription for TLC.                                      *)
(***************************************************************************)
EXTENDS Subscription, TLC

CONSTANTS s1, s2, basic, pro, r1, r2, w

MCSubOrders == {s1, s2}
MCPlans == {basic, pro}
MCOnePlan == {basic}
MCCycles == {"monthly"}
MCCycleDays == "monthly" :> 1
MCGrants == {2}
MCRequests == {r1, r2}
MCOneRequest == {r1}
MCOneOrder == {s1}

\* No action reads the administrators' status, and no property of the safety run
\* does but for its type.
WithoutAdmins ==
  <<now, tenant, order, cached, history,
    [p \in Processes |-> [req[p] EXCEPT !.enable = FALSE]]>>

Symmetric == Permutations(MCSubOrders) \cup Permutations(MCRequests)
=============================================================================
