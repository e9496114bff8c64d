----------------------------- MODULE CouponIssue ------------------------------
(***************************************************************************)
(* The issuing of one coupon: CouponService.Receive, the admin's grants    *)
(* (MemberService.AdminGrantCoupon) and the admin's edits (CouponHandler). *)
(* What a member coupon is used for afterwards is in OrderTrade.           *)
(*                                                                         *)
(* Receiving and granting are transactions that lock the coupon's row with *)
(* SELECT ... FOR UPDATE and hold the lock until they commit.  An edit is  *)
(* not one: it reads the row without a lock, computes the new counts in    *)
(* memory, and its UPDATE waits for the lock.                              *)
(*                                                                         *)
(* Operators named ...Plain, ...Inclusive, ...Delta and ...Anyway are not  *)
(* part of the specification: each is the definition below it with a       *)
(* plausible defect, kept to see that a property can fail.                 *)
(***************************************************************************)
EXTENDS Calls

CONSTANTS
  Members,
  Rows,       \* the member_coupons rows a run may insert
  Totals,     \* the total_count values the admin submits
  PerLimits   \* the per_limit values the admin submits, 0 for none

ASSUME RowsAssumption == IsFiniteSet(Rows)
ASSUME ValuesAssumption ==
  /\ Totals \subseteq Nat
  /\ PerLimits \subseteq Nat
  /\ None \notin Members

VARIABLES
  coupon,  \* CouponRow
  lock,    \* the request whose transaction holds the coupon's row, or None
  issued,  \* [Rows -> member or None], member_coupons in any status
  req      \* [Requests -> RequestState]

vars == <<coupon, lock, issued, req>>

-----------------------------------------------------------------------------
(* Rows and requests *)

CouponRow == [exists : BOOLEAN,
              enabled : BOOLEAN,     \* status = 1
              unlimited : BOOLEAN,   \* receive_limit_type
              total : Nat,
              remain : Nat,
              perLimit : Nat]

\* "count" and "issue" are stages of Receive and of a grant, "edit" of Update.
RequestState ==
  [pc : {"idle", "count", "issue", "edit"},
   member : Members \cup {None},
   granted : BOOLEAN,     \* the admin grants it
   write : CouponRow,     \* edit: the values it will write
   recount : BOOLEAN]     \* edit: it writes the two counts as well

NoCoupon == [exists |-> FALSE, enabled |-> FALSE, unlimited |-> FALSE,
             total |-> 0, remain |-> 0, perLimit |-> 0]
Idle == [pc |-> "idle", member |-> None, granted |-> FALSE,
         write |-> NoCoupon, recount |-> FALSE]

Starts(r, state) ==
  /\ req[r].pc = "idle"
  /\ req' = [req EXCEPT ![r] = state]

Finishes(r) == req' = [req EXCEPT ![r] = Idle]

RowsOf(m) == {i \in Rows : issued[i] = m}

\* The counts couponCounts stores for a new coupon.
Forms == [exists : {TRUE}, enabled : BOOLEAN, unlimited : BOOLEAN, total : Totals,
          remain : {0}, perLimit : PerLimits]
Created(form) ==
  [form EXCEPT !.total = IF form.unlimited THEN 0 ELSE form.total,
               !.remain = IF form.unlimited THEN 0 ELSE form.total]

-----------------------------------------------------------------------------
(* Receive and AdminGrantCoupon *)

\* SELECT ... FOR UPDATE; the coupon must exist and be switched on.
FindByIDPlain(r) == UNCHANGED lock
FindByIDForUpdate(r) == lock = None /\ lock' = r

Receive(r, m) ==
  /\ coupon.exists /\ coupon.enabled
  /\ FindByIDForUpdate(r)
  /\ Starts(r, [Idle EXCEPT !.pc = "count", !.member = m])
  /\ UNCHANGED <<coupon, issued>>

AdminGrantCoupon(r, m) ==
  /\ coupon.exists /\ coupon.enabled
  /\ FindByIDForUpdate(r)
  /\ Starts(r, [Idle EXCEPT !.pc = "issue", !.member = m, !.granted = TRUE])
  /\ UNCHANGED <<coupon, issued>>

\* The member's coupons of this kind are counted, granted ones included.
UnderLimitInclusive(m) == coupon.perLimit = 0 \/ Cardinality(RowsOf(m)) <= coupon.perLimit
UnderLimit(m) == coupon.perLimit = 0 \/ Cardinality(RowsOf(m)) < coupon.perLimit

CountReceived(r) ==
  /\ req[r].pc = "count"
  /\ UnderLimit(req[r].member)
  /\ req' = [req EXCEPT ![r] = [@ EXCEPT !.pc = "issue"]]
  /\ UNCHANGED <<coupon, lock, issued>>

\* UPDATE ... SET remain_count = remain_count - 1 WHERE remain_count > 0
DecreaseRemainAnyway == coupon' = [coupon EXCEPT !.remain = @ - 1]
DecreaseRemain ==
  /\ coupon.remain > 0
  /\ coupon' = [coupon EXCEPT !.remain = @ - 1]

\* The UPDATE of a limited coupon, the INSERT and the COMMIT.
Issue(r) ==
  \E i \in Rows :
    /\ req[r].pc = "issue"
    /\ issued[i] = None
    /\ issued' = [issued EXCEPT ![i] = req[r].member]
    /\ IF coupon.unlimited THEN UNCHANGED coupon ELSE DecreaseRemain
    /\ lock' = None
    /\ Finishes(r)

\* An error and the rollback that follows, or a process that dies.
Abandon(r) ==
  /\ req[r].pc # "idle"
  /\ lock' = IF lock = r THEN None ELSE lock
  /\ Finishes(r)
  /\ UNCHANGED <<coupon, issued>>

-----------------------------------------------------------------------------
(* CouponHandler.Update and Delete *)

Max0(n) == IF n < 0 THEN 0 ELSE n

\* What the edit leaves of the coupon, told from the row as it was read: the
\* units already issued are not given back.
NewRemainDelta(form) == Max0(coupon.remain + coupon.total - form.total)
NewRemain(form) ==
  IF coupon.unlimited THEN form.total ELSE Max0(coupon.remain + form.total - coupon.total)

\* The counts are written only if the total or the kind of limit is changed.
Recounts(form) == form.unlimited \/ coupon.unlimited \/ form.total # coupon.total
Edited(form) ==
  [form EXCEPT !.total = IF form.unlimited THEN 0 ELSE @,
               !.remain = IF form.unlimited THEN 0 ELSE NewRemain(form)]

ReadCoupon(r) ==
  \E form \in Forms :
    /\ coupon.exists
    /\ Starts(r, [Idle EXCEPT !.pc = "edit", !.recount = Recounts(form),
                              !.write = IF Recounts(form) THEN Edited(form) ELSE
                                [form EXCEPT !.total = 0]])
    /\ UNCHANGED <<coupon, lock, issued>>

\* The UPDATE waits for the lock, and matches no row of a deleted coupon.
WriteCoupon(r) ==
  /\ req[r].pc = "edit"
  /\ lock = None
  /\ coupon' = IF ~coupon.exists THEN coupon
               ELSE IF req[r].recount THEN req[r].write
               ELSE [req[r].write EXCEPT !.total = coupon.total, !.remain = coupon.remain]
  /\ Finishes(r)
  /\ UNCHANGED <<lock, issued>>

\* The row is removed, and every read and UPDATE of it finds none from then on.
DeleteCoupon ==
  /\ lock = None
  /\ coupon.exists
  /\ coupon' = NoCoupon
  /\ UNCHANGED <<lock, issued, req>>

-----------------------------------------------------------------------------
(* The specification *)

Init ==
  /\ \E form \in Forms : coupon = Created(form)
  /\ lock = None
  /\ issued = [i \in Rows |-> None]
  /\ req = [r \in Requests |-> Idle]

RequestStep(r) ==
  \/ \E m \in Members : Receive(r, m) \/ AdminGrantCoupon(r, m)
  \/ CountReceived(r)
  \/ Issue(r)
  \/ ReadCoupon(r)
  \/ WriteCoupon(r)
  \/ Abandon(r)

Next == DeleteCoupon \/ \E r \in Requests : RequestStep(r)

Spec == Init /\ [][Next]_vars

-----------------------------------------------------------------------------
(* Properties *)

\* Every variable has its type; the remaining count in particular is never
\* negative.
TypeOK ==
  /\ coupon \in CouponRow
  /\ lock \in Requests \cup {None}
  /\ issued \in [Rows -> Members \cup {None}]
  /\ req \in [Requests -> RequestState]

\* However edits of the coupon overlap with each other and with its issuing, no
\* more is left than the admin's total, and nothing of an unlimited coupon.
CountsAgree ==
  /\ coupon.remain <= coupon.total
  /\ coupon.unlimited => coupon.total = 0

\* A member who receives the coupon does not end up with more of it than its
\* limit, however many requests of the member, grants and edits run at once.
ReceivedWithinLimit ==
  [][\A r \in Requests :
       Issue(r) /\ ~req[r].granted /\ coupon.perLimit > 0 =>
         Cardinality({i \in Rows : issued'[i] = req[r].member}) <= coupon.perLimit]_vars
=============================================================================
