-------------------------- MODULE OrderTradeSafety --------------------------
(***************************************************************************)
(* The safety theorems of OrderTrade, on top of its type invariant: coupon *)
(* use, the status graph, the stock that orders hold, the shelf ledger,    *)
(* the audit trail, and the two limits that are checked before they are    *)
(* passed.                                                                 *)
(***************************************************************************)
EXTENDS OrderTradeProofs, SumProofs

USE KeepersAssumption, StockAssumption, LimitsAssumption, NoneAssumption

-----------------------------------------------------------------------------
(* What a step does to a request *)

\* A request that a step writes goes on with a checkout, has read the order it
\* will move, counts a stock, where the instance allows that, or has read the
\* coupon it will change and found it not used.
Selected(q) ==
  \E o \in Orders, m \in Moves :
    /\ order[o].status \in m.from
    /\ UNCHANGED <<order, logs>>
    /\ req'[q] = [Idle EXCEPT !.pc = "update", !.order = o, !.move = m,
                              !.before = order[o].status]
Marking(q) ==
  /\ req'[q].pc = "mark"
  /\ coupon[req'[q].coupon].status # "used"
  /\ UNCHANGED coupon
Stepped(q) ==
  \/ req'[q] = req[q]
  \/ req'[q].pc \in {"idle", "items", "coupon", "place", "log"}
  \/ Selected(q)
  \/ req'[q].pc = "adjust" /\ "adjust" \in MerchantOps
  \/ Marking(q)

LEMMA SteppedBy ==
  ASSUME TypeInv, NEW r \in Requests, NEW state, req' = [req EXCEPT ![r] = state],
         \/ state.pc \in {"idle", "items", "coupon", "place", "log"}
         \/ state.pc = "adjust" /\ "adjust" \in MerchantOps
         \/ /\ state.pc = "mark" /\ coupon[state.coupon].status # "used"
            /\ UNCHANGED coupon
  PROVE  \A q \in Requests : Stepped(q)
<1>1. \A q \in Requests : req'[q] = IF q = r THEN state ELSE req[q]
  BY DEF TypeInv, TypeOK
<1>2. QED
  BY <1>1 DEF Stepped, Marking

LEMMA FinishSteps ==
  ASSUME TypeInv, NEW r \in Requests, Finishes(r)
  PROVE  \A q \in Requests : Stepped(q)
<1>1. Idle.pc = "idle"
  BY DEF Idle
<1>2. QED
  BY <1>1, SteppedBy DEF Finishes

LEMMA RequestSteps ==
  ASSUME TypeInv, [Next]_vars
  PROVE  \A q \in Requests : Stepped(q)
<1>1. ASSUME NEW r \in Requests, CheckoutStep(r)
      PROVE  \A q \in Requests : Stepped(q)
  <2>0. req[r] \in RequestState
    BY DEF TypeInv, TypeOK
  <2>1. CASE Checkout(r)
    <3>1. PICK cart, c :
            req' = [req EXCEPT ![r] =
                      [Idle EXCEPT !.pc = "items", !.lines = cart, !.coupon = c]]
      BY <2>1 DEF Checkout, Starts
    <3>2. [Idle EXCEPT !.pc = "items", !.lines = cart, !.coupon = c].pc = "items"
      BY DEF Idle
    <3>3. QED
      BY <3>1, <3>2, SteppedBy
  <2>2. CASE ReadItem(r)
    <3>1. PICK seen, pc :
            /\ pc \in {"items", "coupon"}
            /\ req' = [req EXCEPT ![r] = [req[r] EXCEPT !.seen = seen, !.pc = pc]]
      BY <2>2, ReadItemMoves, Zenon DEF TypeInv
    <3>2. [req[r] EXCEPT !.seen = seen, !.pc = pc].pc = pc
      BY <2>0 DEF RequestState
    <3>3. QED
      BY <3>1, <3>2, SteppedBy
  <2>3. CASE ApplyMemberCoupon(r)
    <3>1. [req[r] EXCEPT !.pc = "place"].pc = "place"
      BY <2>0 DEF RequestState
    <3>2. QED
      BY <2>3, <3>1, SteppedBy DEF ApplyMemberCoupon, GoesTo
  <2>4. CASE PlaceOrder(r)
    <3>1. PICK o \in Orders :
            req' = [req EXCEPT ![r] = [req[r] EXCEPT !.pc = "log", !.order = o]]
      BY <2>4 DEF PlaceOrder
    <3>2. [req[r] EXCEPT !.pc = "log", !.order = o].pc = "log"
      BY <2>0 DEF RequestState
    <3>3. QED
      BY <3>1, <3>2, SteppedBy
  <2>5. CASE LogCreate(r)
    BY <2>5, FinishSteps DEF LogCreate
  <2>6. QED
    BY <1>1, <2>1, <2>2, <2>3, <2>4, <2>5 DEF CheckoutStep
<1>2. ASSUME NEW r \in Requests, TransitionStep(r)
      PROVE  \A q \in Requests : Stepped(q)
  <2>1. CASE Update(r)
    BY <2>1, FinishSteps DEF Update
  <2>2. CASE \E o \in Orders : Cancel(r, o) \/ Confirm(r, o) \/ Prepare(r, o)
                               \/ Ship(r, o) \/ MarkPaid(r, o)
    <3>1. PICK o \in Orders, m \in Moves : Select(r, o, m)
      BY <2>2, TransitionsSelect DEF TypeInv
    <3>2. PICK state : state = [Idle EXCEPT !.pc = "update", !.order = o, !.move = m,
                                            !.before = order[o].status]
      OBVIOUS
    <3>3. req' = [req EXCEPT ![r] = state]
      BY <3>1, <3>2 DEF Select, Starts
    <3>4. \A q \in Requests : req'[q] = IF q = r THEN state ELSE req[q]
      BY <3>3 DEF TypeInv, TypeOK
    <3>5. order[o].status \in m.from /\ UNCHANGED <<order, logs>>
      BY <3>1 DEF Select
    <3>6. req'[r] = state => Selected(r)
      BY <3>2, <3>5 DEF Selected
    <3>7. QED
      BY <3>4, <3>6 DEF Stepped
  <2>3. QED
    BY <1>2, <2>1, <2>2 DEF TransitionStep
<1>3. ASSUME NEW r \in Requests, MerchantRequest(r)
      PROVE  \A q \in Requests : Stepped(q)
  <2>1. ASSUME NEW p \in Products, AdjustInventory(r, p)
        PROVE  \A q \in Requests : Stepped(q)
    <3>1. PICK n : req' = [req EXCEPT ![r] =
                             [Idle EXCEPT !.pc = "adjust", !.keeper = p, !.write = n]]
      BY <2>1 DEF AdjustInventory, Starts
    <3>2. [Idle EXCEPT !.pc = "adjust", !.keeper = p, !.write = n].pc = "adjust"
      BY DEF Idle
    <3>3. QED
      BY <2>1, <3>1, <3>2, SteppedBy DEF AdjustInventory
  <2>2. CASE WriteInventory(r) \/ WriteCoupon(r)
    BY <2>2, FinishSteps DEF WriteInventory, WriteCoupon
  <2>3. ASSUME NEW c \in MemberCoupons, MarkCoupon(r, c)
        PROVE  \A q \in Requests : Stepped(q)
    <3>1. PICK status : req' = [req EXCEPT ![r] =
                          [Idle EXCEPT !.pc = "mark", !.coupon = c, !.mark = status]]
      BY <2>3 DEF MarkCoupon, Starts
    <3>2. /\ [Idle EXCEPT !.pc = "mark", !.coupon = c, !.mark = status].pc = "mark"
          /\ [Idle EXCEPT !.pc = "mark", !.coupon = c, !.mark = status].coupon = c
      BY DEF Idle
    <3>3. coupon[c].status # "used" /\ UNCHANGED coupon
      BY <2>3 DEF MarkCoupon
    <3>4. QED
      BY <3>1, <3>2, <3>3, SteppedBy
  <2>4. QED
    BY <1>3, <2>1, <2>2, <2>3 DEF MerchantRequest
<1>4. ASSUME NEW r \in Requests, Abandon(r)
      PROVE  \A q \in Requests : Stepped(q)
  BY <1>4, FinishSteps DEF Abandon
<1>5. CASE UNCHANGED req
  BY <1>5 DEF Stepped
<1>6. CASE MerchantStep
  BY <1>5, <1>6 DEF MerchantStep, UpdateProduct, DeleteProduct, SwitchTemplate
<1>7. QED
  BY <1>1, <1>2, <1>3, <1>4, <1>5, <1>6 DEF Next, vars

-----------------------------------------------------------------------------
(* Coupons *)

\* Two actions write coupons: the checkout's transaction and the admin's UPDATE.
LEMMA CouponStep ==
  ASSUME [Next]_vars
  PROVE  \/ UNCHANGED coupon
         \/ \E r \in Requests : PlaceOrder(r) /\ req[r].coupon # None
         \/ \E r \in Requests : WriteCoupon(r)
<1>1. ASSUME NEW r \in Requests, CheckoutStep(r), ~PlaceOrder(r)
      PROVE  UNCHANGED coupon
  BY <1>1 DEF CheckoutStep, Checkout, ReadItem, ApplyMemberCoupon, LogCreate
<1>2. ASSUME NEW r \in Requests, PlaceOrder(r), req[r].coupon = None
      PROVE  UNCHANGED coupon
  BY <1>2 DEF PlaceOrder
<1>3. ASSUME NEW r \in Requests, TransitionStep(r)
      PROVE  UNCHANGED coupon
  BY <1>3 DEF TransitionStep, Cancel, Confirm, Prepare, Ship, MarkPaid, Select, Update
<1>4. ASSUME NEW r \in Requests, MerchantRequest(r) \/ Abandon(r), ~WriteCoupon(r)
      PROVE  UNCHANGED coupon
  BY <1>4 DEF MerchantRequest, AdjustInventory, WriteInventory, MarkCoupon, Abandon
<1>5. ASSUME MerchantStep \/ UNCHANGED vars
      PROVE  UNCHANGED coupon
  BY <1>5 DEF MerchantStep, UpdateProduct, DeleteProduct, SwitchTemplate, vars
<1>6. QED
  BY <1>1, <1>2, <1>3, <1>4, <1>5 DEF Next

LEMMA PlaceOrderUses ==
  ASSUME TypeInv, NEW r \in Requests, PlaceOrder(r), req[r].coupon # None
  PROVE  \E o \in Orders, c \in MemberCoupons :
           /\ c = req[r].coupon
           /\ CouponUsable(c)
           /\ order' = [order EXCEPT ![o] = NewOrder(r)]
           /\ coupon' = [coupon EXCEPT ![c] = Used(c, o)]
<1>1. req[r].coupon \in MemberCoupons
  BY DEF TypeInv, TypeOK, RequestState
<1>2. QED
  BY <1>1 DEF PlaceOrder, MarkUsed

\* What the admin's UPDATE makes of the coupon it was asked to change.
Unused(r, c) ==
  [status |-> req[r].mark,
   usedBy |-> IF req[r].mark = "unused" THEN None ELSE coupon[c].usedBy,
   raced |-> FALSE,
   takenFrom |-> coupon[c].takenFrom
                   \cup {o \in Orders : UsedBy(c, o) /\ coupon[c].raced}]

LEMMA WriteCouponWrites ==
  ASSUME TypeInv, NEW r \in Requests, WriteCoupon(r), NEW c \in MemberCoupons
  PROVE  \/ coupon'[c] = coupon[c]
         \/ BeingEdited(c) /\ coupon'[c] = Unused(r, c)
<1>1. coupon' = [coupon EXCEPT ![req[r].coupon] = Unused(r, req[r].coupon)]
  BY DEF WriteCoupon, Unused
<1>2. req[r].pc = "mark"
  BY DEF WriteCoupon
<1>3. CASE req[r].coupon = c
  <2>1. coupon'[c] = Unused(r, c)
    BY <1>1, <1>3 DEF TypeInv, TypeOK
  <2>2. QED
    BY <1>2, <1>3, <2>1 DEF BeingEdited
<1>4. CASE req[r].coupon # c
  BY <1>1, <1>4 DEF TypeInv, TypeOK
<1>5. QED
  BY <1>3, <1>4

LEMMA UnusedStatus ==
  ASSUME TypeInv, NEW r \in Requests, NEW c \in MemberCoupons
  PROVE  Unused(r, c).status # "used"
  BY DEF Unused, TypeInv, TypeOK, RequestState

\* An edit that still has a used coupon to write was there when the coupon was
\* used: none begins after that.
EditsPrecedeUse ==
  \A c \in MemberCoupons : coupon[c].status = "used" /\ BeingEdited(c) => coupon[c].raced

\* What a step does to one coupon: nothing, a use by the order it places, or the
\* write of an edit that was in flight.
LEMMA OneCouponStep ==
  ASSUME TypeInv, [Next]_vars, NEW c \in MemberCoupons
  PROVE  \/ coupon'[c] = coupon[c]
         \/ /\ coupon[c].status = "unused"
            /\ \E o \in Orders : coupon'[c] = Used(c, o)
         \/ /\ BeingEdited(c)
            /\ \E r \in Requests : coupon'[c] = Unused(r, c)
<1>1. ASSUME NEW r \in Requests, PlaceOrder(r), req[r].coupon # None
      PROVE  \/ coupon'[c] = coupon[c]
             \/ coupon[c].status = "unused" /\ \E o \in Orders : coupon'[c] = Used(c, o)
  <2>1. PICK o \in Orders, d \in MemberCoupons :
          /\ coupon[d].status = "unused"
          /\ coupon' = [coupon EXCEPT ![d] = Used(d, o)]
    BY <1>1, PlaceOrderUses DEF CouponUsable
  <2>2. coupon'[c] = IF c = d THEN Used(d, o) ELSE coupon[c]
    BY <2>1 DEF TypeInv, TypeOK
  <2>3. QED
    BY <2>1, <2>2
<1>2. ASSUME NEW r \in Requests, WriteCoupon(r)
      PROVE  coupon'[c] = coupon[c] \/ (BeingEdited(c) /\ coupon'[c] = Unused(r, c))
  BY <1>2, WriteCouponWrites
<1>3. QED
  BY <1>1, <1>2, CouponStep

LEMMA UsedRow ==
  ASSUME TypeInv, NEW c \in MemberCoupons, NEW o \in Orders
  PROVE  /\ Used(c, o).status = "used" /\ Used(c, o).usedBy = o
         /\ Used(c, o).raced = BeingEdited(c)
         /\ Used(c, o).takenFrom = coupon[c].takenFrom
<1>1. coupon[c] \in CouponRow
  BY DEF TypeInv, TypeOK
<1>2. QED
  BY <1>1 DEF Used, CouponRow

LEMMA EditsStart ==
  ASSUME TypeInv, [Next]_vars, NEW c \in MemberCoupons, BeingEdited(c)'
  PROVE  BeingEdited(c) \/ (coupon[c].status # "used" /\ UNCHANGED coupon)
<1>1. PICK q \in Requests : req'[q].pc = "mark" /\ req'[q].coupon = c
  BY DEF BeingEdited
<1>2. Selected(q) => req'[q].pc = "update"
  BY DEF Selected, Idle
<1>3. req'[q] = req[q] \/ Marking(q)
  BY <1>1, <1>2, RequestSteps DEF Stepped
<1>4. QED
  BY <1>1, <1>3 DEF Marking, BeingEdited

LEMMA EditsPrecedeUseStep ==
  ASSUME TypeInv, EditsPrecedeUse, [Next]_vars
  PROVE  EditsPrecedeUse'
<1>1. ASSUME NEW c \in MemberCoupons, coupon'[c].status = "used", BeingEdited(c)'
      PROVE  coupon'[c].raced
  <2>1. BeingEdited(c) \/ (coupon[c].status # "used" /\ UNCHANGED coupon)
    BY <1>1, EditsStart
  <2>2. BeingEdited(c)
    BY <1>1, <2>1
  <2>3. CASE coupon'[c] = coupon[c]
    BY <1>1, <2>2, <2>3 DEF EditsPrecedeUse
  <2>4. ASSUME NEW o \in Orders, coupon'[c] = Used(c, o)
        PROVE  coupon'[c].raced
    BY <2>2, <2>4, UsedRow
  <2>5. ASSUME NEW r \in Requests, coupon'[c] = Unused(r, c)
        PROVE  FALSE
    BY <1>1, <2>5, UnusedStatus
  <2>6. QED
    BY <2>3, <2>4, <2>5, OneCouponStep
<1>2. QED
  BY <1>1 DEF EditsPrecedeUse

LEMMA InitEdits == Init => EditsPrecedeUse
  BY DEF Init, EditsPrecedeUse, NewCoupon

\* A step that changes a used coupon is the write of an edit that raced with the
\* use.
LEMMA UsedStaysStep ==
  ASSUME TypeInv, EditsPrecedeUse, [Next]_vars,
         NEW c \in MemberCoupons, coupon[c].status = "used"
  PROVE  coupon'[c] = coupon[c] \/ coupon[c].raced
  BY OneCouponStep DEF EditsPrecedeUse

\* A used coupon is never used by a second order, and only an edit that had read
\* it before it was used gives it back: the refusal of the admin's form stops
\* every edit that begins later.
THEOREM OnlyRacesTakeBack == Spec => OnlyARaceTakesBack
<1>1. TypeInv /\ EditsPrecedeUse /\ [Next]_vars => EditsPrecedeUse'
  BY EditsPrecedeUseStep
<1>2. TypeInv /\ EditsPrecedeUse /\ [Next]_vars =>
        [\A c \in MemberCoupons :
           coupon[c].status = "used" => coupon'[c] = coupon[c] \/ coupon[c].raced]_vars
  BY UsedStaysStep
<1>3. QED
  BY <1>1, <1>2, InitEdits, TypeInvariant, PTL DEF Spec, OnlyARaceTakesBack

\* Two actions write orders, and what they hold.
LEMMA OrderStep ==
  ASSUME [Next]_vars
  PROVE  \/ UNCHANGED <<order, held>>
         \/ \E r \in Requests : PlaceOrder(r) \/ Update(r)
<1>1. ASSUME NEW r \in Requests, CheckoutStep(r), ~PlaceOrder(r)
      PROVE  UNCHANGED <<order, held>>
  BY <1>1 DEF CheckoutStep, Checkout, ReadItem, ApplyMemberCoupon, LogCreate
<1>2. ASSUME NEW r \in Requests, TransitionStep(r), ~Update(r)
      PROVE  UNCHANGED <<order, held>>
  BY <1>2 DEF TransitionStep, Cancel, Confirm, Prepare, Ship, MarkPaid, Select
<1>3. ASSUME NEW r \in Requests, MerchantRequest(r) \/ Abandon(r)
      PROVE  UNCHANGED <<order, held>>
  BY <1>3 DEF MerchantRequest, AdjustInventory, WriteInventory, MarkCoupon,
              WriteCoupon, Abandon
<1>4. ASSUME MerchantStep \/ UNCHANGED vars
      PROVE  UNCHANGED <<order, held>>
  BY <1>4 DEF MerchantStep, UpdateProduct, DeleteProduct, SwitchTemplate, vars
<1>5. QED
  BY <1>1, <1>2, <1>3, <1>4 DEF Next

\* A coupon that backs an order goes on backing it.
LEMMA BackingStays ==
  ASSUME TypeInv, EditsPrecedeUse, [Next]_vars,
         NEW c \in MemberCoupons, NEW o \in Orders, Backs(c, o)
  PROVE  Backs(c, o)'
<1>1. CASE coupon'[c] = coupon[c]
  BY <1>1 DEF Backs, UsedBy
<1>2. ASSUME coupon[c].status = "unused", NEW p \in Orders, coupon'[c] = Used(c, p)
      PROVE  Backs(c, o)'
  BY <1>2, UsedRow DEF Backs, UsedBy
<1>3. ASSUME BeingEdited(c), NEW r \in Requests, coupon'[c] = Unused(r, c)
      PROVE  Backs(c, o)'
  <2>1. UsedBy(c, o) => coupon[c].raced
    BY <1>3 DEF UsedBy, EditsPrecedeUse
  <2>2. coupon'[c].takenFrom = coupon[c].takenFrom
                                 \cup {p \in Orders : UsedBy(c, p) /\ coupon[c].raced}
    BY <1>3 DEF Unused
  <2>3. QED
    BY <2>1, <2>2 DEF Backs
<1>4. QED
  BY <1>1, <1>2, <1>3, OneCouponStep

\* An order that keeps its discount keeps what backs it.
LEMMA OldDiscounts ==
  ASSUME TypeInv, EditsPrecedeUse, DiscountIsBacked, [Next]_vars, NEW o \in Orders,
         order'[o].template = order[o].template, order'[o].template # None
  PROVE  \E c \in MemberCoupons : TemplateOf[c] = order'[o].template /\ Backs(c, o)'
<1>1. PICK c \in MemberCoupons : TemplateOf[c] = order[o].template /\ Backs(c, o)
  BY DEF DiscountIsBacked
<1>2. QED
  BY <1>1, BackingStays

LEMMA DiscountStep ==
  ASSUME TypeInv, EditsPrecedeUse, DiscountIsBacked, [Next]_vars
  PROVE  DiscountIsBacked'
<1>1. CASE \A o \in Orders : order'[o].template = order[o].template
  BY <1>1, OldDiscounts DEF DiscountIsBacked
<1>2. ASSUME NEW r \in Requests, PlaceOrder(r), req[r].coupon # None
      PROVE  DiscountIsBacked'
  <2>1. PICK o \in Orders, c \in MemberCoupons :
          /\ c = req[r].coupon
          /\ order' = [order EXCEPT ![o] = NewOrder(r)]
          /\ coupon' = [coupon EXCEPT ![c] = Used(c, o)]
    BY <1>2, PlaceOrderUses
  <2>2. \A p \in Orders \ {o} : order'[p].template = order[p].template
    BY <2>1 DEF TypeInv, TypeOK
  <2>3. order'[o].template = TemplateOf[c]
    BY <1>2, <2>1 DEF NewOrder, TypeInv, TypeOK
  <2>4. coupon'[c] = Used(c, o)
    BY <2>1 DEF TypeInv, TypeOK
  <2>5. Backs(c, o)'
    BY <2>4, UsedRow DEF Backs, UsedBy
  <2>6. QED
    BY <2>2, <2>3, <2>5, OldDiscounts DEF DiscountIsBacked
<1>3. ASSUME NEW r \in Requests, PlaceOrder(r), req[r].coupon = None
      PROVE  DiscountIsBacked'
  <2>1. PICK o \in Orders : order' = [order EXCEPT ![o] = NewOrder(r)]
    BY <1>3 DEF PlaceOrder
  <2>2. \A p \in Orders \ {o} : order'[p].template = order[p].template
    BY <2>1 DEF TypeInv, TypeOK
  <2>3. order'[o].template = None
    BY <1>3, <2>1 DEF NewOrder, TypeInv, TypeOK
  <2>4. QED
    BY <2>2, <2>3, OldDiscounts DEF DiscountIsBacked
<1>4. ASSUME NEW r \in Requests, Update(r)
      PROVE  \A o \in Orders : order'[o].template = order[o].template
  <2>1. order' = [order EXCEPT ![req[r].order] = [@ EXCEPT !.status = req[r].move.to]]
    BY <1>4 DEF Update
  <2>2. \A o \in Orders : order[o] \in OrderRow
    BY DEF TypeInv, TypeOK
  <2>3. QED
    BY <2>1, <2>2 DEF TypeInv, TypeOK, OrderRow
<1>5. CASE UNCHANGED order
  BY <1>1, <1>5
<1>6. QED
  BY <1>1, <1>2, <1>3, <1>4, <1>5, OrderStep

LEMMA InitDiscount == Init => DiscountIsBacked
  BY DEF Init, DiscountIsBacked, NoOrder

\* Every order with a discount has the used coupon that pays for it, or lost it to
\* an edit that raced with its checkout, however many checkouts and edits try to
\* change that coupon at once.
THEOREM DiscountBacked == Spec => []DiscountIsBacked
<1>1. TypeInv /\ EditsPrecedeUse /\ [Next]_vars => EditsPrecedeUse'
  BY EditsPrecedeUseStep
<1>2. TypeInv /\ EditsPrecedeUse /\ DiscountIsBacked /\ [Next]_vars => DiscountIsBacked'
  BY DiscountStep
<1>3. QED
  BY <1>1, <1>2, InitEdits, InitDiscount, TypeInvariant, PTL DEF Spec

-----------------------------------------------------------------------------
(* The status graph *)

LEMMA PlaceOrderPlaces ==
  ASSUME TypeInv, NEW r \in Requests, PlaceOrder(r)
  PROVE  Lifecycle!Next
<1>1. PICK o \in Orders :
        /\ order[o].status = "none"
        /\ order' = [order EXCEPT ![o] = NewOrder(r)]
  BY DEF PlaceOrder, Exists
<1>2. NewOrder(r).status = "pending_pay"
  BY DEF NewOrder
<1>3. [p \in Orders |-> order'[p].status] =
        [[p \in Orders |-> order[p].status] EXCEPT ![o] = "pending_pay"]
  BY <1>1, <1>2 DEF TypeInv, TypeOK
<1>4. Lifecycle!Place(o)
  BY <1>1, <1>3 DEF Lifecycle!Place, Lifecycle!NoStatus
<1>5. QED
  BY <1>4 DEF Lifecycle!Next

LEMMA UpdateMoves ==
  ASSUME TypeInv, NEW r \in Requests, Update(r)
  PROVE  Lifecycle!Next
<1>1. PICK o \in Orders, move \in Moves : o = req[r].order /\ move = req[r].move
  BY DEF Update, TypeInv, TypeOK, RequestsAim, Aims, RequestState
<1>2. order[o].status \in move.from
  BY <1>1 DEF Update, StillIn
<1>3. order' = [order EXCEPT ![o] = [@ EXCEPT !.status = move.to]]
  BY <1>1 DEF Update
<1>4. order[o] \in OrderRow
  BY <1>1 DEF TypeInv, TypeOK
<1>5. order'[o].status = move.to /\ \A p \in Orders \ {o} : order'[p] = order[p]
  BY <1>1, <1>3, <1>4 DEF TypeInv, TypeOK, OrderRow
<1>6. [p \in Orders |-> order'[p].status] =
        [[p \in Orders |-> order[p].status] EXCEPT ![o] = move.to]
  BY <1>1, <1>5
<1>7. <<order[o].status, move.to>> \in TradeEdges
  BY <1>1, <1>2 DEF TradeEdges
<1>8. move.to \in Lifecycle!OrderStatus /\ order[o].status \in Lifecycle!OrderStatus
  BY <1>1, <1>2, MoveTargets DEF OrderStatus, Lifecycle!OrderStatus
<1>9. Lifecycle!Move(o)
  BY <1>1, <1>6, <1>7, <1>8 DEF Lifecycle!Move
<1>10. QED
  BY <1>1, <1>9 DEF Lifecycle!Next

\* The checkout and the transition helper, with every interleaving of their
\* SELECTs and UPDATEs, implement the status machine whose edges are the moves
\* the operations ask for.
THEOREM OrderImplementsLifecycle == Spec => ImplementsLifecycle
<1>1. Init => Lifecycle!Init
  BY DEF Init, NoOrder, Lifecycle!Init, Lifecycle!NoStatus
<1>2. TypeInv /\ [Next]_vars => [Lifecycle!Next]_[o \in Orders |-> order[o].status]
  BY OrderStep, PlaceOrderPlaces, UpdateMoves
<1>3. QED
  BY <1>1, <1>2, TypeInvariant, PTL DEF Spec, ImplementsLifecycle, Lifecycle!Spec

-----------------------------------------------------------------------------
(* The stock orders hold *)

\* Why an order holds exactly its physical items when products keep their
\* is_virtual: a checkout remembers is_virtual as it still is, has read all of
\* its items when it takes stock, and marks an order virtual only if all its
\* items are.
Remembers(state) ==
  /\ \A k \in Keepers :
       state.seen[k] # "unread" => state.seen[k] = SeenAs(ProductOf[k])
  /\ state.pc \in {"coupon", "place"} =>
       \A k \in Ordered(state.lines) : state.seen[k] # "unread"

VirtualIsVirtual(o) ==
  Exists(o) /\ order[o].virtual =>
    \A k \in Ordered(order[o].lines) : product[ProductOf[k]].virtual

KnowsItems ==
  /\ \A r \in Requests : Remembers(req[r])
  /\ \A o \in Orders : VirtualIsVirtual(o)

HoldInv == HoldsItsItems /\ KnowsItems

LEMMA KeeperProduct == \A k \in Keepers : ProductOf[k] \in Products
  BY DEF Keepers, ProductOf

\* A move puts items back exactly when it cancels, and starts and ends at an
\* order that exists.
LEMMA MoveShape ==
  ASSUME NEW m \in Moves
  PROVE  /\ m.restock => m.to = "cancelled"
         /\ ~m.restock => m.to # "cancelled"
         /\ m.from \cap {"none", "cancelled"} = {}
         /\ m.to # "none"
  BY DEF Moves, CancelMove, ConfirmMove, PrepareMove, ShipMove, PayMove

LEMMA IdleRemembers == Remembers(Idle)
  BY DEF Remembers, Idle

LEMMA InitHold == Init => HoldInv
<1> SUFFICES ASSUME Init PROVE HoldInv
  OBVIOUS
<1>1. HoldsItsItems
  BY DEF Init, HoldsItsItems, Owed, NoOrder, NoLines
<1>2. \A r \in Requests : Remembers(req[r])
  BY IdleRemembers DEF Init
<1>3. \A o \in Orders : VirtualIsVirtual(o)
  BY DEF Init, VirtualIsVirtual, Exists, NoOrder
<1>4. QED
  BY <1>1, <1>2, <1>3 DEF HoldInv, KnowsItems

SameVirtual ==
  \A p \in Products : /\ product'[p].virtual = product[p].virtual
                      /\ product[p].deleted => product'[p].deleted

LEMMA VirtualStep ==
  ASSUME "virtual" \notin MerchantOps, TypeInv, [Next]_vars
  PROVE  SameVirtual
<1>1. ASSUME NEW p \in Products, UpdateProduct(p)
      PROVE  SameVirtual
  <2>1. PICK shelf \in BOOLEAN :
          product' = [product EXCEPT ![p] =
                        [@ EXCEPT !.onSale = shelf, !.virtual = product[p].virtual]]
    <3>1. PICK shelf \in BOOLEAN, virtual \in BOOLEAN :
            /\ virtual # product[p].virtual => "virtual" \in MerchantOps
            /\ product' = [product EXCEPT ![p] =
                             [@ EXCEPT !.onSale = shelf, !.virtual = virtual]]
      BY <1>1 DEF UpdateProduct
    <3>2. virtual = product[p].virtual
      BY <3>1
    <3>3. QED
      BY <3>1, <3>2
  <2>2. product[p] \in ProductRow
    BY DEF TypeInv, TypeOK
  <2>3. QED
    BY <2>1, <2>2 DEF SameVirtual, TypeInv, TypeOK, ProductRow
<1>2. ASSUME NEW p \in Products, DeleteProduct(p)
      PROVE  SameVirtual
  <2>1. product[p] \in ProductRow
    BY DEF TypeInv, TypeOK
  <2>2. product' = [product EXCEPT ![p] = [@ EXCEPT !.deleted = TRUE]]
    BY <1>2 DEF DeleteProduct
  <2>3. QED
    BY <2>1, <2>2 DEF SameVirtual, TypeInv, TypeOK, ProductRow
<1>3. CASE UNCHANGED product
  BY <1>3 DEF SameVirtual
<1>4. ASSUME NEW r \in Requests, CheckoutStep(r)
      PROVE  UNCHANGED product
  BY <1>4 DEF CheckoutStep, Checkout, ReadItem, ApplyMemberCoupon, PlaceOrder, LogCreate
<1>5. ASSUME NEW r \in Requests, TransitionStep(r)
      PROVE  UNCHANGED product
  BY <1>5 DEF TransitionStep, Cancel, Confirm, Prepare, Ship, MarkPaid, Select, Update
<1>6. ASSUME NEW r \in Requests, MerchantRequest(r) \/ Abandon(r)
      PROVE  UNCHANGED product
  BY <1>6 DEF MerchantRequest, AdjustInventory, WriteInventory, MarkCoupon,
              WriteCoupon, Abandon
<1>7. ASSUME NEW t \in Templates, SwitchTemplate(t)
      PROVE  UNCHANGED product
  BY <1>7 DEF SwitchTemplate
<1>8. CASE UNCHANGED vars
  BY <1>3, <1>8 DEF vars
<1>9. QED
  BY <1>1, <1>2, <1>3, <1>4, <1>5, <1>6, <1>7, <1>8 DEF Next, MerchantStep

LEMMA RemembersKept ==
  ASSUME TypeInv, KnowsItems, SameVirtual, NEW r \in Requests, NEW state,
         Remembers(state), req' = [req EXCEPT ![r] = state]
  PROVE  \A q \in Requests : Remembers(req[q])'
<1>1. \A k \in Keepers : SeenAs(ProductOf[k])' = SeenAs(ProductOf[k])
  BY KeeperProduct DEF SeenAs, SameVirtual
<1>2. \A q \in Requests : Remembers(req'[q])
  BY DEF KnowsItems, TypeInv, TypeOK
<1>3. QED
  BY <1>1, <1>2 DEF Remembers

LEMMA FinishRemembers ==
  ASSUME TypeInv, KnowsItems, SameVirtual, NEW r \in Requests, Finishes(r)
  PROVE  \A q \in Requests : Remembers(req[q])'
  BY RemembersKept, IdleRemembers DEF Finishes

\* A step that leaves orders alone and changes no product's is_virtual, and
\* undeletes none, keeps what orders hold.
LEMMA VirtualKept ==
  ASSUME TypeInv, KnowsItems, UNCHANGED order, SameVirtual
  PROVE  \A o \in Orders : VirtualIsVirtual(o)'
  BY KeeperProduct DEF KnowsItems, VirtualIsVirtual, Exists, Ordered, SameVirtual

LEMMA HoldsKept ==
  ASSUME TypeInv, HoldInv, UNCHANGED <<order, held>>, SameVirtual
  PROVE  HoldsItsItems'
<1>1. \A o \in Orders, k \in Keepers : Owed(o, k)' = Owed(o, k)
  BY KeeperProduct DEF Owed, Physical, SameVirtual
<1>2. \A k \in Keepers : Lost(k) => Lost(k)'
  BY DEF Lost, SameVirtual
<1>3. QED
  BY <1>1, <1>2 DEF HoldInv, HoldsItsItems

LEMMA ReadItemRemembers ==
  ASSUME TypeInv, KnowsItems, SameVirtual, NEW r \in Requests, ReadItem(r)
  PROVE  \A q \in Requests : Remembers(req[q])'
<1> DEFINE read(k) == [req[r].seen EXCEPT ![k] = SeenAs(ProductOf[k])]
           next(k) == IF \E j \in Ordered(req[r].lines) : read(k)[j] = "unread"
                      THEN "items" ELSE "coupon"
           state(k) == [req[r] EXCEPT !.seen = read(k), !.pc = next(k)]
<1>1. PICK k \in Ordered(req[r].lines) : req' = [req EXCEPT ![r] = state(k)]
  BY Zenon DEF ReadItem
<1>2. req[r] \in RequestState /\ k \in Keepers
  BY <1>1 DEF TypeInv, TypeOK, Ordered
<1>3. \A j \in Keepers : read(k)[j] = IF j = k THEN SeenAs(ProductOf[k])
                                      ELSE req[r].seen[j]
  BY <1>2 DEF RequestState
<1>4. next(k) = "coupon" =>
        \A j \in Ordered(req[r].lines) : read(k)[j] # "unread"
  OBVIOUS
<1>5. next(k) # "place"
  OBVIOUS
<1>6. Remembers(req[r])
  BY DEF KnowsItems
<1> HIDE DEF read, next
<1>7. /\ state(k).seen = read(k)
      /\ state(k).pc = next(k)
      /\ state(k).lines = req[r].lines
  BY <1>2 DEF RequestState
<1> HIDE DEF state
<1>8. Remembers(state(k))
  BY <1>3, <1>4, <1>5, <1>6, <1>7 DEF Remembers
<1>9. QED
  BY <1>1, <1>8, RemembersKept

LEMMA PlaceOrderRemembers ==
  ASSUME TypeInv, KnowsItems, SameVirtual, NEW r \in Requests, PlaceOrder(r)
  PROVE  \A q \in Requests : Remembers(req[q])'
<1>1. PICK o \in Orders :
        req' = [req EXCEPT ![r] = [req[r] EXCEPT !.pc = "log", !.order = o]]
  BY DEF PlaceOrder
<1>2. req[r] \in RequestState /\ Remembers(req[r])
  BY DEF TypeInv, TypeOK, KnowsItems
<1>3. Remembers([req[r] EXCEPT !.pc = "log", !.order = o])
  BY <1>2 DEF Remembers, RequestState
<1>4. QED
  BY <1>1, <1>3, RemembersKept

LEMMA OtherRemembers ==
  ASSUME TypeInv, KnowsItems, SameVirtual, NEW r \in Requests,
         \/ Checkout(r)
         \/ ApplyMemberCoupon(r)
         \/ \E o \in Orders, m \in Moves : Select(r, o, m)
         \/ MerchantRequest(r)
  PROVE  \A q \in Requests : Remembers(req[q])'
<1>1. ASSUME NEW state, req' = [req EXCEPT ![r] = state],
             state.seen = Idle.seen, state.pc \notin {"coupon", "place"}
      PROVE  \A q \in Requests : Remembers(req[q])'
  <2>1. \A k \in Keepers : state.seen[k] = "unread"
    BY <1>1 DEF Idle
  <2>2. Remembers(state)
    BY <1>1, <2>1 DEF Remembers
  <2>3. QED
    BY <1>1, <2>2, RemembersKept
<1>2. CASE Checkout(r)
  <2>1. PICK cart, c :
          req' = [req EXCEPT ![r] =
                    [Idle EXCEPT !.pc = "items", !.lines = cart, !.coupon = c]]
    BY <1>2 DEF Checkout, Starts
  <2>2. /\ [Idle EXCEPT !.pc = "items", !.lines = cart, !.coupon = c].seen = Idle.seen
        /\ [Idle EXCEPT !.pc = "items", !.lines = cart, !.coupon = c].pc = "items"
    BY DEF Idle
  <2>3. QED
    BY <1>1, <2>1, <2>2
<1>3. CASE ApplyMemberCoupon(r)
  <2>1. req[r] \in RequestState /\ Remembers(req[r]) /\ req[r].pc = "coupon"
    BY <1>3 DEF TypeInv, TypeOK, KnowsItems, ApplyMemberCoupon
  <2>2. Remembers([req[r] EXCEPT !.pc = "place"])
    BY <2>1 DEF Remembers, RequestState
  <2>3. QED
    BY <1>3, <2>2, RemembersKept DEF ApplyMemberCoupon, GoesTo
<1>4. ASSUME NEW o \in Orders, NEW m \in Moves, Select(r, o, m)
      PROVE  \A q \in Requests : Remembers(req[q])'
  <2> DEFINE state == [Idle EXCEPT !.pc = "update", !.order = o, !.move = m,
                                   !.before = order[o].status]
  <2>1. state.seen = Idle.seen /\ state.pc = "update"
    BY DEF Idle
  <2>2. req' = [req EXCEPT ![r] = state]
    BY <1>4 DEF Select, Starts
  <2> HIDE DEF state
  <2>3. QED
    BY <1>1, <2>1, <2>2
<1>5. ASSUME NEW p \in Products, AdjustInventory(r, p)
      PROVE  \A q \in Requests : Remembers(req[q])'
  <2>1. PICK n : req' = [req EXCEPT ![r] =
                           [Idle EXCEPT !.pc = "adjust", !.keeper = p, !.write = n]]
    BY <1>5 DEF AdjustInventory, Starts
  <2>2. /\ [Idle EXCEPT !.pc = "adjust", !.keeper = p, !.write = n].seen = Idle.seen
        /\ [Idle EXCEPT !.pc = "adjust", !.keeper = p, !.write = n].pc = "adjust"
    BY DEF Idle
  <2>3. QED
    BY <1>1, <2>1, <2>2
<1>6. ASSUME NEW c \in MemberCoupons, MarkCoupon(r, c)
      PROVE  \A q \in Requests : Remembers(req[q])'
  <2>1. PICK status : req' = [req EXCEPT ![r] =
                           [Idle EXCEPT !.pc = "mark", !.coupon = c, !.mark = status]]
    BY <1>6 DEF MarkCoupon, Starts
  <2>2. /\ [Idle EXCEPT !.pc = "mark", !.coupon = c, !.mark = status].seen = Idle.seen
        /\ [Idle EXCEPT !.pc = "mark", !.coupon = c, !.mark = status].pc = "mark"
    BY DEF Idle
  <2>3. QED
    BY <1>1, <2>1, <2>2
<1>7. CASE WriteInventory(r) \/ WriteCoupon(r)
  BY <1>7, FinishRemembers DEF WriteInventory, WriteCoupon
<1>8. QED
  BY <1>2, <1>3, <1>4, <1>5, <1>6, <1>7 DEF MerchantRequest

\* A checkout takes the physical items of its order, whatever other requests
\* do in between.
LEMMA PlaceOrderTakes ==
  ASSUME TypeInv, KnowsItems, NEW r \in Requests, PlaceOrder(r)
  PROVE  /\ \E o \in Orders :
              /\ order[o].status = "none"
              /\ order'[o] = NewOrder(r)
              /\ \A k \in Keepers :
                   held'[o][k] = IF Physical(o, k) THEN order'[o].lines[k] ELSE 0
              /\ \A p \in Orders \ {o} : order'[p] = order[p] /\ held'[p] = held[p]
         /\ \A o \in Orders : VirtualIsVirtual(o)'
<1>1. PICK o \in Orders :
        /\ order[o].status = "none"
        /\ order' = [order EXCEPT ![o] = NewOrder(r)]
        /\ held' = [held EXCEPT ![o] = Wanted(r)]
  BY DEF PlaceOrder, Exists
<1>2. /\ UNCHANGED product
      /\ req[r].pc = "place"
      /\ req[r] \in RequestState
  BY DEF PlaceOrder, TypeInv, TypeOK
<1>3. \A k \in Ordered(req[r].lines) : req[r].seen[k] = SeenAs(ProductOf[k])
  BY <1>2 DEF KnowsItems, Remembers, Ordered
<1>4. /\ order'[o] = NewOrder(r)
      /\ held'[o] = Wanted(r)
      /\ \A p \in Orders \ {o} : order'[p] = order[p] /\ held'[p] = held[p]
  BY <1>1 DEF TypeInv, TypeOK
<1>5. \A k \in Keepers :
        Wanted(r)[k] = IF Physical(o, k) THEN req[r].lines[k] ELSE 0
  <2>1. SUFFICES ASSUME NEW k \in Keepers
                 PROVE  Wanted(r)[k] = IF Physical(o, k) THEN req[r].lines[k] ELSE 0
    OBVIOUS
  <2>2. req[r].lines[k] \in Nat
    BY <1>2 DEF RequestState
  <2>3. SeenVirtual(r, ProductOf[k]) => product[ProductOf[k]].virtual
    BY <1>3 DEF SeenVirtual, SeenAs
  <2>4. product[ProductOf[k]].virtual /\ req[r].lines[k] > 0
          => SeenVirtual(r, ProductOf[k])
    BY <1>3 DEF SeenVirtual, SeenAs, Ordered
  <2>5. QED
    BY <2>2, <2>3, <2>4 DEF Wanted, Physical
<1>6. \A p \in Orders : VirtualIsVirtual(p)'
  <2>1. VirtualIsVirtual(o)'
    BY <1>2, <1>3, <1>4 DEF VirtualIsVirtual, NewOrder, SeenAs, Ordered
  <2>2. \A p \in Orders \ {o} : VirtualIsVirtual(p)'
    BY <1>2, <1>4 DEF KnowsItems, VirtualIsVirtual, Exists, Ordered
  <2>3. QED
    BY <2>1, <2>2
<1>7. order'[o].lines = req[r].lines
  BY <1>4 DEF NewOrder
<1>8. QED
  BY <1>1, <1>4, <1>5, <1>6, <1>7

\* The order holds what its checkout took for it.
LEMMA PlaceOrderHolds ==
  ASSUME TypeInv, HoldInv, NEW r \in Requests, PlaceOrder(r)
  PROVE  HoldsItsItems'
<1>1. PICK o \in Orders :
        /\ order'[o] = NewOrder(r)
        /\ \A k \in Keepers :
             held'[o][k] = IF Physical(o, k) THEN order'[o].lines[k] ELSE 0
        /\ \A p \in Orders \ {o} : order'[p] = order[p] /\ held'[p] = held[p]
  BY PlaceOrderTakes DEF HoldInv
<1>2. UNCHANGED product
  BY DEF PlaceOrder
<1>3. ASSUME NEW k \in Keepers
      PROVE  held'[o][k] = Owed(o, k)'
  BY <1>1, <1>2 DEF Owed, Physical, NewOrder
<1>4. \A p \in Orders \ {o}, k \in Keepers : Owed(p, k)' = Owed(p, k)
  BY <1>1, <1>2 DEF Owed, Physical
<1>5. \A k \in Keepers : Lost(k)' = Lost(k)
  BY <1>2 DEF Lost
<1>6. QED
  BY <1>1, <1>3, <1>4, <1>5 DEF HoldInv, HoldsItsItems

\* What a move of the order service does to the order and what it holds.
LEMMA UpdateWrites ==
  ASSUME TypeInv, NEW r \in Requests, Update(r)
  PROVE  \E o \in Orders, m \in Moves :
           LET back == IF m.restock THEN RestoredLines(o) ELSE NoLines IN
           /\ order[o].status \in m.from
           /\ order'[o].status = m.to
           /\ order'[o].lines = order[o].lines
           /\ order'[o].virtual = order[o].virtual
           /\ \A k \in Keepers : held'[o][k] = held[o][k] - back[k]
           /\ \A p \in Orders \ {o} : order'[p] = order[p] /\ held'[p] = held[p]
<1>1. PICK o \in Orders, m \in Moves : o = req[r].order /\ m = req[r].move
  BY DEF Update, TypeInv, TypeOK, RequestsAim, Aims, RequestState
<1> DEFINE back == IF m.restock THEN RestoredLines(o) ELSE NoLines
<1>2. /\ order[o].status \in m.from
      /\ order' = [order EXCEPT ![o] = [@ EXCEPT !.status = m.to]]
      /\ held' = [held EXCEPT ![o] = [k \in Keepers |-> held[o][k] - back[k]]]
  BY <1>1 DEF Update, StillIn
<1>3. order[o] \in OrderRow
  BY DEF TypeInv, TypeOK
<1>4. /\ order'[o] = [order[o] EXCEPT !.status = m.to]
      /\ \A k \in Keepers : held'[o][k] = held[o][k] - back[k]
      /\ \A p \in Orders \ {o} : order'[p] = order[p] /\ held'[p] = held[p]
  BY <1>2 DEF TypeInv, TypeOK
<1>5. /\ order'[o].status = m.to
      /\ order'[o].lines = order[o].lines
      /\ order'[o].virtual = order[o].virtual
  BY <1>3, <1>4 DEF OrderRow
<1>6. QED
  BY <1>2, <1>4, <1>5

LEMMA UpdateVirtual ==
  ASSUME TypeInv, KnowsItems, NEW r \in Requests, Update(r)
  PROVE  \A o \in Orders : VirtualIsVirtual(o)'
<1>1. PICK o \in Orders, m \in Moves :
        /\ order[o].status \in m.from
        /\ order'[o].lines = order[o].lines
        /\ order'[o].virtual = order[o].virtual
        /\ \A p \in Orders \ {o} : order'[p] = order[p]
  BY UpdateWrites
<1>2. order[o].status # "none" /\ UNCHANGED product
  BY <1>1, MoveShape DEF Update
<1>3. QED
  BY <1>1, <1>2 DEF KnowsItems, VirtualIsVirtual, Exists, Ordered

\* A cancellation puts back what the order holds; other moves keep it.
LEMMA UpdateHolds ==
  ASSUME TypeInv, HoldInv, NEW r \in Requests, Update(r)
  PROVE  HoldsItsItems'
<1>1. PICK o \in Orders, m \in Moves :
        LET back == IF m.restock THEN RestoredLines(o) ELSE NoLines IN
        /\ order[o].status \in m.from
        /\ order'[o].status = m.to
        /\ order'[o].lines = order[o].lines
        /\ order'[o].virtual = order[o].virtual
        /\ \A k \in Keepers : held'[o][k] = held[o][k] - back[k]
        /\ \A p \in Orders \ {o} : order'[p] = order[p] /\ held'[p] = held[p]
  BY UpdateWrites
<1> DEFINE back == IF m.restock THEN RestoredLines(o) ELSE NoLines
<1>2. UNCHANGED product
  BY DEF Update
<1>3. order[o] \in OrderRow /\ held[o] \in [Keepers -> Int]
  BY DEF TypeInv, TypeOK
<1>4. /\ \A k \in Keepers : held'[o][k] = held[o][k] - back[k]
      /\ \A p \in Orders \ {o} : order'[p] = order[p] /\ held'[p] = held[p]
  BY <1>1
<1>5. /\ order'[o].status = m.to
      /\ order'[o].lines = order[o].lines
      /\ order'[o].virtual = order[o].virtual
  BY <1>1
<1>6. order[o].status \notin {"none", "cancelled"} /\ m.to # "none"
  BY <1>1, MoveShape
<1>7. ASSUME NEW k \in Keepers
      PROVE  held'[o][k] = Owed(o, k)' \/ (m.to = "cancelled" /\ Lost(k))
  <2>1. held[o][k] = Owed(o, k)
    BY <1>6 DEF HoldInv, HoldsItsItems
  <2>2. order[o].lines[k] \in Nat /\ held[o][k] \in Int
    BY <1>3 DEF OrderRow
  <2>3. CASE ~m.restock
    <3>1. m.to # "cancelled"
      BY <2>3, MoveShape
    <3>2. back[k] = 0
      BY <2>3 DEF NoLines
    <3>3. Owed(o, k)' = Owed(o, k)
      BY <1>2, <1>5, <1>6, <3>1 DEF Owed, Physical
    <3>4. QED
      BY <1>4, <2>1, <2>2, <3>2, <3>3
  <2>4. CASE m.restock
    <3>1. m.to = "cancelled" /\ Owed(o, k)' = 0
      BY <1>5, <2>4, MoveShape DEF Owed
    <3>2. back[k] = IF Restorable(o, k) THEN order[o].lines[k] ELSE 0
      BY <2>4 DEF RestoredLines
    <3>3. CASE Restorable(o, k)
      <4>1. Owed(o, k) = order[o].lines[k]
        BY <1>6, <3>3 DEF Restorable, Owed, Physical
      <4>2. QED
        BY <1>4, <2>1, <2>2, <3>1, <3>2, <3>3, <4>1
    <3>4. CASE ~Restorable(o, k)
      <4>1. Owed(o, k) = 0 \/ Lost(k)
        <5>1. CASE order[o].virtual
          <6>1. order[o].lines[k] > 0 => product[ProductOf[k]].virtual
            BY <1>6, <5>1 DEF HoldInv, KnowsItems, VirtualIsVirtual, Exists, Ordered
          <6>2. QED
            BY <2>2, <6>1 DEF Owed, Physical
        <5>2. CASE ~order[o].virtual
          BY <3>4, <5>2 DEF Restorable, Owed, Physical, Lost
        <5>3. QED
          BY <5>1, <5>2
      <4>2. held'[o][k] = held[o][k]
        BY <1>4, <2>2, <3>2, <3>4
      <4>3. QED
        BY <2>1, <3>1, <4>1, <4>2
    <3>5. QED
      BY <3>3, <3>4
  <2>5. QED
    BY <2>3, <2>4
<1>8. \A p \in Orders \ {o}, k \in Keepers : Owed(p, k)' = Owed(p, k)
  BY <1>2, <1>4 DEF Owed, Physical
<1>9. \A k \in Keepers : Lost(k)' = Lost(k)
  BY <1>2 DEF Lost
<1>10. HoldsItsItems'
  <2>1. \A p \in Orders \ {o} : order'[p] = order[p] /\ held'[p] = held[p]
    BY <1>4
  <2>2. ASSUME NEW p \in Orders \ {o}, NEW k \in Keepers
        PROVE  \/ held'[p][k] = Owed(p, k)'
               \/ order'[p].status = "cancelled" /\ Lost(k)'
    BY <1>8, <1>9, <2>1 DEF HoldInv, HoldsItsItems
  <2>3. ASSUME NEW k \in Keepers
        PROVE  \/ held'[o][k] = Owed(o, k)'
               \/ order'[o].status = "cancelled" /\ Lost(k)'
    BY <1>5, <1>7, <1>9
  <2>4. QED
    BY <2>2, <2>3 DEF HoldsItsItems
<1>11. QED
  BY <1>10

LEMMA KnowsItemsStep ==
  ASSUME "virtual" \notin MerchantOps, TypeInv, KnowsItems, [Next]_vars
  PROVE  KnowsItems'
<1>0. SameVirtual
  BY VirtualStep
<1>1. ASSUME NEW r \in Requests, CheckoutStep(r)
      PROVE  KnowsItems'
  <2>1. CASE PlaceOrder(r)
    BY <1>0, <2>1, PlaceOrderTakes, PlaceOrderRemembers DEF KnowsItems
  <2>2. CASE ReadItem(r)
    BY <1>0, <2>2, VirtualKept, ReadItemRemembers DEF KnowsItems, ReadItem
  <2>3. CASE Checkout(r) \/ ApplyMemberCoupon(r)
    BY <1>0, <2>3, VirtualKept, OtherRemembers DEF KnowsItems, Checkout,
       ApplyMemberCoupon
  <2>4. CASE LogCreate(r)
    BY <1>0, <2>4, VirtualKept, FinishRemembers DEF KnowsItems, LogCreate
  <2>5. QED
    BY <1>1, <2>1, <2>2, <2>3, <2>4 DEF CheckoutStep
<1>2. ASSUME NEW r \in Requests, TransitionStep(r)
      PROVE  KnowsItems'
  <2>1. CASE Update(r)
    BY <1>0, <2>1, UpdateVirtual, FinishRemembers DEF KnowsItems, Update
  <2>2. CASE \E o \in Orders : Cancel(r, o) \/ Confirm(r, o) \/ Prepare(r, o)
                               \/ Ship(r, o) \/ MarkPaid(r, o)
    <3>1. PICK o \in Orders, m \in Moves : Select(r, o, m)
      BY <2>2, TransitionsSelect DEF TypeInv
    <3>2. UNCHANGED order
      BY <3>1 DEF Select
    <3>3. QED
      BY <1>0, <3>1, <3>2, VirtualKept, OtherRemembers DEF KnowsItems
  <2>3. QED
    BY <1>2, <2>1, <2>2 DEF TransitionStep
<1>3. ASSUME NEW r \in Requests, MerchantRequest(r)
      PROVE  KnowsItems'
  <2>1. UNCHANGED order
    BY <1>3 DEF MerchantRequest, AdjustInventory, WriteInventory, MarkCoupon, WriteCoupon
  <2>2. QED
    BY <1>0, <1>3, <2>1, VirtualKept, OtherRemembers DEF KnowsItems
<1>4. ASSUME NEW r \in Requests, Abandon(r)
      PROVE  KnowsItems'
  BY <1>0, <1>4, VirtualKept, FinishRemembers DEF KnowsItems, Abandon
<1>5. CASE MerchantStep \/ UNCHANGED vars
  <2>1. UNCHANGED <<order, req>>
    BY <1>5 DEF MerchantStep, UpdateProduct, DeleteProduct, SwitchTemplate, vars
  <2>2. \A q \in Requests : Remembers(req[q])'
    <3>1. \A k \in Keepers : SeenAs(ProductOf[k])' = SeenAs(ProductOf[k])
      BY <1>0, KeeperProduct DEF SeenAs, SameVirtual
    <3>2. QED
      BY <2>1, <3>1 DEF KnowsItems, Remembers
  <2>3. QED
    BY <1>0, <2>1, <2>2, VirtualKept DEF KnowsItems
<1>6. QED
  BY <1>1, <1>2, <1>3, <1>4, <1>5 DEF Next

LEMMA HoldStep ==
  ASSUME "virtual" \notin MerchantOps, TypeInv, HoldInv, [Next]_vars
  PROVE  HoldInv'
<1>1. SameVirtual
  BY VirtualStep
<1>2. KnowsItems'
  BY KnowsItemsStep DEF HoldInv
<1>3. CASE UNCHANGED <<order, held>>
  BY <1>1, <1>2, <1>3, HoldsKept DEF HoldInv
<1>4. ASSUME NEW r \in Requests, PlaceOrder(r) \/ Update(r)
      PROVE  HoldInv'
  BY <1>2, <1>4, PlaceOrderHolds, UpdateHolds DEF HoldInv
<1>5. QED
  BY <1>3, <1>4, OrderStep

\* As long as products keep their is_virtual, each live order holds exactly its
\* physical items and a cancelled order has put them back exactly once.
THEOREM OrdersHoldTheirItems ==
  ASSUME "virtual" \notin MerchantOps
  PROVE  Spec => []HoldsItsItems
<1>1. TypeInv /\ HoldInv /\ [Next]_vars => HoldInv'
  BY HoldStep
<1>2. HoldInv => HoldsItsItems
  BY DEF HoldInv
<1>3. QED
  BY <1>1, <1>2, InitHold, TypeInvariant, PTL DEF Spec

-----------------------------------------------------------------------------
(* The shelf ledger *)

\* With no count by the merchant, units only go from the shelf to an order and
\* back: the stock of a keeper and what all orders hold of it add up to the
\* initial stock, deleted product or not.
NoCount == \A r \in Requests : req[r].pc # "adjust"
HeldOf(k) == [o \in Orders |-> held[o][k]]
Balanced(k) == stock[k] + SumFunctionOnSet(HeldOf(k), Orders) = InitStock[k]
LedgerInv == NoCount /\ \A k \in Keepers : Balanced(k)

\* An order that is not there holds nothing.
AbsentHoldNothing ==
  \A o \in Orders, k \in Keepers : order[o].status = "none" => held[o][k] = 0

LEMMA NoCountStep ==
  ASSUME "adjust" \notin MerchantOps, TypeInv, NoCount, [Next]_vars
  PROVE  NoCount'
<1>1. ASSUME NEW q \in Requests
      PROVE  req'[q].pc # "adjust"
  <2>1. Selected(q) => req'[q].pc = "update"
    BY DEF Selected, Idle
  <2>2. QED
    BY <2>1, RequestSteps DEF NoCount, Stepped, Marking
<1>2. QED
  BY <1>1 DEF NoCount

LEMMA HeldIsInt ==
  ASSUME TypeInv, NEW k \in Keepers
  PROVE  /\ \A o \in Orders : HeldOf(k)[o] = held[o][k] /\ held[o][k] \in Int
         /\ stock[k] \in Nat /\ InitStock[k] \in Nat
  BY DEF TypeInv, TypeOK, HeldOf

\* A step that takes units off the shelf for one order, or puts them back.
LEMMA MovesUnits ==
  ASSUME IsFiniteSet(Orders), TypeInv, TypeInv', NEW k \in Keepers, Balanced(k),
         NEW o \in Orders,
         \A p \in Orders \ {o} : held'[p] = held[p],
         stock'[k] = stock[k] + held[o][k] - held'[o][k]
  PROVE  Balanced(k)'
<1>1. /\ \A p \in Orders : HeldOf(k)[p] = held[p][k] /\ held[p][k] \in Int
      /\ stock[k] \in Nat
  BY HeldIsInt
<1>2. \A p \in Orders : HeldOf(k)'[p] = held'[p][k] /\ held'[p][k] \in Int
  BY DEF TypeInv, TypeOK, HeldOf
<1>3. PICK before, after : before = HeldOf(k) /\ after = HeldOf(k)'
  OBVIOUS
<1>4. SumFunctionOnSet(after, Orders) =
        SumFunctionOnSet(before, Orders) + after[o] - before[o]
  <2>1. /\ \A p \in Orders : before[p] \in Int
        /\ \A p \in Orders : after[p] \in Int
        /\ \A p \in Orders \ {o} : after[p] = before[p]
    BY <1>1, <1>2, <1>3
  <2>2. QED
    BY <2>1, SumOfChanged
<1>5. SumFunctionOnSet(before, Orders) \in Int
  BY <1>1, <1>3, SumIsInt
<1>6. before[o] = held[o][k] /\ after[o] = held'[o][k] /\ held[o][k] \in Int /\ held'[o][k] \in Int
  BY <1>1, <1>2, <1>3
<1>7. PICK total : total = SumFunctionOnSet(before, Orders)
  OBVIOUS
<1>8. stock[k] + total = InitStock[k]
  BY <1>3, <1>7 DEF Balanced
<1>9. stock'[k] + SumFunctionOnSet(after, Orders) = stock[k] + total
  BY <1>1, <1>4, <1>5, <1>6, <1>7
<1>10. QED
  BY <1>3, <1>8, <1>9 DEF Balanced

\* The stock is written by the two actions that write what orders hold, and by
\* the merchant's counts.
LEMMA StockStep ==
  ASSUME NoCount, [Next]_vars
  PROVE  \/ UNCHANGED <<stock, held>>
         \/ \E r \in Requests : PlaceOrder(r) \/ Update(r)
<1>1. ASSUME NEW r \in Requests, CheckoutStep(r), ~PlaceOrder(r)
      PROVE  UNCHANGED <<stock, held>>
  BY <1>1 DEF CheckoutStep, Checkout, ReadItem, ApplyMemberCoupon, LogCreate
<1>2. ASSUME NEW r \in Requests, TransitionStep(r), ~Update(r)
      PROVE  UNCHANGED <<stock, held>>
  BY <1>2 DEF TransitionStep, Cancel, Confirm, Prepare, Ship, MarkPaid, Select
<1>3. ASSUME NEW r \in Requests, MerchantRequest(r) \/ Abandon(r)
      PROVE  UNCHANGED <<stock, held>>
  BY <1>3 DEF MerchantRequest, AdjustInventory, WriteInventory, MarkCoupon,
              WriteCoupon, Abandon, NoCount
<1>4. ASSUME MerchantStep \/ UNCHANGED vars
      PROVE  UNCHANGED <<stock, held>>
  BY <1>4 DEF MerchantStep, UpdateProduct, DeleteProduct, SwitchTemplate, vars
<1>5. QED
  BY <1>1, <1>2, <1>3, <1>4 DEF Next

\* A checkout takes what its order, which held nothing, holds from then on.
LEMMA PlaceOrderBalances ==
  ASSUME IsFiniteSet(Orders), TypeInv, TypeInv', AbsentHoldNothing,
         NEW r \in Requests, PlaceOrder(r), NEW k \in Keepers, Balanced(k)
  PROVE  Balanced(k)'
<1>1. PICK o \in Orders :
        /\ order[o].status = "none"
        /\ held' = [held EXCEPT ![o] = Wanted(r)]
        /\ stock' = [j \in Keepers |-> stock[j] - Wanted(r)[j]]
  BY DEF PlaceOrder, DecreaseStock, Exists
<1>2. held[o][k] = 0
  BY <1>1 DEF AbsentHoldNothing
<1>3. /\ \A p \in Orders \ {o} : held'[p] = held[p]
      /\ held'[o][k] = Wanted(r)[k]
      /\ held'[o][k] \in Int
      /\ stock[k] \in Nat
      /\ stock'[k] = stock[k] - Wanted(r)[k]
  BY <1>1 DEF TypeInv, TypeOK
<1>4. stock'[k] = stock[k] + held[o][k] - held'[o][k]
  BY <1>2, <1>3
<1>5. QED
  BY <1>3, <1>4, MovesUnits

\* What a cancellation puts back is no longer held by its order.
LEMMA UpdateBalances ==
  ASSUME IsFiniteSet(Orders), TypeInv, TypeInv',
         NEW r \in Requests, Update(r), NEW k \in Keepers, Balanced(k)
  PROVE  Balanced(k)'
<1>1. PICK o \in Orders, m \in Moves : o = req[r].order /\ m = req[r].move
  BY DEF Update, TypeInv, TypeOK, RequestsAim, Aims, RequestState
<1> DEFINE back == IF m.restock THEN RestoredLines(o) ELSE NoLines
<1>2. /\ held' = [held EXCEPT ![o] = [j \in Keepers |-> held[o][j] - back[j]]]
      /\ stock' = [j \in Keepers |-> stock[j] + back[j]]
  BY <1>1 DEF Update
<1>3. back[k] \in Nat
  BY RestoredType DEF NoLines, TypeInv
<1> HIDE DEF back
<1>4. /\ \A p \in Orders \ {o} : held'[p] = held[p]
      /\ held'[o][k] = held[o][k] - back[k]
      /\ held[o][k] \in Int
      /\ stock[k] \in Nat
      /\ stock'[k] = stock[k] + back[k]
  BY <1>2 DEF TypeInv, TypeOK
<1>5. stock'[k] = stock[k] + held[o][k] - held'[o][k]
  BY <1>3, <1>4
<1>6. QED
  BY <1>4, <1>5, MovesUnits

LEMMA LedgerStep ==
  ASSUME IsFiniteSet(Orders), "adjust" \notin MerchantOps,
         TypeInv, TypeInv', AbsentHoldNothing, LedgerInv, [Next]_vars
  PROVE  LedgerInv'
<1>1. NoCount'
  BY NoCountStep DEF LedgerInv
<1>2. ASSUME NEW k \in Keepers
      PROVE  Balanced(k)'
  <2>1. CASE UNCHANGED <<stock, held>>
    BY <2>1 DEF LedgerInv, Balanced, HeldOf
  <2>2. ASSUME NEW r \in Requests, PlaceOrder(r) \/ Update(r)
        PROVE  Balanced(k)'
    BY <2>2, PlaceOrderBalances, UpdateBalances DEF LedgerInv
  <2>3. QED
    BY <2>1, <2>2, StockStep DEF LedgerInv
<1>3. QED
  BY <1>1, <1>2 DEF LedgerInv

LEMMA InitLedger ==
  ASSUME IsFiniteSet(Orders), Init
  PROVE  LedgerInv
<1>1. NoCount
  BY DEF Init, NoCount, Idle
<1>2. ASSUME NEW k \in Keepers
      PROVE  Balanced(k)
  <2>1. \A o \in Orders : HeldOf(k)[o] = 0
    BY DEF Init, HeldOf, NoLines
  <2>2. SumFunctionOnSet(HeldOf(k), Orders) = 0
    BY <2>1, SumOfZeros
  <2>3. QED
    BY <2>2 DEF Init, Balanced
<1>3. QED
  BY <1>1, <1>2 DEF LedgerInv

\* What the orders' rows owe is what they hold, but for the deleted products.
LEMMA LedgerOfRows ==
  ASSUME IsFiniteSet(Orders), TypeInv, HoldsItsItems, LedgerInv
  PROVE  ShelfLedger
<1>1. ASSUME NEW k \in Keepers, ~Lost(k)
      PROVE  stock[k] + SumFunction([o \in Orders |-> Owed(o, k)]) = InitStock[k]
  <2>1. PICK owed : owed = [o \in Orders |-> Owed(o, k)]
    OBVIOUS
  <2>2. \A o \in Orders : owed[o] = HeldOf(k)[o] /\ HeldOf(k)[o] \in Int
    BY <1>1, <2>1, HeldIsInt DEF HoldsItsItems
  <2>3. SumFunctionOnSet(owed, Orders) = SumFunctionOnSet(HeldOf(k), Orders)
    BY <2>2, SumOfEqual
  <2>4. SumFunction(owed) = SumFunctionOnSet(owed, Orders)
    BY <2>1 DEF SumFunction
  <2>5. QED
    BY <2>1, <2>3, <2>4 DEF LedgerInv, Balanced
<1>2. QED
  BY <1>1 DEF ShelfLedger

\* Whatever checkouts, cancellations, payments and deletions run at once, no unit
\* is lost or made up: the shelf and the orders' rows account for the initial
\* stock of every product that is not deleted.
THEOREM ShelfLedgerBalances ==
  ASSUME IsFiniteSet(Orders), {"virtual", "adjust"} \cap MerchantOps = {}
  PROVE  Spec => []ShelfLedger
<1>1. TypeInv /\ HoldInv /\ [Next]_vars => HoldInv'
  BY HoldStep
<1>2. TypeInv /\ TypeInv' /\ HoldInv /\ LedgerInv /\ [Next]_vars => LedgerInv'
  <2>1. HoldInv => AbsentHoldNothing
    BY DEF HoldInv, HoldsItsItems, Owed, AbsentHoldNothing
  <2>2. QED
    BY <2>1, LedgerStep
<1>3. Init => LedgerInv
  BY InitLedger
<1>4. TypeInv /\ HoldInv /\ LedgerInv => ShelfLedger
  BY LedgerOfRows DEF HoldInv
<1>5. QED
  BY <1>1, <1>2, <1>3, <1>4, InitHold, TypeInvariant, PTL DEF Spec
-----------------------------------------------------------------------------
(* The audit trail *)

\* Why the log is the path of its order: an order that is not there has no moves
\* logged, and a request that will log a move has read a status which the log
\* says the order was in.
Trail(o) ==
  /\ \A i \in {0} \cup MoveEntries(o) :
       /\ Exists(o) /\ (\A j \in MoveEntries(o) : j <= i)
            => order[o].status = Logged(o, i)
       /\ \A j \in MoveEntries(o) :
            i < j /\ (\A k \in MoveEntries(o) : k <= i \/ j <= k) =>
              <<Logged(o, i), Logged(o, j)>> \in TradeEdges
  /\ \A j \in MoveEntries(o) :
       \E i \in {0} \cup MoveEntries(o) : i < j /\ logs[o][j].before = Logged(o, i)
WasIn(o, status) == \E i \in {0} \cup MoveEntries(o) : status = Logged(o, i)
TrailInv ==
  /\ \A o \in Orders : Trail(o)
  /\ \A o \in Orders : ~Exists(o) => MoveEntries(o) = {}
  /\ \A q \in Requests : req[q].pc = "update" => WasIn(req[q].order, req[q].before)

LEMMA TrailIsAudit == AuditTrail <=> \A o \in Orders : Trail(o)
  BY DEF AuditTrail, Trail

\* The positions of the entries, and that the log names statuses only.
LEMMA Positions ==
  ASSUME TypeInv, NEW o \in Orders
  PROVE  /\ Len(logs[o]) \in Nat
         /\ MoveEntries(o) \subseteq 1..Len(logs[o])
         /\ \A i \in {0} \cup MoveEntries(o) : Logged(o, i) \in OrderStatus
<1>1. logs[o] \in Seq(LogRow)
  BY DEF TypeInv, TypeOK
<1>2. Len(logs[o]) \in Nat /\ \A i \in 1..Len(logs[o]) : logs[o][i] \in LogRow
  BY <1>1
<1>3. MoveEntries(o) \subseteq 1..Len(logs[o])
  BY DEF MoveEntries
<1>4. \A i \in MoveEntries(o) : logs[o][i].after \in OrderStatus
  BY <1>2, <1>3 DEF LogRow
<1>5. QED
  BY <1>2, <1>3, <1>4 DEF Logged, OrderStatus

\* The order has a latest move, or none yet.
LEMMA LatestMove ==
  ASSUME TypeInv, NEW o \in Orders
  PROVE  \E i \in {0} \cup MoveEntries(o) : \A j \in MoveEntries(o) : j <= i
<1>1. Len(logs[o]) \in Nat /\ MoveEntries(o) \subseteq 1..Len(logs[o])
  BY Positions
<1> DEFINE T == {n \in Nat : \E i \in {0} \cup MoveEntries(o) :
                   \A j \in MoveEntries(o) : j <= n => j <= i}
<1>2. 0 \in T
  BY <1>1
<1>3. ASSUME NEW n \in Nat, n \in T
      PROVE  n + 1 \in T
  <2>1. PICK i \in {0} \cup MoveEntries(o) : \A j \in MoveEntries(o) : j <= n => j <= i
    BY <1>3
  <2>2. CASE n + 1 \in MoveEntries(o)
    BY <1>1, <2>2
  <2>3. CASE n + 1 \notin MoveEntries(o)
    BY <1>1, <2>1, <2>3
  <2>4. QED
    BY <2>2, <2>3
<1>4. Len(logs[o]) \in T
  <2>1. T \in SUBSET Nat
    OBVIOUS
  <2> HIDE DEF T
  <2>2. QED
    BY <1>1, <1>2, <1>3, <2>1, NatSetInduction
<1>5. QED
  BY <1>1, <1>4

\* One entry more.
LEMMA LogGrows ==
  ASSUME TypeInv, NEW o \in Orders, NEW entry, logs'[o] = Append(logs[o], entry),
         NEW n, n = Len(logs[o]) + 1
  PROVE  /\ n \in Nat \ {0}
         /\ MoveEntries(o) \subseteq 1..(n - 1)
         /\ entry.before = "none" => MoveEntries(o)' = MoveEntries(o)
         /\ entry.before # "none" => MoveEntries(o)' = MoveEntries(o) \cup {n}
         /\ \A i \in {0} \cup MoveEntries(o) : Logged(o, i)' = Logged(o, i)
         /\ \A i \in MoveEntries(o) : logs'[o][i].before = logs[o][i].before
         /\ Logged(o, n)' = entry.after
         /\ logs'[o][n] = entry
<1>1. logs[o] \in Seq(LogRow) /\ n \in Nat \ {0}
  BY DEF TypeInv, TypeOK
<1>2. /\ Len(logs'[o]) = n
      /\ \A i \in 1..(n - 1) : logs'[o][i] = logs[o][i]
      /\ logs'[o][n] = entry
  BY <1>1
<1>3. MoveEntries(o) \subseteq 1..(n - 1)
  BY <1>1 DEF MoveEntries
<1>4. \A i : i \in MoveEntries(o)' <=> i \in 1..n /\ logs'[o][i].before # "none"
  BY <1>2 DEF MoveEntries
<1>5. \A i : i \in MoveEntries(o) <=> i \in 1..(n - 1) /\ logs[o][i].before # "none"
  BY <1>1 DEF MoveEntries
<1>6. \A i : i \in 1..n <=> i \in 1..(n - 1) \/ i = n
  BY <1>1
<1>7. \A i : i \in MoveEntries(o)' <=>
               i \in MoveEntries(o) \/ (i = n /\ entry.before # "none")
  BY <1>2, <1>4, <1>5, <1>6
<1>8. /\ entry.before = "none" => MoveEntries(o)' = MoveEntries(o)
      /\ entry.before # "none" => MoveEntries(o)' = MoveEntries(o) \cup {n}
  BY <1>7
<1>9. \A i \in MoveEntries(o) : logs'[o][i] = logs[o][i]
  BY <1>2, <1>3
<1>10. ASSUME NEW i \in {0} \cup MoveEntries(o)
       PROVE  Logged(o, i)' = Logged(o, i)
  BY <1>9 DEF Logged
<1>11. Logged(o, n)' = entry.after
  BY <1>1, <1>2 DEF Logged
<1>12. QED
  BY <1>1, <1>2, <1>3, <1>8, <1>9, <1>10, <1>11

\* The trail of an order of which no move is logged in the step.
SameTrail(o) ==
  /\ MoveEntries(o)' = MoveEntries(o)
  /\ \A i \in {0} \cup MoveEntries(o) : Logged(o, i)' = Logged(o, i)
  /\ \A i \in MoveEntries(o) : logs'[o][i].before = logs[o][i].before

LEMMA TrailStays ==
  ASSUME NEW o \in Orders, SameTrail(o), Trail(o), order'[o].status = order[o].status
  PROVE  Trail(o)'
<1>1. Exists(o)' = Exists(o)
  BY DEF Exists
<1>2. PICK moves : moves = MoveEntries(o)
  OBVIOUS
<1>3. MoveEntries(o)' = moves
  BY <1>2 DEF SameTrail
<1>4. \A i \in {0} \cup moves :
       /\ Exists(o)' /\ (\A j \in moves : j <= i) => order'[o].status = Logged(o, i)'
       /\ \A j \in moves :
            i < j /\ (\A k \in moves : k <= i \/ j <= k) =>
              <<Logged(o, i)', Logged(o, j)'>> \in TradeEdges
  BY <1>1, <1>2 DEF SameTrail, Trail
<1>5. \A j \in moves :
       \E i \in {0} \cup moves : i < j /\ logs'[o][j].before = Logged(o, i)'
  BY <1>2 DEF SameTrail, Trail
<1>6. QED
  BY <1>3, <1>4, <1>5 DEF Trail

LEMMA SameWasIn ==
  ASSUME NEW o \in Orders, NEW status, WasIn(o, status),
         SameTrail(o) \/ \E entry : TypeInv /\ logs'[o] = Append(logs[o], entry)
  PROVE  WasIn(o, status)'
<1>1. PICK i \in {0} \cup MoveEntries(o) : status = Logged(o, i)
  BY DEF WasIn
<1>2. i \in {0} \cup MoveEntries(o)' /\ Logged(o, i)' = Logged(o, i)
  <2>1. CASE SameTrail(o)
    BY <2>1 DEF SameTrail
  <2>2. CASE \E entry : TypeInv /\ logs'[o] = Append(logs[o], entry)
    <3>1. PICK entry, n : logs'[o] = Append(logs[o], entry) /\ n = Len(logs[o]) + 1
      BY <2>2
    <3>2. TypeInv
      BY <2>2
    <3>3. /\ entry.before = "none" => MoveEntries(o)' = MoveEntries(o)
          /\ entry.before # "none" => MoveEntries(o)' = MoveEntries(o) \cup {n}
      BY <3>1, <3>2, LogGrows
    <3>4. Logged(o, i)' = Logged(o, i)
      BY <1>1, <3>1, <3>2, LogGrows
    <3>5. i \in {0} \cup MoveEntries(o)'
      BY <1>1, <3>3
    <3>6. QED
      BY <3>4, <3>5
  <2>3. QED
    BY <2>1, <2>2
<1>3. QED
  BY <1>1, <1>2 DEF WasIn

\* A move that is logged goes on from the order's status, which the log names
\* last, to the one it sets.
LEMMA TrailGrows ==
  ASSUME TypeInv, NEW o \in Orders, Trail(o), Exists(o), NEW entry,
         logs'[o] = Append(logs[o], entry),
         WasIn(o, entry.before),
         order'[o].status = entry.after,
         <<order[o].status, entry.after>> \in TradeEdges
  PROVE  Trail(o)'
<1>1. PICK n, moves : n = Len(logs[o]) + 1 /\ moves = MoveEntries(o)
  OBVIOUS
<1>2. n \in Nat \ {0} /\ moves \subseteq 1..(n - 1)
  BY <1>1, LogGrows
<1>3. entry.before # "none"
  BY Positions DEF WasIn, OrderStatus
<1>4. /\ MoveEntries(o)' = moves \cup {n}
      /\ \A i \in {0} \cup moves : Logged(o, i)' = Logged(o, i)
      /\ \A i \in moves : logs'[o][i].before = logs[o][i].before
      /\ Logged(o, n)' = entry.after
      /\ logs'[o][n] = entry
  BY <1>1, <1>3, LogGrows
<1>5. /\ \A i \in {0} \cup moves :
           /\ (\A j \in moves : j <= i) => order[o].status = Logged(o, i)
           /\ \A j \in moves :
                i < j /\ (\A k \in moves : k <= i \/ j <= k) =>
                  <<Logged(o, i), Logged(o, j)>> \in TradeEdges
      /\ \A j \in moves :
           \E i \in {0} \cup moves : i < j /\ logs[o][j].before = Logged(o, i)
  BY <1>1 DEF Trail
<1>6. ASSUME NEW i \in {0} \cup moves \cup {n}, \A j \in moves \cup {n} : j <= i
      PROVE  order'[o].status = Logged(o, i)'
  BY <1>2, <1>4, <1>6
<1>7. ASSUME NEW i \in {0} \cup moves \cup {n}, NEW j \in moves \cup {n}, i < j,
             \A k \in moves \cup {n} : k <= i \/ j <= k
      PROVE  <<Logged(o, i)', Logged(o, j)'>> \in TradeEdges
  <2>1. i \in {0} \cup moves
    BY <1>2, <1>7
  <2>2. CASE j = n
    <3>1. \A k \in moves : k <= i
      BY <1>2, <1>7, <2>2
    <3>2. order[o].status = Logged(o, i)
      BY <1>5, <2>1, <3>1
    <3>3. QED
      BY <1>4, <2>1, <2>2, <3>2
  <2>3. CASE j \in moves
    BY <1>4, <1>5, <1>7, <2>1, <2>3
  <2>4. QED
    BY <2>2, <2>3
<1>8. ASSUME NEW j \in moves \cup {n}
      PROVE  \E i \in {0} \cup moves \cup {n} : i < j /\ logs'[o][j].before = Logged(o, i)'
  <2>1. CASE j = n
    <3>1. PICK i \in {0} \cup moves : entry.before = Logged(o, i)
      BY <1>1 DEF WasIn
    <3>2. i < n
      BY <1>2
    <3>3. QED
      BY <1>4, <2>1, <3>1, <3>2
  <2>2. CASE j \in moves
    <3>1. PICK i \in {0} \cup moves : i < j /\ logs[o][j].before = Logged(o, i)
      BY <1>5, <2>2
    <3>2. logs'[o][j].before = Logged(o, i)'
      BY <1>4, <2>2, <3>1
    <3>3. QED
      BY <3>1, <3>2
  <2>3. QED
    BY <2>1, <2>2
<1>9. {0} \cup MoveEntries(o)' = {0} \cup moves \cup {n}
  BY <1>4
<1>10. QED
  BY <1>4, <1>6, <1>7, <1>8, <1>9 DEF Trail
-----------------------------------------------------------------------------
\* Who writes the logs.
LEMMA LogStep ==
  ASSUME TypeInv, [Next]_vars
  PROVE  \/ UNCHANGED <<order, logs>>
         \/ \E r \in Requests : PlaceOrder(r) \/ LogCreate(r) \/ Update(r)
<1>1. ASSUME NEW r \in Requests, CheckoutStep(r), ~PlaceOrder(r), ~LogCreate(r)
      PROVE  UNCHANGED <<order, logs>>
  BY <1>1 DEF CheckoutStep, Checkout, ReadItem, ApplyMemberCoupon
<1>2. ASSUME NEW r \in Requests, TransitionStep(r), ~Update(r)
      PROVE  UNCHANGED <<order, logs>>
  BY <1>2 DEF TransitionStep, Cancel, Confirm, Prepare, Ship, MarkPaid, Select
<1>3. ASSUME NEW r \in Requests, MerchantRequest(r) \/ Abandon(r)
      PROVE  UNCHANGED <<order, logs>>
  BY <1>3 DEF MerchantRequest, AdjustInventory, WriteInventory, MarkCoupon,
              WriteCoupon, Abandon
<1>4. ASSUME MerchantStep \/ UNCHANGED vars
      PROVE  UNCHANGED <<order, logs>>
  BY <1>4 DEF MerchantStep, UpdateProduct, DeleteProduct, SwitchTemplate, vars
<1>5. QED
  BY <1>1, <1>2, <1>3, <1>4 DEF Next

\* What the step does to one order and its log.
Quiet(o) == SameTrail(o) /\ order'[o].status = order[o].status
Placed(o) == SameTrail(o) /\ ~Exists(o) /\ order'[o].status = "pending_pay"
Moved(o) ==
  /\ Exists(o)
  /\ order'[o].status # "none"
  /\ \E entry :
       /\ logs'[o] = Append(logs[o], entry)
       /\ WasIn(o, entry.before)
       /\ order'[o].status = entry.after
       /\ <<order[o].status, entry.after>> \in TradeEdges

LEMMA LogsSame ==
  ASSUME NEW o \in Orders, logs'[o] = logs[o]
  PROVE  SameTrail(o)
  BY DEF SameTrail, MoveEntries, Logged

LEMMA OrderLogStep ==
  ASSUME TypeInv, TrailInv, [Next]_vars, NEW o \in Orders
  PROVE  Quiet(o) \/ Placed(o) \/ Moved(o)
<1>1. CASE UNCHANGED <<order, logs>>
  BY <1>1, LogsSame DEF Quiet
<1>2. ASSUME NEW r \in Requests, PlaceOrder(r)
      PROVE  Quiet(o) \/ Placed(o)
  <2>1. PICK x \in Orders :
          /\ ~Exists(x)
          /\ order' = [order EXCEPT ![x] = NewOrder(r)]
    BY <1>2 DEF PlaceOrder
  <2>2. NewOrder(r).status = "pending_pay" /\ UNCHANGED logs
    BY <1>2 DEF NewOrder, PlaceOrder
  <2>3. order'[o] = IF o = x THEN NewOrder(r) ELSE order[o]
    BY <2>1 DEF TypeInv, TypeOK
  <2>4. QED
    BY <2>1, <2>2, <2>3, LogsSame DEF Quiet, Placed
<1>3. ASSUME NEW r \in Requests, LogCreate(r)
      PROVE  Quiet(o)
  <2>1. PICK entry : entry = [before |-> "none", after |-> "pending_pay"]
    OBVIOUS
  <2>2. logs' = [logs EXCEPT ![req[r].order] = Append(@, entry)] /\ UNCHANGED order
    BY <1>3, <2>1 DEF LogCreate
  <2>3. logs'[o] = IF o = req[r].order THEN Append(logs[o], entry) ELSE logs[o]
    BY <2>2 DEF TypeInv, TypeOK
  <2>4. CASE logs'[o] = Append(logs[o], entry)
    <3>1. PICK n : n = Len(logs[o]) + 1
      OBVIOUS
    <3>2. entry.before = "none"
      BY <2>1
    <3>3. SameTrail(o)
      BY <2>4, <3>1, <3>2, LogGrows DEF SameTrail
    <3>4. QED
      BY <2>2, <3>3 DEF Quiet
  <2>5. CASE logs'[o] = logs[o]
    BY <2>2, <2>5, LogsSame DEF Quiet
  <2>6. QED
    BY <2>3, <2>4, <2>5
<1>4. ASSUME NEW r \in Requests, Update(r)
      PROVE  Quiet(o) \/ Moved(o)
  <2>1. PICK x \in Orders, m \in Moves :
          /\ x = req[r].order
          /\ m = req[r].move
          /\ req[r].pc = "update"
    BY <1>4 DEF Update, TypeInv, TypeOK, RequestsAim, Aims, RequestState
  <2>2. PICK entry : entry = [before |-> req[r].before, after |-> m.to]
    OBVIOUS
  <2>3. /\ order[x].status \in m.from
        /\ order' = [order EXCEPT ![x] = [order[x] EXCEPT !.status = m.to]]
        /\ logs' = [logs EXCEPT ![x] = Append(@, entry)]
    BY <1>4, <2>1, <2>2 DEF Update, StillIn, Entry
  <2>4. CASE o = x
    <3>1. order[o] \in OrderRow /\ logs'[o] = Append(logs[o], entry)
      BY <2>3, <2>4 DEF TypeInv, TypeOK
    <3>2. order'[o].status = m.to
      BY <2>3, <2>4, <3>1 DEF TypeInv, TypeOK, OrderRow
    <3>3. WasIn(o, entry.before)
      BY <2>1, <2>2, <2>4 DEF TrailInv
    <3>4. <<order[o].status, entry.after>> \in TradeEdges
      BY <2>2, <2>3, <2>4 DEF TradeEdges
    <3>5. Exists(o) /\ m.to # "none"
      BY <2>3, <2>4, MoveShape DEF Exists
    <3>6. entry.after = m.to
      BY <2>2
    <3>7. QED
      BY <3>1, <3>2, <3>3, <3>4, <3>5, <3>6 DEF Moved
  <2>5. CASE o # x
    <3>1. order'[o] = order[o] /\ logs'[o] = logs[o]
      BY <2>3, <2>5 DEF TypeInv, TypeOK
    <3>2. QED
      BY <3>1, LogsSame DEF Quiet
  <2>6. QED
    BY <2>4, <2>5
<1>5. QED
  BY <1>1, <1>2, <1>3, <1>4, LogStep

LEMMA TrailStep ==
  ASSUME TypeInv, TrailInv, [Next]_vars
  PROVE  TrailInv'
<1>1. ASSUME NEW o \in Orders
      PROVE  Trail(o)' /\ (~Exists(o)' => MoveEntries(o)' = {})
  <2>1. CASE Quiet(o)
    <3>1. Trail(o)'
      BY <2>1, TrailStays DEF TrailInv, Quiet
    <3>2. ~Exists(o)' => MoveEntries(o)' = {}
      BY <2>1 DEF Quiet, SameTrail, TrailInv, Exists
    <3>3. QED
      BY <3>1, <3>2
  <2>2. CASE Placed(o)
    <3>1. MoveEntries(o)' = {} /\ Exists(o)'
      BY <2>2 DEF Placed, SameTrail, TrailInv, Exists
    <3>2. order'[o].status = Logged(o, 0)'
      BY <2>2 DEF Placed, Logged
    <3>3. QED
      BY <3>1, <3>2 DEF Trail
  <2>3. CASE Moved(o)
    <3>1. Trail(o)'
      BY <2>3, TrailGrows DEF Moved, TrailInv
    <3>2. QED
      BY <2>3, <3>1 DEF Moved, Exists
  <2>4. QED
    BY <2>1, <2>2, <2>3, OrderLogStep
<1>2. ASSUME NEW o \in Orders, NEW status, WasIn(o, status)
      PROVE  WasIn(o, status)'
  <2>1. SameTrail(o) \/ \E entry : logs'[o] = Append(logs[o], entry)
    BY OrderLogStep DEF Quiet, Placed, Moved
  <2>2. QED
    BY <1>2, <2>1, SameWasIn
<1>3. ASSUME NEW q \in Requests, req'[q].pc = "update"
      PROVE  WasIn(req[q].order, req[q].before)'
  <2>1. CASE req'[q] = req[q]
    <3>1. PICK o \in Orders : o = req[q].order
      BY <1>3, <2>1 DEF TypeInv, RequestsAim, Aims
    <3>2. PICK status : status = req[q].before
      OBVIOUS
    <3>3. WasIn(o, status)'
      BY <1>2, <1>3, <2>1, <3>1, <3>2 DEF TrailInv
    <3>4. o = req'[q].order /\ status = req'[q].before
      BY <2>1, <3>1, <3>2
    <3>5. QED
      BY <3>3, <3>4
  <2>2. CASE Selected(q)
    <3>1. PICK o \in Orders, m \in Moves :
            /\ order[o].status \in m.from
            /\ UNCHANGED <<order, logs>>
            /\ req'[q] = [Idle EXCEPT !.pc = "update", !.order = o, !.move = m,
                                      !.before = order[o].status]
      BY <2>2 DEF Selected
    <3>2. PICK status : status = order[o].status
      OBVIOUS
    <3>3. req'[q].order = o /\ req'[q].before = status
      BY <3>1, <3>2 DEF Idle
    <3>4. Exists(o)
      BY <3>1, MoveShape DEF Exists
    <3>5. PICK i \in {0} \cup MoveEntries(o) : \A j \in MoveEntries(o) : j <= i
      BY LatestMove
    <3>6. WasIn(o, status)
      BY <3>2, <3>4, <3>5 DEF TrailInv, Trail, WasIn
    <3>7. WasIn(o, status)'
      BY <1>2, <3>6
    <3>8. QED
      BY <3>3, <3>7
  <2>3. QED
    BY <1>3, <2>1, <2>2, RequestSteps DEF Stepped, Marking
<1>4. QED
  BY <1>1, <1>3 DEF TrailInv

LEMMA InitTrail == Init => TrailInv
<1> SUFFICES ASSUME Init PROVE TrailInv
  OBVIOUS
<1>1. ASSUME NEW o \in Orders
      PROVE  MoveEntries(o) = {} /\ ~Exists(o)
  <2>1. logs[o] = << >> /\ order[o].status = "none"
    BY DEF Init, NoOrder
  <2>2. Len(logs[o]) = 0
    BY <2>1
  <2>3. QED
    BY <2>1, <2>2 DEF MoveEntries, Exists
<1>2. \A q \in Requests : req[q].pc = "idle"
  BY DEF Init, Idle
<1>3. \A o \in Orders : Trail(o)
  BY <1>1 DEF Trail
<1>4. QED
  BY <1>1, <1>2, <1>3 DEF TrailInv

\* For every number of requests and whatever the order of their SELECTs, UPDATEs
\* and late creation entries, an order's log is the path the order took.
THEOREM LogIsThePath == Spec => []AuditTrail
<1>1. TypeInv /\ TrailInv /\ [Next]_vars => TrailInv'
  BY TrailStep
<1>2. TrailInv => AuditTrail
  BY TrailIsAudit DEF TrailInv
<1>3. QED
  BY <1>1, <1>2, InitTrail, TypeInvariant, PTL DEF Spec
-----------------------------------------------------------------------------
(* The use limit of a coupon *)

\* Only a checkout uses a coupon, under the lock of its template; the admin's
\* edit of a member coupon can only take it out of the used ones.
LEMMA UsedSetStep ==
  ASSUME TypeInv, [Next]_vars, NEW t \in Templates
  PROVE  \/ UsedOf(t)' \subseteq UsedOf(t)
         \/ UnderUseLimit(t) /\ \E c \in MemberCoupons : UsedOf(t)' = UsedOf(t) \cup {c}
<1>1. coupon \in [MemberCoupons -> CouponRow]
  BY DEF TypeInv, TypeOK
<1>2. CASE UNCHANGED coupon
  BY <1>2 DEF UsedOf
<1>3. ASSUME NEW r \in Requests, PlaceOrder(r), req[r].coupon # None
      PROVE  \/ UsedOf(t)' \subseteq UsedOf(t)
             \/ UnderUseLimit(t) /\ \E c \in MemberCoupons : UsedOf(t)' = UsedOf(t) \cup {c}
  <2>1. PICK o \in Orders, c \in MemberCoupons :
          /\ coupon' = [coupon EXCEPT ![c] = Used(c, o)]
          /\ UnderUseLimit(TemplateOf[c])
    BY <1>3, PlaceOrderUses DEF CouponUsable
  <2>2. \A d \in MemberCoupons :
          coupon'[d].status = IF d = c THEN "used" ELSE coupon[d].status
    BY <1>1, <2>1, UsedRow
  <2>3. CASE TemplateOf[c] = t
    <3>1. UsedOf(t)' = UsedOf(t) \cup {c}
      BY <2>2, <2>3 DEF UsedOf
    <3>2. QED
      BY <2>1, <2>3, <3>1
  <2>4. CASE TemplateOf[c] # t
    BY <2>2, <2>4 DEF UsedOf
  <2>5. QED
    BY <2>3, <2>4
<1>4. ASSUME NEW r \in Requests, WriteCoupon(r)
      PROVE  UsedOf(t)' \subseteq UsedOf(t)
  <2>1. \A d \in MemberCoupons : coupon'[d] = coupon[d] \/ coupon'[d].status # "used"
    BY <1>4, WriteCouponWrites, UnusedStatus
  <2>2. QED
    BY <2>1 DEF UsedOf
<1>5. QED
  BY <1>2, <1>3, <1>4, CouponStep

LEMMA UseLimitStep ==
  ASSUME IsFiniteSet(MemberCoupons), TypeInv, UseLimitHolds, [Next]_vars
  PROVE  UseLimitHolds'
<1>1. ASSUME UseLimit > 0, NEW t \in Templates
      PROVE  Cardinality(UsedOf(t)') <= UseLimit
  <2>1. PICK before, after : before = UsedOf(t) /\ after = UsedOf(t)'
    OBVIOUS
  <2>2. IsFiniteSet(before) /\ Cardinality(before) \in Nat
    BY <2>1, FS_Subset, FS_CardinalityType DEF UsedOf
  <2>3. Cardinality(before) <= UseLimit
    BY <1>1, <2>1 DEF UseLimitHolds
  <2>4. CASE after \subseteq before
    <3>1. Cardinality(after) <= Cardinality(before) /\ Cardinality(after) \in Nat
      BY <2>2, <2>4, FS_Subset, FS_CardinalityType
    <3>2. QED
      BY <2>1, <2>2, <2>3, <3>1
  <2>5. ASSUME UnderUseLimit(t), NEW c \in MemberCoupons, after = before \cup {c}
        PROVE  Cardinality(after) <= UseLimit
    <3>1. Cardinality(before) < UseLimit
      BY <1>1, <2>1, <2>5 DEF UnderUseLimit
    <3>2. Cardinality(after) \in {Cardinality(before), Cardinality(before) + 1}
      BY <2>2, <2>5, FS_AddElement
    <3>3. QED
      BY <2>2, <3>1, <3>2
  <2>6. QED
    BY <2>1, <2>4, <2>5, UsedSetStep
<1>2. QED
  BY <1>1 DEF UseLimitHolds

LEMMA InitUseLimit == Init => UseLimitHolds
<1>1. SUFFICES ASSUME Init, NEW t \in Templates PROVE Cardinality(UsedOf(t)) <= UseLimit
  BY DEF UseLimitHolds
<1>2. UsedOf(t) = {}
  BY <1>1 DEF Init, UsedOf, NewCoupon
<1>3. QED
  BY <1>2, FS_EmptySet

\* The limit holds although the check before the transaction can be stale: the
\* one inside it, under the lock, is what keeps it (LockMemberCouponForUse).
THEOREM UseLimitIsKept ==
  ASSUME IsFiniteSet(MemberCoupons)
  PROVE  Spec => []UseLimitHolds
<1>1. TypeInv /\ UseLimitHolds /\ [Next]_vars => UseLimitHolds'
  BY UseLimitStep
<1>2. QED
  BY <1>1, InitUseLimit, TypeInvariant, PTL DEF Spec

-----------------------------------------------------------------------------
(* The monthly limit *)

\* A checkout that has passed the check of the limit and not yet inserted its
\* order counts as one more order of the month.
InFlight == {r \in Requests : req[r].pc \in {"items", "coupon", "place"}}
QuotaInv ==
  OrderLimit > 0 =>
    Cardinality(MonthOrders \ FirstDay) + Cardinality(InFlight)
      < OrderLimit + Cardinality(Requests)

LEMMA InFlightKept ==
  ASSUME TypeInv, NEW r \in Requests, NEW state,
         r \in InFlight \/ state.pc \notin {"items", "coupon", "place"},
         req' = [req EXCEPT ![r] = state]
  PROVE  InFlight' \subseteq InFlight
  BY DEF InFlight, TypeInv, TypeOK

LEMMA FinishLands ==
  ASSUME TypeInv, NEW r \in Requests, Finishes(r)
  PROVE  InFlight' \subseteq InFlight
<1>1. Idle.pc = "idle"
  BY DEF Idle
<1>2. QED
  BY <1>1, InFlightKept DEF Finishes

\* Every step but the check of the limit leaves the checkouts in flight or
\* takes some away.
LEMMA InFlightStep ==
  ASSUME TypeInv, [Next]_vars
  PROVE  \/ InFlight' \subseteq InFlight
         \/ \E r \in Requests : Checkout(r)
<1>1. ASSUME NEW r \in Requests, CheckoutStep(r), ~Checkout(r)
      PROVE  InFlight' \subseteq InFlight
  <2>0. req[r] \in RequestState
    BY DEF TypeInv, TypeOK
  <2>1. CASE ReadItem(r)
    <3>1. PICK seen, pc :
            req' = [req EXCEPT ![r] = [req[r] EXCEPT !.seen = seen, !.pc = pc]]
      BY <2>1, ReadItemMoves, Zenon DEF TypeInv
    <3>2. r \in InFlight
      BY <2>1 DEF ReadItem, InFlight
    <3>3. QED
      BY <3>1, <3>2, InFlightKept
  <2>2. CASE ApplyMemberCoupon(r)
    <3>1. r \in InFlight
      BY <2>2 DEF ApplyMemberCoupon, InFlight
    <3>2. QED
      BY <2>2, <3>1, InFlightKept DEF ApplyMemberCoupon, GoesTo
  <2>3. CASE PlaceOrder(r)
    <3>1. r \in InFlight
      BY <2>3 DEF PlaceOrder, InFlight
    <3>2. PICK state : req' = [req EXCEPT ![r] = state]
      BY <2>3 DEF PlaceOrder
    <3>3. QED
      BY <3>1, <3>2, InFlightKept
  <2>4. CASE LogCreate(r)
    BY <2>4, FinishLands DEF LogCreate
  <2>5. QED
    BY <1>1, <2>1, <2>2, <2>3, <2>4 DEF CheckoutStep
<1>2. ASSUME NEW r \in Requests, TransitionStep(r)
      PROVE  InFlight' \subseteq InFlight
  <2>1. CASE Update(r)
    BY <2>1, FinishLands DEF Update
  <2>2. CASE \E o \in Orders : Cancel(r, o) \/ Confirm(r, o) \/ Prepare(r, o)
                               \/ Ship(r, o) \/ MarkPaid(r, o)
    <3>1. PICK o \in Orders, m \in Moves : Select(r, o, m)
      BY <2>2, TransitionsSelect DEF TypeInv
    <3>2. [Idle EXCEPT !.pc = "update", !.order = o, !.move = m,
                       !.before = order[o].status].pc = "update"
      BY DEF Idle
    <3>3. QED
      BY <3>1, <3>2, InFlightKept DEF Select, Starts
  <2>3. QED
    BY <1>2, <2>1, <2>2 DEF TransitionStep
<1>3. ASSUME NEW r \in Requests, MerchantRequest(r)
      PROVE  InFlight' \subseteq InFlight
  <2>1. ASSUME NEW p \in Products, AdjustInventory(r, p)
        PROVE  InFlight' \subseteq InFlight
    <3>1. PICK n : req' = [req EXCEPT ![r] =
                             [Idle EXCEPT !.pc = "adjust", !.keeper = p, !.write = n]]
      BY <2>1 DEF AdjustInventory, Starts
    <3>2. [Idle EXCEPT !.pc = "adjust", !.keeper = p, !.write = n].pc = "adjust"
      BY DEF Idle
    <3>3. QED
      BY <3>1, <3>2, InFlightKept
  <2>2. ASSUME NEW c \in MemberCoupons, MarkCoupon(r, c)
        PROVE  InFlight' \subseteq InFlight
    <3>1. PICK m : req' = [req EXCEPT ![r] =
                             [Idle EXCEPT !.pc = "mark", !.coupon = c, !.mark = m]]
      BY <2>2 DEF MarkCoupon, Starts
    <3>2. [Idle EXCEPT !.pc = "mark", !.coupon = c, !.mark = m].pc = "mark"
      BY DEF Idle
    <3>3. QED
      BY <3>1, <3>2, InFlightKept
  <2>3. CASE WriteInventory(r)
    BY <2>3, FinishLands DEF WriteInventory
  <2>4. CASE WriteCoupon(r)
    BY <2>4, FinishLands DEF WriteCoupon
  <2>5. QED
    BY <1>3, <2>1, <2>2, <2>3, <2>4 DEF MerchantRequest
<1>4. ASSUME NEW r \in Requests, Abandon(r)
      PROVE  InFlight' \subseteq InFlight
  BY <1>4, FinishLands DEF Abandon
<1>5. CASE MerchantStep \/ UNCHANGED vars
  BY <1>5 DEF MerchantStep, UpdateProduct, DeleteProduct, SwitchTemplate, vars, InFlight
<1>6. QED
  BY <1>1, <1>2, <1>3, <1>4, <1>5 DEF Next

LEMMA PlaceOrderCounts ==
  ASSUME TypeInv, NEW r \in Requests, PlaceOrder(r)
  PROVE  /\ r \in InFlight
         /\ InFlight' = InFlight \ {r}
         /\ \E o \in Orders : MonthOrders' = MonthOrders \cup {o}
<1>1. r \in InFlight
  BY DEF PlaceOrder, InFlight
<1>2. PICK o \in Orders :
        /\ order' = [order EXCEPT ![o] = NewOrder(r)]
        /\ req' = [req EXCEPT ![r] = [req[r] EXCEPT !.pc = "log", !.order = o]]
  BY DEF PlaceOrder
<1>3. [req[r] EXCEPT !.pc = "log", !.order = o].pc = "log"
  BY DEF TypeInv, TypeOK, RequestState
<1>4. InFlight' = InFlight \ {r}
  BY <1>2, <1>3 DEF InFlight, TypeInv, TypeOK
<1>5. NewOrder(r).status = "pending_pay"
  BY DEF NewOrder
<1>6. MonthOrders' = MonthOrders \cup {o}
  BY <1>2, <1>5 DEF MonthOrders, Exists, TypeInv, TypeOK
<1>7. QED
  BY <1>1, <1>4, <1>6

LEMMA UpdateCounts ==
  ASSUME TypeInv, NEW r \in Requests, Update(r)
  PROVE  MonthOrders' = MonthOrders
<1>1. PICK o \in Orders, move \in Moves : o = req[r].order /\ move = req[r].move
  BY DEF Update, TypeInv, TypeOK, RequestsAim, Aims, RequestState
<1>2. order[o].status \in move.from
  BY <1>1 DEF Update, StillIn
<1>3. order' = [order EXCEPT ![o] = [@ EXCEPT !.status = move.to]]
  BY <1>1 DEF Update
<1>4. order[o] \in OrderRow
  BY <1>1 DEF TypeInv, TypeOK
<1>5. order'[o].status = move.to /\ \A p \in Orders \ {o} : order'[p] = order[p]
  BY <1>3, <1>4 DEF TypeInv, TypeOK, OrderRow
<1>6. move.to # "none" /\ "none" \notin move.from
  BY <1>1 DEF Moves, CancelMove, ConfirmMove, PrepareMove, ShipMove, PayMove
<1>7. QED
  BY <1>2, <1>5, <1>6 DEF MonthOrders, Exists

\* After every step: the month and the checkouts in flight are as before or
\* fewer, an order took the place of its checkout, or the limit was checked.
LEMMA QuotaMoves ==
  ASSUME TypeInv, [Next]_vars
  PROVE  \/ MonthOrders' = MonthOrders /\ InFlight' \subseteq InFlight
         \/ \E r \in InFlight, o \in Orders :
              MonthOrders' = MonthOrders \cup {o} /\ InFlight' = InFlight \ {r}
         \/ /\ MonthOrders' = MonthOrders
            /\ \E missed \in SUBSET FirstDay : CheckOrderLimit(CountMonth(missed))
<1>1. CASE \E r \in Requests : PlaceOrder(r)
  BY <1>1, PlaceOrderCounts
<1>2. CASE \E r \in Requests : Update(r)
  <2>1. MonthOrders' = MonthOrders
    BY <1>2, UpdateCounts
  <2>2. InFlight' \subseteq InFlight
    BY <1>2, FinishLands DEF Update
  <2>3. QED
    BY <2>1, <2>2
<1>3. CASE UNCHANGED order
  <2>1. MonthOrders' = MonthOrders
    BY <1>3 DEF MonthOrders, Exists
  <2>2. QED
    BY <2>1, InFlightStep DEF Checkout
<1>4. QED
  BY <1>1, <1>2, <1>3, OrderStep

LEMMA QuotaStep ==
  ASSUME IsFiniteSet(Orders), IsFiniteSet(Requests), TypeInv, QuotaInv, [Next]_vars
  PROVE  QuotaInv'
<1>1. ASSUME OrderLimit > 0
      PROVE  Cardinality((MonthOrders \ FirstDay)') + Cardinality(InFlight')
               < OrderLimit + Cardinality(Requests)
  <2>1. PICK month, later, flying, after, late, all :
          /\ month = MonthOrders /\ flying = InFlight
          /\ late = Cardinality(month \ FirstDay)
          /\ later = MonthOrders' /\ after = InFlight'
          /\ all = Cardinality(Requests)
    OBVIOUS
  <2>2. /\ month \subseteq Orders /\ later \subseteq Orders
        /\ flying \subseteq Requests /\ after \subseteq Requests
    BY <2>1 DEF MonthOrders, InFlight
  <2>3. IsFiniteSet(month) /\ IsFiniteSet(month \ FirstDay) /\ IsFiniteSet(flying)
    BY <2>2, FS_Subset
  <2>4. late \in Nat /\ Cardinality(flying) \in Nat /\ all \in Nat
    BY <2>1, <2>3, FS_CardinalityType
  <2>5. late + Cardinality(flying) < OrderLimit + all
    BY <1>1, <2>1 DEF QuotaInv
  <2>6. ASSUME later = month, after \subseteq flying
        PROVE  Cardinality(later \ FirstDay) + Cardinality(after) < OrderLimit + all
    <3>1. Cardinality(after) <= Cardinality(flying) /\ Cardinality(after) \in Nat
      BY <2>3, <2>6, FS_Subset, FS_CardinalityType
    <3>2. Cardinality(later \ FirstDay) = late
      BY <2>1, <2>6
    <3>3. QED
      BY <2>4, <2>5, <3>1, <3>2
  <2>7. ASSUME NEW r \in flying, NEW o \in Orders,
               later = month \cup {o}, after = flying \ {r}
        PROVE  Cardinality(later \ FirstDay) + Cardinality(after) < OrderLimit + all
    <3>1. Cardinality(after) = Cardinality(flying) - 1
      BY <2>3, <2>7, FS_RemoveElement
    <3>2. later \ FirstDay = IF o \in FirstDay THEN month \ FirstDay
                             ELSE (month \ FirstDay) \cup {o}
      BY <2>7
    <3>3. Cardinality((month \ FirstDay) \cup {o}) \in {late, late + 1}
      BY <2>1, <2>3, FS_AddElement
    <3>4. Cardinality(later \ FirstDay) \in {late, late + 1}
      BY <2>1, <3>2, <3>3
    <3>5. QED
      BY <2>4, <2>5, <3>1, <3>4
  <2>8. ASSUME NEW missed \in SUBSET FirstDay, CheckOrderLimit(CountMonth(missed)),
               later = month
        PROVE  Cardinality(later \ FirstDay) + Cardinality(after) < OrderLimit + all
    <3>1. IsFiniteSet(month \ missed)
      BY <2>3, FS_Subset
    <3>2. (month \ FirstDay) \subseteq (month \ missed)
      BY <2>8
    <3>3. late <= Cardinality(month \ missed) /\ Cardinality(month \ missed) \in Nat
      BY <2>1, <3>1, <3>2, FS_Subset, FS_CardinalityType
    <3>4. Cardinality(month \ missed) < OrderLimit
      BY <1>1, <2>1, <2>8 DEF CheckOrderLimit, CountMonth
    <3>5. Cardinality(after) <= all /\ Cardinality(after) \in Nat
      BY <2>1, <2>2, FS_Subset, FS_CardinalityType
    <3>6. Cardinality(later \ FirstDay) = late
      BY <2>1, <2>8
    <3>7. QED
      BY <2>4, <3>3, <3>4, <3>5, <3>6
  <2>9. \/ later = month /\ after \subseteq flying
        \/ \E r \in flying, o \in Orders :
             later = month \cup {o} /\ after = flying \ {r}
        \/ /\ later = month
           /\ \E missed \in SUBSET FirstDay : CheckOrderLimit(CountMonth(missed))
    BY <2>1, QuotaMoves
  <2>10. Cardinality(later \ FirstDay) + Cardinality(after) < OrderLimit + all
    BY <2>6, <2>7, <2>8, <2>9
  <2>11. QED
    BY <2>1, <2>10
<1>2. QED
  BY <1>1 DEF QuotaInv

LEMMA InitQuota ==
  ASSUME IsFiniteSet(Requests), Init
  PROVE  QuotaInv
<1>1. SUFFICES ASSUME OrderLimit > 0 PROVE QuotaInv
  BY DEF QuotaInv
<1>2. MonthOrders \ FirstDay = {}
  BY DEF Init, MonthOrders, Exists, NoOrder
<1>3. InFlight = {}
  BY DEF Init, InFlight, Idle
<1>4. Cardinality(MonthOrders \ FirstDay) = 0 /\ Cardinality(InFlight) = 0
  BY <1>2, <1>3, FS_EmptySet
<1>5. OrderLimit \in Nat /\ Cardinality(Requests) \in Nat
  BY FS_CardinalityType
<1>6. QED
  BY <1>1, <1>4, <1>5 DEF QuotaInv

LEMMA QuotaIsOvershoot ==
  ASSUME IsFiniteSet(Orders), IsFiniteSet(Requests), QuotaInv
  PROVE  QuotaOvershoot
<1>1. SUFFICES ASSUME OrderLimit > 0 PROVE QuotaOvershoot
  BY DEF QuotaOvershoot
<1>2. PICK late, flying : /\ late = Cardinality(MonthOrders \ FirstDay)
                          /\ flying = Cardinality(InFlight)
  OBVIOUS
<1>3. late \in Nat /\ flying \in Nat /\ Cardinality(Requests) \in Nat
  BY <1>2, FS_Subset, FS_CardinalityType DEF MonthOrders, InFlight
<1>4. late + flying < OrderLimit + Cardinality(Requests)
  BY <1>1, <1>2 DEF QuotaInv
<1>5. QED
  BY <1>2, <1>3, <1>4 DEF QuotaOvershoot

\* After the first day of the month the limit is passed by fewer orders than
\* requests run together: each was let through while the month was under it.
THEOREM LimitOvershoot ==
  ASSUME IsFiniteSet(Orders), IsFiniteSet(Requests)
  PROVE  Spec => []QuotaOvershoot
<1>1. Init => QuotaInv
  BY InitQuota
<1>2. TypeInv /\ QuotaInv /\ [Next]_vars => QuotaInv'
  BY QuotaStep
<1>3. QuotaInv => QuotaOvershoot
  BY QuotaIsOvershoot
<1>4. QED
  BY <1>1, <1>2, <1>3, TypeInvariant, PTL DEF Spec
=============================================================================
