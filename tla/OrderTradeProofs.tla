-------------------------- MODULE OrderTradeProofs --------------------------
(***************************************************************************)
(* Theorems about OrderTrade, for every set of orders, products, coupons   *)
(* and requests.                                                           *)
(***************************************************************************)
EXTENDS OrderTrade, TLAPS

USE KeepersAssumption, StockAssumption, LimitsAssumption, NoneAssumption

(***************************************************************************)
(* The steps of a request and of the merchant, in the order of Next.       *)
(***************************************************************************)
LEMMA ReadOnlySteps ==
  ASSUME NEW r \in Requests,
         \/ Checkout(r)
         \/ ReadItem(r)
         \/ ApplyMemberCoupon(r)
         \/ \E o \in Orders, m \in Moves : Select(r, o, m)
         \/ \E p \in Products : AdjustInventory(r, p)
         \/ \E c \in MemberCoupons : MarkCoupon(r, c)
         \/ Abandon(r)
  PROVE  UNCHANGED <<product, stock, order, coupon, enabled, logs, held>>
  BY DEF Checkout, ReadItem, ApplyMemberCoupon, Select, AdjustInventory,
         MarkCoupon, Abandon

LEMMA TransitionsSelect ==
  ASSUME NEW r \in Requests, NEW o \in Orders, TypeOK,
         Cancel(r, o) \/ Confirm(r, o) \/ Prepare(r, o) \/ Ship(r, o) \/ MarkPaid(r, o)
  PROVE  \E m \in Moves : Select(r, o, m)
<1>1. order[o].virtual \in BOOLEAN
  BY DEF TypeOK, OrderRow
<1>2. PayMove(order[o].virtual) \in Moves
  BY <1>1 DEF Moves
<1>3. QED
  BY <1>2 DEF Moves, Cancel, Confirm, Prepare, Ship, MarkPaid

-----------------------------------------------------------------------------
(* Type correctness *)

LEMMA IdleType == Idle \in RequestState
  BY DEF Idle, RequestState, Moves, Stages, StatusOrNone, NoLines

LEMMA MoveTargets ==
  ASSUME NEW m \in Moves
  PROVE  m.to \in OrderStatus /\ m.from \subseteq OrderStatus
  BY DEF Moves, CancelMove, ConfirmMove, PrepareMove, ShipMove, PayMove, OrderStatus

LEMMA InitType == Init => TypeOK
  BY IdleType DEF Init, TypeOK, ProductRow, OrderRow, NoOrder, NoLines, CouponRow,
         NewCoupon, StatusOrNone, LogRow

\* A request that goes back to idle, or moves on without new data.
LEMMA FinishType ==
  ASSUME TypeOK, NEW r \in Requests, Finishes(r)
  PROVE  req' \in [Requests -> RequestState]
  BY IdleType DEF Finishes, TypeOK

LEMMA AppendLogType ==
  ASSUME NEW log \in [Orders -> Seq(LogRow)], NEW o, NEW entry \in LogRow
  PROVE  [log EXCEPT ![o] = Append(@, entry)] \in [Orders -> Seq(LogRow)]
<1>1. \A p \in Orders : Append(log[p], entry) \in Seq(LogRow)
  OBVIOUS
<1>2. QED
  BY <1>1

LEMMA SelectType ==
  ASSUME TypeOK, NEW r \in Requests, NEW o \in Orders, NEW m \in Moves,
         Select(r, o, m)
  PROVE  TypeOK'
<1>1. [Idle EXCEPT !.pc = "update", !.order = o, !.move = m,
                   !.before = order[o].status] \in RequestState
  BY IdleType DEF TypeOK, OrderRow, RequestState, Stages
<1>2. req' \in [Requests -> RequestState]
  BY <1>1 DEF Select, Starts, TypeOK
<1>3. QED
  BY <1>2 DEF Select, TypeOK

LEMMA CheckoutType ==
  ASSUME TypeOK, NEW r \in Requests, CheckoutStep(r)
  PROVE  TypeOK'
<1>1. CASE Checkout(r)
  <2>1. PICK cart \in Carts, c \in MemberCoupons \cup {None} :
          Starts(r, [Idle EXCEPT !.pc = "items", !.lines = cart, !.coupon = c])
    BY <1>1 DEF Checkout
  <2>2. [Idle EXCEPT !.pc = "items", !.lines = cart, !.coupon = c] \in RequestState
    BY IdleType DEF RequestState, Stages
  <2>3. req' \in [Requests -> RequestState]
    BY <2>1, <2>2 DEF Starts, TypeOK
  <2>4. QED
    BY <1>1, <2>3 DEF Checkout, TypeOK
<1>2. CASE ReadItem(r)
  <2>1. req' \in [Requests -> RequestState]
    <3> DEFINE read(k) == [req[r].seen EXCEPT ![k] = SeenAs(ProductOf[k])]
               next(k) == IF \E j \in Ordered(req[r].lines) : read(k)[j] = "unread"
                          THEN "items" ELSE "coupon"
    <3>1. PICK k \in Ordered(req[r].lines) :
            req' = [req EXCEPT ![r] = [@ EXCEPT !.seen = read(k), !.pc = next(k)]]
      BY <1>2, Zenon DEF ReadItem
    <3>2. req[r] \in RequestState
      BY DEF TypeOK
    <3>3. read(k) \in [Keepers -> {"unread", "virtual", "physical"}]
      BY <3>1, <3>2 DEF RequestState, SeenAs
    <3>4. next(k) \in Stages
      BY DEF Stages
    <3> HIDE DEF read, next
    <3>5. [req[r] EXCEPT !.seen = read(k), !.pc = next(k)] \in RequestState
      BY <3>2, <3>3, <3>4 DEF RequestState
    <3>6. QED
      BY <3>1, <3>5 DEF TypeOK
  <2>2. QED
    BY <1>2, <2>1 DEF ReadItem, TypeOK
<1>3. CASE ApplyMemberCoupon(r)
  <2>1. req' \in [Requests -> RequestState]
    <3>1. req[r] \in RequestState
      BY DEF TypeOK
    <3>2. [req[r] EXCEPT !.pc = "place"] \in RequestState
      BY <3>1 DEF RequestState, Stages
    <3>3. QED
      BY <1>3, <3>2 DEF ApplyMemberCoupon, GoesTo, TypeOK
  <2>2. QED
    BY <1>3, <2>1 DEF ApplyMemberCoupon, TypeOK
<1>4. CASE PlaceOrder(r)
  <2>1. PICK o \in Orders :
          /\ order' = [order EXCEPT ![o] = NewOrder(r)]
          /\ DecreaseStock(Wanted(r))
          /\ IF req[r].coupon = None THEN UNCHANGED coupon ELSE MarkUsed(req[r].coupon, o)
          /\ held' = [held EXCEPT ![o] = Wanted(r)]
          /\ req' = [req EXCEPT ![r] = [@ EXCEPT !.pc = "log", !.order = o]]
    BY <1>4 DEF PlaceOrder
  <2>2. req[r].lines \in [Keepers -> Nat] /\ req[r].coupon \in MemberCoupons \cup {None}
    BY DEF TypeOK, RequestState
  <2>3. Wanted(r) \in [Keepers -> Nat]
    BY <2>2 DEF Wanted
  <2>4. stock' \in [Keepers -> Nat]
    <3>1. ASSUME NEW k \in Keepers
          PROVE  stock[k] - Wanted(r)[k] \in Nat
      <4>1. stock[k] \in Nat /\ Wanted(r)[k] \in Nat
        BY <2>3 DEF TypeOK
      <4>2. CASE Wanted(r)[k] > 0
        <5>1. stock[k] >= Wanted(r)[k]
          BY <2>1, <4>2 DEF DecreaseStock, Ordered
        <5>2. QED
          BY <4>1, <5>1
      <4>3. QED
        BY <4>1, <4>2
    <3>2. QED
      BY <2>1, <3>1 DEF DecreaseStock
  <2>5. order' \in [Orders -> OrderRow]
    <3>1. NewOrder(r) \in OrderRow
      BY <2>2 DEF NewOrder, OrderRow, StatusOrNone, OrderStatus
    <3>2. QED
      BY <2>1, <3>1 DEF TypeOK
  <2>6. coupon' \in [MemberCoupons -> CouponRow]
    <3>1. ASSUME NEW c \in MemberCoupons
          PROVE  Used(c, o) \in CouponRow
      <4>1. coupon[c] \in CouponRow
        BY DEF TypeOK
      <4>2. BeingEdited(c) \in BOOLEAN
        BY DEF BeingEdited
      <4>3. PICK raced \in BOOLEAN : raced = BeingEdited(c)
        BY <4>2
      <4>4. Used(c, o) = [coupon[c] EXCEPT !.status = "used", !.usedBy = o, !.raced = raced]
        BY <4>3 DEF Used
      <4>5. QED
        BY <4>1, <4>4 DEF CouponRow
    <3>2. CASE req[r].coupon = None
      BY <2>1, <3>2 DEF TypeOK
    <3>3. CASE req[r].coupon # None
      <4>1. PICK c \in MemberCoupons : c = req[r].coupon
        BY <2>2, <3>3
      <4>2. coupon' = [coupon EXCEPT ![c] = Used(c, o)]
        BY <2>1, <3>3, <4>1 DEF MarkUsed
      <4>3. QED
        BY <3>1, <4>2 DEF TypeOK
    <3>4. QED
      BY <3>2, <3>3
  <2>7. held' \in [Orders -> [Keepers -> Int]]
    BY <2>1, <2>3 DEF TypeOK
  <2>8. req' \in [Requests -> RequestState]
    <3>1. req[r] \in RequestState
      BY DEF TypeOK
    <3>2. [req[r] EXCEPT !.pc = "log", !.order = o] \in RequestState
      BY <3>1 DEF RequestState, Stages
    <3>3. QED
      BY <2>1, <3>2 DEF TypeOK
  <2>9. QED
    BY <1>4, <2>4, <2>5, <2>6, <2>7, <2>8 DEF PlaceOrder, TypeOK
<1>5. CASE LogCreate(r)
  <2>1. [before |-> "none", after |-> "pending_pay"] \in LogRow
    BY DEF LogRow, StatusOrNone, OrderStatus
  <2>2. logs' \in [Orders -> Seq(LogRow)]
    BY <1>5, <2>1, AppendLogType DEF LogCreate, TypeOK
  <2>3. QED
    BY <1>5, <2>2, FinishType DEF LogCreate, TypeOK
<1>6. QED
  BY <1>1, <1>2, <1>3, <1>4, <1>5 DEF CheckoutStep

LEMMA RestoredType ==
  ASSUME TypeOK, NEW o \in Orders
  PROVE  RestoredLines(o) \in [Keepers -> Nat]
  BY DEF TypeOK, OrderRow, RestoredLines

LEMMA UpdateType ==
  ASSUME TypeOK, NEW r \in Requests, Update(r), req[r].order \in Orders
  PROVE  TypeOK'
<1> DEFINE o == req[r].order
           move == req[r].move
           back == IF move.restock THEN RestoredLines(o) ELSE NoLines
<1>1. back \in [Keepers -> Nat]
  BY RestoredType DEF NoLines
<1>2. move.to \in OrderStatus /\ req[r].before \in StatusOrNone
  <2>1. move \in Moves /\ req[r].before \in StatusOrNone
    BY DEF TypeOK, RequestState
  <2>2. QED
    BY <2>1, MoveTargets
<1>3. order' \in [Orders -> OrderRow]
  <2>1. order[o] \in OrderRow
    BY DEF TypeOK
  <2>2. [order[o] EXCEPT !.status = move.to] \in OrderRow
    BY <1>2, <2>1 DEF OrderRow, StatusOrNone
  <2>3. order' = [order EXCEPT ![o] = [@ EXCEPT !.status = move.to]]
    BY DEF Update
  <2>4. QED
    BY <2>2, <2>3 DEF TypeOK
<1>4. stock' \in [Keepers -> Nat]
  <2>1. stock' = [k \in Keepers |-> stock[k] + back[k]]
    BY DEF Update
  <2>2. QED
    BY <1>1, <2>1 DEF TypeOK
<1>5. held' \in [Orders -> [Keepers -> Int]]
  <2>1. held' = [held EXCEPT ![o] = [k \in Keepers |-> held[o][k] - back[k]]]
    BY DEF Update
  <2>2. [k \in Keepers |-> held[o][k] - back[k]] \in [Keepers -> Int]
    BY <1>1 DEF TypeOK
  <2>3. QED
    BY <2>1, <2>2 DEF TypeOK
<1>6. logs' \in [Orders -> Seq(LogRow)]
  <2>1. [before |-> req[r].before, after |-> move.to] \in LogRow
    BY <1>2 DEF LogRow
  <2>2. logs' = [logs EXCEPT ![o] =
                   Append(@, [before |-> req[r].before, after |-> move.to])]
    BY DEF Update, Entry
  <2>3. QED
    BY <2>1, <2>2, AppendLogType DEF TypeOK
<1>7. req' \in [Requests -> RequestState]
  BY FinishType DEF Update
<1>8. QED
  BY <1>3, <1>4, <1>5, <1>6, <1>7 DEF Update, TypeOK

LEMMA MerchantType ==
  ASSUME TypeOK, MerchantStep
  PROVE  TypeOK'
<1>1. ASSUME NEW p \in Products, UpdateProduct(p)
      PROVE  TypeOK'
  <2>1. PICK shelf \in BOOLEAN, virtual \in BOOLEAN :
          product' = [product EXCEPT ![p] =
                        [@ EXCEPT !.onSale = shelf, !.virtual = virtual]]
    BY <1>1 DEF UpdateProduct
  <2>2. [product[p] EXCEPT !.onSale = shelf, !.virtual = virtual] \in ProductRow
    <3>1. product[p] \in ProductRow
      BY DEF TypeOK
    <3>2. QED
      BY <3>1 DEF ProductRow
  <2>3. product' \in [Products -> ProductRow]
    BY <2>1, <2>2 DEF TypeOK
  <2>4. QED
    BY <1>1, <2>3 DEF UpdateProduct, TypeOK
<1>2. ASSUME NEW p \in Products, DeleteProduct(p)
      PROVE  TypeOK'
  <2>1. [product[p] EXCEPT !.deleted = TRUE] \in ProductRow
    <3>1. product[p] \in ProductRow
      BY DEF TypeOK
    <3>2. QED
      BY <3>1 DEF ProductRow
  <2>2. product' \in [Products -> ProductRow]
    BY <1>2, <2>1 DEF DeleteProduct, TypeOK
  <2>3. QED
    BY <1>2, <2>2 DEF DeleteProduct, TypeOK
<1>3. ASSUME NEW t \in Templates, SwitchTemplate(t)
      PROVE  TypeOK'
  BY <1>3 DEF SwitchTemplate, TypeOK
<1>4. QED
  BY <1>1, <1>2, <1>3 DEF MerchantStep

LEMMA MerchantRequestType ==
  ASSUME TypeOK, NEW r \in Requests, MerchantRequest(r)
  PROVE  TypeOK'
<1>1. ASSUME NEW p \in Products, AdjustInventory(r, p)
      PROVE  TypeOK'
  <2>1. PICK n \in 0..MaxStock :
          Starts(r, [Idle EXCEPT !.pc = "adjust", !.keeper = p, !.write = n])
    BY <1>1 DEF AdjustInventory
  <2>2. [Idle EXCEPT !.pc = "adjust", !.keeper = p, !.write = n] \in RequestState
    <3>1. n \in Nat /\ p \in Keepers
      BY DEF Keepers
    <3>2. QED
      BY <3>1, IdleType DEF RequestState, Stages
  <2>3. req' \in [Requests -> RequestState]
    BY <2>1, <2>2 DEF Starts, TypeOK
  <2>4. QED
    BY <1>1, <2>3 DEF AdjustInventory, TypeOK
<1>2. CASE WriteInventory(r)
  <2>1. req[r].write \in Nat
    BY DEF TypeOK, RequestState
  <2>2. stock' \in [Keepers -> Nat]
    BY <1>2, <2>1 DEF WriteInventory, TypeOK
  <2>3. QED
    BY <1>2, <2>2, FinishType DEF WriteInventory, TypeOK
<1>3. ASSUME NEW c \in MemberCoupons, MarkCoupon(r, c)
      PROVE  TypeOK'
  <2>1. PICK status \in {"unused", "expired"} :
          Starts(r, [Idle EXCEPT !.pc = "mark", !.coupon = c, !.mark = status])
    BY <1>3 DEF MarkCoupon
  <2>2. [Idle EXCEPT !.pc = "mark", !.coupon = c, !.mark = status] \in RequestState
    BY IdleType DEF RequestState, Stages
  <2>3. req' \in [Requests -> RequestState]
    BY <2>1, <2>2 DEF Starts, TypeOK
  <2>4. QED
    BY <1>3, <2>3 DEF MarkCoupon, TypeOK
<1>4. CASE WriteCoupon(r)
  <2>1. req[r].mark \in {"unused", "expired"}
    BY DEF TypeOK, RequestState
  <2>2. coupon' \in [MemberCoupons -> CouponRow]
    <3> DEFINE c == req[r].coupon
               row == [status |-> req[r].mark,
                       usedBy |-> IF req[r].mark = "unused" THEN None ELSE coupon[c].usedBy,
                       raced |-> FALSE,
                       takenFrom |-> coupon[c].takenFrom
                                       \cup {o \in Orders : UsedBy(c, o) /\ coupon[c].raced}]
    <3>1. coupon' = [coupon EXCEPT ![c] = row]
      BY <1>4 DEF WriteCoupon
    <3>2. c \in MemberCoupons => row \in CouponRow
      BY <2>1 DEF TypeOK, CouponRow
    <3>3. QED
      BY <3>1, <3>2 DEF TypeOK
  <2>3. QED
    BY <1>4, <2>2, FinishType DEF WriteCoupon, TypeOK
<1>5. QED
  BY <1>1, <1>2, <1>3, <1>4 DEF MerchantRequest

(***************************************************************************)
(* A request that is about to write an order row or its log knows which    *)
(* one: without this, nothing bounds what Update writes.                   *)
(***************************************************************************)
Aims(state) == state.pc \in {"log", "update"} => state.order \in Orders
RequestsAim == \A r \in Requests : Aims(req[r])

TypeInv == TypeOK /\ RequestsAim

LEMMA ReadItemMoves ==
  ASSUME TypeOK, NEW r \in Requests, ReadItem(r)
  PROVE  \E seen, pc :
           /\ pc \in {"items", "coupon"}
           /\ req' = [req EXCEPT ![r] = [req[r] EXCEPT !.seen = seen, !.pc = pc]]
<1> DEFINE read(k) == [req[r].seen EXCEPT ![k] = SeenAs(ProductOf[k])]
           next(k) == IF \E j \in Ordered(req[r].lines) : read(k)[j] = "unread"
                      THEN "items" ELSE "coupon"
<1>1. PICK k \in Ordered(req[r].lines) :
        req' = [req EXCEPT ![r] = [@ EXCEPT !.seen = read(k), !.pc = next(k)]]
  BY Zenon DEF ReadItem
<1>2. next(k) \in {"items", "coupon"}
  OBVIOUS
<1> HIDE DEF read, next
<1>3. req' = [req EXCEPT ![r] = [req[r] EXCEPT !.seen = read(k), !.pc = next(k)]]
  BY <1>1
<1>4. QED
  BY <1>2, <1>3

LEMMA AimKept ==
  ASSUME TypeInv, NEW r \in Requests, NEW state, Aims(state),
         req' = [req EXCEPT ![r] = state]
  PROVE  RequestsAim'
  BY DEF TypeInv, TypeOK, RequestsAim, Aims

LEMMA IdleAims == Aims(Idle)
  BY DEF Aims, Idle

LEMMA FinishAims ==
  ASSUME TypeInv, NEW r \in Requests, Finishes(r)
  PROVE  RequestsAim'
  BY AimKept, IdleAims DEF Finishes

LEMMA CheckoutAims ==
  ASSUME TypeInv, NEW r \in Requests, CheckoutStep(r)
  PROVE  RequestsAim'
<1>0. req[r] \in RequestState
  BY DEF TypeInv, TypeOK
<1>1. CASE Checkout(r)
  <2>1. PICK cart, c :
          req' = [req EXCEPT ![r] =
                    [Idle EXCEPT !.pc = "items", !.lines = cart, !.coupon = c]]
    BY <1>1 DEF Checkout, Starts
  <2>2. Aims([Idle EXCEPT !.pc = "items", !.lines = cart, !.coupon = c])
    BY DEF Aims, Idle
  <2>3. QED
    BY <2>1, <2>2, AimKept
<1>2. CASE ReadItem(r)
  <2>1. PICK seen, pc :
          /\ pc \in {"items", "coupon"}
          /\ req' = [req EXCEPT ![r] = [req[r] EXCEPT !.seen = seen, !.pc = pc]]
    BY <1>2, ReadItemMoves, Zenon DEF TypeInv
  <2>2. Aims([req[r] EXCEPT !.seen = seen, !.pc = pc])
    BY <1>0, <2>1 DEF Aims, RequestState
  <2>3. QED
    BY <2>1, <2>2, AimKept
<1>3. CASE ApplyMemberCoupon(r)
  <2>1. Aims([req[r] EXCEPT !.pc = "place"])
    BY <1>0 DEF Aims, RequestState
  <2>2. QED
    BY <1>3, <2>1, AimKept DEF ApplyMemberCoupon, GoesTo, TypeInv, TypeOK
<1>4. CASE PlaceOrder(r)
  <2>1. PICK o \in Orders :
          req' = [req EXCEPT ![r] = [req[r] EXCEPT !.pc = "log", !.order = o]]
    BY <1>4 DEF PlaceOrder, TypeInv, TypeOK
  <2>2. Aims([req[r] EXCEPT !.pc = "log", !.order = o])
    BY <1>0 DEF Aims, RequestState
  <2>3. QED
    BY <2>1, <2>2, AimKept
<1>5. CASE LogCreate(r)
  BY <1>5, FinishAims DEF LogCreate
<1>6. QED
  BY <1>1, <1>2, <1>3, <1>4, <1>5 DEF CheckoutStep

LEMMA SelectAims ==
  ASSUME TypeInv, NEW r \in Requests, NEW o \in Orders, NEW m \in Moves, Select(r, o, m)
  PROVE  RequestsAim'
<1>1. Aims([Idle EXCEPT !.pc = "update", !.order = o, !.move = m,
                        !.before = order[o].status])
  BY DEF Aims, Idle
<1>2. QED
  BY <1>1, AimKept DEF Select, Starts

LEMMA MerchantRequestAims ==
  ASSUME TypeInv, NEW r \in Requests, MerchantRequest(r)
  PROVE  RequestsAim'
<1>1. ASSUME NEW p \in Products, AdjustInventory(r, p)
      PROVE  RequestsAim'
  <2>1. PICK n :
          req' = [req EXCEPT ![r] =
                    [Idle EXCEPT !.pc = "adjust", !.keeper = p, !.write = n]]
    BY <1>1 DEF AdjustInventory, Starts
  <2>2. Aims([Idle EXCEPT !.pc = "adjust", !.keeper = p, !.write = n])
    BY DEF Aims, Idle
  <2>3. QED
    BY <2>1, <2>2, AimKept
<1>2. CASE WriteInventory(r)
  BY <1>2, FinishAims DEF WriteInventory
<1>3. ASSUME NEW c \in MemberCoupons, MarkCoupon(r, c)
      PROVE  RequestsAim'
  <2>1. PICK status :
          req' = [req EXCEPT ![r] =
                    [Idle EXCEPT !.pc = "mark", !.coupon = c, !.mark = status]]
    BY <1>3 DEF MarkCoupon, Starts
  <2>2. Aims([Idle EXCEPT !.pc = "mark", !.coupon = c, !.mark = status])
    BY DEF Aims, Idle
  <2>3. QED
    BY <2>1, <2>2, AimKept
<1>4. CASE WriteCoupon(r)
  BY <1>4, FinishAims DEF WriteCoupon
<1>5. QED
  BY <1>1, <1>2, <1>3, <1>4 DEF MerchantRequest

LEMMA TypeInvStep ==
  ASSUME TypeInv, [Next]_vars
  PROVE  TypeInv'
<1>1. ASSUME NEW r \in Requests, CheckoutStep(r)
      PROVE  TypeInv'
  BY <1>1, CheckoutType, CheckoutAims DEF TypeInv
<1>2. ASSUME NEW r \in Requests, TransitionStep(r)
      PROVE  TypeInv'
  <2>1. CASE Update(r)
    <3>1. req[r].order \in Orders
      BY <2>1 DEF TypeInv, RequestsAim, Aims, Update
    <3>2. RequestsAim'
      BY <2>1, FinishAims DEF Update
    <3>3. QED
      BY <2>1, <3>1, <3>2, UpdateType DEF TypeInv
  <2>2. CASE \E o \in Orders : Cancel(r, o) \/ Confirm(r, o) \/ Prepare(r, o)
                               \/ Ship(r, o) \/ MarkPaid(r, o)
    <3>1. PICK o \in Orders, m \in Moves : Select(r, o, m)
      BY <2>2, TransitionsSelect DEF TypeInv
    <3>2. QED
      BY <3>1, SelectType, SelectAims DEF TypeInv
  <2>3. QED
    BY <1>2, <2>1, <2>2 DEF TransitionStep
<1>3. ASSUME NEW r \in Requests, MerchantRequest(r)
      PROVE  TypeInv'
  BY <1>3, MerchantRequestType, MerchantRequestAims DEF TypeInv
<1>4. ASSUME NEW r \in Requests, Abandon(r)
      PROVE  TypeInv'
  BY <1>4, FinishType, FinishAims DEF Abandon, TypeInv, TypeOK
<1>5. CASE MerchantStep
  <2>1. UNCHANGED req
    BY <1>5 DEF MerchantStep, UpdateProduct, DeleteProduct, SwitchTemplate
  <2>2. QED
    BY <1>5, <2>1, MerchantType DEF TypeInv, RequestsAim
<1>6. CASE UNCHANGED vars
  BY <1>6 DEF vars, TypeInv, TypeOK, RequestsAim
<1>7. QED
  BY <1>1, <1>2, <1>3, <1>4, <1>5, <1>6 DEF Next

THEOREM TypeInvariant == Spec => []TypeInv
<1>1. Init => TypeInv
  <2>1. SUFFICES ASSUME Init PROVE RequestsAim
    BY InitType DEF TypeInv
  <2>2. req = [r \in Requests |-> Idle]
    BY <2>1 DEF Init
  <2>3. \A r \in Requests : req[r] = Idle
    BY <2>2
  <2>4. QED
    BY <2>3, IdleAims DEF RequestsAim, Aims
<1>2. TypeInv /\ [Next]_vars => TypeInv'
  BY TypeInvStep
<1>3. QED
  BY <1>1, <1>2, PTL DEF Spec

\* Every variable keeps its type in every interleaving; the stock columns in
\* particular never go below zero, because the UPDATE that takes stock tests
\* the row it changes.
THEOREM TypeCorrect == Spec => []TypeOK
<1>1. TypeInv => TypeOK
  BY DEF TypeInv
<1>2. QED
  BY <1>1, TypeInvariant, PTL
=============================================================================
