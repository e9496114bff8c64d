----------------------------- MODULE OrderTrade -----------------------------
(***************************************************************************)
(* Orders, stock and coupon use: OrderService, order_inventory.go and the  *)
(* repositories they call, with the merchant's edits of products and       *)
(* coupons that race with them.                                            *)
(*                                                                         *)
(* Every HTTP request is a process.  The database is PostgreSQL at its     *)
(* default isolation, READ COMMITTED, so a plain SELECT is a step of its   *)
(* own whose result may be stale when it is used.  A transaction's         *)
(* conditional UPDATEs evaluate their WHERE on the latest committed row    *)
(* and keep the row locked until COMMIT; the statements from the first     *)
(* UPDATE to COMMIT are therefore one step here, taken at the commit.      *)
(*                                                                         *)
(* Stock is kept per "keeper": the product row for an item without a SKU,  *)
(* the SKU row otherwise.  Prices, addresses and messages are left out.    *)
(*                                                                         *)
(* Operators named ...Inclusive, ...Unchecked, ...Always and ...OfSelect   *)
(* are not part of the specification: each is the definition below it with *)
(* a plausible defect, kept to see that a property can fail.               *)
(***************************************************************************)
EXTENDS Integers, Sequences, FiniteSets, Functions

CONSTANTS
  Orders,        \* the orders a run may insert
  Products,      \* product rows of one tenant
  Skus,          \* SKU rows of one tenant
  SkuProduct,    \* [Skus -> Products], product_skus.product_id
  MemberCoupons, \* coupons held by one member
  Templates,     \* the coupons they were received from
  TemplateOf,    \* [MemberCoupons -> Templates], member_coupons.coupon_id
  Requests,      \* requests that can be in flight together
  Carts,         \* the item lists members submit, [Keepers -> Nat] each
  InitStock,     \* [Keepers -> Nat]
  InitVirtual,   \* products that start with is_virtual = 1
  OrderLimit,    \* plan limit of orders per month, 0 for none
  FirstDay,      \* the orders inserted on the first day of the month
  UseLimit,      \* member_coupons.use_limit, 0 for none
  MaxStock,      \* bound: the merchant never counts more units than this
  MerchantOps,   \* which of the merchant's edits a run allows
  None           \* "no value" of the reference columns

Keepers == Products \cup Skus
ProductOf == [k \in Keepers |-> IF k \in Skus THEN SkuProduct[k] ELSE k]

\* The merchant's edits: putting products on and off the shelf, changing
\* is_virtual, deleting products, setting stock, switching coupons, and
\* changing the status of a member's coupon.
AllMerchantOps == {"shelf", "virtual", "delete", "adjust", "template", "coupon"}

ASSUME KeepersAssumption ==
  /\ Products \cap Skus = {}
  /\ SkuProduct \in [Skus -> Products]
  /\ TemplateOf \in [MemberCoupons -> Templates]
ASSUME StockAssumption ==
  /\ InitStock \in [Keepers -> Nat]
  /\ Carts \subseteq [Keepers -> Nat]
  /\ InitVirtual \subseteq Products
ASSUME LimitsAssumption ==
  /\ OrderLimit \in Nat
  /\ FirstDay \subseteq Orders
  /\ UseLimit \in Nat
  /\ MaxStock \in Nat
  /\ MerchantOps \subseteq AllMerchantOps
ASSUME NoneAssumption ==
  None \notin Orders \cup Keepers \cup MemberCoupons \cup Templates

VARIABLES
  product,   \* [Products -> ProductRow]
  stock,     \* [Keepers -> Nat], products.stock and product_skus.stock
  order,     \* [Orders -> OrderRow]
  coupon,    \* [MemberCoupons -> CouponRow]
  enabled,   \* [Templates -> BOOLEAN], coupons.status = 1
  logs,      \* [Orders -> Seq(LogRow)], order_logs in insertion order
  held,      \* history: units taken for an order and not put back
  req        \* [Requests -> RequestState], where each request is

vars == <<product, stock, order, coupon, enabled, logs, held, req>>

-----------------------------------------------------------------------------
(* Rows *)

OrderStatus == {"pending_pay", "paid", "preparing", "shipped", "delivered",
                "completed", "cancelled", "refunding", "refunded"}
StatusOrNone == OrderStatus \cup {"none"}

ProductRow == [onSale : BOOLEAN, virtual : BOOLEAN, deleted : BOOLEAN]

OrderRow == [status : StatusOrNone,
             lines : [Keepers -> Nat],
             virtual : BOOLEAN,
             template : Templates \cup {None}]

\* The last two fields are history: whether an edit of the coupon's status was in
\* flight when the coupon was used, and the orders such an edit took it from.
CouponRow == [status : {"unused", "used", "expired"},
              usedBy : Orders \cup {None},
              raced : BOOLEAN,
              takenFrom : SUBSET Orders]
NewCoupon == [status |-> "unused", usedBy |-> None, raced |-> FALSE, takenFrom |-> {}]

LogRow == [before : StatusOrNone, after : OrderStatus]

NoLines == [k \in Keepers |-> 0]
NoOrder == [status |-> "none", lines |-> NoLines, virtual |-> FALSE,
            template |-> None]

Exists(o) == order[o].status # "none"

\* What each operation asks of the transition helper: the statuses it may start
\* from, the one it sets, and whether its AfterUpdate hook restores stock.
CancelMove == [from |-> {"pending_pay"}, to |-> "cancelled", restock |-> TRUE]
ConfirmMove ==
  [from |-> {"shipped", "delivered"}, to |-> "completed", restock |-> FALSE]
PrepareMove == [from |-> {"paid"}, to |-> "preparing", restock |-> FALSE]
ShipMove ==
  [from |-> {"paid", "preparing"}, to |-> "shipped", restock |-> FALSE]
\* A virtual order is complete as soon as it is paid.
PayMove(isVirtual) ==
  [from |-> {"pending_pay"},
   to |-> IF isVirtual THEN "completed" ELSE "paid",
   restock |-> FALSE]
Moves == {CancelMove, ConfirmMove, PrepareMove, ShipMove, PayMove(TRUE), PayMove(FALSE)}

-----------------------------------------------------------------------------
(* Requests *)

\* "items", "coupon", "place", "log" are the stages of a checkout, "update" of
\* a status transition, "adjust" of an inventory change, "mark" of a change of
\* a member coupon's status.
Stages == {"idle", "items", "coupon", "place", "log", "update", "adjust", "mark"}

RequestState ==
  [pc : Stages,
   order : Orders \cup {None},      \* the order it works on
   move : Moves,                    \* update: the transition asked for
   before : StatusOrNone,           \* update: the status its SELECT returned
   lines : [Keepers -> Nat],        \* checkout: the submitted items
   seen : [Keepers -> {"unread", "virtual", "physical"}],
                                    \* checkout: is_virtual as it was read
   coupon : MemberCoupons \cup {None},
   keeper : Keepers \cup {None},    \* adjust: the product
   write : Nat,                     \* adjust: the stock it will write
   mark : {"unused", "expired"}]    \* mark: the status it will write

Idle == [pc |-> "idle", order |-> None, move |-> CancelMove, before |-> "none",
         lines |-> NoLines, seen |-> [k \in Keepers |-> "unread"],
         coupon |-> None, keeper |-> None, write |-> 0, mark |-> "unused"]

Starts(r, state) ==
  /\ req[r].pc = "idle"
  /\ req' = [req EXCEPT ![r] = state]

GoesTo(r, pc) == req' = [req EXCEPT ![r] = [@ EXCEPT !.pc = pc]]
Finishes(r) == req' = [req EXCEPT ![r] = Idle]

Ordered(lines) == {k \in Keepers : lines[k] > 0}

\* The request ends here: an early error return, a failed statement and the
\* rollback that follows, a cancelled context or a process that dies.  What
\* it committed before stays, what it did not commit never happened.
Abandon(r) ==
  /\ req[r].pc # "idle"
  /\ Finishes(r)
  /\ UNCHANGED <<product, stock, order, coupon, enabled, logs, held>>

-----------------------------------------------------------------------------
(* Checkout: OrderService.Create *)

MonthOrders == {o \in Orders : Exists(o)}

\* The month is counted from its first day at the present time of day, so the
\* orders that day saw earlier than that are missed.
CountMonth(missed) == Cardinality(MonthOrders \ missed)
CheckOrderLimitInclusive(count) == OrderLimit = 0 \/ count <= OrderLimit
CheckOrderLimit(count) == OrderLimit = 0 \/ count < OrderLimit

UsedOf(t) == {c \in MemberCoupons : TemplateOf[c] = t /\ coupon[c].status = "used"}
UnderUseLimitInclusive(t) == UseLimit = 0 \/ Cardinality(UsedOf(t)) <= UseLimit
UnderUseLimit(t) == UseLimit = 0 \/ Cardinality(UsedOf(t)) < UseLimit
CouponUsable(c) ==
  /\ coupon[c].status = "unused"
  /\ enabled[TemplateOf[c]]
  /\ UnderUseLimit(TemplateOf[c])

\* The month's orders are counted before, and outside, the transaction that
\* inserts the order.
Checkout(r) ==
  /\ \E missed \in SUBSET FirstDay : CheckOrderLimit(CountMonth(missed))
  /\ \E cart \in Carts, c \in MemberCoupons \cup {None} :
       Starts(r, [Idle EXCEPT !.pc = "items", !.lines = cart, !.coupon = c])
  /\ UNCHANGED <<product, stock, order, coupon, enabled, logs, held>>

\* One turn of the loop over the items: the product must exist and be on the
\* shelf, and its is_virtual is remembered.
SeenAs(p) == IF product[p].virtual THEN "virtual" ELSE "physical"
ReadItem(r) ==
  \E k \in Ordered(req[r].lines) :
    LET p == product[ProductOf[k]]
        seen == [req[r].seen EXCEPT ![k] = SeenAs(ProductOf[k])]
    IN
    /\ req[r].pc = "items"
    /\ req[r].seen[k] = "unread"
    /\ p.onSale
    /\ ~p.deleted
    /\ req' = [req EXCEPT ![r] = [@ EXCEPT
                 !.seen = seen,
                 !.pc = IF \E j \in Ordered(req[r].lines) : seen[j] = "unread"
                        THEN "items" ELSE "coupon"]]
    /\ UNCHANGED <<product, stock, order, coupon, enabled, logs, held>>

\* The check before the transaction, whose outcome can be stale when the
\* transaction runs.
ApplyMemberCoupon(r) ==
  /\ req[r].pc = "coupon"
  /\ req[r].coupon # None => CouponUsable(req[r].coupon)
  /\ GoesTo(r, "place")
  /\ UNCHANGED <<product, stock, order, coupon, enabled, logs, held>>

\* No stock is taken for an item whose product was read as virtual.
SeenVirtual(r, p) ==
  \E k \in Ordered(req[r].lines) :
    ProductOf[k] = p /\ req[r].seen[k] = "virtual"
Wanted(r) ==
  [k \in Keepers |-> IF SeenVirtual(r, ProductOf[k]) THEN 0 ELSE req[r].lines[k]]

\* UPDATE ... SET stock = stock - qty WHERE stock >= qty for every item.  A
\* soft-deleted product row matches no UPDATE.
DecreaseStockUnchecked(take) ==
  stock' = [k \in Keepers |-> stock[k] - take[k]]
DecreaseStock(take) ==
  /\ \A k \in Ordered(take) : stock[k] >= take[k]
  /\ \A p \in Ordered(take) \cap Products : ~product[p].deleted
  /\ stock' = [k \in Keepers |-> stock[k] - take[k]]

\* An edit of the coupon's status has read the row and not written it yet.
BeingEdited(c) == \E r \in Requests : req[r].pc = "mark" /\ req[r].coupon = c
UsedBy(c, o) == coupon[c].status = "used" /\ coupon[c].usedBy = o
Used(c, o) == [coupon[c] EXCEPT !.status = "used", !.usedBy = o, !.raced = BeingEdited(c)]

\* The member coupon and its template are locked FOR UPDATE and checked again.
MarkUsedUnchecked(c, o) == coupon' = [coupon EXCEPT ![c] = Used(c, o)]
MarkUsed(c, o) ==
  /\ CouponUsable(c)
  /\ coupon' = [coupon EXCEPT ![c] = Used(c, o)]

NewOrder(r) ==
  [status |-> "pending_pay",
   lines |-> req[r].lines,
   virtual |-> \A k \in Ordered(req[r].lines) : req[r].seen[k] = "virtual",
   template |-> IF req[r].coupon = None THEN None ELSE TemplateOf[req[r].coupon]]

\* The transaction of CreateWithItems: all of it or nothing.
PlaceOrder(r) ==
  \E o \in Orders :
    /\ req[r].pc = "place"
    /\ ~Exists(o)
    /\ o \in FirstDay => MonthOrders \subseteq FirstDay
    /\ order' = [order EXCEPT ![o] = NewOrder(r)]
    /\ DecreaseStock(Wanted(r))
    /\ IF req[r].coupon = None THEN UNCHANGED coupon ELSE MarkUsed(req[r].coupon, o)
    /\ held' = [held EXCEPT ![o] = Wanted(r)]
    /\ req' = [req EXCEPT ![r] = [@ EXCEPT !.pc = "log", !.order = o]]
    /\ UNCHANGED <<product, enabled, logs>>

\* The log of the creation is written after the commit and its error dropped;
\* a request that never writes it is one that takes Abandon here.
LogCreate(r) ==
  /\ req[r].pc = "log"
  /\ logs' = [logs EXCEPT ![req[r].order] =
                Append(@, [before |-> "none", after |-> "pending_pay"])]
  /\ Finishes(r)
  /\ UNCHANGED <<product, stock, order, coupon, enabled, held>>

-----------------------------------------------------------------------------
(* Status transitions: OrderService.transition *)

\* The SELECT of the order and the check of the status it returned.
Select(r, o, move) ==
  /\ order[o].status \in move.from
  /\ Starts(r, [Idle EXCEPT !.pc = "update", !.order = o, !.move = move,
                            !.before = order[o].status])
  /\ UNCHANGED <<product, stock, order, coupon, enabled, logs, held>>

Cancel(r, o) == Select(r, o, CancelMove)
Confirm(r, o) == Select(r, o, ConfirmMove)
Prepare(r, o) == Select(r, o, PrepareMove)
Ship(r, o) == Select(r, o, ShipMove)
MarkPaid(r, o) == Select(r, o, PayMove(order[o].virtual))

\* What restoreOrderStockTx adds back for an order: it asks the product row,
\* as it is now, whether the item has stock, and the UPDATE of a soft-deleted
\* product matches no row.
RestorableAlways(o, k) == TRUE
Restorable(o, k) ==
  /\ ~order[o].virtual
  /\ ~product[ProductOf[k]].virtual
  /\ k \in Products => ~product[k].deleted
RestoredLines(o) ==
  [k \in Keepers |-> IF Restorable(o, k) THEN order[o].lines[k] ELSE 0]

\* The WHERE of the UPDATE looks at the status again.
StillInUnchecked(o, from) == TRUE
StillIn(o, from) == order[o].status \in from

\* The log keeps the status of the SELECT, whatever the UPDATE overwrote.
EntryOfSelect(r) == [before |-> req[r].before, after |-> req[r].before]
Entry(r) == [before |-> req[r].before, after |-> req[r].move.to]

\* UPDATE ... WHERE status IN from, the AfterUpdate hook, the log, COMMIT.
Update(r) ==
  LET o == req[r].order
      move == req[r].move
      back == IF move.restock THEN RestoredLines(o) ELSE NoLines
  IN
  /\ req[r].pc = "update"
  /\ StillIn(o, move.from)
  /\ order' = [order EXCEPT ![o] = [@ EXCEPT !.status = move.to]]
  /\ stock' = [k \in Keepers |-> stock[k] + back[k]]
  /\ held' = [held EXCEPT ![o] = [k \in Keepers |-> held[o][k] - back[k]]]
  /\ logs' = [logs EXCEPT ![o] = Append(@, Entry(r))]
  /\ Finishes(r)
  /\ UNCHANGED <<product, coupon, enabled>>

-----------------------------------------------------------------------------
(* The merchant's edits *)

\* ProductService.Update writes status and is_virtual as submitted.
UpdateProduct(p) ==
  /\ ~product[p].deleted
  /\ \E shelf, virtual \in BOOLEAN :
       /\ shelf # product[p].onSale => "shelf" \in MerchantOps
       /\ virtual # product[p].virtual => "virtual" \in MerchantOps
       /\ product' = [product EXCEPT ![p] =
                         [@ EXCEPT !.onSale = shelf, !.virtual = virtual]]
  /\ UNCHANGED <<stock, order, coupon, enabled, logs, held, req>>

DeleteProduct(p) ==
  /\ "delete" \in MerchantOps
  /\ ~product[p].deleted
  /\ product' = [product EXCEPT ![p] = [@ EXCEPT !.deleted = TRUE]]
  /\ UNCHANGED <<stock, order, coupon, enabled, logs, held, req>>

\* AdjustInventory reads the product, computes the new stock in memory ("in"
\* adds to the stock read, "out" takes at most that stock, "set" replaces it)
\* and writes it as a plain value.
AdjustInventory(r, p) ==
  /\ "adjust" \in MerchantOps
  /\ ~product[p].deleted
  /\ ~product[p].virtual
  /\ \E n \in 0..MaxStock :
       Starts(r, [Idle EXCEPT !.pc = "adjust", !.keeper = p, !.write = n])
  /\ UNCHANGED <<product, stock, order, coupon, enabled, logs, held>>

WriteInventory(r) ==
  LET p == req[r].keeper IN
  /\ req[r].pc = "adjust"
  /\ stock' = [stock EXCEPT ![p] = IF product[p].deleted THEN @ ELSE req[r].write]
  /\ Finishes(r)
  /\ UNCHANGED <<product, order, coupon, enabled, logs, held>>

\* The status column of a coupon, changed by the admin's coupon form.
SwitchTemplate(t) ==
  /\ "template" \in MerchantOps
  /\ enabled' = [enabled EXCEPT ![t] = ~@]
  /\ UNCHANGED <<product, stock, order, coupon, logs, held, req>>

\* AdminUpdateMemberCouponStatus reads the row and refuses a used coupon; its
\* UPDATE does not look at the status again.
MarkCouponUnchecked(r, c) ==
  /\ "coupon" \in MerchantOps
  /\ \E status \in {"unused", "expired"} :
       Starts(r, [Idle EXCEPT !.pc = "mark", !.coupon = c, !.mark = status])
  /\ UNCHANGED <<product, stock, order, coupon, enabled, logs, held>>
MarkCoupon(r, c) ==
  /\ "coupon" \in MerchantOps
  /\ coupon[c].status # "used"
  /\ \E status \in {"unused", "expired"} :
       Starts(r, [Idle EXCEPT !.pc = "mark", !.coupon = c, !.mark = status])
  /\ UNCHANGED <<product, stock, order, coupon, enabled, logs, held>>

WriteCoupon(r) ==
  LET c == req[r].coupon IN
  /\ req[r].pc = "mark"
  /\ coupon' = [coupon EXCEPT ![c] =
       [status |-> req[r].mark,
        usedBy |-> IF req[r].mark = "unused" THEN None ELSE coupon[c].usedBy,
        raced |-> FALSE,
        takenFrom |-> coupon[c].takenFrom
                        \cup {o \in Orders : UsedBy(c, o) /\ coupon[c].raced}]]
  /\ Finishes(r)
  /\ UNCHANGED <<product, stock, order, enabled, logs, held>>

-----------------------------------------------------------------------------
(* The specification *)

Init ==
  /\ product = [p \in Products |-> [onSale |-> TRUE,
                                    virtual |-> p \in InitVirtual,
                                    deleted |-> FALSE]]
  /\ stock = InitStock
  /\ order = [o \in Orders |-> NoOrder]
  /\ coupon = [c \in MemberCoupons |-> NewCoupon]
  /\ enabled = [t \in Templates |-> TRUE]
  /\ logs = [o \in Orders |-> << >>]
  /\ held = [o \in Orders |-> NoLines]
  /\ req = [r \in Requests |-> Idle]

CheckoutStep(r) ==
  \/ Checkout(r)
  \/ ReadItem(r)
  \/ ApplyMemberCoupon(r)
  \/ PlaceOrder(r)
  \/ LogCreate(r)

TransitionStep(r) ==
  \/ \E o \in Orders :
       \/ Cancel(r, o)
       \/ Confirm(r, o)
       \/ Prepare(r, o)
       \/ Ship(r, o)
       \/ MarkPaid(r, o)
  \/ Update(r)

MerchantStep ==
  \/ \E p \in Products : UpdateProduct(p) \/ DeleteProduct(p)
  \/ \E t \in Templates : SwitchTemplate(t)

MerchantRequest(r) ==
  \/ \E p \in Products : AdjustInventory(r, p)
  \/ WriteInventory(r)
  \/ \E c \in MemberCoupons : MarkCoupon(r, c)
  \/ WriteCoupon(r)

Next ==
  \/ \E r \in Requests :
       CheckoutStep(r) \/ TransitionStep(r) \/ MerchantRequest(r) \/ Abandon(r)
  \/ MerchantStep

Spec == Init /\ [][Next]_vars

-----------------------------------------------------------------------------
(* Properties *)

\* Every variable has its type; stock in particular is never negative, so no
\* interleaving of checkouts, cancellations and stock counts oversells a row.
TypeOK ==
  /\ product \in [Products -> ProductRow]
  /\ stock \in [Keepers -> Nat]
  /\ order \in [Orders -> OrderRow]
  /\ coupon \in [MemberCoupons -> CouponRow]
  /\ enabled \in [Templates -> BOOLEAN]
  /\ logs \in [Orders -> Seq(LogRow)]
  /\ held \in [Orders -> [Keepers -> Int]]
  /\ req \in [Requests -> RequestState]

\* The units an order keeps off the shelf, told from its row alone.
Physical(o, k) == ~product[ProductOf[k]].virtual
Owed(o, k) ==
  IF order[o].status \notin {"none", "cancelled"} /\ Physical(o, k)
  THEN order[o].lines[k] ELSE 0
Lost(k) == k \in Products /\ product[k].deleted

\* While products keep their is_virtual, an order that is not cancelled keeps
\* exactly its physical items off the shelf and a cancelled one keeps nothing:
\* what Create took is what Cancel put back, once, whatever ran in between.
\* (The units of a product deleted before the cancellation are not put back.)
HoldsItsItems ==
  \A o \in Orders, k \in Keepers :
    held[o][k] = Owed(o, k) \/ (order[o].status = "cancelled" /\ Lost(k))

\* The shelf ledger: with no count by the merchant, what is on the shelf and
\* what the orders' rows still owe adds up to the initial stock.
ShelfLedger ==
  \A k \in Keepers :
    ~Lost(k) =>
      stock[k] + SumFunction([o \in Orders |-> Owed(o, k)]) = InitStock[k]

Backs(c, o) == UsedBy(c, o) \/ o \in coupon[c].takenFrom

\* Every discount is backed: an order that carries a coupon is the one the
\* member's used coupon names, so no member coupon discounts two orders.  It can
\* have lost the coupon since, to an edit that had read the coupon before the
\* order used it, and to no other.
DiscountIsBacked ==
  \A o \in Orders :
    order[o].template # None =>
      \E c \in MemberCoupons : TemplateOf[c] = order[o].template /\ Backs(c, o)

\* A member never has more used coupons of one template than its use limit,
\* although the check before the transaction and the one inside it race.
UseLimitHolds ==
  UseLimit > 0 => \A t \in Templates : Cardinality(UsedOf(t)) <= UseLimit

\* The month's limit is checked before the transaction, so checkouts in flight
\* together can pass it together; after the first day of the month it is
\* exceeded by no more than that.
QuotaOvershoot ==
  OrderLimit > 0 =>
    Cardinality(MonthOrders \ FirstDay) < OrderLimit + Cardinality(Requests)

\* "CheckOrderLimit enforces the monthly limit of orders": one request at a
\* time, the month holds no more orders than the plan allows.
MonthlyLimitHolds ==
  OrderLimit > 0 => Cardinality(MonthOrders) <= OrderLimit

\* The moves of the order service as edges of the status graph.
TradeEdges == UNION {m.from \X {m.to} : m \in Moves}

\* The entries of an order's moves, and the status an entry says the order went
\* to, 0 standing for its creation: the entry of the creation can be late or
\* missing.
MoveEntries(o) == {i \in 1..Len(logs[o]) : logs[o][i].before # "none"}
Logged(o, i) == IF i = 0 THEN "pending_pay" ELSE logs[o][i].after

\* The audit log is the path the order took: each entry of a move follows the
\* one before it along an edge, the last one names the order's status, and none
\* starts from a status the order was never in.
AuditTrail ==
  \A o \in Orders :
    LET moves == MoveEntries(o) IN
    /\ \A i \in {0} \cup moves :
         /\ Exists(o) /\ (\A j \in moves : j <= i) => order[o].status = Logged(o, i)
         /\ \A j \in moves :
              i < j /\ (\A k \in moves : k <= i \/ j <= k) =>
                <<Logged(o, i), Logged(o, j)>> \in TradeEdges
    /\ \A j \in moves :
         \E i \in {0} \cup moves : i < j /\ logs[o][j].before = Logged(o, i)

\* "A used coupon cannot change status", says the refusal of the admin's form: a
\* coupon an order has used stays used.
UsedCouponStaysUsed ==
  [][\A c \in MemberCoupons :
       coupon[c].status = "used" => coupon'[c] = coupon[c]]_vars

\* What the refusal achieves: only an edit whose SELECT came before the checkout's
\* COMMIT and whose UPDATE comes after it takes a used coupon back.  An edit that
\* begins later, an edit of another coupon and any other checkout leave it alone.
OnlyARaceTakesBack ==
  [][\A c \in MemberCoupons :
       coupon[c].status = "used" => coupon'[c] = coupon[c] \/ coupon[c].raced]_vars

Lifecycle == INSTANCE OrderLifecycle WITH
  Edges <- TradeEdges,
  status <- [o \in Orders |-> order[o].status]

\* Every step of the code is a step, or none, of the abstract status machine.
ImplementsLifecycle == Lifecycle!Spec
=============================================================================
