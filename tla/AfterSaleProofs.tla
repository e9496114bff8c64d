-------------------------- MODULE AfterSaleProofs ---------------------------
(***************************************************************************)
(* Theorems about AfterSale, for every set of orders, after-sales and      *)
(* calls.  The argument is about the orders an after-sale or a call aims   *)
(* at: they have been paid, nothing the order service or an after-sale     *)
(* writes brings them back to waiting for payment, and a call that has     *)
(* read an open after-sale can only move or end one that is still open.    *)
(* From this follow the status graph of an order's whole life and what     *)
(* payments rely on of it.  What OrderTradeSafety proves of coupons and    *)
(* limits holds on, because a call writes statuses of paid orders only;    *)
(* its shelf ledger holds with the refunds counted.                        *)
(***************************************************************************)
EXTENDS AfterSale, OrderTradeSafety, FiniteSetTheorems

Unpaid == {"none", "pending_pay", "cancelled"}
Past(o) == o \in Orders /\ order[o].status \notin Unpaid

RowAims(a) ==
  afterSale[a].status # "none" =>
    Past(afterSale[a].order) /\ afterSale[a].before \in ApplyFrom

\* What the stage of a call says of the data it carries.
CallAims(q) ==
  /\ q.pc \in {"count", "open"} => Past(q.order) /\ q.seen \in ApplyFrom
  /\ q.pc \in {"finish", "move", "refund"} =>
       /\ q.afterSale \in AfterSales
       /\ afterSale[q.afterSale].status # "none"
       /\ q.seen \in ActiveStatuses
  /\ q.pc = "finish" => q.to \in {"cancelled", "rejected"}
  /\ q.pc = "move" => q.to \in ActiveStatuses

AfterSaleInv ==
  /\ TypeInv
  /\ afterSale \in [AfterSales -> AfterSaleRow]
  /\ call \in [Calls -> CallState]
  /\ \A a \in AfterSales : RowAims(a)
  /\ \A d \in Calls : CallAims(call[d])
  /\ RefundingHasAfterSale

-----------------------------------------------------------------------------
(* What no step takes back *)

\* Orders that were paid stay paid, rows stay rows.
Stays ==
  /\ \A o \in Orders : Past(o) => Past(o)'
  /\ \A a \in AfterSales :
       afterSale[a].status # "none" =>
         /\ afterSale'[a].status # "none"
         /\ afterSale'[a].order = afterSale[a].order
         /\ afterSale'[a].before = afterSale[a].before

LEMMA ApplyFromIsPaid ==
  /\ ApplyFrom \cap Unpaid = {}
  /\ ApplyFrom \subseteq OrderStatus
  /\ "refunding" \notin ApplyFrom
  BY DEF ApplyFrom, Unpaid, OrderStatus

LEMMA CallAimsKept ==
  ASSUME Stays, NEW q, CallAims(q)
  PROVE  CallAims(q)'
  BY DEF Stays, CallAims, Past

LEMMA RowsKept ==
  ASSUME AfterSaleInv, Stays,
         NEW a \in AfterSales, afterSale[a].status # "none"
  PROVE  RowAims(a)'
  BY DEF AfterSaleInv, Stays, RowAims, Past

LEMMA CallsKept ==
  ASSUME AfterSaleInv, Stays, UNCHANGED call
  PROVE  \A d \in Calls : CallAims(call[d])'
<1>1. ASSUME NEW d \in Calls
      PROVE  CallAims(call[d])'
  <2>1. PICK q : q = call[d] /\ CallAims(q)
    BY DEF AfterSaleInv
  <2>2. CallAims(q)'
    BY <2>1, CallAimsKept
  <2>3. QED
    BY <2>1, <2>2
<1>2. QED
  BY <1>1

\* A call goes on with data it aims at.
LEMMA CallMoves ==
  ASSUME AfterSaleInv, Stays, NEW d \in Calls, NEW q \in CallState, CallAims(q)',
         call' = [call EXCEPT ![d] = q]
  PROVE  call' \in [Calls -> CallState] /\ \A e \in Calls : CallAims(call[e])'
<1>1. call \in [Calls -> CallState] /\ \A e \in Calls : CallAims(call[e])
  BY DEF AfterSaleInv
<1>2. ASSUME NEW e \in Calls
      PROVE  CallAims(call[e])'
  <2>1. CASE e = d
    <3>1. call'[e] = q
      BY <1>1, <2>1
    <3>2. QED
      BY <3>1
  <2>2. CASE e # d
    <3>1. PICK u : u = call[e] /\ CallAims(u)
      BY <1>1
    <3>2. CallAims(u)'
      BY <3>1, CallAimsKept
    <3>3. call'[e] = u
      BY <1>1, <2>2, <3>1
    <3>4. QED
      BY <3>2, <3>3
  <2>3. QED
    BY <2>1, <2>2
<1>3. QED
  BY <1>1, <1>2

LEMMA NoCallAims ==
  NoCall \in CallState /\ CallAims(NoCall) /\ CallAims(NoCall)'
  BY DEF NoCall, CallState, CallAims, StatusOrNone, AfterSaleStatus, ActiveStatuses,
     FinalStatuses

LEMMA HangsUpCalls ==
  ASSUME AfterSaleInv, Stays, NEW d \in Calls, HangsUp(d)
  PROVE  call' \in [Calls -> CallState] /\ \A e \in Calls : CallAims(call[e])'
  BY CallMoves, NoCallAims DEF HangsUp

\* A step that writes nothing but the state of a call.
LEMMA CallOnly ==
  ASSUME AfterSaleInv, NEW d \in Calls, NEW q \in CallState, CallAims(q),
         call' = [call EXCEPT ![d] = q], UNCHANGED <<vars, afterSale>>
  PROVE  AfterSaleInv'
<1>1. Stays
  BY DEF vars, Stays, Past
<1>2. CallAims(q)'
  BY <1>1, CallAimsKept
<1>3. call' \in [Calls -> CallState] /\ (\A e \in Calls : CallAims(call[e])')
  BY <1>1, <1>2, CallMoves
<1>4. TypeInv'
  BY TypeInvStep DEF AfterSaleInv
<1>5. (\A a \in AfterSales : RowAims(a)') /\ RefundingHasAfterSale'
  BY DEF AfterSaleInv, vars, RowAims, Past, RefundingHasAfterSale, ActiveFor
<1>6. QED
  BY <1>3, <1>4, <1>5 DEF AfterSaleInv

-----------------------------------------------------------------------------
(* The order service *)

\* What the order service does to the status of an order.
OrderServiceMoves(o) ==
  \/ order'[o].status = order[o].status
  \/ order[o].status = "none" /\ order'[o].status = "pending_pay"
  \/ \E m \in Moves : order[o].status \in m.from /\ order'[o].status = m.to

LEMMA OrderServiceStep ==
  ASSUME TypeInv, [Next]_vars, NEW o \in Orders
  PROVE  OrderServiceMoves(o)
<1>1. CASE UNCHANGED order
  BY <1>1 DEF OrderServiceMoves
<1>2. ASSUME NEW r \in Requests, PlaceOrder(r)
      PROVE  OrderServiceMoves(o)
  <2>1. PICK p \in Orders :
          /\ order[p].status = "none"
          /\ order' = [order EXCEPT ![p] = NewOrder(r)]
    BY <1>2 DEF PlaceOrder, Exists
  <2>2. NewOrder(r).status = "pending_pay"
    BY DEF NewOrder
  <2>3. order' = [order EXCEPT ![p] = NewOrder(r)] /\ order \in [Orders -> OrderRow]
    BY <2>1 DEF TypeInv, TypeOK
  <2>4. order'[o] = IF o = p THEN NewOrder(r) ELSE order[o]
    BY <2>3
  <2>5. QED
    BY <2>1, <2>2, <2>4 DEF OrderServiceMoves
<1>3. ASSUME NEW r \in Requests, Update(r)
      PROVE  OrderServiceMoves(o)
  <2>1. PICK p \in Orders, m \in Moves : p = req[r].order /\ m = req[r].move
    BY <1>3 DEF Update, TypeInv, TypeOK, RequestsAim, Aims, RequestState
  <2>2. /\ order[p].status \in m.from
        /\ order' = [order EXCEPT ![p] = [@ EXCEPT !.status = m.to]]
    BY <1>3, <2>1 DEF Update, StillIn
  <2>3. order \in [Orders -> OrderRow] /\ order[p] \in OrderRow
    BY DEF TypeInv, TypeOK
  <2>4. order'[o].status = IF o = p THEN m.to ELSE order[o].status
    BY <2>2, <2>3 DEF OrderRow
  <2>5. QED
    BY <2>2, <2>4 DEF OrderServiceMoves
<1>4. QED
  BY <1>1, <1>2, <1>3, OrderStep

\* No move of the order service starts or ends at "refunding", and one that ends
\* unpaid starts unpaid.
LEMMA MovesOfPaid ==
  ASSUME NEW m \in Moves
  PROVE  /\ m.to # "refunding"
         /\ m.to \in Unpaid => m.from \subseteq Unpaid
  BY DEF Moves, CancelMove, ConfirmMove, PrepareMove, ShipMove, PayMove, Unpaid

LEMMA OrderServiceKeeps ==
  ASSUME AfterSaleInv, [Next]_vars, UNCHANGED <<afterSale, call>>
  PROVE  AfterSaleInv'
<1>1. TypeInv /\ TypeInv'
  BY TypeInvStep DEF AfterSaleInv
<1>2. \A o \in Orders : OrderServiceMoves(o)
  BY <1>1, OrderServiceStep
<1>3. \A o \in Orders : Past(o) => Past(o)'
  BY <1>2, MovesOfPaid DEF OrderServiceMoves, Past, Unpaid
<1>4. Stays
  BY <1>3 DEF Stays
<1>5. \A d \in Calls : CallAims(call[d])'
  BY <1>4, CallsKept
<1>6. \A a \in AfterSales : RowAims(a)'
  BY <1>4 DEF AfterSaleInv, RowAims, Stays, Past
<1>7. RefundingHasAfterSale'
  BY <1>2, MovesOfPaid DEF OrderServiceMoves, AfterSaleInv, RefundingHasAfterSale,
     ActiveFor
<1>8. QED
  BY <1>1, <1>5, <1>6, <1>7 DEF AfterSaleInv

-----------------------------------------------------------------------------
(* The steps of a call that only read *)

LEMMA ApplyReadStep ==
  ASSUME AfterSaleInv, NEW d \in Calls, NEW o \in Orders, ApplyRead(d, o)
  PROVE  AfterSaleInv'
<1>1. PICK q : q = [NoCall EXCEPT !.pc = "count", !.order = o, !.seen = order[o].status]
  OBVIOUS
<1>2. order[o].status \in ApplyFrom
  BY DEF ApplyRead
<1>3. /\ q \in CallState /\ q.pc = "count" /\ q.order = o
      /\ q.seen = order[o].status
  BY <1>1, <1>2, NoCallAims, ApplyFromIsPaid DEF CallState, StatusOrNone
<1>4. CallAims(q)
  BY <1>2, <1>3, ApplyFromIsPaid DEF CallAims, Past
<1>5. call' = [call EXCEPT ![d] = q] /\ UNCHANGED <<vars, afterSale>>
  BY <1>1 DEF ApplyRead, Dials
<1>6. QED
  BY <1>3, <1>4, <1>5, CallOnly

LEMMA ApplyCountStep ==
  ASSUME AfterSaleInv, NEW d \in Calls, ApplyCount(d)
  PROVE  AfterSaleInv'
<1>1. PICK q : q = [call[d] EXCEPT !.pc = "open"]
  OBVIOUS
<1>2. call[d] \in CallState /\ call[d].pc = "count" /\ CallAims(call[d])
  BY DEF AfterSaleInv, ApplyCount
<1>3. /\ q \in CallState /\ q.pc = "open" /\ q.order = call[d].order
      /\ q.seen = call[d].seen
  BY <1>1, <1>2 DEF CallState
<1>4. CallAims(q)
  BY <1>2, <1>3 DEF CallAims
<1>5. call' = [call EXCEPT ![d] = q] /\ UNCHANGED <<vars, afterSale>>
  BY <1>1 DEF ApplyCount
<1>6. QED
  BY <1>3, <1>4, <1>5, CallOnly

LEMMA HangUpStep ==
  ASSUME AfterSaleInv, NEW d \in Calls, HangUp(d)
  PROVE  AfterSaleInv'
  BY CallOnly, NoCallAims DEF HangUp, HangsUp

\* A call about an open after-sale, with what it will write.
LEMMA AboutStep ==
  ASSUME AfterSaleInv, NEW d \in Calls, NEW a \in AfterSales,
         NEW pc \in {"finish", "move", "refund"}, NEW seen \in ActiveStatuses,
         NEW to \in AfterSaleStatus,
         afterSale[a].status = seen,
         pc = "finish" => to \in {"cancelled", "rejected"},
         pc = "move" => to \in ActiveStatuses,
         Dials(d, [NoCall EXCEPT !.pc = pc, !.afterSale = a, !.seen = seen, !.to = to])
  PROVE  AfterSaleInv'
<1>1. PICK q : q = [NoCall EXCEPT !.pc = pc, !.afterSale = a, !.seen = seen, !.to = to]
  OBVIOUS
<1>2. seen \in AfterSaleStatus /\ seen # "none"
  BY DEF AfterSaleStatus, ActiveStatuses
<1>3. /\ q.pc = pc /\ q.order = None /\ q.afterSale = a /\ q.seen = seen
      /\ q.to = to
  BY <1>1 DEF NoCall
<1>4. q \in CallState
  BY <1>1, <1>2, NoCallAims DEF CallState
<1>5. CallAims(q)
  BY <1>2, <1>3 DEF CallAims
<1>6. call' = [call EXCEPT ![d] = q] /\ UNCHANGED <<vars, afterSale>>
  BY <1>1 DEF Dials
<1>7. QED
  BY <1>4, <1>5, <1>6, CallOnly

LEMMA AfterSaleReads ==
  ASSUME AfterSaleInv, NEW d \in Calls, NEW a \in AfterSales,
         \/ Cancels(d, a) \/ Reject(d, a)
         \/ Approve(d, a) \/ SubmitReturn(d, a) \/ Receive(d, a)
         \/ RefundRead(d, a)
  PROVE  AfterSaleInv'
<1>1. /\ {"cancelled", "rejected", "refunded"} \subseteq AfterSaleStatus
      /\ {"pending", "approved", "returning", "received"} = ActiveStatuses
      /\ ActiveStatuses \subseteq AfterSaleStatus
  BY DEF AfterSaleStatus, ActiveStatuses, FinalStatuses
<1>2. ASSUME NEW to \in {"cancelled", "rejected"}, FinishRead(d, a, to)
      PROVE  AfterSaleInv'
  <2>1. PICK seen \in ActiveStatuses : seen = afterSale[a].status
    BY <1>1, <1>2 DEF FinishRead
  <2>2. Dials(d, [NoCall EXCEPT !.pc = "finish", !.afterSale = a, !.seen = seen,
                                !.to = to])
    BY <1>2, <2>1 DEF FinishRead
  <2>3. QED
    BY <1>1, <2>1, <2>2, AboutStep
<1>3. ASSUME NEW move \in AfterSaleMoves, MoveRead(d, a, move)
      PROVE  AfterSaleInv'
  <2>1. PICK from \in ActiveStatuses, to \in ActiveStatuses :
          from = move.from /\ to = move.to
    BY <1>1 DEF AfterSaleMoves, ApproveMove, ReturnMove, ReceiveMove
  <2>2. /\ afterSale[a].status = from
        /\ Dials(d, [NoCall EXCEPT !.pc = "move", !.afterSale = a, !.seen = from,
                                   !.to = to])
    BY <1>3, <2>1 DEF MoveRead
  <2>3. QED
    BY <1>1, <2>2, AboutStep
<1>4. CASE RefundRead(d, a)
  <2>1. PICK seen \in ActiveStatuses : seen = afterSale[a].status
    BY <1>1, <1>4 DEF RefundRead, CanRefund
  <2>2. Dials(d, [NoCall EXCEPT !.pc = "refund", !.afterSale = a, !.seen = seen,
                                !.to = "refunded"])
    BY <1>4, <2>1 DEF RefundRead
  <2>3. QED
    BY <1>1, <2>1, <2>2, AboutStep
<1>5. QED
  BY <1>2, <1>3, <1>4 DEF Cancels, Reject, Approve, SubmitReturn, Receive,
     AfterSaleMoves

-----------------------------------------------------------------------------
(* The steps of a call that write *)

\* The status of a paid order is written, and an entry of its log.
LEMMA OrderWrite ==
  ASSUME TypeInv, NEW o \in Orders, Past(o), NEW s \in OrderStatus, s \notin Unpaid,
         order' = [order EXCEPT ![o].status = s],
         NEW entry \in LogRow, logs' = [logs EXCEPT ![o] = Append(@, entry)],
         stock' \in [Keepers -> Nat], held' \in [Orders -> [Keepers -> Int]],
         UNCHANGED <<product, coupon, enabled, req>>
  PROVE  /\ TypeInv'
         /\ \A p \in Orders : order'[p].status = IF p = o THEN s ELSE order[p].status
         /\ \A p \in Orders : /\ order'[p].lines = order[p].lines
                             /\ order'[p].virtual = order[p].virtual
         /\ \A p \in Orders : Past(p) => Past(p)'
<1>1. order \in [Orders -> OrderRow] /\ logs \in [Orders -> Seq(LogRow)]
  BY DEF TypeInv, TypeOK
<1>2. PICK row : row = [order[o] EXCEPT !.status = s]
  OBVIOUS
<1>3. /\ row \in OrderRow /\ row.status = s
      /\ row.lines = order[o].lines /\ row.virtual = order[o].virtual
  BY <1>1, <1>2 DEF OrderRow, StatusOrNone
<1>4. order' = [order EXCEPT ![o] = row]
  BY <1>2
<1>5. order' \in [Orders -> OrderRow]
  BY <1>1, <1>3, <1>4
<1>6. \A p \in Orders : order'[p] = IF p = o THEN row ELSE order[p]
  BY <1>1, <1>4
<1>7. logs' \in [Orders -> Seq(LogRow)]
  BY <1>1, AppendLogType
<1>8. TypeInv'
  BY <1>5, <1>7 DEF TypeInv, TypeOK, RequestsAim
<1>9. \A p \in Orders : Past(p) => Past(p)'
  BY <1>3, <1>6 DEF Past
<1>10. QED
  BY <1>3, <1>6, <1>8, <1>9

\* The other columns of an after-sale whose status is written.
LEMMA StatusWrite ==
  ASSUME AfterSaleInv, NEW a \in AfterSales, NEW s \in AfterSaleStatus,
         afterSale' = [afterSale EXCEPT ![a].status = s]
  PROVE  /\ afterSale' \in [AfterSales -> AfterSaleRow]
         /\ \A b \in AfterSales :
              /\ afterSale'[b].status = IF b = a THEN s ELSE afterSale[b].status
              /\ afterSale'[b].order = afterSale[b].order
              /\ afterSale'[b].before = afterSale[b].before
<1>1. afterSale \in [AfterSales -> AfterSaleRow]
  BY DEF AfterSaleInv
<1>2. PICK row : row = [afterSale[a] EXCEPT !.status = s]
  OBVIOUS
<1>3. /\ row \in AfterSaleRow /\ row.status = s
      /\ row.order = afterSale[a].order /\ row.before = afterSale[a].before
  BY <1>1, <1>2 DEF AfterSaleRow
<1>4. afterSale' = [afterSale EXCEPT ![a] = row]
  BY <1>2
<1>5. QED
  BY <1>1, <1>3, <1>4

LEMMA RefundingIsLogged ==
  /\ \A before \in OrderStatus : [before |-> before, after |-> "refunding"] \in LogRow
  /\ \A after \in OrderStatus : [before |-> "refunding", after |-> after] \in LogRow
  /\ {"refunding", "refunded"} \subseteq OrderStatus \ Unpaid
  BY DEF LogRow, StatusOrNone, OrderStatus, Unpaid

\* An after-sale is inserted for an order that was paid, whatever became of the
\* order since the call has read it.
LEMMA OpenWrites ==
  ASSUME AfterSaleInv, NEW d \in Calls, Open(d)
  PROVE  /\ AfterSaleInv'
         /\ \E a \in AfterSales :
              /\ afterSale[a].status = "none" /\ afterSale'[a].status = "pending"
              /\ \A b \in AfterSales \ {a} : afterSale'[b] = afterSale[b]
<1>1. PICK o \in Orders, before \in ApplyFrom :
        o = call[d].order /\ before = call[d].seen /\ Past(o)
  BY DEF Open, AfterSaleInv, CallAims, Past
<1>2. PICK a \in AfterSales :
        /\ afterSale[a].status = "none"
        /\ afterSale' = [afterSale EXCEPT ![a] =
                           [status |-> "pending", order |-> o,
                            type |-> TypeFor(before), before |-> before]]
        /\ order' = [order EXCEPT ![o].status = IF @ = before THEN "refunding" ELSE @]
        /\ logs' = [logs EXCEPT ![o] =
                      Append(@, [before |-> before, after |-> "refunding"])]
        /\ HangsUp(d)
        /\ UNCHANGED <<product, stock, coupon, enabled, held, req>>
  BY <1>1 DEF Open
<1>3. PICK row : row = [status |-> "pending", order |-> o, type |-> TypeFor(before),
                        before |-> before]
  OBVIOUS
<1>4. TypeFor(before) \in {"refund", "return_refund"}
  BY DEF TypeFor
<1>5. /\ row \in AfterSaleRow /\ row.status = "pending" /\ row.order = o
      /\ row.before = before
  BY <1>3, <1>4, ApplyFromIsPaid
     DEF AfterSaleRow, AfterSaleStatus, ActiveStatuses, StatusOrNone
<1>6. /\ afterSale' \in [AfterSales -> AfterSaleRow] /\ afterSale'[a] = row
      /\ \A b \in AfterSales \ {a} : afterSale'[b] = afterSale[b]
  BY <1>2, <1>3, <1>5 DEF AfterSaleInv
<1>7. PICK s \in OrderStatus :
        /\ s = IF order[o].status = before THEN "refunding" ELSE order[o].status
        /\ s \notin Unpaid
  <2>1. order[o].status \in StatusOrNone /\ order[o].status \notin Unpaid
    BY <1>1 DEF AfterSaleInv, TypeInv, TypeOK, OrderRow, Past
  <2>2. order[o].status \in OrderStatus
    BY <2>1 DEF StatusOrNone, Unpaid
  <2>3. QED
    BY <2>1, <2>2, RefundingIsLogged
<1>8. order' = [order EXCEPT ![o].status = s]
  BY <1>2, <1>7
<1>9. stock' \in [Keepers -> Nat] /\ held' \in [Orders -> [Keepers -> Int]]
  BY <1>2 DEF AfterSaleInv, TypeInv, TypeOK
<1>10. PICK entry \in LogRow : logs' = [logs EXCEPT ![o] = Append(@, entry)]
  <2>1. [before |-> before, after |-> "refunding"] \in LogRow
    BY ApplyFromIsPaid, RefundingIsLogged
  <2>2. QED
    BY <1>2, <2>1
<1>11. /\ TypeInv'
       /\ \A p \in Orders : order'[p].status = IF p = o THEN s ELSE order[p].status
       /\ \A p \in Orders : Past(p) => Past(p)'
  <2>1. TypeInv /\ UNCHANGED <<product, coupon, enabled, req>>
    BY <1>2 DEF AfterSaleInv
  <2>2. QED
    BY <1>1, <1>7, <1>8, <1>9, <1>10, <2>1, OrderWrite
<1>12. Stays
  BY <1>2, <1>6, <1>11 DEF Stays
<1>13. call' \in [Calls -> CallState] /\ (\A e \in Calls : CallAims(call[e])')
  BY <1>2, <1>12, HangsUpCalls
<1>14. \A b \in AfterSales : RowAims(b)'
  <2>1. RowAims(a)'
    BY <1>1, <1>5, <1>6, <1>11 DEF RowAims, Past
  <2>2. ASSUME NEW b \in AfterSales \ {a}
        PROVE  RowAims(b)'
    <3>1. CASE afterSale[b].status = "none"
      BY <1>6, <3>1 DEF RowAims
    <3>2. CASE afterSale[b].status # "none"
      BY <1>12, <3>2, RowsKept
    <3>3. QED
      BY <3>1, <3>2
  <2>3. QED
    BY <2>1, <2>2
<1>15. RefundingHasAfterSale'
  <2>1. a \in ActiveFor(o)'
    BY <1>5, <1>6 DEF ActiveFor, ActiveStatuses
  <2>2. ASSUME NEW p \in Orders \ {o}, order'[p].status = "refunding"
        PROVE  ActiveFor(p)' # {}
    <3>1. PICK b \in ActiveFor(p) : TRUE
      BY <1>11, <2>2 DEF AfterSaleInv, RefundingHasAfterSale
    <3>2. b \in AfterSales \ {a}
      BY <1>2, <3>1 DEF ActiveFor, ActiveStatuses
    <3>3. b \in ActiveFor(p)'
      BY <1>6, <3>1, <3>2 DEF ActiveFor
    <3>4. QED
      BY <3>3
  <2>3. QED
    BY <2>1, <2>2 DEF RefundingHasAfterSale
<1>16. QED
  BY <1>2, <1>5, <1>6, <1>11, <1>13, <1>14, <1>15 DEF AfterSaleInv

\* A call about an after-sale: its row, the row's order and what it saw.
LEMMA AboutCall ==
  ASSUME AfterSaleInv, NEW d \in Calls, call[d].pc \in {"finish", "move", "refund"}
  PROVE  \E a \in AfterSales, o \in Orders, seen \in ActiveStatuses, to \in AfterSaleStatus :
           /\ a = call[d].afterSale /\ o = afterSale[a].order
           /\ seen = call[d].seen /\ to = call[d].to
           /\ afterSale[a].status # "none"
           /\ afterSale[a].before \in ApplyFrom
           /\ Past(o)
  BY DEF AfterSaleInv, CallAims, CallState, RowAims, Past

LEMMA FinishWrites ==
  ASSUME AfterSaleInv, NEW d \in Calls, Finish(d)
  PROVE  /\ AfterSaleInv'
         /\ \E a \in AfterSales, seen \in ActiveStatuses, to \in {"cancelled", "rejected"} :
              /\ afterSale[a].status # "none"
              /\ afterSale' = [afterSale EXCEPT ![a].status = IF @ = seen THEN to ELSE @]
<1>1. PICK a \in AfterSales, o \in Orders, seen \in ActiveStatuses, to \in AfterSaleStatus :
        /\ a = call[d].afterSale /\ o = afterSale[a].order
        /\ seen = call[d].seen /\ to = call[d].to
        /\ afterSale[a].status # "none"
        /\ afterSale[a].before \in ApplyFrom
        /\ Past(o)
  BY AboutCall DEF Finish
<1>2. PICK before \in ApplyFrom : before = afterSale[a].before
  BY <1>1
<1>3. to \in {"cancelled", "rejected"}
  BY <1>1 DEF Finish, AfterSaleInv, CallAims
<1>4. /\ afterSale' = [afterSale EXCEPT ![a].status = IF @ = seen THEN to ELSE @]
      /\ order' = [order EXCEPT ![o].status = before]
      /\ logs' = [logs EXCEPT ![o] = Append(@, [before |-> "refunding", after |-> before])]
      /\ HangsUp(d)
      /\ UNCHANGED <<product, stock, coupon, enabled, held, req>>
  BY <1>1, <1>2 DEF Finish, GivenBack
<1>5. before \in OrderStatus /\ before \notin Unpaid /\ before # "refunding"
  BY ApplyFromIsPaid
<1>6. PICK entry \in LogRow : logs' = [logs EXCEPT ![o] = Append(@, entry)]
  BY <1>4, <1>5, RefundingIsLogged
<1>7. stock' \in [Keepers -> Nat] /\ held' \in [Orders -> [Keepers -> Int]]
  BY <1>4 DEF AfterSaleInv, TypeInv, TypeOK
<1>8. /\ TypeInv'
      /\ \A p \in Orders : order'[p].status = IF p = o THEN before ELSE order[p].status
      /\ \A p \in Orders : Past(p) => Past(p)'
  <2>1. /\ TypeInv /\ UNCHANGED <<product, coupon, enabled, req>>
        /\ order' = [order EXCEPT ![o].status = before]
    BY <1>4 DEF AfterSaleInv
  <2>2. QED
    BY <1>1, <1>5, <1>6, <1>7, <2>1, OrderWrite
<1>9. PICK s \in AfterSaleStatus :
        /\ s = IF afterSale[a].status = seen THEN to ELSE afterSale[a].status
        /\ s # "none"
  BY <1>1, <1>3 DEF AfterSaleInv, AfterSaleRow
<1>10. /\ afterSale' \in [AfterSales -> AfterSaleRow]
       /\ \A b \in AfterSales :
            /\ afterSale'[b].status = IF b = a THEN s ELSE afterSale[b].status
            /\ afterSale'[b].order = afterSale[b].order
            /\ afterSale'[b].before = afterSale[b].before
  <2>1. afterSale' = [afterSale EXCEPT ![a].status = s]
    BY <1>4, <1>9
  <2>2. QED
    BY <2>1, StatusWrite
<1>11. Stays
  BY <1>8, <1>9, <1>10 DEF Stays
<1>12. call' \in [Calls -> CallState] /\ (\A e \in Calls : CallAims(call[e])')
  BY <1>4, <1>11, HangsUpCalls
<1>13. \A b \in AfterSales : RowAims(b)'
  <2>1. \A b \in AfterSales : afterSale'[b].status # "none" => afterSale[b].status # "none"
    BY <1>1, <1>10
  <2>2. QED
    BY <1>11, <2>1, RowsKept DEF RowAims
<1>14. RefundingHasAfterSale'
  <2>1. ASSUME NEW p \in Orders, order'[p].status = "refunding"
        PROVE  ActiveFor(p)' # {}
    <3>1. p # o /\ order[p].status = "refunding"
      BY <1>5, <1>8, <2>1
    <3>2. PICK b \in ActiveFor(p) : TRUE
      BY <3>1 DEF AfterSaleInv, RefundingHasAfterSale
    <3>3. b \in AfterSales /\ b # a
      BY <1>1, <3>1, <3>2 DEF ActiveFor
    <3>4. b \in ActiveFor(p)'
      BY <1>10, <3>2, <3>3 DEF ActiveFor
    <3>5. QED
      BY <3>4
  <2>2. QED
    BY <2>1 DEF RefundingHasAfterSale
<1>15. QED
  BY <1>1, <1>3, <1>4, <1>8, <1>10, <1>12, <1>13, <1>14 DEF AfterSaleInv

LEMMA MoveWrites ==
  ASSUME AfterSaleInv, NEW d \in Calls, MoveAfterSale(d)
  PROVE  /\ AfterSaleInv'
         /\ \E a \in AfterSales, seen \in ActiveStatuses, to \in ActiveStatuses :
              /\ afterSale[a].status # "none"
              /\ afterSale' = [afterSale EXCEPT ![a].status = IF @ = seen THEN to ELSE @]
<1>1. PICK a \in AfterSales, o \in Orders, seen \in ActiveStatuses, to \in AfterSaleStatus :
        /\ a = call[d].afterSale /\ o = afterSale[a].order
        /\ seen = call[d].seen /\ to = call[d].to
        /\ afterSale[a].status # "none"
        /\ afterSale[a].before \in ApplyFrom
        /\ Past(o)
  BY AboutCall DEF MoveAfterSale
<1>2. to \in ActiveStatuses /\ to # "none"
  BY <1>1 DEF MoveAfterSale, AfterSaleInv, CallAims, ActiveStatuses
<1>3. /\ afterSale' = [afterSale EXCEPT ![a].status = IF @ = seen THEN to ELSE @]
      /\ logs' = [logs EXCEPT ![o] =
                    Append(@, [before |-> "refunding", after |-> "refunding"])]
      /\ HangsUp(d)
      /\ UNCHANGED <<product, stock, order, coupon, enabled, held, req>>
  BY <1>1 DEF MoveAfterSale
<1>4. PICK entry \in LogRow : logs' = [logs EXCEPT ![o] = Append(@, entry)]
  BY <1>3, RefundingIsLogged
<1>5. TypeInv'
  <2>1. logs' \in [Orders -> Seq(LogRow)]
    BY <1>4, AppendLogType DEF AfterSaleInv, TypeInv, TypeOK
  <2>2. QED
    BY <1>3, <2>1 DEF AfterSaleInv, TypeInv, TypeOK, RequestsAim
<1>6. PICK s \in AfterSaleStatus :
        /\ s = IF afterSale[a].status = seen THEN to ELSE afterSale[a].status
        /\ s # "none" /\ (afterSale[a].status \in ActiveStatuses => s \in ActiveStatuses)
  BY <1>1, <1>2 DEF AfterSaleInv, AfterSaleRow
<1>7. /\ afterSale' \in [AfterSales -> AfterSaleRow]
      /\ \A b \in AfterSales :
           /\ afterSale'[b].status = IF b = a THEN s ELSE afterSale[b].status
           /\ afterSale'[b].order = afterSale[b].order
           /\ afterSale'[b].before = afterSale[b].before
  <2>1. afterSale' = [afterSale EXCEPT ![a].status = s]
    BY <1>3, <1>6
  <2>2. QED
    BY <2>1, StatusWrite
<1>8. Stays
  BY <1>3, <1>6, <1>7 DEF Stays, Past
<1>9. call' \in [Calls -> CallState] /\ (\A e \in Calls : CallAims(call[e])')
  BY <1>3, <1>8, HangsUpCalls
<1>10. \A b \in AfterSales : RowAims(b)'
  <2>1. \A b \in AfterSales : afterSale'[b].status # "none" => afterSale[b].status # "none"
    BY <1>1, <1>7
  <2>2. QED
    BY <1>8, <2>1, RowsKept DEF RowAims
<1>11. RefundingHasAfterSale'
  <2>1. \A p \in Orders : ActiveFor(p) \subseteq ActiveFor(p)'
    BY <1>6, <1>7 DEF ActiveFor
  <2>2. QED
    BY <1>3, <2>1 DEF AfterSaleInv, RefundingHasAfterSale
<1>12. QED
  BY <1>1, <1>2, <1>3, <1>5, <1>7, <1>9, <1>10, <1>11 DEF AfterSaleInv

\* The one step that puts items back.
LEMMA RefundWrites ==
  ASSUME AfterSaleInv, NEW d \in Calls, Refund(d)
  PROVE  /\ AfterSaleInv'
         /\ \E a \in AfterSales, o \in Orders :
              /\ afterSale[a].status \in ActiveStatuses /\ o = afterSale[a].order /\ Past(o)
              /\ afterSale' = [afterSale EXCEPT ![a].status = "refunded"]
              /\ order' = [order EXCEPT ![o].status = "refunded"]
              /\ held' = [held EXCEPT ![o] = [k \in Keepers |->
                                              held[o][k] - RestoredLines(o)[k]]]
              /\ UNCHANGED <<product, req>>
<1>1. PICK a \in AfterSales, o \in Orders, seen \in ActiveStatuses, to \in AfterSaleStatus :
        /\ a = call[d].afterSale /\ o = afterSale[a].order
        /\ seen = call[d].seen /\ to = call[d].to
        /\ afterSale[a].status # "none"
        /\ afterSale[a].before \in ApplyFrom
        /\ Past(o)
  BY AboutCall DEF Refund
<1>2. PICK back : back = RestoredLines(o)
  OBVIOUS
<1>3. /\ afterSale[a].status = seen
      /\ afterSale' = [afterSale EXCEPT ![a].status = "refunded"]
      /\ order' = [order EXCEPT ![o].status = "refunded"]
      /\ stock' = [k \in Keepers |-> stock[k] + back[k]]
      /\ held' = [held EXCEPT ![o] = [k \in Keepers |-> held[o][k] - back[k]]]
      /\ logs' = [logs EXCEPT ![o] =
                    Append(@, [before |-> "refunding", after |-> "refunded"])]
      /\ HangsUp(d)
      /\ UNCHANGED <<product, coupon, enabled, req>>
  BY <1>1, <1>2 DEF Refund, StillSeen
<1>4. PICK entry \in LogRow : logs' = [logs EXCEPT ![o] = Append(@, entry)]
  BY <1>3, RefundingIsLogged
<1>5. back \in [Keepers -> Nat]
  BY <1>2, RestoredType DEF AfterSaleInv, TypeInv
<1>6. stock' \in [Keepers -> Nat] /\ held' \in [Orders -> [Keepers -> Int]]
  <2>1. stock \in [Keepers -> Nat] /\ held \in [Orders -> [Keepers -> Int]]
    BY DEF AfterSaleInv, TypeInv, TypeOK
  <2>2. stock' \in [Keepers -> Nat]
    BY <1>3, <1>5, <2>1
  <2>3. [k \in Keepers |-> held[o][k] - back[k]] \in [Keepers -> Int]
    BY <1>5, <2>1
  <2>4. QED
    BY <1>3, <2>1, <2>2, <2>3
<1>7. /\ TypeInv'
      /\ \A p \in Orders : order'[p].status = IF p = o THEN "refunded" ELSE order[p].status
      /\ \A p \in Orders : Past(p) => Past(p)'
  <2>1. /\ TypeInv /\ UNCHANGED <<product, coupon, enabled, req>>
        /\ order' = [order EXCEPT ![o].status = "refunded"]
        /\ "refunded" \in OrderStatus /\ "refunded" \notin Unpaid
    BY <1>3, RefundingIsLogged DEF AfterSaleInv
  <2>2. QED
    BY <1>1, <1>4, <1>6, <2>1, OrderWrite
<1>8. /\ afterSale' \in [AfterSales -> AfterSaleRow]
      /\ \A b \in AfterSales :
           /\ afterSale'[b].status = IF b = a THEN "refunded" ELSE afterSale[b].status
           /\ afterSale'[b].order = afterSale[b].order
           /\ afterSale'[b].before = afterSale[b].before
  <2>1. "refunded" \in AfterSaleStatus
    BY DEF AfterSaleStatus, FinalStatuses
  <2>2. QED
    BY <1>3, <2>1, StatusWrite
<1>9. Stays
  BY <1>7, <1>8 DEF Stays
<1>10. call' \in [Calls -> CallState] /\ (\A e \in Calls : CallAims(call[e])')
  BY <1>3, <1>9, HangsUpCalls
<1>11. \A b \in AfterSales : RowAims(b)'
  <2>1. \A b \in AfterSales : afterSale'[b].status # "none" => afterSale[b].status # "none"
    BY <1>1, <1>8
  <2>2. QED
    BY <1>9, <2>1, RowsKept DEF RowAims
<1>12. RefundingHasAfterSale'
  <2>1. ASSUME NEW p \in Orders, order'[p].status = "refunding"
        PROVE  ActiveFor(p)' # {}
    <3>1. p # o /\ order[p].status = "refunding"
      BY <1>7, <2>1
    <3>2. PICK b \in ActiveFor(p) : TRUE
      BY <3>1 DEF AfterSaleInv, RefundingHasAfterSale
    <3>3. b \in AfterSales /\ b # a
      BY <1>1, <3>1, <3>2 DEF ActiveFor
    <3>4. b \in ActiveFor(p)'
      BY <1>8, <3>2, <3>3 DEF ActiveFor
    <3>5. QED
      BY <3>4
  <2>2. QED
    BY <2>1 DEF RefundingHasAfterSale
<1>13. AfterSaleInv'
  BY <1>7, <1>8, <1>10, <1>11, <1>12 DEF AfterSaleInv
<1>14. QED
  BY <1>1, <1>2, <1>3, <1>13

-----------------------------------------------------------------------------
(* The invariant, and what follows from it *)

LEMMA InitAfterSale == AfterSaleInit => AfterSaleInv
<1> SUFFICES ASSUME AfterSaleInit PROVE AfterSaleInv
  OBVIOUS
<1>1. Init /\ afterSale = [a \in AfterSales |-> NoAfterSale]
      /\ call = [d \in Calls |-> NoCall]
  BY DEF AfterSaleInit
<1>2. TypeInv
  <2>1. \A r \in Requests : req[r] = Idle
    BY <1>1 DEF Init
  <2>2. QED
    BY <1>1, <2>1, InitType, IdleAims DEF TypeInv, RequestsAim, Aims
<1>3. afterSale \in [AfterSales -> AfterSaleRow] /\ \A a \in AfterSales : RowAims(a)
  BY <1>1 DEF NoAfterSale, AfterSaleRow, AfterSaleStatus, StatusOrNone, RowAims
<1>4. call \in [Calls -> CallState] /\ \A d \in Calls : CallAims(call[d])
  BY <1>1, NoCallAims
<1>5. RefundingHasAfterSale
  BY <1>1 DEF Init, NoOrder, RefundingHasAfterSale
<1>6. QED
  BY <1>2, <1>3, <1>4, <1>5 DEF AfterSaleInv

LEMMA CallStepKeeps ==
  ASSUME AfterSaleInv, NEW d \in Calls, CallStep(d)
  PROVE  AfterSaleInv'
<1>1. ASSUME NEW o \in Orders, ApplyRead(d, o)
      PROVE  AfterSaleInv'
  BY <1>1, ApplyReadStep
<1>2. ASSUME NEW a \in AfterSales,
             \/ Cancels(d, a) \/ Reject(d, a)
             \/ Approve(d, a) \/ SubmitReturn(d, a) \/ Receive(d, a)
             \/ RefundRead(d, a)
      PROVE  AfterSaleInv'
  BY <1>2, AfterSaleReads
<1>3. CASE ApplyCount(d) \/ HangUp(d)
  BY <1>3, ApplyCountStep, HangUpStep
<1>4. CASE Open(d)
  BY <1>4, OpenWrites
<1>5. CASE Finish(d)
  BY <1>5, FinishWrites
<1>6. CASE MoveAfterSale(d)
  BY <1>6, MoveWrites
<1>7. CASE Refund(d)
  BY <1>7, RefundWrites
<1>8. QED
  BY <1>1, <1>2, <1>3, <1>4, <1>5, <1>6, <1>7 DEF CallStep, MemberCall, AdminCall

LEMMA AfterSaleStep ==
  ASSUME AfterSaleInv, [AfterSaleNext]_afterSaleVars
  PROVE  AfterSaleInv'
<1>1. CASE Next /\ UNCHANGED <<afterSale, call>>
  BY <1>1, OrderServiceKeeps
<1>2. CASE UNCHANGED afterSaleVars
  <2>1. UNCHANGED vars /\ UNCHANGED <<afterSale, call>>
    BY <1>2 DEF afterSaleVars
  <2>2. QED
    BY <2>1, OrderServiceKeeps
<1>3. CASE \E d \in Calls : CallStep(d)
  BY <1>3, CallStepKeeps
<1>4. QED
  BY <1>1, <1>2, <1>3 DEF AfterSaleNext

\* After-sales, their calls and the order service keep together what each needs
\* to know of the others, in every interleaving.
THEOREM AfterSaleInvariant == AfterSaleSpec => []AfterSaleInv
<1>1. AfterSaleInv /\ [AfterSaleNext]_afterSaleVars => AfterSaleInv'
  BY AfterSaleStep
<1>2. QED
  BY InitAfterSale, <1>1, PTL DEF AfterSaleSpec

\* Every row and every call keeps its type, and stock stays at zero or above
\* with refunds putting items back.
THEOREM AfterSaleTypeCorrect == AfterSaleSpec => []AfterSaleTypeOK
<1>1. AfterSaleInv => AfterSaleTypeOK
  BY DEF AfterSaleInv, TypeInv, AfterSaleTypeOK
<1>2. QED
  BY AfterSaleInvariant, <1>1, PTL

\* Whatever calls about one order or its after-sales overlap, an order that is
\* refunding has an after-sale that can still end (Apply, finishWithRestore).
THEOREM RefundingIsOpen == AfterSaleSpec => []RefundingHasAfterSale
<1>1. AfterSaleInv => RefundingHasAfterSale
  BY DEF AfterSaleInv
<1>2. QED
  BY AfterSaleInvariant, <1>1, PTL

\* A paid order stays past its payment.
LEMMA PaidStaysPaid ==
  ASSUME AfterSaleInv, [AfterSaleNext]_afterSaleVars, NEW o \in Orders, Past(o)
  PROVE  Past(o)'
<1>1. CASE UNCHANGED order
  BY <1>1 DEF Past
<1>2. CASE Next /\ UNCHANGED <<afterSale, call>>
  BY <1>2, OrderServiceStep, MovesOfPaid
     DEF AfterSaleInv, OrderServiceMoves, Past, Unpaid
<1>3. ASSUME NEW d \in Calls, CallStep(d)
      PROVE  Past(o)'
  <2>1. order \in [Orders -> OrderRow]
    BY DEF AfterSaleInv, TypeInv, TypeOK
  <2>2. CASE Open(d)
    <3>1. PICK p : order' = [order EXCEPT ![p].status =
                               IF @ = call[d].seen THEN "refunding" ELSE @]
      BY <2>2 DEF Open
    <3>2. order'[o].status \in {order[o].status, "refunding"}
      BY <2>1, <3>1 DEF OrderRow
    <3>3. QED
      BY <3>2 DEF Past, Unpaid
  <2>3. CASE Finish(d)
    <3>1. PICK a \in AfterSales, p \in Orders :
            /\ order' = [order EXCEPT ![p].status = afterSale[a].before]
            /\ afterSale[a].before \in ApplyFrom
      BY <2>3, AboutCall DEF Finish, GivenBack
    <3>2. order'[o].status \in {order[o].status} \cup ApplyFrom
      BY <2>1, <3>1 DEF OrderRow
    <3>3. QED
      BY <3>2, ApplyFromIsPaid DEF Past
  <2>4. CASE Refund(d)
    <3>1. PICK p : order' = [order EXCEPT ![p].status = "refunded"]
      BY <2>4 DEF Refund
    <3>2. order'[o].status \in {order[o].status, "refunded"}
      BY <2>1, <3>1 DEF OrderRow
    <3>3. QED
      BY <3>2 DEF Past, Unpaid
  <2>5. CASE MemberCall(d) \/ AdminCall(d) \/ ApplyCount(d) \/ HangUp(d)
    <3>1. UNCHANGED vars
      BY <2>5 DEF MemberCall, AdminCall, ApplyCount, HangUp, ApplyRead, Cancels,
         SubmitReturn, Approve, Reject, Receive, RefundRead, FinishRead, MoveRead, Dials
    <3>2. QED
      BY <1>1, <3>1 DEF vars
  <2>6. CASE MoveAfterSale(d)
    BY <1>1, <2>6 DEF MoveAfterSale
  <2>7. QED
    BY <1>3, <2>2, <2>3, <2>4, <2>5, <2>6 DEF CallStep
<1>4. CASE UNCHANGED afterSaleVars
  BY <1>1, <1>4 DEF afterSaleVars, vars
<1>5. QED
  BY <1>2, <1>3, <1>4 DEF AfterSaleNext

\* No after-sale and no move of the order service brings a paid order back to
\* where it could be paid or cancelled again, for any number of both.
THEOREM PaidIsNeverUnpaid == AfterSaleSpec => NeverUnpaid
<1>1. AfterSaleInv /\ [AfterSaleNext]_afterSaleVars =>
        [\A o \in Orders :
           order'[o].status \in {"pending_pay", "cancelled"} =>
             order[o].status \in {"none", "pending_pay", "cancelled"}]_afterSaleVars
  BY PaidStaysPaid DEF Past, Unpaid
<1>2. QED
  BY AfterSaleInvariant, <1>1, PTL DEF AfterSaleSpec, NeverUnpaid

-----------------------------------------------------------------------------
(* The status graph with after-sales *)

PaidStatus == OrderStatus \ Unpaid

\* The edges after-sales add to those of the order service.  Opening one moves an
\* order only from where it may be opened; ending one, or a refund, writes the
\* order whatever its status has become, as long as it was paid.
AfterSaleEdges ==
  (ApplyFrom \X {"refunding"}) \cup (PaidStatus \X (ApplyFrom \cup {"refunded"}))

WholeLife == INSTANCE OrderLifecycle WITH
  Edges <- TradeEdges \cup AfterSaleEdges,
  status <- [o \in Orders |-> order[o].status]

\* What a call does to orders: nothing, or one edge of one order.
LEMMA CallsTakeEdges ==
  ASSUME AfterSaleInv, NEW d \in Calls, CallStep(d)
  PROVE  \/ UNCHANGED order
         \/ \E o \in Orders, s \in OrderStatus :
              /\ <<order[o].status, s>> \in AfterSaleEdges
              /\ order' = [order EXCEPT ![o].status = s]
<1>1. /\ order \in [Orders -> OrderRow]
      /\ \A o \in Orders : Past(o) => order[o].status \in PaidStatus
  BY DEF AfterSaleInv, TypeInv, TypeOK, OrderRow, StatusOrNone, Past, PaidStatus, Unpaid
<1>2. CASE Open(d)
  <2>1. PICK o \in Orders, before \in ApplyFrom :
          order' = [order EXCEPT ![o].status = IF @ = before THEN "refunding" ELSE @]
    BY <1>2 DEF Open, AfterSaleInv, CallAims, Past
  <2>2. CASE order[o].status = before
    <3>1. order' = [order EXCEPT ![o].status = "refunding"]
      BY <2>1, <2>2
    <3>2. <<order[o].status, "refunding">> \in AfterSaleEdges
      BY <2>2 DEF AfterSaleEdges
    <3>3. QED
      BY <3>1, <3>2, RefundingIsLogged
  <2>3. CASE order[o].status # before
    <3>1. order' = [order EXCEPT ![o].status = order[o].status]
      BY <2>1, <2>3
    <3>2. [order[o] EXCEPT !.status = order[o].status] = order[o]
      BY <1>1 DEF OrderRow
    <3>3. QED
      BY <1>1, <3>1, <3>2
  <2>4. QED
    BY <2>2, <2>3
<1>3. CASE Finish(d)
  <2>1. PICK o \in Orders, before \in ApplyFrom :
          Past(o) /\ order' = [order EXCEPT ![o].status = before]
    BY <1>3, AboutCall DEF Finish, GivenBack
  <2>2. <<order[o].status, before>> \in AfterSaleEdges
    BY <1>1, <2>1 DEF AfterSaleEdges
  <2>3. QED
    BY <2>1, <2>2, ApplyFromIsPaid
<1>4. CASE Refund(d)
  <2>1. PICK o \in Orders : Past(o) /\ order' = [order EXCEPT ![o].status = "refunded"]
    BY <1>4, RefundWrites
  <2>2. <<order[o].status, "refunded">> \in AfterSaleEdges
    BY <1>1, <2>1 DEF AfterSaleEdges
  <2>3. QED
    BY <2>1, <2>2, RefundingIsLogged
<1>5. CASE MoveAfterSale(d)
  BY <1>5 DEF MoveAfterSale
<1>6. CASE MemberCall(d) \/ AdminCall(d) \/ ApplyCount(d) \/ HangUp(d)
  <2>1. UNCHANGED vars
    BY <1>6 DEF MemberCall, AdminCall, ApplyCount, HangUp, ApplyRead, Cancels,
       SubmitReturn, Approve, Reject, Receive, RefundRead, FinishRead, MoveRead, Dials
  <2>2. QED
    BY <2>1 DEF vars
<1>7. QED
  BY <1>2, <1>3, <1>4, <1>5, <1>6 DEF CallStep

LEMMA CallsLive ==
  ASSUME AfterSaleInv, NEW d \in Calls, CallStep(d)
  PROVE  UNCHANGED order \/ WholeLife!Next
<1>1. ASSUME NEW o \in Orders, NEW s \in OrderStatus,
             <<order[o].status, s>> \in AfterSaleEdges,
             order' = [order EXCEPT ![o].status = s]
      PROVE  WholeLife!Next
  <2>1. order \in [Orders -> OrderRow] /\ order[o] \in OrderRow
    BY DEF AfterSaleInv, TypeInv, TypeOK
  <2>2. order'[o].status = s /\ \A p \in Orders \ {o} : order'[p] = order[p]
    BY <1>1, <2>1 DEF OrderRow
  <2>3. [p \in Orders |-> order'[p].status] =
          [[p \in Orders |-> order[p].status] EXCEPT ![o] = s]
    BY <2>2
  <2>4. order[o].status \in WholeLife!OrderStatus /\ s \in WholeLife!OrderStatus
    BY <1>1, ApplyFromIsPaid DEF AfterSaleEdges, PaidStatus, OrderStatus,
       WholeLife!OrderStatus
  <2>5. WholeLife!Move(o)
    BY <1>1, <2>3, <2>4 DEF WholeLife!Move
  <2>6. QED
    BY <2>5 DEF WholeLife!Next
<1>2. QED
  BY <1>1, CallsTakeEdges

\* An order's life with after-sales: the order service, the applications, ends
\* and refunds of after-sales in any interleaving implement the status machine
\* with the edges of both, for any number of orders, requests and calls.
THEOREM AfterSaleImplementsLifecycle == AfterSaleSpec => WholeLife!Spec
<1>1. AfterSaleInit => WholeLife!Init
  BY DEF AfterSaleInit, Init, NoOrder, WholeLife!Init, WholeLife!NoStatus
<1>2. AfterSaleInv /\ [AfterSaleNext]_afterSaleVars =>
        [WholeLife!Next]_[o \in Orders |-> order[o].status]
  <2>1. SUFFICES ASSUME AfterSaleInv, [AfterSaleNext]_afterSaleVars
                 PROVE  UNCHANGED order \/ WholeLife!Next
    OBVIOUS
  <2>2. CASE [Next]_vars
    <3>1. Lifecycle!Next => WholeLife!Next
      BY DEF Lifecycle!Next, Lifecycle!Place, Lifecycle!Move, Lifecycle!OrderStatus,
         Lifecycle!NoStatus, WholeLife!Next, WholeLife!Place, WholeLife!Move,
         WholeLife!OrderStatus, WholeLife!NoStatus
    <3>2. QED
      BY <2>1, <2>2, <3>1, OrderStep, PlaceOrderPlaces, UpdateMoves DEF AfterSaleInv
  <2>3. ASSUME NEW d \in Calls, CallStep(d)
        PROVE  UNCHANGED order \/ WholeLife!Next
    BY <2>1, <2>3, CallsLive
  <2>4. QED
    BY <2>1, <2>2, <2>3 DEF AfterSaleNext, afterSaleVars
<1>3. QED
  BY <1>1, <1>2, AfterSaleInvariant, PTL DEF AfterSaleSpec, WholeLife!Spec

-----------------------------------------------------------------------------
(* What payments see of it *)

\* Payment reduces the life of an order to three statuses, "paid" standing for all
\* that follow a payment, and takes MarkPaid as one step.  Both are sound if, seen
\* this way, an order that waits for its payment can only be paid or cancelled,
\* and nothing follows.
AsPaid(status) == IF status \in Unpaid THEN status ELSE "paid"

PaymentLife == INSTANCE OrderLifecycle WITH
  Edges <- {<<"pending_pay", "paid">>, <<"pending_pay", "cancelled">>},
  status <- [o \in Orders |-> AsPaid(order[o].status)]

LEMMA EdgesAsPaid ==
  ASSUME NEW a, NEW b, <<a, b>> \in TradeEdges \cup AfterSaleEdges
  PROVE  \/ AsPaid(a) = AsPaid(b)
         \/ a = "pending_pay" /\ AsPaid(b) \in {"paid", "cancelled"}
<1>1. CASE <<a, b>> \in TradeEdges
  <2>1. PICK m \in Moves : a \in m.from /\ b = m.to
    BY <1>1 DEF TradeEdges
  <2>2. QED
    BY <2>1 DEF Moves, CancelMove, ConfirmMove, PrepareMove, ShipMove, PayMove, AsPaid,
       Unpaid
<1>2. CASE <<a, b>> \in AfterSaleEdges
  <2>1. a \notin Unpaid /\ b \notin Unpaid
    BY <1>2, ApplyFromIsPaid DEF AfterSaleEdges, PaidStatus, Unpaid
  <2>2. QED
    BY <2>1 DEF AsPaid
<1>3. QED
  BY <1>1, <1>2

LEMMA LifeAsPaid ==
  ASSUME WholeLife!Next
  PROVE  PaymentLife!Next \/ UNCHANGED [o \in Orders |-> AsPaid(order[o].status)]
<1>1. ASSUME NEW o \in Orders, NEW s,
             [p \in Orders |-> order'[p].status] =
               [[p \in Orders |-> order[p].status] EXCEPT ![o] = s]
      PROVE  [p \in Orders |-> AsPaid(order'[p].status)] =
               [[p \in Orders |-> AsPaid(order[p].status)] EXCEPT ![o] = AsPaid(s)]
  <2>1. \A p \in Orders : order'[p].status = IF p = o THEN s ELSE order[p].status
    BY <1>1
  <2>2. QED
    BY <2>1
<1>2. ASSUME NEW o \in Orders, WholeLife!Place(o)
      PROVE  PaymentLife!Place(o)
  <2>1. [p \in Orders |-> AsPaid(order'[p].status)] =
          [[p \in Orders |-> AsPaid(order[p].status)] EXCEPT ![o] = AsPaid("pending_pay")]
    BY <1>1, <1>2 DEF WholeLife!Place
  <2>2. order[o].status = "none"
    BY <1>2 DEF WholeLife!Place, WholeLife!NoStatus
  <2>3. QED
    BY <2>1, <2>2 DEF PaymentLife!Place, PaymentLife!NoStatus, AsPaid, Unpaid
<1>3. ASSUME NEW o \in Orders, WholeLife!Move(o)
      PROVE  PaymentLife!Move(o) \/ UNCHANGED [p \in Orders |-> AsPaid(order[p].status)]
  <2>1. PICK s \in OrderStatus :
          /\ <<order[o].status, s>> \in TradeEdges \cup AfterSaleEdges
          /\ [p \in Orders |-> order'[p].status] =
               [[p \in Orders |-> order[p].status] EXCEPT ![o] = s]
    BY <1>3 DEF WholeLife!Move, WholeLife!OrderStatus, OrderStatus
  <2>2. [p \in Orders |-> AsPaid(order'[p].status)] =
          [[p \in Orders |-> AsPaid(order[p].status)] EXCEPT ![o] = AsPaid(s)]
    BY <1>1, <2>1
  <2>3. CASE AsPaid(order[o].status) = AsPaid(s)
    BY <2>2, <2>3
  <2>4. CASE order[o].status = "pending_pay" /\ AsPaid(s) \in {"paid", "cancelled"}
    <3>1. AsPaid(order[o].status) = "pending_pay"
      BY <2>4 DEF AsPaid, Unpaid
    <3>2. QED
      BY <2>2, <2>4, <3>1 DEF PaymentLife!Move, PaymentLife!OrderStatus
  <2>5. QED
    BY <2>1, <2>3, <2>4, EdgesAsPaid
<1>4. QED
  BY <1>2, <1>3 DEF WholeLife!Next, PaymentLife!Next

\* Whatever the order service and after-sales do, payments see an order that waits
\* to be paid, is paid or cancelled once, and stays so: what Payment takes for
\* granted of the services it does not model.
THEOREM OrdersAsPaymentsSeeThem == AfterSaleSpec => PaymentLife!Spec
<1>1. WholeLife!Init => PaymentLife!Init
  <2>1. SUFFICES ASSUME WholeLife!Init PROVE PaymentLife!Init
    OBVIOUS
  <2>2. \A o \in Orders : order[o].status = "none"
    BY <2>1 DEF WholeLife!Init, WholeLife!NoStatus
  <2>3. QED
    BY <2>2 DEF PaymentLife!Init, PaymentLife!NoStatus, AsPaid, Unpaid
<1>2. [WholeLife!Next]_[o \in Orders |-> order[o].status]
        => [PaymentLife!Next]_[o \in Orders |-> AsPaid(order[o].status)]
  <2>1. ASSUME UNCHANGED [o \in Orders |-> order[o].status]
        PROVE  UNCHANGED [o \in Orders |-> AsPaid(order[o].status)]
    <3>1. \A o \in Orders : order'[o].status = order[o].status
      BY <2>1
    <3>2. QED
      BY <3>1
  <2>2. QED
    BY <2>1, LifeAsPaid
<1>3. QED
  BY <1>1, <1>2, AfterSaleImplementsLifecycle, PTL DEF WholeLife!Spec, PaymentLife!Spec

-----------------------------------------------------------------------------
(* Coupons and the monthly limit *)

\* A call knows nothing of coupons and of what makes orders count.
LEMMA CallsKeepCoupons ==
  ASSUME AfterSaleInv, NEW d \in Calls, CallStep(d)
  PROVE  /\ UNCHANGED <<coupon, req>>
         /\ \A o \in Orders :
              /\ order'[o].template = order[o].template
              /\ Exists(o)' <=> Exists(o)
<1>1. UNCHANGED <<coupon, req>>
  BY DEF CallStep, MemberCall, AdminCall, ApplyRead, Cancels, SubmitReturn, Approve,
     Reject, Receive, RefundRead, FinishRead, MoveRead, Dials, ApplyCount, Open, Finish,
     MoveAfterSale, Refund, HangUp, vars
<1>2. ASSUME NEW o \in Orders, NEW s \in OrderStatus, order[o].status # "none",
             order' = [order EXCEPT ![o].status = s]
      PROVE  \A p \in Orders :
               /\ order'[p].template = order[p].template
               /\ Exists(p)' <=> Exists(p)
  <2>1. order \in [Orders -> OrderRow] /\ order[o] \in OrderRow
    BY DEF AfterSaleInv, TypeInv, TypeOK
  <2>2. /\ order'[o].status = s /\ order'[o].template = order[o].template
        /\ \A p \in Orders \ {o} : order'[p] = order[p]
    BY <1>2, <2>1 DEF OrderRow
  <2>3. s # "none"
    BY <1>2 DEF OrderStatus
  <2>4. QED
    BY <1>2, <2>2, <2>3 DEF Exists
<1>3. \A o \in Orders : \A s :
        <<order[o].status, s>> \in AfterSaleEdges => order[o].status # "none"
  BY ApplyFromIsPaid DEF AfterSaleEdges, PaidStatus, Unpaid
<1>4. CASE UNCHANGED order
  BY <1>1, <1>4 DEF Exists
<1>5. QED
  BY <1>1, <1>2, <1>3, <1>4, CallsTakeEdges

\* A step of the composition is one of the order service, or writes neither
\* coupons nor requests and makes no order appear or lose its coupon.
LEMMA ServiceOrCall ==
  ASSUME AfterSaleInv, [AfterSaleNext]_afterSaleVars
  PROVE  \/ [Next]_vars
         \/ /\ UNCHANGED <<coupon, req>>
            /\ \A o \in Orders :
                 /\ order'[o].template = order[o].template
                 /\ Exists(o)' <=> Exists(o)
  BY CallsKeepCoupons DEF AfterSaleNext, afterSaleVars

\* With refunds as without, every order with a discount has the used coupon that
\* pays for it, or lost it to an edit that raced with its checkout: the code gives
\* no coupon back.
THEOREM DiscountStaysBacked == AfterSaleSpec => []DiscountIsBacked
<1>1. AfterSaleInit => EditsPrecedeUse /\ DiscountIsBacked
  BY InitEdits, InitDiscount DEF AfterSaleInit
<1>2. AfterSaleInv /\ EditsPrecedeUse /\ DiscountIsBacked
        /\ [AfterSaleNext]_afterSaleVars
        => EditsPrecedeUse' /\ DiscountIsBacked'
  <2>1. SUFFICES ASSUME AfterSaleInv, EditsPrecedeUse, DiscountIsBacked,
                        [AfterSaleNext]_afterSaleVars
                 PROVE  EditsPrecedeUse' /\ DiscountIsBacked'
    OBVIOUS
  <2>2. CASE [Next]_vars
    BY <2>1, <2>2, EditsPrecedeUseStep, DiscountStep DEF AfterSaleInv
  <2>3. CASE /\ UNCHANGED <<coupon, req>>
             /\ \A o \in Orders : order'[o].template = order[o].template
    BY <2>1, <2>3 DEF EditsPrecedeUse, BeingEdited, DiscountIsBacked, Backs, UsedBy
  <2>4. QED
    BY <2>1, <2>2, <2>3, ServiceOrCall
<1>3. QED
  BY <1>1, <1>2, AfterSaleInvariant, PTL DEF AfterSaleSpec

\* The limits of OrderTrade, on the uses of a coupon and on the orders of a
\* month, hold with after-sales as they do without.
THEOREM LimitsStayKept ==
  ASSUME IsFiniteSet(MemberCoupons), IsFiniteSet(Orders), IsFiniteSet(Requests)
  PROVE  AfterSaleSpec => [](UseLimitHolds /\ QuotaOvershoot)
<1>1. AfterSaleInit => UseLimitHolds /\ QuotaInv
  BY InitUseLimit, InitQuota DEF AfterSaleInit
<1>2. AfterSaleInv /\ UseLimitHolds /\ QuotaInv /\ [AfterSaleNext]_afterSaleVars
        => UseLimitHolds' /\ QuotaInv'
  <2>1. SUFFICES ASSUME AfterSaleInv, UseLimitHolds, QuotaInv,
                        [AfterSaleNext]_afterSaleVars
                 PROVE  UseLimitHolds' /\ QuotaInv'
    OBVIOUS
  <2>2. CASE [Next]_vars
    BY <2>1, <2>2, UseLimitStep, QuotaStep DEF AfterSaleInv
  <2>3. CASE /\ UNCHANGED <<coupon, req>>
             /\ \A o \in Orders : Exists(o)' <=> Exists(o)
    <3>1. \A t \in Templates : UsedOf(t)' = UsedOf(t)
      BY <2>3 DEF UsedOf
    <3>2. MonthOrders' = MonthOrders /\ InFlight' = InFlight
      BY <2>3 DEF MonthOrders, InFlight
    <3>3. UseLimitHolds'
      BY <2>1, <3>1 DEF UseLimitHolds
    <3>4. QuotaInv'
      BY <2>1, <3>2 DEF QuotaInv
    <3>5. QED
      BY <3>3, <3>4
  <2>4. QED
    BY <2>1, <2>2, <2>3, ServiceOrCall
<1>3. QuotaInv => QuotaOvershoot
  BY QuotaIsOvershoot
<1>4. QED
  BY <1>1, <1>2, <1>3, AfterSaleInvariant, PTL DEF AfterSaleSpec

-----------------------------------------------------------------------------
(* Refunds put items back once *)

\* As long as products keep their is_virtual, what an order holds follows from its
\* row and the number of its refunds: checkout and refund see the same items as
\* physical.  A deleted product is the exception, and stays one.
PutBackInv ==
  /\ AfterSaleInv
  /\ KnowsItems
  /\ AbsentHoldNothing
  /\ RefundsPutBackOnce

\* What an order holds is written when it is inserted or exists already.
LEMMA AbsentStep ==
  ASSUME TypeInv, AbsentHoldNothing, [Next]_vars
  PROVE  AbsentHoldNothing'
<1>1. CASE UNCHANGED <<order, held>>
  BY <1>1 DEF AbsentHoldNothing
<1>2. ASSUME NEW o \in Orders, order'[o].status # "none",
             \A p \in Orders \ {o} : order'[p] = order[p] /\ held'[p] = held[p]
      PROVE  AbsentHoldNothing'
  BY <1>2 DEF AbsentHoldNothing
<1>3. ASSUME NEW r \in Requests, PlaceOrder(r)
      PROVE  AbsentHoldNothing'
  <2>1. PICK o \in Orders :
          /\ order' = [order EXCEPT ![o] = NewOrder(r)]
          /\ held' = [held EXCEPT ![o] = Wanted(r)]
    BY <1>3 DEF PlaceOrder
  <2>2. order'[o] = NewOrder(r)
    BY <2>1 DEF TypeInv, TypeOK
  <2>3. order'[o].status # "none"
    BY <2>2 DEF NewOrder
  <2>4. \A p \in Orders \ {o} : order'[p] = order[p] /\ held'[p] = held[p]
    BY <2>1 DEF TypeInv, TypeOK
  <2>5. QED
    BY <1>2, <2>3, <2>4
<1>4. ASSUME NEW r \in Requests, Update(r)
      PROVE  AbsentHoldNothing'
  <2>1. PICK o \in Orders, m \in Moves :
          /\ order'[o].status = m.to
          /\ \A p \in Orders \ {o} : order'[p] = order[p] /\ held'[p] = held[p]
    BY <1>4, UpdateWrites
  <2>2. QED
    BY <1>2, <2>1, MoveShape
<1>5. QED
  BY <1>1, <1>3, <1>4, OrderStep

\* A call writes what an order holds only when it refunds it.
LEMMA CallsHold ==
  ASSUME NEW d \in Calls, CallStep(d)
  PROVE  UNCHANGED <<stock, held>> \/ Refund(d)
  BY DEF CallStep, MemberCall, AdminCall, ApplyRead, Cancels, SubmitReturn, Approve,
     Reject, Receive, RefundRead, FinishRead, MoveRead, Dials, ApplyCount, Open, Finish,
     MoveAfterSale, HangUp, vars

LEMMA CallsAbsent ==
  ASSUME AfterSaleInv, AbsentHoldNothing, NEW d \in Calls, CallStep(d)
  PROVE  AbsentHoldNothing'
<1>1. \A o \in Orders : order'[o].status = "none" => order[o].status = "none"
  BY CallsKeepCoupons DEF Exists
<1>2. CASE UNCHANGED <<stock, held>>
  BY <1>1, <1>2 DEF AbsentHoldNothing
<1>3. CASE Refund(d)
  <2>1. PICK o \in Orders :
          /\ Past(o)
          /\ held' = [held EXCEPT ![o] = [k \in Keepers |->
                                          held[o][k] - RestoredLines(o)[k]]]
    BY <1>3, RefundWrites
  <2>2. order'[o].status # "none"
    BY <1>1, <2>1 DEF Past, Unpaid
  <2>3. \A p \in Orders \ {o} : held'[p] = held[p]
    BY <2>1 DEF AfterSaleInv, TypeInv, TypeOK
  <2>4. QED
    BY <1>1, <2>2, <2>3 DEF AbsentHoldNothing
<1>4. QED
  BY <1>2, <1>3, CallsHold

LEMMA RefundsAreCounted ==
  ASSUME IsFiniteSet(AfterSales), NEW o
  PROVE  IsFiniteSet(RefundsOf(o)) /\ Cardinality(RefundsOf(o)) \in Nat
<1>1. RefundsOf(o) \subseteq AfterSales
  BY DEF RefundsOf
<1>2. QED
  BY <1>1, FS_Subset, FS_CardinalityType

\* Putting back asks the product rows, what is owed the order's row: they agree.
LEMMA RestoredIsOwed ==
  ASSUME TypeInv, KnowsItems, NEW o \in Orders, NEW k \in Keepers, ~Lost(k),
         order[o].status \notin {"none", "cancelled"}
  PROVE  RestoredLines(o)[k] = Owed(o, k)
<1>1. PICK units \in Nat : units = order[o].lines[k]
  BY DEF TypeInv, TypeOK, OrderRow
<1>2. CASE ~Physical(o, k)
  <2>1. ~Restorable(o, k)
    BY <1>2 DEF Restorable, Physical
  <2>2. QED
    BY <1>2, <2>1 DEF RestoredLines, Owed
<1>3. CASE Physical(o, k) /\ ~order[o].virtual
  <2>1. Restorable(o, k)
    BY <1>3 DEF Lost, Restorable, Physical
  <2>2. QED
    BY <1>3, <2>1 DEF RestoredLines, Owed
<1>4. CASE Physical(o, k) /\ order[o].virtual
  <2>1. k \notin Ordered(order[o].lines)
    BY <1>4 DEF KnowsItems, VirtualIsVirtual, Exists, Physical
  <2>2. units = 0
    BY <1>1, <2>1 DEF Ordered
  <2>3. RestoredLines(o)[k] = 0 /\ Owed(o, k) = 0
    BY <1>1, <1>4, <2>2 DEF RestoredLines, Restorable, Owed
  <2>4. QED
    BY <2>3
<1>5. QED
  BY <1>2, <1>3, <1>4

\* An order that has not been paid has no after-sale, let alone a refund.
LEMMA UnpaidHasNoRefund ==
  ASSUME AfterSaleInv, NEW o \in Orders, order[o].status \in Unpaid
  PROVE  Cardinality(RefundsOf(o)) = 0
<1>1. RefundsOf(o) = {}
  BY DEF AfterSaleInv, RowAims, Past, RefundsOf
<1>2. QED
  BY <1>1, FS_EmptySet

\* A step that leaves what an order holds, what it owes and its refunds alone.
LEMMA SameOwed ==
  ASSUME RefundsPutBackOnce, NEW o \in Orders, NEW k \in Keepers, ~Lost(k),
         held'[o][k] = held[o][k], Owed(o, k)' = Owed(o, k),
         RefundsOf(o)' = RefundsOf(o)
  PROVE  held'[o][k] = Owed(o, k)' * (1 - Cardinality(RefundsOf(o))')
BY DEF RefundsPutBackOnce

\* A step of the order service: a new order holds its items, a cancelled one,
\* which was never paid and so never refunded, gives back all it held, and the
\* other moves leave what an order holds alone.
LEMMA OrderServicePutsBack ==
  ASSUME "virtual" \notin MerchantOps, PutBackInv, [Next]_vars,
         UNCHANGED <<afterSale, call>>
  PROVE  RefundsPutBackOnce'
<1>1. TypeInv /\ KnowsItems /\ RefundsPutBackOnce /\ SameVirtual /\ AfterSaleInv
  BY VirtualStep DEF PutBackInv, AfterSaleInv
<1>2. /\ \A o \in Orders, k \in Keepers : Physical(o, k)' = Physical(o, k)
      /\ \A k \in Keepers : Lost(k) => Lost(k)'
  BY <1>1, KeeperProduct DEF Physical, SameVirtual, Lost
<1>3. \A o \in Orders : RefundsOf(o)' = RefundsOf(o)
  BY DEF RefundsOf
<1>4. ASSUME NEW o \in Orders, NEW k \in Keepers, ~Lost(k),
             order'[o] = order[o], held'[o] = held[o]
      PROVE  held'[o][k] = Owed(o, k)' * (1 - Cardinality(RefundsOf(o))')
  <2>1. Owed(o, k)' = Owed(o, k)
    BY <1>2, <1>4 DEF Owed
  <2>2. QED
    BY <1>1, <1>3, <1>4, <2>1, SameOwed
<1>5. ASSUME NEW r \in Requests, PlaceOrder(r), NEW p \in Orders, NEW k \in Keepers,
             ~Lost(k)
      PROVE  held'[p][k] = Owed(p, k)' * (1 - Cardinality(RefundsOf(p))')
  <2>1. PICK o \in Orders :
          /\ order[o].status = "none"
          /\ order'[o] = NewOrder(r)
          /\ \A j \in Keepers :
               held'[o][j] = IF Physical(o, j) THEN order'[o].lines[j] ELSE 0
          /\ \A q \in Orders \ {o} : order'[q] = order[q] /\ held'[q] = held[q]
    BY <1>1, <1>5, PlaceOrderTakes
  <2>2. CASE p = o
    <3>1. Cardinality(RefundsOf(o)) = 0
      BY <1>1, <2>1, UnpaidHasNoRefund DEF Unpaid
    <3>2. order'[o].lines[k] \in Nat /\ order'[o].status = "pending_pay"
      BY <1>1, <2>1 DEF NewOrder, TypeInv, TypeOK, RequestState
    <3>3. Owed(o, k)' = held'[o][k] /\ held'[o][k] \in Nat
      BY <1>2, <2>1, <3>2 DEF Owed
    <3>4. Cardinality(RefundsOf(o))' = 0
      BY <1>3, <3>1
    <3>5. QED
      BY <2>2, <3>3, <3>4
  <2>3. CASE p # o
    BY <1>4, <1>5, <2>1, <2>3
  <2>4. QED
    BY <2>2, <2>3
<1>6. ASSUME NEW r \in Requests, Update(r), NEW p \in Orders, NEW k \in Keepers, ~Lost(k)
      PROVE  held'[p][k] = Owed(p, k)' * (1 - Cardinality(RefundsOf(p))')
  <2>1. PICK o \in Orders, m \in Moves :
          LET back == IF m.restock THEN RestoredLines(o) ELSE NoLines IN
          /\ order[o].status \in m.from
          /\ order'[o].status = m.to
          /\ order'[o].lines = order[o].lines
          /\ order'[o].virtual = order[o].virtual
          /\ \A j \in Keepers : held'[o][j] = held[o][j] - back[j]
          /\ \A q \in Orders \ {o} : order'[q] = order[q] /\ held'[q] = held[q]
    BY <1>1, <1>6, UpdateWrites
  <2>2. order[o].status \notin {"none", "cancelled"}
    BY <2>1, MoveShape
  <2>3. held[o][k] \in Int /\ order[o].lines[k] \in Nat
    BY <1>1 DEF TypeInv, TypeOK, OrderRow
  <2>4. CASE p = o /\ m.to # "cancelled"
    <3>1. ~m.restock /\ m.to \notin {"none", "cancelled"}
      BY <2>4, MoveShape
    <3>2. held'[o][k] = held[o][k]
      BY <2>1, <2>3, <3>1 DEF NoLines
    <3>3. Owed(o, k)' = Owed(o, k)
      BY <1>2, <2>1, <2>2, <3>1 DEF Owed
    <3>4. QED
      BY <1>1, <1>3, <1>6, <2>4, <3>2, <3>3, SameOwed
  <2>5. CASE p = o /\ m.to = "cancelled"
    <3>1. m.restock /\ order[o].status = "pending_pay"
      BY <2>1, <2>5, MoveShape DEF Moves, CancelMove, ConfirmMove, PrepareMove,
         ShipMove, PayMove
    <3>2. Cardinality(RefundsOf(o)) = 0
      BY <1>1, <3>1, UnpaidHasNoRefund DEF Unpaid
    <3>3. Owed(o, k) \in Nat
      BY <2>3 DEF Owed
    <3>4. held[o][k] = Owed(o, k)
      BY <1>1, <1>6, <3>2, <3>3 DEF RefundsPutBackOnce
    <3>5. RestoredLines(o)[k] = Owed(o, k)
      BY <1>1, <1>6, <3>1, RestoredIsOwed
    <3>6. held'[o][k] = 0
      BY <2>1, <2>3, <3>1, <3>4, <3>5
    <3>7. Owed(o, k)' = 0
      BY <2>1, <2>5 DEF Owed
    <3>8. Cardinality(RefundsOf(o))' = 0
      BY <1>3, <3>2
    <3>9. QED
      BY <2>5, <3>6, <3>7, <3>8
  <2>6. CASE p # o
    BY <1>4, <1>6, <2>1, <2>6
  <2>7. QED
    BY <2>4, <2>5, <2>6
<1>7. CASE UNCHANGED <<order, held>>
  BY <1>2, <1>4, <1>7 DEF RefundsPutBackOnce
<1>8. QED
  BY <1>2, <1>5, <1>6, <1>7, OrderStep DEF RefundsPutBackOnce

\* A call writes no column of an order but the status, and that of paid orders.
LEMMA CallsWriteStatus ==
  ASSUME AfterSaleInv, NEW d \in Calls, CallStep(d)
  PROVE  /\ UNCHANGED <<product, req>>
         /\ \A p \in Orders :
              /\ order'[p].lines = order[p].lines
              /\ order'[p].virtual = order[p].virtual
              /\ order'[p].status = order[p].status \/ Past(p)
<1>1. order \in [Orders -> OrderRow]
  BY DEF AfterSaleInv, TypeInv, TypeOK
<1>2. ASSUME NEW o \in Orders, NEW s, Past(o), order' = [order EXCEPT ![o].status = s]
      PROVE  \A p \in Orders :
               /\ order'[p].lines = order[p].lines
               /\ order'[p].virtual = order[p].virtual
               /\ order'[p].status = order[p].status \/ Past(p)
  BY <1>1, <1>2 DEF OrderRow
<1>3. CASE Open(d)
  <2>1. PICK o \in Orders : o = call[d].order /\ Past(o)
    BY <1>3 DEF Open, AfterSaleInv, CallAims, Past
  <2>2. PICK s : order' = [order EXCEPT ![o].status = s]
    BY <1>3, <2>1 DEF Open
  <2>3. QED
    BY <1>2, <1>3, <2>1, <2>2 DEF Open
<1>4. CASE Finish(d)
  <2>1. PICK o \in Orders : o = afterSale[call[d].afterSale].order /\ Past(o)
    BY <1>4, AboutCall DEF Finish
  <2>2. PICK s : order' = [order EXCEPT ![o].status = s]
    BY <1>4, <2>1 DEF Finish
  <2>3. QED
    BY <1>2, <1>4, <2>1, <2>2 DEF Finish
<1>5. CASE Refund(d)
  <2>1. PICK o \in Orders : o = afterSale[call[d].afterSale].order /\ Past(o)
    BY <1>5, AboutCall DEF Refund
  <2>2. PICK s : order' = [order EXCEPT ![o].status = s]
    BY <1>5, <2>1 DEF Refund
  <2>3. QED
    BY <1>2, <1>5, <2>1, <2>2 DEF Refund
<1>6. CASE MoveAfterSale(d)
  BY <1>6 DEF MoveAfterSale
<1>7. CASE MemberCall(d) \/ AdminCall(d) \/ ApplyCount(d) \/ HangUp(d)
  <2>1. UNCHANGED vars
    BY <1>7 DEF MemberCall, AdminCall, ApplyCount, HangUp, ApplyRead, Cancels,
       SubmitReturn, Approve, Reject, Receive, RefundRead, FinishRead, MoveRead, Dials
  <2>2. QED
    BY <2>1 DEF vars
<1>8. QED
  BY <1>3, <1>4, <1>5, <1>6, <1>7 DEF CallStep

LEMMA CallsKnowItems ==
  ASSUME AfterSaleInv, KnowsItems, NEW d \in Calls, CallStep(d)
  PROVE  KnowsItems'
<1>1. /\ UNCHANGED <<product, req>>
      /\ \A p \in Orders :
           /\ order'[p].lines = order[p].lines
           /\ order'[p].virtual = order[p].virtual
           /\ order'[p].status = order[p].status \/ Past(p)
  BY CallsWriteStatus
<1>2. \A q \in Requests : Remembers(req[q])'
  BY <1>1 DEF KnowsItems, Remembers, SeenAs
<1>3. \A o \in Orders : Exists(o)' => Exists(o)
  BY <1>1 DEF Exists, Past, Unpaid
<1>4. \A o \in Orders : VirtualIsVirtual(o)'
  BY <1>1, <1>3 DEF KnowsItems, VirtualIsVirtual, Ordered
<1>5. QED
  BY <1>2, <1>4 DEF KnowsItems

\* A call leaves what an order owes alone: it writes the status of paid orders,
\* and a status that is no more unpaid than the one before.
LEMMA CallsOweTheSame ==
  ASSUME AfterSaleInv, NEW d \in Calls, CallStep(d), NEW o \in Orders, NEW k \in Keepers
  PROVE  Owed(o, k)' = Owed(o, k)
<1>1. /\ UNCHANGED product
      /\ order'[o].lines = order[o].lines
      /\ order'[o].status = order[o].status \/ Past(o)
  BY CallsWriteStatus
<1>2. Past(o) => Past(o)'
  BY PaidStaysPaid DEF AfterSaleNext
<1>3. Physical(o, k)' = Physical(o, k)
  BY <1>1 DEF Physical
<1>4. QED
  BY <1>1, <1>2, <1>3 DEF Owed, Past, Unpaid

\* A step that refunds nothing and leaves what orders hold alone.
LEMMA NothingPutBack ==
  ASSUME PutBackInv, NEW d \in Calls, CallStep(d), UNCHANGED held,
         \A o \in Orders : RefundsOf(o)' = RefundsOf(o)
  PROVE  RefundsPutBackOnce'
<1>1. /\ \A o \in Orders, k \in Keepers : Owed(o, k)' = Owed(o, k)
      /\ \A k \in Keepers : Lost(k)' = Lost(k)
  BY CallsOweTheSame, CallsWriteStatus DEF PutBackInv, Lost
<1>2. \A o \in Orders, k \in Keepers :
        ~Lost(k)' => held'[o][k] = Owed(o, k)' * (1 - Cardinality(RefundsOf(o))')
  BY <1>1, SameOwed DEF PutBackInv
<1>3. QED
  BY <1>2 DEF RefundsPutBackOnce

\* A refund puts back every physical item of the order and is counted once.
LEMMA RefundPutsBack ==
  ASSUME IsFiniteSet(AfterSales), PutBackInv, NEW d \in Calls, Refund(d)
  PROVE  RefundsPutBackOnce'
<1>1. PICK a \in AfterSales, o \in Orders :
        /\ afterSale[a].status \in ActiveStatuses /\ o = afterSale[a].order /\ Past(o)
        /\ afterSale' = [afterSale EXCEPT ![a].status = "refunded"]
        /\ order' = [order EXCEPT ![o].status = "refunded"]
        /\ held' = [held EXCEPT ![o] = [k \in Keepers |->
                                        held[o][k] - RestoredLines(o)[k]]]
        /\ UNCHANGED <<product, req>>
  BY RefundWrites DEF PutBackInv
<1>2. /\ order \in [Orders -> OrderRow] /\ held \in [Orders -> [Keepers -> Int]]
      /\ afterSale \in [AfterSales -> AfterSaleRow] /\ AfterSaleInv /\ CallStep(d)
      /\ RefundsPutBackOnce /\ TypeInv /\ KnowsItems
  BY DEF PutBackInv, AfterSaleInv, TypeInv, TypeOK, CallStep
<1>3. \A b \in AfterSales :
        /\ afterSale'[b].status = IF b = a THEN "refunded" ELSE afterSale[b].status
        /\ afterSale'[b].order = afterSale[b].order
  BY <1>1, <1>2 DEF AfterSaleRow
<1>4. a \notin RefundsOf(o)
  BY <1>1 DEF RefundsOf, ActiveStatuses
<1>5. /\ RefundsOf(o)' = RefundsOf(o) \cup {a}
      /\ \A p \in Orders \ {o} : RefundsOf(p)' = RefundsOf(p)
  BY <1>1, <1>3 DEF RefundsOf
<1>6. PICK n \in Nat : n = Cardinality(RefundsOf(o)) /\ Cardinality(RefundsOf(o))' = n + 1
  <2>1. PICK before : before = RefundsOf(o)
    OBVIOUS
  <2>2. IsFiniteSet(before) /\ Cardinality(before) \in Nat /\ a \notin before
    BY <1>4, <2>1, RefundsAreCounted
  <2>3. Cardinality(before \cup {a}) = Cardinality(before) + 1
    BY <2>2, FS_AddElement
  <2>4. RefundsOf(o)' = before \cup {a}
    BY <1>5, <2>1
  <2>5. Cardinality(RefundsOf(o))' = Cardinality(before) + 1
    BY <2>3, <2>4
  <2>6. QED
    BY <2>1, <2>2, <2>5
<1>7. \A p \in Orders, k \in Keepers : Owed(p, k)' = Owed(p, k)
  BY <1>2, CallsOweTheSame
<1>8. ASSUME NEW k \in Keepers, ~Lost(k)
      PROVE  held'[o][k] = Owed(o, k)' * (1 - Cardinality(RefundsOf(o))')
  <2>1. PICK units \in Nat : units = Owed(o, k)
    BY <1>2 DEF Owed, OrderRow
  <2>2. RestoredLines(o)[k] = units
    BY <1>1, <1>2, <1>8, <2>1, RestoredIsOwed DEF Past, Unpaid
  <2>3. held[o][k] = units * (1 - n)
    BY <1>2, <1>6, <1>8, <2>1 DEF RefundsPutBackOnce
  <2>4. held'[o][k] = held[o][k] - units
    BY <1>1, <1>2, <2>2
  <2>5. units * (1 - n) - units = units * (1 - (n + 1))
    OBVIOUS
  <2>6. Owed(o, k)' = units
    BY <1>7, <2>1
  <2>7. QED
    BY <1>6, <2>3, <2>4, <2>5, <2>6
<1>9. ASSUME NEW p \in Orders, NEW k \in Keepers, ~Lost(k)
      PROVE  held'[p][k] = Owed(p, k)' * (1 - Cardinality(RefundsOf(p))')
  <2>1. CASE p = o
    BY <1>8, <1>9, <2>1
  <2>2. CASE p # o
    <3>1. held'[p][k] = held[p][k]
      BY <1>1, <1>2, <2>2
    <3>2. QED
      BY <1>2, <1>5, <1>7, <1>9, <2>2, <3>1, SameOwed
  <2>3. QED
    BY <2>1, <2>2
<1>10. \A k \in Keepers : Lost(k)' = Lost(k)
  BY <1>1 DEF Lost
<1>11. QED
  BY <1>9, <1>10 DEF RefundsPutBackOnce

LEMMA CallPutsBack ==
  ASSUME IsFiniteSet(AfterSales), PutBackInv, NEW d \in Calls, CallStep(d)
  PROVE  RefundsPutBackOnce'
<1>1. afterSale \in [AfterSales -> AfterSaleRow] /\ AfterSaleInv
  BY DEF PutBackInv, AfterSaleInv
<1>2. ASSUME NEW a \in AfterSales, NEW seen \in ActiveStatuses,
             NEW to \in ActiveStatuses \cup {"cancelled", "rejected"},
             afterSale' = [afterSale EXCEPT ![a].status = IF @ = seen THEN to ELSE @]
      PROVE  \A o \in Orders : RefundsOf(o)' = RefundsOf(o)
  <2>1. PICK s : s = IF afterSale[a].status = seen THEN to ELSE afterSale[a].status
    OBVIOUS
  <2>2. (s = "refunded") <=> (afterSale[a].status = "refunded")
    BY <2>1 DEF ActiveStatuses
  <2>3. afterSale' = [afterSale EXCEPT ![a].status = s]
    BY <1>2, <2>1
  <2>4. \A b \in AfterSales :
          /\ afterSale'[b].order = afterSale[b].order
          /\ (afterSale'[b].status = "refunded") <=> (afterSale[b].status = "refunded")
    BY <1>1, <2>2, <2>3 DEF AfterSaleRow
  <2>5. QED
    BY <2>4 DEF RefundsOf
<1>3. CASE Open(d)
  <2>1. PICK a \in AfterSales :
          /\ afterSale[a].status = "none" /\ afterSale'[a].status = "pending"
          /\ \A b \in AfterSales \ {a} : afterSale'[b] = afterSale[b]
    BY <1>1, <1>3, OpenWrites
  <2>2. \A o \in Orders : RefundsOf(o)' = RefundsOf(o)
    BY <2>1 DEF RefundsOf
  <2>3. UNCHANGED held
    BY <1>3 DEF Open
  <2>4. QED
    BY <2>2, <2>3, NothingPutBack
<1>4. CASE Finish(d)
  <2>1. \A o \in Orders : RefundsOf(o)' = RefundsOf(o)
    BY <1>1, <1>2, <1>4, FinishWrites
  <2>2. UNCHANGED held
    BY <1>4 DEF Finish
  <2>3. QED
    BY <2>1, <2>2, NothingPutBack
<1>5. CASE MoveAfterSale(d)
  <2>1. \A o \in Orders : RefundsOf(o)' = RefundsOf(o)
    BY <1>1, <1>2, <1>5, MoveWrites
  <2>2. UNCHANGED held
    BY <1>5 DEF MoveAfterSale
  <2>3. QED
    BY <2>1, <2>2, NothingPutBack
<1>6. CASE Refund(d)
  BY <1>6, RefundPutsBack
<1>7. CASE MemberCall(d) \/ AdminCall(d) \/ ApplyCount(d) \/ HangUp(d)
  <2>1. UNCHANGED vars /\ UNCHANGED afterSale
    BY <1>7 DEF MemberCall, AdminCall, ApplyCount, HangUp, ApplyRead, Cancels,
       SubmitReturn, Approve, Reject, Receive, RefundRead, FinishRead, MoveRead, Dials
  <2>2. UNCHANGED held /\ \A o \in Orders : RefundsOf(o)' = RefundsOf(o)
    BY <2>1 DEF vars, RefundsOf
  <2>3. QED
    BY <2>2, NothingPutBack
<1>8. QED
  BY <1>3, <1>4, <1>5, <1>6, <1>7 DEF CallStep

LEMMA InitPutBack ==
  ASSUME AfterSaleInit
  PROVE  PutBackInv
<1>1. AfterSaleInv /\ KnowsItems
  BY InitAfterSale, InitHold DEF AfterSaleInit, HoldInv
<1>2. AbsentHoldNothing
  BY DEF AfterSaleInit, Init, NoLines, AbsentHoldNothing
<1>3. ASSUME NEW o \in Orders, NEW k \in Keepers
      PROVE  held[o][k] = Owed(o, k) * (1 - Cardinality(RefundsOf(o)))
  <2>1. held[o][k] = 0 /\ Owed(o, k) = 0 /\ order[o].status \in Unpaid
    BY DEF AfterSaleInit, Init, NoLines, NoOrder, Owed, Unpaid
  <2>2. Cardinality(RefundsOf(o)) = 0
    BY <1>1, <2>1, UnpaidHasNoRefund
  <2>3. QED
    BY <2>1, <2>2
<1>4. QED
  BY <1>1, <1>2, <1>3 DEF PutBackInv, RefundsPutBackOnce

LEMMA PutBackStep ==
  ASSUME IsFiniteSet(AfterSales), "virtual" \notin MerchantOps, PutBackInv,
         [AfterSaleNext]_afterSaleVars
  PROVE  PutBackInv'
<1>1. AfterSaleInv'
  BY AfterSaleStep DEF PutBackInv
<1>2. CASE [Next]_vars /\ UNCHANGED <<afterSale, call>>
  <2>1. TypeInv
    BY DEF PutBackInv, AfterSaleInv
  <2>2. KnowsItems' /\ AbsentHoldNothing'
    BY <1>2, <2>1, KnowsItemsStep, AbsentStep DEF PutBackInv
  <2>3. RefundsPutBackOnce'
    BY <1>2, OrderServicePutsBack
  <2>4. QED
    BY <1>1, <2>2, <2>3 DEF PutBackInv
<1>3. ASSUME NEW d \in Calls, CallStep(d)
      PROVE  PutBackInv'
  <2>1. KnowsItems'
    BY <1>3, CallsKnowItems DEF PutBackInv
  <2>2. AbsentHoldNothing'
    BY <1>3, CallsAbsent DEF PutBackInv
  <2>3. RefundsPutBackOnce'
    BY <1>3, CallPutsBack
  <2>4. QED
    BY <1>1, <2>1, <2>2, <2>3 DEF PutBackInv
<1>4. QED
  BY <1>2, <1>3 DEF AfterSaleNext, afterSaleVars

\* Items go back to the shelf once per refund, for any number of orders, items,
\* after-sales and overlapping calls, as long as the merchant does not change
\* is_virtual (Refund, restoreOrderStockTx, Cancel).
THEOREM RefundsPutBack ==
  ASSUME IsFiniteSet(AfterSales), "virtual" \notin MerchantOps
  PROVE  AfterSaleSpec => []RefundsPutBackOnce
<1>1. AfterSaleInit => PutBackInv
  BY InitPutBack
<1>2. PutBackInv /\ [AfterSaleNext]_afterSaleVars => PutBackInv'
  BY PutBackStep
<1>3. PutBackInv => RefundsPutBackOnce
  BY DEF PutBackInv
<1>4. QED
  BY <1>1, <1>2, <1>3, PTL DEF AfterSaleSpec

-----------------------------------------------------------------------------
(* The shelf ledger with refunds *)

\* ShelfLedger of OrderTrade counts an order's items once; with after-sales each
\* refund has put them back once more than that.
RefundLedger ==
  \A k \in Keepers :
    ~Lost(k) =>
      stock[k] + SumFunction([o \in Orders |->
                                Owed(o, k) * (1 - Cardinality(RefundsOf(o)))])
        = InitStock[k]

LEMMA RefundAims ==
  ASSUME AfterSaleInv, NEW d \in Calls, Refund(d)
  PROVE  afterSale[call[d].afterSale].order \in Orders
BY AboutCall DEF Refund

\* A refund puts on the shelf what its order no longer holds.
LEMMA RefundBalances ==
  ASSUME IsFiniteSet(Orders), AfterSaleInv, AfterSaleInv', NEW d \in Calls, Refund(d),
         NEW k \in Keepers, Balanced(k)
  PROVE  Balanced(k)'
<1>1. TypeInv /\ TypeInv'
  BY DEF AfterSaleInv
<1>2. PICK o \in Orders : o = afterSale[call[d].afterSale].order
  BY RefundAims
<1>3. PICK back \in [Keepers -> Nat] : back = RestoredLines(o)
  BY <1>1, RestoredType DEF TypeInv
<1>4. /\ held' = [held EXCEPT ![o] = [j \in Keepers |-> held[o][j] - back[j]]]
      /\ stock' = [j \in Keepers |-> stock[j] + back[j]]
  BY <1>2, <1>3 DEF Refund
<1>5. /\ \A p \in Orders \ {o} : held'[p] = held[p]
      /\ held'[o][k] = held[o][k] - back[k]
      /\ held[o][k] \in Int
      /\ stock[k] \in Nat
      /\ stock'[k] = stock[k] + back[k]
  BY <1>1, <1>4 DEF TypeInv, TypeOK
<1>6. stock'[k] = stock[k] + held[o][k] - held'[o][k]
  BY <1>3, <1>5
<1>7. QED
  BY <1>1, <1>5, <1>6, MovesUnits

LEMMA RefundLedgerStep ==
  ASSUME IsFiniteSet(Orders), "adjust" \notin MerchantOps,
         PutBackInv, AfterSaleInv', LedgerInv, [AfterSaleNext]_afterSaleVars
  PROVE  LedgerInv'
<1>1. AfterSaleInv /\ TypeInv /\ TypeInv'
  BY DEF PutBackInv, AfterSaleInv
<1>2. AbsentHoldNothing
  BY DEF PutBackInv
<1>3. CASE [Next]_vars
  BY <1>1, <1>2, <1>3, LedgerStep
<1>4. ASSUME NEW d \in Calls, CallStep(d)
      PROVE  LedgerInv'
  <2>1. UNCHANGED req
    BY <1>1, <1>4, CallsWriteStatus
  <2>2. NoCount'
    BY <2>1 DEF LedgerInv, NoCount
  <2>3. CASE UNCHANGED <<stock, held>>
    BY <2>2, <2>3 DEF LedgerInv, Balanced, HeldOf
  <2>4. CASE Refund(d)
    BY <1>1, <2>2, <2>4, RefundBalances DEF LedgerInv
  <2>5. QED
    BY <1>4, <2>3, <2>4, CallsHold
<1>5. QED
  BY <1>3, <1>4 DEF AfterSaleNext, afterSaleVars

LEMMA LedgerOfRefunds ==
  ASSUME IsFiniteSet(Orders), IsFiniteSet(AfterSales), PutBackInv, LedgerInv
  PROVE  RefundLedger
<1>1. TypeInv /\ RefundsPutBackOnce
  BY DEF PutBackInv, AfterSaleInv
<1>2. ASSUME NEW k \in Keepers, ~Lost(k)
      PROVE  stock[k] + SumFunction([o \in Orders |->
                                       Owed(o, k) * (1 - Cardinality(RefundsOf(o)))])
               = InitStock[k]
  <2>1. PICK owed : owed = [o \in Orders |->
                              Owed(o, k) * (1 - Cardinality(RefundsOf(o)))]
    OBVIOUS
  <2>2. \A o \in Orders : owed[o] = HeldOf(k)[o] /\ HeldOf(k)[o] \in Int
    BY <1>1, <1>2, <2>1, HeldIsInt DEF RefundsPutBackOnce
  <2>3. SumFunctionOnSet(owed, Orders) = SumFunctionOnSet(HeldOf(k), Orders)
    BY <2>2, SumOfEqual
  <2>4. SumFunction(owed) = SumFunctionOnSet(owed, Orders)
    BY <2>1 DEF SumFunction
  <2>5. QED
    BY <2>1, <2>3, <2>4 DEF LedgerInv, Balanced
<1>3. QED
  BY <1>2 DEF RefundLedger

\* With checkouts, cancellations and any number of overlapping after-sales, the
\* shelf is off by exactly the refunds: every unit of the initial stock of a
\* product that is not deleted is on the shelf or owed by the row of an order, and
\* a second refund of an order, which the code does not rule out, puts units on
\* the shelf that there never were.
THEOREM RefundLedgerBalances ==
  ASSUME IsFiniteSet(Orders), IsFiniteSet(AfterSales),
         {"virtual", "adjust"} \cap MerchantOps = {}
  PROVE  AfterSaleSpec => []RefundLedger
<1>1. AfterSaleInit => PutBackInv /\ LedgerInv
  BY InitPutBack, InitLedger DEF AfterSaleInit
<1>2. PutBackInv /\ [AfterSaleNext]_afterSaleVars => PutBackInv'
  BY PutBackStep
<1>3. PutBackInv /\ PutBackInv' /\ LedgerInv /\ [AfterSaleNext]_afterSaleVars => LedgerInv'
  <2>1. PutBackInv' => AfterSaleInv'
    BY DEF PutBackInv
  <2>2. QED
    BY <2>1, RefundLedgerStep
<1>4. PutBackInv /\ LedgerInv => RefundLedger
  BY LedgerOfRefunds
<1>5. QED
  BY <1>1, <1>2, <1>3, <1>4, PTL DEF AfterSaleSpec
=============================================================================
