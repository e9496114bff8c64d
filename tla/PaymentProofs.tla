--------------------------- MODULE PaymentProofs ----------------------------
(***************************************************************************)
(* Proofs about Payment, for every set of orders, payments and requests    *)
(* and every environment: the types, and the three safety invariants of    *)
(* the runs.  The argument is about what a request knows: once it has a    *)
(* payment, that payment is a row of the request's own order, in           *)
(* production one that WeChat took the money for; and once it is past      *)
(* MarkPaid it is the only request that will write points for the order,   *)
(* because MarkPaid succeeds once and no statement takes it back.          *)
(***************************************************************************)
EXTENDS Payment, TLAPS

USE PaymentAssumption

\* The stages after a successful MarkPaid.
Earning == {"record", "points", "credit", "log"}

\* What the stage of a request says of the data it carries.
Knows(q) ==
  /\ q.pc # "idle" => q.order \in Orders
  /\ q.pc \notin {"idle", "insert"} =>
       /\ q.payment \in Payments
       /\ payment[q.payment].status # "none"
       /\ payment[q.payment].order = q.order
       /\ q.callback = production
       /\ production => q.payment \in taken
  /\ q.pc = "insert" => q.callback = FALSE
  /\ q.pc = "notified" => production
  /\ q.pc = "record" => ~production
  /\ q.pc \in Earning => order[q.order] = "paid"

PaymentsHaveOrders ==
  \A p \in Payments : payment[p].status # "none" => payment[p].order \in Orders

TakenInProduction ==
  /\ taken # {} => production
  /\ \A p \in taken : payment[p].status # "none"

\* Of the requests and log entries about one order, one at most has earned, or
\* is about to earn, the order's points.
OneEarner ==
  /\ \A q, r \in Requests :
       req[q].pc \in Earning /\ req[r].pc \in Earning /\ req[q].order = req[r].order
         => q = r
  /\ \A r \in Requests, i \in DOMAIN log :
       req[r].pc \in Earning => log[i].source # req[r].order

PaymentInv ==
  /\ TypeOK
  /\ \A r \in Requests : Knows(req[r])
  /\ PaymentsHaveOrders
  /\ TakenInProduction
  /\ PaidOrderIsPaidFor
  /\ RecordedAfterOrder
  /\ OneEarner
  /\ PointsOncePerOrder

-----------------------------------------------------------------------------
(* What no step takes back *)

RowsStay ==
  /\ production' = production
  /\ taken \subseteq taken'
  /\ \A p \in Payments : payment[p].status # "none" =>
       payment'[p].status # "none" /\ payment'[p].order = payment[p].order
  /\ \A o \in Orders : order[o] = "paid" => order'[o] = "paid"

\* What a request knows stays true while others step.
LEMMA KnowsKept ==
  ASSUME RowsStay, NEW q \in RequestState, Knows(q)
  PROVE  Knows(q)'
  BY DEF RowsStay, Knows, Earning

LEMMA RequestsKept ==
  ASSUME PaymentInv, RowsStay, UNCHANGED req
  PROVE  \A q \in Requests : Knows(req[q])'
<1>1. \A q \in Requests : req[q] \in RequestState /\ Knows(req[q])
  BY DEF PaymentInv, TypeOK
<1>2. ASSUME NEW q \in Requests
      PROVE  Knows(req[q])'
  <2>1. PICK s \in RequestState : s = req[q] /\ Knows(s)
    BY <1>1
  <2>2. Knows(s)'
    BY <2>1, KnowsKept
  <2>3. QED
    BY <2>1, <2>2
<1>3. QED
  BY <1>2

\* A request moves on to a state whose data it knows.
LEMMA RequestMoves ==
  ASSUME PaymentInv, RowsStay, NEW r \in Requests, NEW s \in RequestState, Knows(s)',
         req' = [req EXCEPT ![r] = s]
  PROVE  /\ req' \in [Requests -> RequestState]
         /\ \A q \in Requests : Knows(req[q])'
<1>1. req \in [Requests -> RequestState] /\ \A q \in Requests : Knows(req[q])
  BY DEF PaymentInv, TypeOK
<1>2. ASSUME NEW q \in Requests
      PROVE  Knows(req[q])'
  <2>1. CASE q = r
    <3>1. req'[q] = s
      BY <1>1, <2>1
    <3>2. QED
      BY <3>1
  <2>2. CASE q # r
    <3>1. PICK u \in RequestState : u = req[q] /\ Knows(u)
      BY <1>1
    <3>2. Knows(u)'
      BY <3>1, KnowsKept
    <3>3. req'[q] = u
      BY <1>1, <2>2, <3>1
    <3>4. QED
      BY <3>2, <3>3
  <2>3. QED
    BY <2>1, <2>2
<1>3. QED
  BY <1>1, <1>2

\* It earns afterwards only if it did before, for the same order.
LEMMA EarnersKept ==
  ASSUME PaymentInv, NEW r \in Requests, NEW s \in RequestState,
         req' = [req EXCEPT ![r] = s], UNCHANGED log,
         s.pc \in Earning => req[r].pc \in Earning /\ s.order = req[r].order
  PROVE  OneEarner'
<1>1. req \in [Requests -> RequestState] /\ OneEarner
  BY DEF PaymentInv, TypeOK
<1>2. \A q \in Requests : req'[q] = IF q = r THEN s ELSE req[q]
  BY <1>1
<1>3. \A q \in Requests :
        req'[q].pc \in Earning => req[q].pc \in Earning /\ req'[q].order = req[q].order
  BY <1>2
<1>4. QED
  BY <1>1, <1>3 DEF OneEarner

LEMMA IdleKnows == Idle \in RequestState /\ Idle.pc = "idle" /\ Knows(Idle) /\ Knows(Idle)'
  BY DEF Idle, RequestState, Knows, Earning

\* A step of a request that writes no row but its own state, or ends it.
LEMMA QuietStep ==
  ASSUME PaymentInv, NEW r \in Requests, NEW s \in RequestState, Knows(s),
         req' = [req EXCEPT ![r] = s],
         s.pc \in Earning => req[r].pc \in Earning /\ s.order = req[r].order,
         acked' \subseteq Payments,
         UNCHANGED <<production, order, payment, taken, points, log>>
  PROVE  PaymentInv'
<1>1. RowsStay
  BY DEF RowsStay
<1>2. Knows(s)'
  BY <1>1, KnowsKept
<1>3. req' \in [Requests -> RequestState] /\ (\A q \in Requests : Knows(req[q])')
  BY <1>1, <1>2, RequestMoves
<1>4. OneEarner'
  BY EarnersKept
<1>5. QED
  BY <1>3, <1>4 DEF PaymentInv, TypeOK, PaymentsHaveOrders, TakenInProduction,
     PaidOrderIsPaidFor, RecordedAfterOrder, PointsOncePerOrder

-----------------------------------------------------------------------------
(* The steps of a request *)

\* What a request in flight is known to be.
LEMMA InFlight ==
  ASSUME PaymentInv, NEW r \in Requests
  PROVE  req[r] \in RequestState /\ Knows(req[r])
  BY DEF PaymentInv, TypeOK

LEMMA CreateStep ==
  ASSUME PaymentInv, NEW r \in Requests, NEW o \in Orders, Create(r, o)
  PROVE  PaymentInv'
<1>1. PICK s : s = [Idle EXCEPT !.pc = "insert", !.order = o]
  OBVIOUS
<1>2. /\ s \in RequestState /\ s.pc = "insert" /\ s.order = o
      /\ s.callback = FALSE
  BY <1>1 DEF Idle, RequestState
<1>3. Knows(s) /\ s.pc \notin Earning
  BY <1>2 DEF Knows, Earning
<1>4. req' = [req EXCEPT ![r] = s] /\ acked' \subseteq Payments
  BY <1>1 DEF Create, Starts, PaymentInv, TypeOK
<1>5. QED
  BY <1>2, <1>3, <1>4, QuietStep DEF Create

LEMMA EndStep ==
  ASSUME PaymentInv, NEW r \in Requests, req' = [req EXCEPT ![r] = Idle],
         acked' \subseteq Payments,
         UNCHANGED <<production, order, payment, taken, points, log>>
  PROVE  PaymentInv'
<1>1. Idle.pc \notin Earning
  BY IdleKnows DEF Earning
<1>2. QED
  BY <1>1, IdleKnows, QuietStep

\* The answers of a request that ends.
LEMMA ReturnsAcks ==
  ASSUME PaymentInv, NEW r \in Requests, Returns(r), req[r].pc \notin {"idle", "insert"}
  PROVE  req' = [req EXCEPT ![r] = Idle] /\ acked' \subseteq Payments
  BY InFlight DEF Returns, Knows, PaymentInv, TypeOK

LEMMA FailsStep ==
  ASSUME PaymentInv, NEW r \in Requests, Fails(r)
  PROVE  PaymentInv'
<1>1. acked' \subseteq Payments
  BY DEF Fails, PaymentInv, TypeOK
<1>2. QED
  BY <1>1, EndStep DEF Fails

LEMMA NotifiedAgainStep ==
  ASSUME PaymentInv, NEW r \in Requests, NEW p \in Payments, NotifiedAgain(r, p)
  PROVE  PaymentInv'
<1>1. RowsStay /\ acked' \subseteq Payments
  BY DEF NotifiedAgain, RowsStay, PaymentInv, TypeOK
<1>2. \A q \in Requests : Knows(req[q])'
  BY <1>1, RequestsKept DEF NotifiedAgain
<1>3. QED
  BY <1>1, <1>2 DEF NotifiedAgain, PaymentInv, TypeOK, PaymentsHaveOrders,
     TakenInProduction, PaidOrderIsPaidFor, RecordedAfterOrder, OneEarner,
     PointsOncePerOrder

\* Only a payment WeChat took the money for is notified.
LEMMA NotifiedStep ==
  ASSUME PaymentInv, NEW r \in Requests, NEW p \in Payments, Notified(r, p)
  PROVE  PaymentInv'
<1>1. PICK s : s = [Idle EXCEPT !.pc = "notified", !.callback = TRUE,
                               !.order = payment[p].order, !.payment = p]
  OBVIOUS
<1>2. /\ p \in taken /\ production /\ payment[p].status # "none"
      /\ payment[p].order \in Orders
  BY DEF Notified, PaymentInv, TakenInProduction, PaymentsHaveOrders
<1>3. /\ s \in RequestState /\ s.pc = "notified" /\ s.order = payment[p].order
      /\ s.payment = p /\ s.callback = TRUE
  BY <1>1, <1>2 DEF Idle, RequestState
<1>4. production = TRUE
  BY <1>2 DEF PaymentInv, TypeOK
<1>5. Knows(s) /\ s.pc \notin Earning
  BY <1>2, <1>3, <1>4 DEF Knows, Earning
<1>6. req' = [req EXCEPT ![r] = s] /\ acked' \subseteq Payments
  BY <1>1 DEF Notified, Starts, PaymentInv, TypeOK
<1>7. QED
  BY <1>3, <1>5, <1>6, QuietStep DEF Notified

\* A request that only goes to another stage.
LEMMA StageType ==
  ASSUME NEW q \in RequestState,
         NEW pc \in {"idle", "insert", "notified", "mark", "record", "points", "credit",
                     "log"}
  PROVE  /\ [q EXCEPT !.pc = pc] \in RequestState
         /\ [q EXCEPT !.pc = pc].pc = pc
         /\ [q EXCEPT !.pc = pc].order = q.order
         /\ [q EXCEPT !.pc = pc].payment = q.payment
         /\ [q EXCEPT !.pc = pc].callback = q.callback
         /\ [q EXCEPT !.pc = pc].before = q.before
  BY DEF RequestState

LEMMA ReadPointsStep ==
  ASSUME PaymentInv, NEW r \in Requests, ReadPoints(r)
  PROVE  PaymentInv'
<1>1. PICK s : s = [req[r] EXCEPT !.pc = "credit", !.before = points]
  OBVIOUS
<1>2. points \in Nat /\ acked' \subseteq Payments
  BY DEF PaymentInv, TypeOK, ReadPoints
<1>3. /\ s \in RequestState /\ s.pc = "credit" /\ s.order = req[r].order
      /\ s.payment = req[r].payment /\ s.callback = req[r].callback
  BY <1>1, <1>2, InFlight DEF RequestState
<1>4. req[r].pc = "points" /\ Knows(req[r])
  BY InFlight DEF ReadPoints
<1>5. Knows(s) /\ req[r].pc \in Earning
  BY <1>3, <1>4 DEF Knows, Earning
<1>6. req' = [req EXCEPT ![r] = s]
  BY <1>1 DEF ReadPoints
<1>7. QED
  BY <1>2, <1>3, <1>5, <1>6, QuietStep DEF ReadPoints

LEMMA SkipPointsStep ==
  ASSUME PaymentInv, NEW r \in Requests, SkipPoints(r)
  PROVE  PaymentInv'
<1>1. CASE req[r].pc = "credit"
  <2>1. PICK s : s = [req[r] EXCEPT !.pc = "log"]
    OBVIOUS
  <2>2. /\ s \in RequestState /\ s.pc = "log" /\ s.order = req[r].order
        /\ s.payment = req[r].payment /\ s.callback = req[r].callback
    BY <2>1, InFlight, StageType
  <2>3. Knows(s) /\ req[r].pc \in Earning
    BY <1>1, <2>2, InFlight DEF Knows, Earning
  <2>4. req' = [req EXCEPT ![r] = s] /\ acked' \subseteq Payments
    BY <1>1, <2>1 DEF SkipPoints, GoesTo, PaymentInv, TypeOK
  <2>5. QED
    BY <2>2, <2>3, <2>4, QuietStep DEF SkipPoints
<1>2. CASE req[r].pc # "credit"
  <2>1. req' = [req EXCEPT ![r] = Idle] /\ acked' \subseteq Payments
    BY <1>2, ReturnsAcks DEF SkipPoints
  <2>2. QED
    BY <2>1, EndStep DEF SkipPoints
<1>3. QED
  BY <1>1, <1>2

\* The new row is nobody's yet: what requests know of theirs stays true.
LEMMA InsertPaymentStep ==
  ASSUME PaymentInv, NEW r \in Requests, InsertPayment(r)
  PROVE  PaymentInv'
<1>1. PICK p \in Payments :
        /\ req[r].pc = "insert" /\ payment[p].status = "none"
        /\ payment' = [payment EXCEPT ![p] = [status |-> "pending",
                                             order |-> req[r].order]]
        /\ req' = [req EXCEPT ![r] = IF PaysAtWechat THEN Idle
                                     ELSE [@ EXCEPT !.pc = AfterInsert, !.payment = p]]
        /\ UNCHANGED <<production, order, taken, acked, points, log>>
  BY DEF InsertPayment
<1>2. PICK row : row = [status |-> "pending", order |-> req[r].order]
  OBVIOUS
<1>3. req[r].order \in Orders /\ payment \in [Payments -> PaymentRow]
  BY <1>1, InFlight DEF Knows, PaymentInv, TypeOK
<1>4. row \in PaymentRow /\ row.status = "pending" /\ row.order = req[r].order
  BY <1>2, <1>3 DEF PaymentRow
<1>5. payment' = [payment EXCEPT ![p] = row]
  BY <1>1, <1>2
<1>6. /\ payment' \in [Payments -> PaymentRow] /\ payment'[p] = row
      /\ \A q \in Payments : q # p => payment'[q] = payment[q]
  BY <1>3, <1>4, <1>5
<1>7. RowsStay
  BY <1>1, <1>6 DEF RowsStay, PaymentInv, TypeOK
<1>8. PICK s : /\ req' = [req EXCEPT ![r] = s]
               /\ s = IF PaysAtWechat THEN Idle
                      ELSE [req[r] EXCEPT !.pc = AfterInsert, !.payment = p]
  BY <1>1
<1>9. s \in RequestState /\ s.pc \notin Earning /\ Knows(s)'
  <2>1. CASE PaysAtWechat
    BY <1>8, <2>1, IdleKnows DEF Earning
  <2>2. CASE ~PaysAtWechat
    <3>1. s = [req[r] EXCEPT !.pc = "mark", !.payment = p]
      BY <1>8, <2>2 DEF AfterInsert
    <3>2. /\ s \in RequestState /\ s.pc = "mark" /\ s.payment = p
          /\ s.order = req[r].order /\ s.callback = req[r].callback
      BY <3>1, InFlight DEF RequestState
    <3>3. ~production' /\ production \in BOOLEAN /\ production' = production
      BY <1>1, <2>2 DEF PaysAtWechat, PaymentInv, TypeOK
    <3>4. req[r].callback = FALSE
      BY <1>1, InFlight DEF Knows
    <3>5. QED
      BY <1>3, <1>4, <1>6, <3>2, <3>3, <3>4 DEF Knows, Earning
  <2>3. QED
    BY <2>1, <2>2
<1>10. req' \in [Requests -> RequestState] /\ (\A q \in Requests : Knows(req[q])')
  BY <1>7, <1>8, <1>9, RequestMoves
<1>11. OneEarner'
  BY <1>1, <1>8, <1>9, EarnersKept
<1>12. PaymentsHaveOrders' /\ TakenInProduction'
  BY <1>1, <1>3, <1>4, <1>6 DEF PaymentInv, TypeOK, PaymentsHaveOrders,
     TakenInProduction
<1>13. PaidOrderIsPaidFor'
  <2>1. \A q \in taken : q # p
    BY <1>1 DEF PaymentInv, TakenInProduction
  <2>2. QED
    BY <1>1, <1>6, <2>1 DEF PaymentInv, TypeOK, PaidOrderIsPaidFor
<1>14. RecordedAfterOrder'
  BY <1>1, <1>4, <1>6 DEF PaymentInv, TypeOK, RecordedAfterOrder
<1>15. QED
  BY <1>1, <1>6, <1>10, <1>11, <1>12, <1>13, <1>14 DEF PaymentInv, TypeOK,
     PointsOncePerOrder

\* Marking a payment's row paid leaves its order and forgets no row.
LEMMA WritePaidRows ==
  ASSUME PaymentInv, NEW r \in Requests, req[r].pc \in {"notified", "record"},
         WritePaid(r), UNCHANGED <<production, order, taken>>
  PROVE  /\ RowsStay
         /\ payment' \in [Payments -> PaymentRow]
         /\ \A p \in Payments : payment'[p].order = payment[p].order
         /\ \A p \in Payments :
              payment'[p].status = IF p = req[r].payment THEN "paid"
                                   ELSE payment[p].status
<1>1. PICK p \in Payments : p = req[r].payment
  BY InFlight DEF Knows
<1>2. payment \in [Payments -> PaymentRow]
  BY DEF PaymentInv, TypeOK
<1>3. PICK row : row = [payment[p] EXCEPT !.status = "paid"]
  OBVIOUS
<1>4. row \in PaymentRow /\ row.status = "paid" /\ row.order = payment[p].order
  BY <1>2, <1>3 DEF PaymentRow
<1>5. payment' = [payment EXCEPT ![p] = row]
  BY <1>1, <1>3 DEF WritePaid
<1>6. \A q \in Payments : payment'[q] = IF q = p THEN row ELSE payment[q]
  BY <1>2, <1>5
<1>7. QED
  BY <1>1, <1>2, <1>4, <1>5, <1>6 DEF RowsStay

LEMMA PaymentRecorded ==
  ASSUME PaymentInv, NEW r \in Requests, NEW s \in RequestState, Knows(s),
         req[r].pc \in {"notified", "record"}, WritePaid(r),
         req' = [req EXCEPT ![r] = s],
         s.pc \in Earning => req[r].pc \in Earning /\ s.order = req[r].order,
         production \/ order[req[r].order] = "paid",
         UNCHANGED <<production, order, taken, acked, points, log>>
  PROVE  PaymentInv'
<1>1. /\ RowsStay /\ payment' \in [Payments -> PaymentRow]
      /\ \A p \in Payments : payment'[p].order = payment[p].order
      /\ \A p \in Payments :
           payment'[p].status = IF p = req[r].payment THEN "paid" ELSE payment[p].status
  BY WritePaidRows
<1>2. Knows(s)'
  BY <1>1, KnowsKept
<1>3. req' \in [Requests -> RequestState] /\ (\A q \in Requests : Knows(req[q])')
  BY <1>1, <1>2, RequestMoves
<1>4. OneEarner'
  BY EarnersKept
<1>5. req[r].payment \in Payments /\ payment[req[r].payment].order = req[r].order
      /\ payment[req[r].payment].status # "none"
  BY InFlight DEF Knows
<1>6. PaymentsHaveOrders' /\ TakenInProduction'
  BY <1>1, <1>5 DEF PaymentInv, TypeOK, PaymentsHaveOrders, TakenInProduction
<1>7. PaidOrderIsPaidFor'
  BY <1>1 DEF PaymentInv, TypeOK, PaidOrderIsPaidFor
<1>8. RecordedAfterOrder'
  BY <1>1, <1>5 DEF PaymentInv, RecordedAfterOrder
<1>9. QED
  BY <1>1, <1>3, <1>4, <1>6, <1>7, <1>8 DEF PaymentInv, TypeOK, PointsOncePerOrder

LEMMA RecordNotifiedStep ==
  ASSUME PaymentInv, NEW r \in Requests, RecordNotified(r)
  PROVE  PaymentInv'
<1>1. PICK s : s = [req[r] EXCEPT !.pc = "mark"]
  OBVIOUS
<1>2. /\ s \in RequestState /\ s.pc = "mark" /\ s.order = req[r].order
      /\ s.payment = req[r].payment /\ s.callback = req[r].callback
  BY <1>1, InFlight, StageType
<1>3. req[r].pc = "notified" /\ Knows(req[r])
  BY InFlight DEF RecordNotified
<1>4. Knows(s) /\ s.pc \notin Earning /\ production
  BY <1>2, <1>3 DEF Knows, Earning
<1>5. req' = [req EXCEPT ![r] = s]
  BY <1>1 DEF RecordNotified, GoesTo
<1>6. QED
  BY <1>2, <1>3, <1>4, <1>5, PaymentRecorded DEF RecordNotified

LEMMA RecordMockStep ==
  ASSUME PaymentInv, NEW r \in Requests, RecordMock(r)
  PROVE  PaymentInv'
<1>1. PICK s : s = [req[r] EXCEPT !.pc = "points"]
  OBVIOUS
<1>2. /\ s \in RequestState /\ s.pc = "points" /\ s.order = req[r].order
      /\ s.payment = req[r].payment /\ s.callback = req[r].callback
  BY <1>1, InFlight, StageType
<1>3. req[r].pc = "record" /\ Knows(req[r])
  BY InFlight DEF RecordMock
<1>4. Knows(s) /\ req[r].pc \in Earning /\ order[req[r].order] = "paid"
  BY <1>2, <1>3 DEF Knows, Earning
<1>5. req' = [req EXCEPT ![r] = s]
  BY <1>1 DEF RecordMock, GoesTo
<1>6. QED
  BY <1>2, <1>3, <1>4, <1>5, PaymentRecorded DEF RecordMock

LEMMA LogEntries ==
  ASSUME PaymentInv
  PROVE  \A i \in DOMAIN log : log[i] \in LogRow /\ log[i].source \in Orders \cup {None}
<1>1. log \in Seq(LogRow)
  BY DEF PaymentInv, TypeOK
<1>2. \A i \in DOMAIN log : log[i] \in LogRow
  BY <1>1
<1>3. \A entry \in LogRow : entry.source \in Orders \cup {None}
  BY DEF LogRow
<1>4. QED
  BY <1>2, <1>3

\* MarkPaid succeeds for an order that waits, so that nobody earned it before.
LEMMA MarkOrderPaidStep ==
  ASSUME PaymentInv, NEW r \in Requests, MarkOrderPaid(r)
  PROVE  PaymentInv'
<1>1. PICK o \in Orders : o = req[r].order
  BY InFlight DEF MarkOrderPaid, Knows
<1>2. /\ req[r].pc = "mark" /\ order[o] = "pending_pay"
      /\ order' = [order EXCEPT ![o] = "paid"]
      /\ UNCHANGED <<production, payment, taken, acked, points, log>>
  BY <1>1 DEF MarkOrderPaid, Payable
<1>3. order \in [Orders -> {"pending_pay", "paid", "cancelled"}]
  BY DEF PaymentInv, TypeOK
<1>4. /\ order' \in [Orders -> {"pending_pay", "paid", "cancelled"}]
      /\ \A q \in Orders : order'[q] = IF q = o THEN "paid" ELSE order[q]
  BY <1>2, <1>3
<1>5. RowsStay
  BY <1>2, <1>4 DEF RowsStay
<1>6. PICK stage \in {"points", "record"} :
        /\ stage = IF req[r].callback THEN "points" ELSE "record"
        /\ req' = [req EXCEPT ![r] = [req[r] EXCEPT !.pc = stage]]
  BY DEF MarkOrderPaid, GoesTo
<1>7. PICK s \in RequestState :
        /\ req' = [req EXCEPT ![r] = s]
        /\ s.pc = stage /\ s.order = o
        /\ s.payment = req[r].payment /\ s.callback = req[r].callback
  <2>1. PICK s : s = [req[r] EXCEPT !.pc = stage]
    OBVIOUS
  <2>2. /\ s \in RequestState /\ s.pc = stage /\ s.order = req[r].order
        /\ s.payment = req[r].payment /\ s.callback = req[r].callback
    BY <2>1, InFlight DEF RequestState
  <2>3. req' = [req EXCEPT ![r] = s]
    BY <1>6, <2>1
  <2>4. QED
    BY <1>1, <2>2, <2>3
<1>8. Knows(req[r]) /\ production \in BOOLEAN
  BY InFlight DEF PaymentInv, TypeOK
<1>9. s.pc \in {"points", "record"} /\ s.callback = production
      /\ (s.pc = "record" => ~production)
  BY <1>2, <1>6, <1>7, <1>8 DEF Knows
<1>10. Knows(s)'
  BY <1>1, <1>2, <1>4, <1>7, <1>8, <1>9 DEF Knows, Earning
<1>11. req' \in [Requests -> RequestState] /\ (\A q \in Requests : Knows(req[q])')
  BY <1>5, <1>7, <1>10, RequestMoves
<1>12. OneEarner'
  <2>1. \A q \in Requests : req'[q] = IF q = r THEN s ELSE req[q]
    BY <1>7 DEF PaymentInv, TypeOK
  <2>2. \A q \in Requests : req[q].pc \in Earning => req[q].order # o
    BY <1>2, InFlight DEF Knows
  <2>3. \A i \in DOMAIN log : log[i].source # o
    BY <1>2 DEF PaymentInv, PointsOncePerOrder
  <2>4. QED
    BY <1>2, <1>7, <2>1, <2>2, <2>3 DEF OneEarner, PaymentInv
<1>13. PaidOrderIsPaidFor'
  BY <1>1, <1>2, <1>4, <1>8 DEF PaymentInv, PaidOrderIsPaidFor, Knows
<1>14. RecordedAfterOrder' /\ PointsOncePerOrder'
  <2>1. \A i \in DOMAIN log : log[i].source \in Orders \cup {None}
    BY LogEntries
  <2>2. \A p \in Payments : payment[p].status = "paid" => payment[p].order \in Orders
    BY DEF PaymentInv, PaymentsHaveOrders
  <2>3. RecordedAfterOrder'
    BY <1>2, <1>4, <2>2 DEF PaymentInv, RecordedAfterOrder
  <2>4. PointsOncePerOrder'
    BY <1>2, <1>4, <2>1 DEF PaymentInv, PointsOncePerOrder
  <2>5. QED
    BY <2>3, <2>4
<1>15. QED
  BY <1>2, <1>4, <1>11, <1>12, <1>13, <1>14 DEF PaymentInv, TypeOK,
     PaymentsHaveOrders, TakenInProduction

\* A balance is credited; nothing else reads it.
LEMMA CreditPointsStep ==
  ASSUME PaymentInv, NEW r \in Requests, CreditPoints(r)
  PROVE  PaymentInv'
<1>1. PICK s : s = [req[r] EXCEPT !.pc = "log"]
  OBVIOUS
<1>2. /\ s \in RequestState /\ s.pc = "log" /\ s.order = req[r].order
      /\ s.payment = req[r].payment /\ s.callback = req[r].callback
  BY <1>1, InFlight, StageType
<1>3. req[r].pc = "credit" /\ Knows(req[r])
  BY InFlight DEF CreditPoints
<1>4. Knows(s) /\ req[r].pc \in Earning
  BY <1>2, <1>3 DEF Knows, Earning
<1>5. points' \in Nat
  <2>1. req[r].before \in Nat
    BY InFlight DEF RequestState
  <2>2. req[r].order \in Orders
    BY <1>3 DEF Knows
  <2>3. QED
    BY <2>1, <2>2 DEF CreditPoints
<1>6. req' = [req EXCEPT ![r] = s]
  BY <1>1 DEF CreditPoints, GoesTo
<1>7. RowsStay
  BY DEF CreditPoints, RowsStay
<1>8. Knows(s)'
  BY <1>2, <1>4, <1>7, KnowsKept
<1>9. req' \in [Requests -> RequestState] /\ (\A q \in Requests : Knows(req[q])')
  BY <1>2, <1>6, <1>7, <1>8, RequestMoves
<1>10. OneEarner'
  BY <1>2, <1>4, <1>6, EarnersKept DEF CreditPoints
<1>11. QED
  BY <1>5, <1>9, <1>10 DEF CreditPoints, PaymentInv, TypeOK, PaymentsHaveOrders,
     TakenInProduction, PaidOrderIsPaidFor, RecordedAfterOrder, PointsOncePerOrder

LEMMA AppendEntry ==
  ASSUME PaymentInv, NEW entry \in LogRow, log' = Append(log, entry)
  PROVE  /\ log' \in Seq(LogRow)
         /\ DOMAIN log' = DOMAIN log \cup {Len(log) + 1}
         /\ Len(log) + 1 \notin DOMAIN log
         /\ log'[Len(log) + 1] = entry
         /\ \A i \in DOMAIN log : log'[i] = log[i]
<1>1. log \in Seq(LogRow)
  BY DEF PaymentInv, TypeOK
<1>2. QED
  BY <1>1

\* The entry is the first about its order, and with it the request stops earning.
LEMMA LogPointsStep ==
  ASSUME PaymentInv, NEW r \in Requests, LogPoints(r)
  PROVE  PaymentInv'
<1>1. PICK entry : entry = [source |-> req[r].order, before |-> req[r].before,
                            change |-> Earned[req[r].order]]
  OBVIOUS
<1>2. req[r].pc = "log" /\ req[r].order \in Orders /\ order[req[r].order] = "paid"
  BY InFlight DEF LogPoints, Knows, Earning
<1>3. req[r].before \in Nat
  BY InFlight DEF RequestState
<1>4. entry \in LogRow /\ entry.source = req[r].order
  BY <1>1, <1>2, <1>3 DEF LogRow
<1>5. log' = Append(log, entry)
  BY <1>1 DEF LogPoints
<1>6. /\ log' \in Seq(LogRow)
      /\ DOMAIN log' = DOMAIN log \cup {Len(log) + 1}
      /\ Len(log) + 1 \notin DOMAIN log
      /\ log'[Len(log) + 1] = entry
      /\ \A i \in DOMAIN log : log'[i] = log[i]
  BY <1>4, <1>5, AppendEntry
<1>7. req' = [req EXCEPT ![r] = Idle] /\ acked' \subseteq Payments
  BY <1>2, ReturnsAcks DEF LogPoints
<1>8. RowsStay
  BY DEF LogPoints, RowsStay
<1>9. req' \in [Requests -> RequestState] /\ (\A q \in Requests : Knows(req[q])')
  BY <1>7, <1>8, IdleKnows, RequestMoves
<1>10. \A i \in DOMAIN log : log[i].source # req[r].order
  BY <1>2 DEF PaymentInv, OneEarner, Earning
<1>11. OneEarner'
  <2>1. \A q \in Requests : req'[q] = IF q = r THEN Idle ELSE req[q]
    BY <1>7 DEF PaymentInv, TypeOK
  <2>2. \A q \in Requests : req'[q].pc \in Earning => q # r /\ req'[q] = req[q]
    BY <2>1, IdleKnows DEF Earning
  <2>3. \A q \in Requests : req'[q].pc \in Earning => req'[q].order # req[r].order
    BY <1>2, <2>2 DEF PaymentInv, OneEarner, Earning
  <2>4. QED
    BY <1>4, <1>6, <2>2, <2>3 DEF PaymentInv, OneEarner
<1>12. PointsOncePerOrder'
  BY <1>2, <1>4, <1>6, <1>10 DEF LogPoints, PaymentInv, PointsOncePerOrder
<1>13. QED
  BY <1>6, <1>7, <1>9, <1>11, <1>12 DEF LogPoints, PaymentInv, TypeOK,
     PaymentsHaveOrders, TakenInProduction, PaidOrderIsPaidFor, RecordedAfterOrder

-----------------------------------------------------------------------------
(* The steps of others *)

LEMMA WechatPaysStep ==
  ASSUME PaymentInv, NEW p \in Payments, WechatPays(p)
  PROVE  PaymentInv'
<1>1. RowsStay
  BY DEF WechatPays, RowsStay
<1>2. \A q \in Requests : Knows(req[q])'
  BY <1>1, RequestsKept DEF WechatPays
<1>3. PaidOrderIsPaidFor' /\ TakenInProduction'
  BY DEF WechatPays, PaymentInv, PaidOrderIsPaidFor, TakenInProduction
<1>4. QED
  BY <1>2, <1>3 DEF WechatPays, PaymentInv, TypeOK, PaymentsHaveOrders,
     RecordedAfterOrder, OneEarner, PointsOncePerOrder

LEMMA CancelOrderStep ==
  ASSUME PaymentInv, NEW o \in Orders, CancelOrder(o)
  PROVE  PaymentInv'
<1>1. order \in [Orders -> {"pending_pay", "paid", "cancelled"}]
  BY DEF PaymentInv, TypeOK
<1>2. /\ order' \in [Orders -> {"pending_pay", "paid", "cancelled"}]
      /\ \A q \in Orders : (order'[q] = "paid") <=> (order[q] = "paid")
  BY <1>1 DEF CancelOrder
<1>3. RowsStay
  BY <1>2 DEF CancelOrder, RowsStay
<1>4. \A q \in Requests : Knows(req[q])'
  BY <1>3, RequestsKept DEF CancelOrder
<1>5. RecordedAfterOrder'
  BY <1>2 DEF CancelOrder, PaymentInv, PaymentsHaveOrders, RecordedAfterOrder
<1>6. PointsOncePerOrder'
  BY <1>2, LogEntries DEF CancelOrder, PaymentInv, PointsOncePerOrder
<1>7. PaidOrderIsPaidFor'
  BY <1>2 DEF CancelOrder, PaymentInv, PaidOrderIsPaidFor
<1>8. QED
  BY <1>2, <1>4, <1>5, <1>6, <1>7 DEF CancelOrder, PaymentInv, TypeOK,
     PaymentsHaveOrders, TakenInProduction, OneEarner

\* The admin's entries are about no order.
LEMMA AdjustPointsStep ==
  ASSUME PaymentInv, NEW n \in Adjustments, AdjustPoints(n)
  PROVE  PaymentInv'
<1>1. PICK entry : entry = [source |-> None, before |-> points, change |-> n]
  OBVIOUS
<1>2. points \in Nat /\ n \in Int
  BY DEF PaymentInv, TypeOK
<1>3. entry \in LogRow /\ entry.source = None
  BY <1>1, <1>2 DEF LogRow
<1>4. log' = Append(log, entry)
  BY <1>1 DEF AdjustPoints
<1>5. /\ log' \in Seq(LogRow)
      /\ DOMAIN log' = DOMAIN log \cup {Len(log) + 1}
      /\ Len(log) + 1 \notin DOMAIN log
      /\ log'[Len(log) + 1] = entry
      /\ \A i \in DOMAIN log : log'[i] = log[i]
  BY <1>3, <1>4, AppendEntry
<1>6. points' \in Nat
  BY <1>2 DEF AdjustPoints, Adjustable
<1>7. RowsStay
  BY DEF AdjustPoints, RowsStay
<1>8. \A q \in Requests : Knows(req[q])'
  BY <1>7, RequestsKept DEF AdjustPoints
<1>9. \A q \in Requests : req[q].pc \in Earning => req[q].order # None
  <2>1. \A q \in Requests : req[q].pc \in Earning => req[q].order \in Orders
    BY InFlight DEF Knows, Earning
  <2>2. QED
    BY <2>1
<1>10. OneEarner' /\ PointsOncePerOrder'
  BY <1>3, <1>5, <1>9 DEF AdjustPoints, PaymentInv, OneEarner, PointsOncePerOrder
<1>11. QED
  BY <1>5, <1>6, <1>8, <1>10 DEF AdjustPoints, PaymentInv, TypeOK, PaymentsHaveOrders,
     TakenInProduction, PaidOrderIsPaidFor, RecordedAfterOrder

-----------------------------------------------------------------------------
(* The theorems *)

LEMMA InitPayment == Init => PaymentInv
<1> SUFFICES ASSUME Init PROVE PaymentInv
  OBVIOUS
<1>1. TypeOK
  BY IdleKnows DEF Init, TypeOK, PaymentRow, NoPayment
<1>2. \A r \in Requests : Knows(req[r])
  BY IdleKnows DEF Init
<1>3. PaymentsHaveOrders /\ TakenInProduction /\ RecordedAfterOrder /\ PaidOrderIsPaidFor
  BY DEF Init, NoPayment, PaymentsHaveOrders, TakenInProduction, RecordedAfterOrder,
     PaidOrderIsPaidFor
<1>4. OneEarner /\ PointsOncePerOrder
  BY IdleKnows DEF Init, OneEarner, PointsOncePerOrder, Earning
<1>5. QED
  BY <1>1, <1>2, <1>3, <1>4 DEF PaymentInv

LEMMA PaymentStutter ==
  ASSUME PaymentInv, UNCHANGED vars
  PROVE  PaymentInv'
<1>1. RowsStay
  BY DEF vars, RowsStay
<1>2. \A q \in Requests : Knows(req[q])'
  BY <1>1, RequestsKept DEF vars
<1>3. QED
  BY <1>2 DEF vars, PaymentInv, TypeOK, PaymentsHaveOrders, TakenInProduction,
     PaidOrderIsPaidFor, RecordedAfterOrder, OneEarner, PointsOncePerOrder

LEMMA PayStepKeeps ==
  ASSUME PaymentInv, NEW r \in Requests, PayStep(r)
  PROVE  PaymentInv'
<1>1. ASSUME NEW o \in Orders, Create(r, o)
      PROVE  PaymentInv'
  BY <1>1, CreateStep
<1>2. CASE InsertPayment(r) \/ MarkOrderPaid(r) \/ RecordMock(r)
  BY <1>2, InsertPaymentStep, MarkOrderPaidStep, RecordMockStep
<1>3. CASE ReadPoints(r) \/ CreditPoints(r) \/ LogPoints(r) \/ SkipPoints(r) \/ Fails(r)
  BY <1>3, ReadPointsStep, CreditPointsStep, LogPointsStep, SkipPointsStep, FailsStep
<1>4. QED
  BY <1>1, <1>2, <1>3 DEF PayStep

LEMMA HandleCallbackKeeps ==
  ASSUME PaymentInv, NEW r \in Requests, HandleCallback(r)
  PROVE  PaymentInv'
<1>1. ASSUME NEW p \in Payments, NotifiedAgain(r, p) \/ Notified(r, p)
      PROVE  PaymentInv'
  BY <1>1, NotifiedAgainStep, NotifiedStep
<1>2. QED
  BY <1>1, RecordNotifiedStep DEF HandleCallback

LEMMA AroundKeeps ==
  ASSUME PaymentInv, Around
  PROVE  PaymentInv'
  BY WechatPaysStep, CancelOrderStep, AdjustPointsStep DEF Around

\* However notifications, calls that die, cancellations and the admin's changes
\* overlap, rows and requests keep what is known of them.
THEOREM PaymentInvariant == Spec => []PaymentInv
<1>1. ASSUME PaymentInv, [Next]_vars
      PROVE  PaymentInv'
  BY <1>1, PayStepKeeps, HandleCallbackKeeps, AroundKeeps, PaymentStutter DEF Next
<1>2. QED
  BY InitPayment, <1>1, PTL DEF Spec

\* Every row and every request keeps its type, and the balance of points is
\* never negative, whatever the points of an order and the admin's changes.
THEOREM PaymentTypeCorrect == Spec => []TypeOK
<1>1. PaymentInv => TypeOK
  BY DEF PaymentInv
<1>2. QED
  BY PaymentInvariant, <1>1, PTL

\* In production no order is paid without WeChat's money for it, for any number
\* of orders, payments and overlapping notifications (HandleCallback, MarkPaid).
THEOREM PaidForInProduction == Spec => []PaidOrderIsPaidFor
<1>1. PaymentInv => PaidOrderIsPaidFor
  BY DEF PaymentInv
<1>2. QED
  BY PaymentInvariant, <1>1, PTL

\* Outside production the payment's row follows its order (markPaymentPaid).
THEOREM RecordFollowsOrder == Spec => []RecordedAfterOrder
<1>1. PaymentInv => RecordedAfterOrder
  BY DEF PaymentInv
<1>2. QED
  BY PaymentInvariant, <1>1, PTL

\* grantPoints writes one log entry for an order at most, and only once it is
\* paid, for any number of payments and repeated notifications.
THEOREM OrderEarnsOnce == Spec => []PointsOncePerOrder
<1>1. PaymentInv => PointsOncePerOrder
  BY DEF PaymentInv
<1>2. QED
  BY PaymentInvariant, <1>1, PTL

-----------------------------------------------------------------------------
(* Orders as the other services see them *)

\* The machine that OrdersAsPaymentsSeeThem of AfterSaleProofs shows the order
\* service and after-sales to implement, at the orders of Payment.
OrderLife == INSTANCE OrderLifecycle WITH
  Edges <- {<<"pending_pay", "paid">>, <<"pending_pay", "cancelled">>},
  status <- order

\* The orders of Payment, which are placed before it starts, move as those of the
\* services do: no payment, notification or repetition of one asks for more.
THEOREM PaymentsMoveOrders == Spec => [][OrderLife!Next]_order
<1>1. ASSUME PaymentInv, NEW o \in Orders, Payable(o), NEW s \in {"paid", "cancelled"},
             order' = [order EXCEPT ![o] = s]
      PROVE  OrderLife!Next
  <2>1. OrderLife!Move(o)
    BY <1>1 DEF OrderLife!Move, OrderLife!OrderStatus, Payable
  <2>2. QED
    BY <2>1 DEF OrderLife!Next
<1>2. ASSUME PaymentInv, NEW r \in Requests, MarkOrderPaid(r)
      PROVE  OrderLife!Next
  <2>1. PICK o \in Orders : o = req[r].order
    BY <1>2 DEF PaymentInv, Knows, MarkOrderPaid
  <2>2. QED
    BY <1>1, <1>2, <2>1 DEF MarkOrderPaid
<1>3. ASSUME PaymentInv, NEW o \in Orders, CancelOrder(o)
      PROVE  OrderLife!Next
  BY <1>1, <1>3 DEF CancelOrder, Payable
<1>4. ASSUME NEW r \in Requests, PayStep(r) \/ HandleCallback(r), ~MarkOrderPaid(r)
      PROVE  UNCHANGED order
  BY <1>4 DEF PayStep, HandleCallback, Create, InsertPayment, NotifiedAgain, Notified,
     RecordNotified, RecordMock, ReadPoints, CreditPoints, LogPoints, SkipPoints, Fails
<1>5. ASSUME \/ \E p \in Payments : WechatPays(p)
             \/ \E n \in Adjustments : AdjustPoints(n)
             \/ UNCHANGED vars
      PROVE  UNCHANGED order
  BY <1>5 DEF WechatPays, AdjustPoints, vars
<1>6. PaymentInv /\ [Next]_vars => [OrderLife!Next]_order
  BY <1>2, <1>3, <1>4, <1>5 DEF Next, Around
<1>7. QED
  BY <1>6, PaymentInvariant, PTL DEF Spec
=============================================================================
