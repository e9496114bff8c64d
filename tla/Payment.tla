------------------------------ MODULE Payment -------------------------------
(***************************************************************************)
(* Payments of member orders and the points they earn: PaymentService and  *)
(* MemberService.AdminAdjustPoints, for the orders of one member.          *)
(*                                                                         *)
(* In production the payment is made at WeChat, which notifies the program *)
(* and repeats the notification until it is acknowledged; anywhere else    *)
(* Create marks the payment paid itself.                                   *)
(*                                                                         *)
(* At this commit nothing calls PaymentService.HandleCallback: the route   *)
(* of the notification leads to WechatCallback, a placeholder that answers *)
(* with success and does nothing else, and PlaceJSAPIOrder, which is to    *)
(* prepare the payment at WeChat, is one too.  What is here of production  *)
(* is the service with the notifications it is written for; that WeChat's  *)
(* notifications reach it in the end is not claimed.                       *)
(*                                                                         *)
(* Nothing here runs in a transaction except AdminAdjustPoints and the     *)
(* order's own transition, so every statement is a step.  That transition, *)
(* OrderService.MarkPaid, is one step: no order ever returns to            *)
(* pending_pay (OrderTrade and AfterSale), so its SELECT and its UPDATE    *)
(* succeed together or not at all.                                         *)
(*                                                                         *)
(* Operators named ...Anyway, ...Nowhere and ...Skipped are not part of    *)
(* the specification: each is the definition below it with a plausible     *)
(* defect, kept to see that a property can fail.                           *)
(***************************************************************************)
EXTENDS Integers, Sequences

CONSTANTS
  Orders,      \* orders of the member, placed and waiting for payment
  Payments,    \* the payments rows a run may insert
  Requests,    \* requests and notifications that can be in flight together
  Productions, \* the environments a run starts in: TRUE for "production"
  Earned,      \* [Orders -> Nat], the points of each order
  Adjustments, \* the changes of points the admin enters
  MaxLogs,     \* bound: the admin stops adjusting at this many log entries
  None

ASSUME PaymentAssumption ==
  /\ Productions \subseteq BOOLEAN
  /\ Earned \in [Orders -> Nat]
  /\ Adjustments \subseteq Int
  /\ MaxLogs \in Nat
  /\ None \notin Orders \cup Payments

VARIABLES
  production, \* the environment, fixed when the program starts
  order,    \* [Orders -> status]; "paid" also stands for what follows it
  payment,  \* [Payments -> PaymentRow]
  taken,    \* the payments WeChat has taken the money for
  acked,    \* the payments whose notification was answered with success
  points,   \* members.points
  log,      \* points_logs, in insertion order
  req       \* [Requests -> RequestState]

vars == <<production, order, payment, taken, acked, points, log, req>>

-----------------------------------------------------------------------------
(* Rows and requests *)

PaymentRow == [status : {"none", "pending", "paid"}, order : Orders \cup {None}]
NoPayment == [status |-> "none", order |-> None]

LogRow == [source : Orders \cup {None}, before : Nat, change : Int]

\* "insert" and "record" are stages of Create, "notified" of HandleCallback,
\* "mark", "points", "credit" and "log" of both.
RequestState ==
  [pc : {"idle", "insert", "notified", "mark", "record", "points", "credit", "log"},
   callback : BOOLEAN,               \* it is a notification
   order : Orders \cup {None},
   payment : Payments \cup {None},
   before : Nat]                     \* points as they were read

Idle == [pc |-> "idle", callback |-> FALSE, order |-> None, payment |-> None,
         before |-> 0]

Starts(r, state) ==
  /\ req[r].pc = "idle"
  /\ req' = [req EXCEPT ![r] = state]

GoesTo(r, pc) == req' = [req EXCEPT ![r] = [@ EXCEPT !.pc = pc]]

\* The service returns without an error; for a notification that is the answer
\* that stops WeChat from repeating it.
Returns(r) ==
  /\ req' = [req EXCEPT ![r] = Idle]
  /\ acked' = IF req[r].callback THEN acked \cup {req[r].payment} ELSE acked

\* An error is returned, or the process dies.
Fails(r) ==
  /\ req[r].pc # "idle"
  /\ req' = [req EXCEPT ![r] = Idle]
  /\ UNCHANGED <<production, order, payment, taken, acked, points, log>>

-----------------------------------------------------------------------------
(* Create, and what WeChat does with the payment *)

Create(r, o) ==
  /\ order[o] = "pending_pay"
  /\ Starts(r, [Idle EXCEPT !.pc = "insert", !.order = o])
  /\ UNCHANGED <<production, order, payment, taken, acked, points, log>>

\* Where the member pays, and the stage that follows the INSERT elsewhere.
PaysAtWechatNowhere == FALSE
PaysAtWechat == production
AfterInsertSkipped == "record"
AfterInsert == "mark"

InsertPayment(r) ==
  \E p \in Payments :
    /\ req[r].pc = "insert"
    /\ payment[p].status = "none"
    /\ payment' = [payment EXCEPT ![p] = [status |-> "pending", order |-> req[r].order]]
    /\ req' = [req EXCEPT ![r] = IF PaysAtWechat THEN Idle
                                 ELSE [@ EXCEPT !.pc = AfterInsert, !.payment = p]]
    /\ UNCHANGED <<production, order, taken, acked, points, log>>

\* The member pays at WeChat.  Nothing closes a payment when its order is
\* cancelled or paid by another one.
WechatPays(p) ==
  /\ production
  /\ payment[p].status = "pending"
  /\ taken' = taken \cup {p}
  /\ UNCHANGED <<production, order, payment, acked, points, log, req>>

\* OrderService.Cancel.
CancelOrder(o) ==
  /\ order[o] = "pending_pay"
  /\ order' = [order EXCEPT ![o] = "cancelled"]
  /\ UNCHANGED <<production, payment, taken, acked, points, log, req>>

-----------------------------------------------------------------------------
(* HandleCallback *)

\* A payment already recorded as paid is answered with success at once.
NotifiedAgain(r, p) ==
  /\ p \in taken \ acked
  /\ req[r].pc = "idle"
  /\ payment[p].status = "paid"
  /\ acked' = acked \cup {p}
  /\ UNCHANGED <<production, order, payment, taken, points, log, req>>

Notified(r, p) ==
  /\ p \in taken \ acked
  /\ payment[p].status # "paid"
  /\ Starts(r, [Idle EXCEPT !.pc = "notified", !.callback = TRUE,
                            !.order = payment[p].order, !.payment = p])
  /\ UNCHANGED <<production, order, payment, taken, acked, points, log>>

\* The statuses OrderService.MarkPaid accepts.
PayableAnyway(o) == TRUE
Payable(o) == order[o] = "pending_pay"

\* The payment's row is written, WHERE only its id.
WritePaid(r) ==
  payment' = [payment EXCEPT ![req[r].payment] = [@ EXCEPT !.status = "paid"]]

RecordNotified(r) ==
  /\ req[r].pc = "notified"
  /\ WritePaid(r)
  /\ GoesTo(r, "mark")
  /\ UNCHANGED <<production, order, taken, acked, points, log>>

-----------------------------------------------------------------------------
(* Shared by both ways of paying *)

\* OrderService.MarkPaid.  Its error is Fails.
MarkOrderPaid(r) ==
  LET o == req[r].order IN
  /\ req[r].pc = "mark"
  /\ Payable(o)
  /\ order' = [order EXCEPT ![o] = "paid"]
  /\ GoesTo(r, IF req[r].callback THEN "points" ELSE "record")
  /\ UNCHANGED <<production, payment, taken, acked, points, log>>

\* markPaymentPaid writes the payment after the order.
RecordMock(r) ==
  /\ req[r].pc = "record"
  /\ WritePaid(r)
  /\ GoesTo(r, "points")
  /\ UNCHANGED <<production, order, taken, acked, points, log>>

\* grantPoints reads the balance, writes the new one and then the log.
ReadPoints(r) ==
  /\ req[r].pc = "points"
  /\ req' = [req EXCEPT ![r] = [@ EXCEPT !.pc = "credit", !.before = points]]
  /\ UNCHANGED <<production, order, payment, taken, acked, points, log>>

CreditPoints(r) ==
  /\ req[r].pc = "credit"
  /\ points' = req[r].before + Earned[req[r].order]
  /\ GoesTo(r, "log")
  /\ UNCHANGED <<production, order, payment, taken, acked, log>>

LogPoints(r) ==
  /\ req[r].pc = "log"
  /\ log' = Append(log, [source |-> req[r].order, before |-> req[r].before,
                         change |-> Earned[req[r].order]])
  /\ Returns(r)
  /\ UNCHANGED <<production, order, payment, taken, points>>

\* Points are a best effort: what stops them, a setting or a failed statement,
\* is not an error of the payment.
SkipPoints(r) ==
  /\ req[r].pc \in {"points", "credit", "log"}
  /\ IF req[r].pc = "credit" THEN GoesTo(r, "log") /\ UNCHANGED acked ELSE Returns(r)
  /\ UNCHANGED <<production, order, payment, taken, points, log>>

-----------------------------------------------------------------------------
(* AdminAdjustPoints locks the member's row for its transaction. *)

AdjustableAnyway(n) == TRUE
Adjustable(n) == points + n >= 0

AdjustPoints(n) ==
  /\ Len(log) < MaxLogs
  /\ Adjustable(n)
  /\ points' = points + n
  /\ log' = Append(log, [source |-> None, before |-> points, change |-> n])
  /\ UNCHANGED <<production, order, payment, taken, acked, req>>

-----------------------------------------------------------------------------
(* The specification *)

Init ==
  /\ production \in Productions
  /\ order = [o \in Orders |-> "pending_pay"]
  /\ payment = [p \in Payments |-> NoPayment]
  /\ taken = {}
  /\ acked = {}
  /\ points = 0
  /\ log = << >>
  /\ req = [r \in Requests |-> Idle]

PayStep(r) ==
  \/ \E o \in Orders : Create(r, o)
  \/ InsertPayment(r)
  \/ MarkOrderPaid(r)
  \/ RecordMock(r)
  \/ ReadPoints(r)
  \/ CreditPoints(r)
  \/ LogPoints(r)
  \/ SkipPoints(r)
  \/ Fails(r)

HandleCallback(r) ==
  \/ \E p \in Payments : NotifiedAgain(r, p) \/ Notified(r, p)
  \/ RecordNotified(r)

\* WeChat, the order service and the admin.
Around ==
  \/ \E p \in Payments : WechatPays(p)
  \/ \E o \in Orders : CancelOrder(o)
  \/ \E n \in Adjustments : AdjustPoints(n)

Next ==
  \/ \E r \in Requests : PayStep(r) \/ HandleCallback(r)
  \/ Around

Spec == Init /\ [][Next]_vars

-----------------------------------------------------------------------------
(* Properties *)

\* Every variable has its type; the balance in particular is never negative.
TypeOK ==
  /\ production \in BOOLEAN
  /\ order \in [Orders -> {"pending_pay", "paid", "cancelled"}]
  /\ payment \in [Payments -> PaymentRow]
  /\ taken \subseteq Payments
  /\ acked \subseteq Payments
  /\ points \in Nat
  /\ log \in Seq(LogRow)
  /\ req \in [Requests -> RequestState]

\* In production an order is only ever paid because WeChat took the money of
\* one of its payments.
PaidOrderIsPaidFor ==
  production =>
    \A o \in Orders :
      order[o] = "paid" => \E p \in taken : payment[p].order = o

\* However often an order is paid or notified, it earns points at most once,
\* and only if it was paid: the second MarkPaid fails before grantPoints.
PointsOncePerOrder ==
  \A i \in DOMAIN log :
    LET o == log[i].source IN
    o # None =>
      /\ order[o] = "paid"
      /\ \A j \in DOMAIN log : log[j].source = o => j = i

\* Outside production a payment is recorded as paid only after its order is.
RecordedAfterOrder ==
  ~production =>
    \A p \in Payments :
      payment[p].status = "paid" => order[payment[p].order] = "paid"

\* "Written to points_logs and added to member.points", says the comment of grantPoints:
\* a credit adds what the order earns to the balance there is.  A change of the balance
\* between grantPoints' read and its UPDATE breaks it: the change is overwritten.
CreditsAreAdded ==
  [][\A r \in Requests :
       CreditPoints(r) => points' = points + Earned[req[r].order]]_vars

\* A repeated notification is answered with success because its work is done
\* ("idempotent"): the order no longer waits for its payment.
AcknowledgedIsDone ==
  \A p \in acked : order[payment[p].order] # "pending_pay"
=============================================================================
