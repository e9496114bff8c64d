----------------------------- MODULE AfterSale ------------------------------
(***************************************************************************)
(* After-sale requests (refunds and returns): AfterSaleService, composed   *)
(* with the order service of OrderTrade, whose orders and stock it writes. *)
(*                                                                         *)
(* As in OrderTrade, a SELECT is a step of its own and the statements from *)
(* the first write of a transaction to its COMMIT are one step.  Reasons,  *)
(* images, amounts and shipping carriers are checked in the code before    *)
(* any row is written and are left out; a refused call takes HangUp.       *)
(*                                                                         *)
(* Operators named ...Unchecked, ...WithUnpaid, ...PaidOnly and ...Kept    *)
(* are not part of the specification: each is the definition below it with *)
(* a plausible defect, kept to see that a property can fail.               *)
(***************************************************************************)
EXTENDS OrderTrade

CONSTANTS
  AfterSales,  \* the after_sale_orders rows a run may insert
  Calls        \* after-sale requests that can be in flight together

VARIABLES
  afterSale,   \* [AfterSales -> AfterSaleRow]
  call         \* [Calls -> CallState], where each after-sale request is

afterSaleVars == <<vars, afterSale, call>>

-----------------------------------------------------------------------------
(* Rows *)

ActiveStatuses == {"pending", "approved", "returning", "received"}
FinalStatuses == {"rejected", "refunded", "cancelled"}
AfterSaleStatus == ActiveStatuses \cup FinalStatuses \cup {"none"}

AfterSaleRow == [status : AfterSaleStatus,
                 order : Orders \cup {None},
                 type : {"refund", "return_refund"},
                 before : StatusOrNone]     \* order_status_before

NoAfterSale == [status |-> "none", order |-> None, type |-> "refund", before |-> "none"]

\* The statuses of an order for which a member may apply, and the one type of
\* after-sale each of them supports.
ApplyFromWithUnpaid == {"pending_pay", "paid", "preparing", "shipped", "delivered",
                        "completed"}
ApplyFrom == {"paid", "preparing", "shipped", "delivered", "completed"}
TypeForPaidOnly(status) == IF status \in {"paid", "preparing"} THEN "refund" ELSE "none"
TypeFor(status) == IF status \in {"paid", "preparing"} THEN "refund" ELSE "return_refund"

ActiveFor(o) ==
  {a \in AfterSales : afterSale[a].order = o /\ afterSale[a].status \in ActiveStatuses}

\* The moves that change the after-sale alone.
ApproveMove == [from |-> "pending", to |-> "approved"]
ReturnMove == [from |-> "approved", to |-> "returning"]
ReceiveMove == [from |-> "returning", to |-> "received"]
AfterSaleMoves == {ApproveMove, ReturnMove, ReceiveMove}

\* A refund needs the approval, and for a return the goods as well.
CanRefund(row) ==
  row.status = IF row.type = "refund" THEN "approved" ELSE "received"

-----------------------------------------------------------------------------
(* Calls *)

\* "count" and "open" are the stages of Apply, "finish" of Cancel and Reject,
\* "move" of the moves above, "refund" of Refund.
CallState ==
  [pc : {"idle", "count", "open", "finish", "move", "refund"},
   order : Orders \cup {None},           \* Apply: the order
   afterSale : AfterSales \cup {None},   \* the others: the row
   seen : StatusOrNone \cup AfterSaleStatus,  \* the status its SELECT returned
   to : AfterSaleStatus]                 \* the status it will write

NoCall == [pc |-> "idle", order |-> None, afterSale |-> None, seen |-> "none",
           to |-> "none"]

Dials(d, state) ==
  /\ call[d].pc = "idle"
  /\ call' = [call EXCEPT ![d] = state]
  /\ UNCHANGED <<vars, afterSale>>

HangsUp(d) == call' = [call EXCEPT ![d] = NoCall]

\* An early error return, a rolled back transaction or a process that dies.
HangUp(d) ==
  /\ call[d].pc # "idle"
  /\ HangsUp(d)
  /\ UNCHANGED <<vars, afterSale>>

-----------------------------------------------------------------------------
(* Apply *)

ApplyRead(d, o) ==
  /\ order[o].status \in ApplyFrom
  /\ Dials(d, [NoCall EXCEPT !.pc = "count", !.order = o, !.seen = order[o].status])

\* SELECT COUNT(*) of the order's after-sales that are not final.
NoneActive(o) == ActiveFor(o) = {}

ApplyCount(d) ==
  /\ call[d].pc = "count"
  /\ NoneActive(call[d].order)
  /\ call' = [call EXCEPT ![d] = [@ EXCEPT !.pc = "open"]]
  /\ UNCHANGED <<vars, afterSale>>

\* INSERT, then UPDATE the order WHERE status is still the one read.  That no
\* row may match is not an error: the after-sale is then open for an order that
\* is not refunding.
Open(d) ==
  LET o == call[d].order
      before == call[d].seen
  IN
  \E a \in AfterSales :
    /\ call[d].pc = "open"
    /\ afterSale[a].status = "none"
    /\ afterSale' = [afterSale EXCEPT ![a] =
                       [status |-> "pending", order |-> o,
                        type |-> TypeFor(before), before |-> before]]
    /\ order' = [order EXCEPT ![o].status = IF @ = before THEN "refunding" ELSE @]
    /\ logs' = [logs EXCEPT ![o] = Append(@, [before |-> before, after |-> "refunding"])]
    /\ HangsUp(d)
    /\ UNCHANGED <<product, stock, coupon, enabled, held, req>>

-----------------------------------------------------------------------------
(* Cancel by the member, Reject by the admin: finishWithRestore *)

FinishRead(d, a, to) ==
  /\ afterSale[a].status \in {"pending", "approved"}
  /\ Dials(d, [NoCall EXCEPT !.pc = "finish", !.afterSale = a,
                             !.seen = afterSale[a].status, !.to = to])

Cancels(d, a) == FinishRead(d, a, "cancelled")
Reject(d, a) == FinishRead(d, a, "rejected")

\* What the order's status becomes when the after-sale ends without a refund.
GivenBackKept(a) == order[afterSale[a].order].status
GivenBack(a) == afterSale[a].before

\* The UPDATE of the after-sale looks at its status, and whether it matched is
\* not looked at; the order gets its earlier status back in any case.
Finish(d) ==
  LET a == call[d].afterSale
      o == afterSale[a].order
  IN
  /\ call[d].pc = "finish"
  /\ afterSale' = [afterSale EXCEPT ![a].status =
                     IF @ = call[d].seen THEN call[d].to ELSE @]
  /\ order' = [order EXCEPT ![o].status = GivenBack(a)]
  /\ logs' = [logs EXCEPT ![o] =
                Append(@, [before |-> "refunding", after |-> afterSale[a].before])]
  /\ HangsUp(d)
  /\ UNCHANGED <<product, stock, coupon, enabled, held, req>>

-----------------------------------------------------------------------------
(* Approve, SubmitReturn, Receive: transitionAfterSaleScoped *)

MoveRead(d, a, move) ==
  /\ afterSale[a].status = move.from
  /\ ~(afterSale[a].type = "refund" /\ move = ReturnMove)
  /\ Dials(d, [NoCall EXCEPT !.pc = "move", !.afterSale = a,
                             !.seen = move.from, !.to = move.to])

Approve(d, a) == MoveRead(d, a, ApproveMove)
SubmitReturn(d, a) == MoveRead(d, a, ReturnMove)
Receive(d, a) == MoveRead(d, a, ReceiveMove)

MoveAfterSale(d) ==
  LET a == call[d].afterSale IN
  /\ call[d].pc = "move"
  /\ afterSale' = [afterSale EXCEPT ![a].status =
                     IF @ = call[d].seen THEN call[d].to ELSE @]
  /\ logs' = [logs EXCEPT ![afterSale[a].order] =
                Append(@, [before |-> "refunding", after |-> "refunding"])]
  /\ HangsUp(d)
  /\ UNCHANGED <<product, stock, order, coupon, enabled, held, req>>

-----------------------------------------------------------------------------
(* Refund *)

RefundRead(d, a) ==
  /\ CanRefund(afterSale[a])
  /\ Dials(d, [NoCall EXCEPT !.pc = "refund", !.afterSale = a,
                             !.seen = afterSale[a].status, !.to = "refunded"])

\* Here the UPDATE must match, or the transaction is rolled back.
StillSeenUnchecked(d) == TRUE
StillSeen(d) == afterSale[call[d].afterSale].status = call[d].seen

\* The order is refunded whatever its status, and its items put back.
Refund(d) ==
  LET a == call[d].afterSale
      o == afterSale[a].order
      back == RestoredLines(o)
  IN
  /\ call[d].pc = "refund"
  /\ StillSeen(d)
  /\ afterSale' = [afterSale EXCEPT ![a].status = "refunded"]
  /\ order' = [order EXCEPT ![o].status = "refunded"]
  /\ stock' = [k \in Keepers |-> stock[k] + back[k]]
  /\ held' = [held EXCEPT ![o] = [k \in Keepers |-> held[o][k] - back[k]]]
  /\ logs' = [logs EXCEPT ![o] =
                Append(@, [before |-> "refunding", after |-> "refunded"])]
  /\ HangsUp(d)
  /\ UNCHANGED <<product, coupon, enabled, req>>

-----------------------------------------------------------------------------
(* The specification *)

AfterSaleInit ==
  /\ Init
  /\ afterSale = [a \in AfterSales |-> NoAfterSale]
  /\ call = [d \in Calls |-> NoCall]

MemberCall(d) ==
  \/ \E o \in Orders : ApplyRead(d, o)
  \/ \E a \in AfterSales : Cancels(d, a) \/ SubmitReturn(d, a)

AdminCall(d) ==
  \E a \in AfterSales :
    \/ Approve(d, a)
    \/ Reject(d, a)
    \/ Receive(d, a)
    \/ RefundRead(d, a)

CallStep(d) ==
  \/ MemberCall(d) \/ AdminCall(d)
  \/ ApplyCount(d)
  \/ Open(d)
  \/ Finish(d)
  \/ MoveAfterSale(d)
  \/ Refund(d)
  \/ HangUp(d)

AfterSaleNext ==
  \/ Next /\ UNCHANGED <<afterSale, call>>
  \/ \E d \in Calls : CallStep(d)

AfterSaleSpec == AfterSaleInit /\ [][AfterSaleNext]_afterSaleVars

-----------------------------------------------------------------------------
(* Properties *)

\* Every variable has its type.
AfterSaleTypeOK ==
  /\ TypeOK
  /\ afterSale \in [AfterSales -> AfterSaleRow]
  /\ call \in [Calls -> CallState]

\* An order is never left refunding with nobody to take it out of there: some
\* after-sale of it is still open.  (The converse fails: two applications at a
\* time open two after-sales, and the first to end takes the order out.)
RefundingHasAfterSale ==
  \A o \in Orders : order[o].status = "refunding" => ActiveFor(o) # {}

RefundsOf(o) ==
  {a \in AfterSales : afterSale[a].order = o /\ afterSale[a].status = "refunded"}

\* What an order keeps off the shelf follows from its row and its refunds: all of
\* its items from the checkout on, nothing after a cancellation, and once less
\* for every refunded after-sale.  Items go back exactly once per refund, and
\* never for an after-sale that ended otherwise, whatever cancellations,
\* rejections and moves of the same order raced with it.  (Nothing is put back
\* on the shelf of a deleted product.)
RefundsPutBackOnce ==
  \A o \in Orders, k \in Keepers :
    ~Lost(k) => held[o][k] = Owed(o, k) * (1 - Cardinality(RefundsOf(o)))

\* An after-sale remembers a status its order can go back to, so that ending it
\* never brings a paid order back to waiting for payment, where it could be
\* cancelled and its items put back once more.
NeverUnpaid ==
  [][\A o \in Orders :
       order'[o].status \in {"pending_pay", "cancelled"} =>
         order[o].status \in {"none", "pending_pay", "cancelled"}]_afterSaleVars

\* "The present status of the after-sale does not allow this": a refunded order
\* is not given another status by cancelling or rejecting its after-sale.
RefundedStaysRefunded ==
  [][\A o \in Orders :
       order[o].status = "refunded" => order'[o].status = "refunded"]_afterSaleVars
=============================================================================
