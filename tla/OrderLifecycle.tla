--------------------------- MODULE OrderLifecycle ---------------------------
(***************************************************************************)
(* What the order component promises about the status column of an order:  *)
(* it is created pending_pay and then only ever moves along the edges the  *)
(* operations of the mall are allowed to take.  Nothing is said of stock,  *)
(* coupons, requests or transactions.  The modules that model the code     *)
(* implement this one through a refinement mapping.                        *)
(***************************************************************************)
CONSTANTS
  Orders,  \* order identifiers
  Edges    \* the pairs <<from, to>> an existing order may move along

\* The values of orders.status, and "none" for an order not yet inserted.
OrderStatus == {"pending_pay", "paid", "preparing", "shipped", "delivered",
                "completed", "cancelled", "refunding", "refunded"}
NoStatus == "none"
StatusOrNone == OrderStatus \cup {NoStatus}

VARIABLE status  \* [Orders -> StatusOrNone]

Init == status = [o \in Orders |-> NoStatus]

\* An order is inserted, always waiting for its payment.
Place(o) ==
  /\ status[o] = NoStatus
  /\ status' = [status EXCEPT ![o] = "pending_pay"]

\* An existing order moves along one edge.
Move(o) ==
  \E s \in OrderStatus :
    /\ status[o] \in OrderStatus
    /\ <<status[o], s>> \in Edges
    /\ status' = [status EXCEPT ![o] = s]

Next == \E o \in Orders : Place(o) \/ Move(o)

Spec == Init /\ [][Next]_status
=============================================================================
