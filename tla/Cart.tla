-------------------------------- MODULE Cart ---------------------------------
(***************************************************************************)
(* The cart of one member (CartService, CartRepo).  A line of the cart is  *)
(* a product, or a SKU of one; CartHandler parses the keys.  The shelf     *)
(* below it is moved by checkouts and by the merchant: here it changes at  *)
(* any time, OrderTrade says how.                                          *)
(*                                                                         *)
(* A line is read, checked against the shelf and saved in separate         *)
(* statements, and nothing locks it.  Prices, pictures, pages and the list *)
(* are left out: they are joined from the product on every read.           *)
(*                                                                         *)
(* CheckedAlone is not part of the specification: Checked with a plausible *)
(* defect, kept to see that the property can fail.                         *)
(***************************************************************************)
EXTENDS Calls

CONSTANTS
  Items,      \* what a line can be for
  SkuItems,   \* those that are SKUs: the product and the SKU are two reads
  MaxUnits,   \* no shelf and no line holds more (bound of the model)
  MaxLines    \* lines ever inserted (bound of the model)

ASSUME CartAssumption ==
  SkuItems \subseteq Items /\ MaxUnits \in Nat /\ MaxLines \in Nat

VARIABLES
  shelf,      \* [Items -> ShelfRow]
  most,       \* [Items -> the most units that a check could allow so far] (history)
  cart,       \* [Items -> CartRow]
  lastLine,   \* the last id given to a line
  errand      \* [Requests -> ErrandState]

cartVars == <<shelf, most, cart, lastLine, errand>>

-----------------------------------------------------------------------------
(* Rows and requests *)

Units == 0..MaxUnits

ShelfRow == [stock : Units, on : BOOLEAN, virtual : BOOLEAN]

\* id is 0 if there is no such line.
CartRow == [id : Nat, quantity : Units]

\* Add and UpdateQuantity: "sku" reads the SKU, "find" the line, "save" saves it.
ErrandState == [pc : {"idle", "sku", "find", "save"},
                item : Items \cup {None},
                adds : BOOLEAN,      \* Add, not UpdateQuantity
                quantity : Units,
                virtual : BOOLEAN,   \* of the product, as it was read
                stock : Units,       \* of what the line sells, as it was read
                id : Nat]            \* of the line, as it was read

NoLine == [id |-> 0, quantity |-> 0]
NoErrand == [pc |-> "idle", item |-> None, adds |-> FALSE, quantity |-> 0,
             virtual |-> FALSE, stock |-> 0, id |-> 0]

\* The units that ensureCartStock would let a line hold.
Allowed(row) == IF row.virtual THEN MaxUnits ELSE row.stock

-----------------------------------------------------------------------------
(* Add and UpdateQuantity *)

\* resolve: a product that is not on the shelf ends the call.
Resolve(r, i, adds, n) ==
  /\ errand[r].pc = "idle"
  /\ shelf[i].on
  /\ errand' = [errand EXCEPT ![r] =
       [pc |-> IF i \in SkuItems THEN "sku" ELSE "find", item |-> i, adds |-> adds,
        quantity |-> n, virtual |-> shelf[i].virtual,
        stock |-> IF i \in SkuItems THEN 0 ELSE shelf[i].stock, id |-> 0]]
  /\ UNCHANGED <<shelf, most, cart, lastLine>>

ResolveSku(r) ==
  LET row == shelf[errand[r].item] IN
    /\ errand[r].pc = "sku"
    /\ row.on
    /\ errand' = [errand EXCEPT ![r] = [@ EXCEPT !.pc = "find", !.stock = row.stock]]
    /\ UNCHANGED <<shelf, most, cart, lastLine>>

Total(e, line) == IF e.adds THEN line.quantity + e.quantity ELSE e.quantity

CheckedAlone(e, line) == e.quantity
Checked(e, line) == Total(e, line)

\* Find and ensureCartStock.
FindLine(r) ==
  LET e == errand[r]
      line == cart[e.item]
  IN /\ e.pc = "find"
     /\ Checked(e, line) <= Allowed(e)
     /\ Total(e, line) <= MaxUnits
     /\ errand' = [errand EXCEPT ![r] =
          [NoErrand EXCEPT !.pc = "save", !.item = e.item,
                           !.quantity = Total(e, line), !.id = line.id]]
     /\ UNCHANGED <<shelf, most, cart, lastLine>>

\* gorm's Save: a new line is inserted, and refused if there is one by now; a line
\* that was read is updated by its id, and inserted again if it is gone.
SaveQuantity(r) ==
  LET e == errand[r]
      line == cart[e.item]
  IN /\ e.pc = "save"
     /\ line.id \in {0, e.id}
     /\ e.id = 0 => lastLine < MaxLines
     /\ errand' = [errand EXCEPT ![r] = NoErrand]
     /\ lastLine' = IF e.id = 0 THEN lastLine + 1 ELSE lastLine
     /\ cart' = [cart EXCEPT ![e.item] =
          [id |-> IF e.id = 0 THEN lastLine' ELSE e.id, quantity |-> e.quantity]]
     /\ UNCHANGED <<shelf, most>>

ErrandFails(r) ==
  /\ errand[r].pc # "idle"
  /\ errand' = [errand EXCEPT ![r] = NoErrand]
  /\ UNCHANGED <<shelf, most, cart, lastLine>>

-----------------------------------------------------------------------------
(* Removing, and the shelf *)

\* Delete, UpdateQuantity to 0 or less, and each key of DeleteMany, which stops at
\* the first that fails.
DeleteLine(i) ==
  /\ cart' = [cart EXCEPT ![i] = NoLine]
  /\ UNCHANGED <<shelf, most, lastLine, errand>>

ClearCart ==
  /\ cart' = [i \in Items |-> NoLine]
  /\ UNCHANGED <<shelf, most, lastLine, errand>>

\* A checkout, a return, the merchant's edit of the product or of its stock.
ShelfMoves(i, row) ==
  /\ shelf' = [shelf EXCEPT ![i] = row]
  /\ most' = [most EXCEPT ![i] = IF Allowed(row) > @ THEN Allowed(row) ELSE @]
  /\ UNCHANGED <<cart, lastLine, errand>>

-----------------------------------------------------------------------------
CartInit ==
  /\ shelf = [i \in Items |-> [stock |-> 0, on |-> TRUE, virtual |-> FALSE]]
  /\ most = [i \in Items |-> 0]
  /\ cart = [i \in Items |-> NoLine]
  /\ lastLine = 0
  /\ errand = [r \in Requests |-> NoErrand]

ErrandStep(r) ==
  \/ \E i \in Items, adds \in BOOLEAN, n \in 1..MaxUnits : Resolve(r, i, adds, n)
  \/ ResolveSku(r) \/ FindLine(r) \/ SaveQuantity(r)
  \/ ErrandFails(r)

CartNext ==
  \/ \E r \in Requests : ErrandStep(r)
  \/ \E i \in Items : DeleteLine(i)
  \/ ClearCart
  \/ \E i \in Items, row \in ShelfRow : ShelfMoves(i, row)

CartSpec == CartInit /\ [][CartNext]_cartVars

-----------------------------------------------------------------------------
(* Properties *)

\* The variables keep their types.
CartTypeOK ==
  /\ shelf \in [Items -> ShelfRow]
  /\ most \in [Items -> Units]
  /\ cart \in [Items -> CartRow]
  /\ lastLine \in Nat
  /\ errand \in [Requests -> ErrandState]

\* However calls for one line interleave, a line never asks for more than the
\* shelf could have given at some time: additions are checked together with what
\* the line holds already (CartService.Add, ensureCartStock).
CartWithinShelf == \A i \in Items : cart[i].quantity <= most[i]
=============================================================================
