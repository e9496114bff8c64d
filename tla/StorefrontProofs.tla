-------------------------- MODULE StorefrontProofs ---------------------------
(***************************************************************************)
(* Proofs about five of the modules that are checked one at a time: Cart,  *)
(* Catalog, Distribution, Seckill and CouponIssue.  Each part stands on    *)
(* its own.                                                                *)
(*                                                                         *)
(* Cart, for every set of items and of requests and every bound of the     *)
(* shelf: the types, and that no line asks for more than the shelf could   *)
(* have given.  The argument is about the errands: what a request has read *)
(* of the shelf was on the shelf once, so that what it was checked against *)
(* is below the history `most' for good.                                   *)
(*                                                                         *)
(* Catalog, for every set of plans, every set of limits and any finite     *)
(* number of requests: the types, and how far the limit of products is     *)
(* exceeded at most.  A request between its count and its insertion is     *)
(* counted as if its product were there already: the count that let it     *)
(* pass was below the widest limit, and at most all requests can be there  *)
(* at once.                                                                *)
(*                                                                         *)
(* Distribution, for every set of members and of requests: the types, and  *)
(* that the upline of a distributor is older than it.  What a request      *)
(* knows of the parent it is going to write stays true, because a          *)
(* distributor's row is never deleted and its parent never changes, so     *)
(* that it does not matter what happens between its statements.            *)
(*                                                                         *)
(* Seckill, for any number of saves and requests: that the goods of a sale *)
(* are those of one save.  While the activity exists, a save that has      *)
(* passed the UPDATE of the head holds its lock, so that the goods it has  *)
(* seen are the goods that are there when it replaces them.                *)
(*                                                                         *)
(* CouponIssue: the types, the agreement of the coupon's counts, and the   *)
(* limit of coupons a member can receive, which holds because receiving,   *)
(* granting and editing all wait for the same row lock.                    *)
(***************************************************************************)
EXTENDS Cart, Catalog, Distribution, Seckill, CouponIssue, FiniteSetTheorems, TLAPS

USE CallsAssumption, CartAssumption, CatalogAssumption, PersonsAssumption,
    SeckillAssumption, ValuesAssumption

-----------------------------------------------------------------------------
(***************************************************************************)
(* Cart                                                                    *)
(***************************************************************************)

\* What an errand has read was once on the shelf; what it will save was checked
\* against that.
Backed(e) ==
  /\ e.pc # "idle" => e.item \in Items
  /\ e.pc = "sku" /\ e.virtual => MaxUnits <= most[e.item]
  /\ e.pc = "find" => Allowed(e) <= most[e.item]
  /\ e.pc = "save" => e.quantity <= most[e.item]

ShelfIsCounted == \A i \in Items : Allowed(shelf[i]) <= most[i]

CartInv ==
  /\ CartTypeOK
  /\ ShelfIsCounted
  /\ \A r \in Requests : Backed(errand[r])
  /\ CartWithinShelf

-----------------------------------------------------------------------------
(* Steps of one errand *)

LEMMA AllowedType ==
  /\ \A row \in ShelfRow : Allowed(row) \in Units
  /\ \A e \in ErrandState : Allowed(e) \in Units
  BY DEF Allowed, ShelfRow, ErrandState, Units

LEMMA NoErrandType == NoErrand \in ErrandState
  BY DEF NoErrand, ErrandState, Units

\* A request moves to a state that is backed, and the history does not shrink.
LEMMA ErrandMoves ==
  ASSUME CartInv, NEW r \in Requests, NEW s \in ErrandState, Backed(s),
         errand' = [errand EXCEPT ![r] = s], UNCHANGED most
  PROVE  /\ errand' \in [Requests -> ErrandState]
         /\ \A q \in Requests : Backed(errand[q])'
<1>1. errand \in [Requests -> ErrandState] /\ \A q \in Requests : Backed(errand[q])
  BY DEF CartInv, CartTypeOK
<1>2. ASSUME NEW q \in Requests
      PROVE  Backed(errand[q])'
  <2>1. errand'[q] = s \/ errand'[q] = errand[q]
    BY <1>1
  <2>2. QED
    BY <1>1, <2>1 DEF Backed, Allowed
<1>3. QED
  BY <1>1, <1>2

\* A request that has done.
LEMMA ErrandEnds ==
  ASSUME CartInv, NEW r \in Requests, errand' = [errand EXCEPT ![r] = NoErrand],
         UNCHANGED most
  PROVE  /\ errand' \in [Requests -> ErrandState]
         /\ \A q \in Requests : Backed(errand[q])'
<1>1. Backed(NoErrand)
  BY DEF Backed, NoErrand
<1>2. QED
  BY <1>1, NoErrandType, ErrandMoves

LEMMA ResolveStep ==
  ASSUME CartInv, NEW r \in Requests, NEW i \in Items, NEW adds \in BOOLEAN,
         NEW n \in 1..MaxUnits, Resolve(r, i, adds, n)
  PROVE  CartInv'
<1>1. PICK s : s = [pc |-> IF i \in SkuItems THEN "sku" ELSE "find", item |-> i,
                    adds |-> adds, quantity |-> n, virtual |-> shelf[i].virtual,
                    stock |-> IF i \in SkuItems THEN 0 ELSE shelf[i].stock, id |-> 0]
  OBVIOUS
<1>2. shelf[i] \in ShelfRow /\ Allowed(shelf[i]) <= most[i] /\ most[i] \in Units
  BY DEF CartInv, CartTypeOK, ShelfIsCounted
<1>3. s \in ErrandState
  BY <1>1, <1>2 DEF ErrandState, ShelfRow, Units
<1>4. Backed(s)
  BY <1>1, <1>2 DEF Backed, Allowed, ShelfRow, Units
<1>5. errand' = [errand EXCEPT ![r] = s] /\ UNCHANGED <<shelf, most, cart, lastLine>>
  BY <1>1 DEF Resolve
<1>6. QED
  BY <1>3, <1>4, <1>5, ErrandMoves DEF CartInv, CartTypeOK, ShelfIsCounted, CartWithinShelf

LEMMA ResolveSkuStep ==
  ASSUME CartInv, NEW r \in Requests, ResolveSku(r)
  PROVE  CartInv'
<1>1. PICK i \in Items : i = errand[r].item
  BY DEF ResolveSku, CartInv, Backed
<1>2. errand[r] \in ErrandState /\ errand[r].pc = "sku" /\ Backed(errand[r])
  BY DEF ResolveSku, CartInv, CartTypeOK
<1>3. shelf[i] \in ShelfRow /\ Allowed(shelf[i]) <= most[i] /\ most[i] \in Units
  BY DEF CartInv, CartTypeOK, ShelfIsCounted
<1>4. PICK s : s = [errand[r] EXCEPT !.pc = "find", !.stock = shelf[i].stock]
  OBVIOUS
<1>5. s \in ErrandState
  BY <1>2, <1>3, <1>4 DEF ErrandState, ShelfRow
<1>6. s.pc = "find" /\ s.item = i /\ s.virtual = errand[r].virtual
      /\ s.stock = shelf[i].stock
  BY <1>1, <1>2, <1>4 DEF ErrandState
<1>7. Backed(s)
  BY <1>1, <1>2, <1>3, <1>6 DEF Backed, Allowed, ShelfRow, Units
<1>8. errand' = [errand EXCEPT ![r] = s] /\ UNCHANGED <<shelf, most, cart, lastLine>>
  BY <1>1, <1>4 DEF ResolveSku
<1>9. QED
  BY <1>5, <1>7, <1>8, ErrandMoves DEF CartInv, CartTypeOK, ShelfIsCounted, CartWithinShelf

\* The line is checked together with what it holds already.
LEMMA FindLineStep ==
  ASSUME CartInv, NEW r \in Requests, FindLine(r)
  PROVE  CartInv'
<1>1. PICK i \in Items : i = errand[r].item
  BY DEF FindLine, CartInv, Backed
<1>2. errand[r] \in ErrandState /\ errand[r].pc = "find" /\ Backed(errand[r])
  BY DEF FindLine, CartInv, CartTypeOK
<1>3. cart[i] \in CartRow /\ most[i] \in Units
  BY DEF CartInv, CartTypeOK
<1>4. PICK n \in Nat : n = Total(errand[r], cart[i])
  BY <1>2, <1>3 DEF Total, ErrandState, CartRow, Units
<1>5. n <= Allowed(errand[r]) /\ n <= MaxUnits
  BY <1>1, <1>4 DEF FindLine, Checked
<1>6. n <= most[i]
  BY <1>1, <1>2, <1>3, <1>4, <1>5, AllowedType DEF Backed, Units
<1>7. PICK s : s = [NoErrand EXCEPT !.pc = "save", !.item = i, !.quantity = n,
                                    !.id = cart[i].id]
  OBVIOUS
<1>8. n \in Units /\ cart[i].id \in Nat
  BY <1>3, <1>4, <1>5 DEF CartRow, Units
<1>9. s \in ErrandState /\ s.pc = "save" /\ s.item = i /\ s.quantity = n
  BY <1>7, <1>8, NoErrandType DEF ErrandState
<1>10. Backed(s)
  BY <1>6, <1>9 DEF Backed
<1>11. errand' = [errand EXCEPT ![r] = s] /\ UNCHANGED <<shelf, most, cart, lastLine>>
  BY <1>1, <1>4, <1>7 DEF FindLine
<1>12. QED
  BY <1>9, <1>10, <1>11, ErrandMoves DEF CartInv, CartTypeOK, ShelfIsCounted, CartWithinShelf

LEMMA SaveQuantityStep ==
  ASSUME CartInv, NEW r \in Requests, SaveQuantity(r)
  PROVE  CartInv'
<1>1. PICK i \in Items : i = errand[r].item
  BY DEF SaveQuantity, CartInv, Backed
<1>2. /\ errand[r] \in ErrandState /\ errand[r].quantity <= most[i]
      /\ lastLine \in Nat
  BY <1>1 DEF SaveQuantity, CartInv, CartTypeOK, Backed
<1>3. /\ errand' = [errand EXCEPT ![r] = NoErrand]
      /\ lastLine' \in Nat
      /\ UNCHANGED <<shelf, most>>
  BY <1>2 DEF SaveQuantity
<1>4. PICK row \in CartRow : /\ row.quantity = errand[r].quantity
                             /\ cart' = [cart EXCEPT ![i] = row]
  <2>1. PICK row : row = [id |-> IF errand[r].id = 0 THEN lastLine' ELSE errand[r].id,
                          quantity |-> errand[r].quantity]
    OBVIOUS
  <2>2. row \in CartRow
    BY <1>2, <1>3, <2>1 DEF CartRow, ErrandState
  <2>3. QED
    BY <1>1, <2>1, <2>2 DEF SaveQuantity
<1>5. cart \in [Items -> CartRow] /\ CartWithinShelf
  BY DEF CartInv, CartTypeOK
<1>6. CartWithinShelf'
  BY <1>2, <1>3, <1>4, <1>5 DEF CartWithinShelf
<1>7. QED
  BY <1>3, <1>4, <1>5, <1>6, ErrandEnds DEF CartInv, CartTypeOK, ShelfIsCounted

-----------------------------------------------------------------------------
(* The other steps *)

LEMMA LinesGo ==
  ASSUME CartInv, UNCHANGED <<shelf, most, lastLine, errand>>,
         (\E i \in Items : DeleteLine(i)) \/ ClearCart
  PROVE  CartInv'
<1>1. NoLine \in CartRow /\ NoLine.quantity = 0
  BY DEF NoLine, CartRow, Units
<1>2. cart \in [Items -> CartRow] /\ most \in [Items -> Units]
  BY DEF CartInv, CartTypeOK
<1>3. /\ cart' \in [Items -> CartRow]
      /\ \A i \in Items : cart'[i] \in {cart[i], NoLine}
  BY <1>1, <1>2 DEF DeleteLine, ClearCart
<1>4. CartWithinShelf'
  BY <1>1, <1>2, <1>3 DEF CartInv, CartWithinShelf, Units
<1>5. \A r \in Requests : Backed(errand[r])'
  BY DEF CartInv, Backed, Allowed
<1>6. QED
  BY <1>3, <1>4, <1>5 DEF CartInv, CartTypeOK, ShelfIsCounted

\* The shelf moves: the history only grows.
LEMMA ShelfMovesStep ==
  ASSUME CartInv, NEW i \in Items, NEW row \in ShelfRow, ShelfMoves(i, row)
  PROVE  CartInv'
<1>1. /\ shelf \in [Items -> ShelfRow] /\ most \in [Items -> Units]
      /\ cart \in [Items -> CartRow] /\ errand \in [Requests -> ErrandState]
  BY DEF CartInv, CartTypeOK
<1>2. PICK n \in Units : n = Allowed(row)
  BY AllowedType
<1>3. /\ shelf' = [shelf EXCEPT ![i] = row]
      /\ most' = [most EXCEPT ![i] = IF n > @ THEN n ELSE @]
      /\ UNCHANGED <<cart, lastLine, errand>>
  BY <1>2 DEF ShelfMoves
<1>4. /\ shelf' \in [Items -> ShelfRow] /\ most' \in [Items -> Units]
      /\ \A j \in Items : most[j] <= most'[j]
      /\ n <= most'[i]
  BY <1>1, <1>2, <1>3 DEF Units
<1>5. ShelfIsCounted'
  <2>1. ASSUME NEW j \in Items PROVE Allowed(shelf[j])' <= most'[j]
    <3>1. CASE j = i
      BY <1>1, <1>2, <1>3, <1>4, <3>1 DEF Allowed
    <3>2. CASE j # i
      <4>1. Allowed(shelf[j]) \in Units /\ Allowed(shelf[j]) <= most[j]
        BY <1>1, AllowedType DEF CartInv, ShelfIsCounted
      <4>2. shelf'[j] = shelf[j] /\ most'[j] = most[j]
        BY <1>1, <1>3, <3>2
      <4>3. QED
        BY <4>1, <4>2 DEF Allowed
    <3>3. QED
      BY <3>1, <3>2
  <2>2. QED
    BY <2>1 DEF ShelfIsCounted
<1>6. ASSUME NEW r \in Requests PROVE Backed(errand[r])'
  <2>1. errand[r] \in ErrandState /\ Backed(errand[r]) /\ errand'[r] = errand[r]
    BY <1>1, <1>3 DEF CartInv
  <2>2. CASE errand[r].pc = "idle"
    BY <2>1, <2>2 DEF Backed
  <2>3. CASE errand[r].pc # "idle"
    <3>1. PICK j \in Items : j = errand[r].item
      BY <2>1, <2>3 DEF Backed
    <3>2. most[j] \in Units /\ most'[j] \in Units /\ most[j] <= most'[j]
      BY <1>1, <1>4
    <3>3. Allowed(errand[r]) \in Units /\ errand[r].quantity \in Units
      BY <2>1, AllowedType DEF ErrandState
    <3>4. QED
      BY <2>1, <3>1, <3>2, <3>3 DEF Backed, Allowed, Units
  <2>4. QED
    BY <2>2, <2>3
<1>7. CartWithinShelf'
  BY <1>1, <1>3, <1>4 DEF CartInv, CartWithinShelf, CartRow, Units
<1>8. QED
  BY <1>1, <1>3, <1>4, <1>5, <1>6, <1>7 DEF CartInv, CartTypeOK

-----------------------------------------------------------------------------
LEMMA CartInvInit == CartInit => CartInv
<1> SUFFICES ASSUME CartInit PROVE CartInv
  OBVIOUS
<1>1. /\ [stock |-> 0, on |-> TRUE, virtual |-> FALSE] \in ShelfRow
      /\ NoLine \in CartRow /\ 0 \in Units
  BY DEF ShelfRow, NoLine, CartRow, Units
<1>2. CartTypeOK
  BY <1>1, NoErrandType DEF CartInit, CartTypeOK
<1>3. ShelfIsCounted /\ CartWithinShelf
  BY DEF CartInit, ShelfIsCounted, CartWithinShelf, Allowed, NoLine
<1>4. \A r \in Requests : Backed(errand[r])
  BY DEF CartInit, Backed, NoErrand
<1>5. QED
  BY <1>2, <1>3, <1>4 DEF CartInv

LEMMA CartInvStep == CartInv /\ [CartNext]_cartVars => CartInv'
<1> SUFFICES ASSUME CartInv, [CartNext]_cartVars PROVE CartInv'
  OBVIOUS
<1>1. ASSUME NEW r \in Requests, ErrandStep(r) PROVE CartInv'
  <2>1. CASE ErrandFails(r)
    BY <2>1, ErrandEnds DEF ErrandFails, CartInv, CartTypeOK, ShelfIsCounted, CartWithinShelf
  <2>2. QED
    BY <1>1, <2>1, ResolveStep, ResolveSkuStep, FindLineStep, SaveQuantityStep
    DEF ErrandStep
<1>2. CASE (\E i \in Items : DeleteLine(i)) \/ ClearCart
  <2>1. UNCHANGED <<shelf, most, lastLine, errand>>
    BY <1>2 DEF DeleteLine, ClearCart
  <2>2. QED
    BY <1>2, <2>1, LinesGo
<1>3. CASE UNCHANGED cartVars
  BY <1>3 DEF cartVars, CartInv, CartTypeOK, ShelfIsCounted, CartWithinShelf, Backed, Allowed
<1>4. QED
  BY <1>1, <1>2, <1>3, ShelfMovesStep DEF CartNext

LEMMA CartInvHolds == CartSpec => []CartInv
  BY CartInvInit, CartInvStep, PTL DEF CartSpec

\* Every variable of the cart keeps its type, however calls interleave.
THEOREM CartTypeCorrect == CartSpec => []CartTypeOK
<1>1. CartInv => CartTypeOK
  BY DEF CartInv
<1>2. QED
  BY <1>1, CartInvHolds, PTL

\* No line of a cart ever asks for more than the shelf could have given at some time.
THEOREM CartIsWithinShelf == CartSpec => []CartWithinShelf
<1>1. CartInv => CartWithinShelf
  BY DEF CartInv
<1>2. QED
  BY <1>1, CartInvHolds, PTL

-----------------------------------------------------------------------------
(***************************************************************************)
(* Catalog                                                                 *)
(***************************************************************************)

Inserting == {r \in Requests : task[r].pc = "insert"}

\* A request that has not done has rows left, of a file that a plan was read for.
HasRows(t) == t.pc # "idle" => t.rows > 0 /\ t.plan \in PlanIds

WithinWidest ==
  widest # 0 => \A p \in PlanIds : quota[p] # 0 /\ quota[p] <= widest

InsertingOvershoot ==
  widest # 0 => goods + Cardinality(Inserting) < widest + Cardinality(Requests)

CatalogInv ==
  /\ CatalogTypeOK
  /\ \A r \in Requests : HasRows(task[r])
  /\ WithinWidest
  /\ InsertingOvershoot

-----------------------------------------------------------------------------
(* Requests *)

LEMMA QuotasAreNumbers == \A q \in Quotas \cup {0} : q \in Nat
  OBVIOUS

LEMMA NoTaskType == NoTask \in TaskState /\ HasRows(NoTask) /\ NoTask.pc = "idle"
  BY DEF NoTask, TaskState, HasRows

LEMMA NextRowType ==
  ASSUME NEW t \in TaskState, t.pc # "idle", HasRows(t)
  PROVE  /\ NextRow(t) \in TaskState /\ HasRows(NextRow(t))
         /\ NextRow(t).pc # "insert"
<1>1. t.rows \in 0..MaxFileRows /\ t.rows > 0 /\ t.plan \in PlanIds
  BY DEF TaskState, HasRows
<1>2. CASE t.rows = 1
  BY <1>2, NoTaskType DEF NextRow
<1>3. CASE t.rows # 1
  <2>1. PICK n \in 1..MaxFileRows : n = t.rows - 1
    BY <1>1, <1>3
  <2>2. PICK s : s = [t EXCEPT !.pc = "count", !.rows = n]
    OBVIOUS
  <2>3. NextRow(t) = s
    BY <1>3, <2>1, <2>2 DEF NextRow, TaskState
  <2>4. s \in TaskState /\ s.pc = "count" /\ s.rows = n /\ s.plan = t.plan
    <3>1. n \in 0..MaxFileRows
      BY <2>1
    <3>2. QED
      BY <2>2, <3>1 DEF TaskState
  <2>5. QED
    BY <1>1, <2>1, <2>3, <2>4 DEF HasRows
<1>4. QED
  BY <1>2, <1>3

LEMMA CountsAreNumbers ==
  /\ Cardinality(Requests) \in Nat
  /\ IsFiniteSet(Inserting) /\ Cardinality(Inserting) \in Nat
  /\ Cardinality(Inserting) <= Cardinality(Requests)
  BY TasksAssumption, FS_CardinalityType, FS_Subset DEF Inserting

\* One request moves: who is inserting changes by this request at most.
LEMMA TaskMoves ==
  ASSUME CatalogInv, NEW r \in Requests, NEW s \in TaskState, HasRows(s),
         task' = [task EXCEPT ![r] = s]
  PROVE  /\ task' \in [Requests -> TaskState]
         /\ \A q \in Requests : HasRows(task[q])'
         /\ Inserting' = IF s.pc = "insert" THEN Inserting \cup {r} ELSE Inserting \ {r}
<1>1. task \in [Requests -> TaskState] /\ \A q \in Requests : HasRows(task[q])
  BY DEF CatalogInv, CatalogTypeOK
<1>2. QED
  BY <1>1 DEF HasRows, Inserting

\* A request that leaves the place between its count and its insertion, or was not
\* there: the products may grow by one only in the first case.
LEMMA TaskLeaves ==
  ASSUME CatalogInv, NEW r \in Requests, NEW s \in TaskState, HasRows(s),
         s.pc # "insert", task' = [task EXCEPT ![r] = s],
         goods' = goods \/ (goods' = goods + 1 /\ task[r].pc = "insert"),
         UNCHANGED <<planId, quota, widest>>
  PROVE  CatalogInv'
<1>1. Inserting' = Inserting \ {r}
  BY TaskMoves
<1>2. IsFiniteSet(Inserting) /\ Cardinality(Inserting) \in Nat /\ Cardinality(Requests) \in Nat
  BY CountsAreNumbers
<1>3. Cardinality(Inserting)' = IF task[r].pc = "insert" THEN Cardinality(Inserting) - 1
                                ELSE Cardinality(Inserting)
  <2>1. r \in Inserting <=> task[r].pc = "insert"
    BY DEF Inserting
  <2>2. QED
    BY <1>1, <1>2, <2>1, FS_RemoveElement
<1>4. goods \in Nat /\ widest \in Nat
  BY DEF CatalogInv, CatalogTypeOK
<1>5. goods' + Cardinality(Inserting)' <= goods + Cardinality(Inserting) /\ goods' \in Nat
  BY <1>2, <1>3, <1>4
<1>6. Cardinality(Inserting)' \in Nat
  BY CountsAreNumbers, <1>1, <1>2, FS_RemoveElement, FS_CardinalityType
<1>7. InsertingOvershoot'
  BY <1>2, <1>4, <1>5, <1>6 DEF CatalogInv, InsertingOvershoot
<1>8. QED
  BY <1>5, <1>7, TaskMoves DEF CatalogInv, CatalogTypeOK, WithinWidest

\* The count that lets a request pass was below the widest limit.
LEMMA CountStep ==
  ASSUME CatalogInv, NEW r \in Requests, CountProducts(r)
  PROVE  CatalogInv'
<1>1. task[r] \in TaskState /\ HasRows(task[r]) /\ task[r].pc = "count"
  BY DEF CountProducts, CatalogInv, CatalogTypeOK
<1>2. PICK s : s = [task[r] EXCEPT !.pc = "insert"]
  OBVIOUS
<1>3. s \in TaskState /\ HasRows(s)
  BY <1>1, <1>2 DEF TaskState, HasRows
<1>4. PICK p \in PlanIds : p = task[r].plan
  BY <1>1 DEF HasRows
<1>5. /\ goods \in Nat /\ widest \in Nat /\ quota[p] \in Nat
  <2>1. goods \in Nat /\ widest \in Quotas \cup {0} /\ quota[p] \in Quotas
    BY DEF CatalogInv, CatalogTypeOK
  <2>2. QED
    BY <2>1, QuotasAreNumbers
<1>6. quota[p] = 0 \/ goods < quota[p]
  BY <1>4 DEF CountProducts, BelowLimit
<1>7. /\ task' = [task EXCEPT ![r] = s]
      /\ UNCHANGED <<goods, planId, quota, widest>>
  BY <1>2 DEF CountProducts
<1>8. Inserting' \in SUBSET Requests
  BY DEF Inserting
<1>9. /\ Cardinality(Inserting)' \in Nat /\ Cardinality(Requests) \in Nat
      /\ Cardinality(Inserting)' <= Cardinality(Requests)
  BY <1>8, TasksAssumption, FS_CardinalityType, FS_Subset
<1>10. InsertingOvershoot'
  <2>1. widest # 0 => goods < widest
    BY <1>4, <1>5, <1>6 DEF CatalogInv, WithinWidest
  <2>2. QED
    BY <1>5, <1>7, <1>9, <2>1 DEF InsertingOvershoot
<1>11. QED
  BY <1>3, <1>7, <1>10, TaskMoves DEF CatalogInv, CatalogTypeOK, WithinWidest

LEMMA CreateStep ==
  ASSUME CatalogInv, NEW r \in Requests, NEW n \in 1..MaxFileRows, CreateProducts(r, n)
  PROVE  CatalogInv'
<1>1. PICK s : s = [pc |-> "count", rows |-> n, plan |-> planId]
  OBVIOUS
<1>2. planId \in PlanIds
  BY DEF CatalogInv, CatalogTypeOK
<1>3. s \in TaskState /\ HasRows(s) /\ s.pc # "insert"
  BY <1>1, <1>2 DEF TaskState, HasRows
<1>4. task' = [task EXCEPT ![r] = s] /\ UNCHANGED <<goods, planId, quota, widest>>
  BY <1>1 DEF CreateProducts
<1>5. QED
  BY <1>3, <1>4, TaskLeaves

LEMMA TaskSteps ==
  ASSUME CatalogInv, NEW r \in Requests, TaskStep(r)
  PROVE  CatalogInv'
<1>1. task[r] \in TaskState /\ HasRows(task[r])
  BY DEF CatalogInv, CatalogTypeOK
<1>2. CASE InsertProduct(r) \/ RowFails(r)
  <2>1. /\ task[r].pc # "idle" /\ task' = [task EXCEPT ![r] = NextRow(task[r])]
        /\ goods' = goods \/ (goods' = goods + 1 /\ task[r].pc = "insert")
        /\ UNCHANGED <<planId, quota, widest>>
    BY <1>2 DEF InsertProduct, RowFails, CatalogInv, CatalogTypeOK
  <2>2. QED
    BY <1>1, <2>1, NextRowType, TaskLeaves
<1>3. CASE TaskDies(r)
  BY <1>3, NoTaskType, TaskLeaves DEF TaskDies
<1>4. QED
  BY <1>2, <1>3, CreateStep, CountStep DEF TaskStep

-----------------------------------------------------------------------------
(* Products and plans *)

LEMMA SameTasks ==
  ASSUME CatalogInv, UNCHANGED task
  PROVE  /\ task' \in [Requests -> TaskState]
         /\ \A r \in Requests : HasRows(task[r])'
         /\ Inserting' = Inserting
  BY DEF CatalogInv, CatalogTypeOK, HasRows, Inserting

LEMMA DeleteStep == CatalogInv /\ DeleteProduct => CatalogInv'
<1> SUFFICES ASSUME CatalogInv, DeleteProduct PROVE CatalogInv'
  OBVIOUS
<1>1. /\ goods \in Nat /\ goods > 0 /\ goods' = goods - 1
      /\ UNCHANGED <<planId, quota, widest, task>>
  BY DEF DeleteProduct, CatalogInv, CatalogTypeOK
<1>2. widest \in Nat
  BY DEF CatalogInv, CatalogTypeOK
<1>3. InsertingOvershoot'
  BY <1>1, <1>2, SameTasks, CountsAreNumbers DEF CatalogInv, InsertingOvershoot
<1>4. QED
  BY <1>1, <1>3, SameTasks DEF CatalogInv, CatalogTypeOK, WithinWidest

LEMMA PlanChangesStep ==
  ASSUME CatalogInv, NEW p \in PlanIds, PlanChanges(p)
  PROVE  CatalogInv'
<1>1. planId' = p /\ UNCHANGED <<goods, quota, widest, task>>
  BY DEF PlanChanges
<1>2. QED
  BY <1>1, SameTasks DEF CatalogInv, CatalogTypeOK, WithinWidest, InsertingOvershoot

\* A limit that is edited: the widest does not become narrower.
LEMMA PlanEditedStep ==
  ASSUME CatalogInv, NEW p \in PlanIds, NEW n \in Quotas, PlanEdited(p, n)
  PROVE  CatalogInv'
<1>1. /\ widest' = Wider(widest, n) /\ quota' = [quota EXCEPT ![p] = n]
      /\ UNCHANGED <<goods, planId, task>>
  BY DEF PlanEdited
<1>2. /\ quota \in [PlanIds -> Quotas] /\ widest \in Quotas \cup {0}
      /\ Quotas \subseteq Nat /\ goods \in Nat
  BY DEF CatalogInv, CatalogTypeOK
<1>3. /\ widest' \in Quotas \cup {0} /\ quota' \in [PlanIds -> Quotas]
      /\ widest' # 0 => /\ widest # 0 /\ n # 0 /\ n <= widest' /\ widest <= widest'
  BY <1>1, <1>2 DEF Wider
<1>4. WithinWidest'
  <2>1. ASSUME widest' # 0, NEW q \in PlanIds PROVE quota'[q] # 0 /\ quota'[q] <= widest'
    <3>1. CASE q = p
      BY <1>1, <1>2, <1>3, <2>1, <3>1
    <3>2. CASE q # p
      <4>1. quota'[q] = quota[q] /\ quota[q] # 0 /\ quota[q] <= widest
        BY <1>1, <1>2, <1>3, <2>1, <3>2 DEF CatalogInv, WithinWidest
      <4>2. quota[q] \in Quotas
        BY <1>2
      <4>3. quota[q] \in Nat /\ widest \in Nat /\ widest' \in Nat
        BY <1>2, <1>3, <4>2, QuotasAreNumbers
      <4>4. QED
        BY <1>3, <2>1, <4>1, <4>3
    <3>3. QED
      BY <3>1, <3>2
  <2>2. QED
    BY <2>1 DEF WithinWidest
<1>5. InsertingOvershoot'
  BY <1>1, <1>2, <1>3, SameTasks, CountsAreNumbers DEF CatalogInv, InsertingOvershoot
<1>6. QED
  BY <1>1, <1>3, <1>4, <1>5, SameTasks DEF CatalogInv, CatalogTypeOK

-----------------------------------------------------------------------------
LEMMA CatalogInvInit == CatalogInit => CatalogInv
<1> SUFFICES ASSUME CatalogInit PROVE CatalogInv
  OBVIOUS
<1>1. PICK q \in Quotas : quota = [p \in PlanIds |-> q] /\ widest = q
  BY DEF CatalogInit
<1>2. q \in Nat
  OBVIOUS
<1>3. CatalogTypeOK /\ \A r \in Requests : HasRows(task[r])
  BY <1>1, NoTaskType DEF CatalogInit, CatalogTypeOK
<1>4. WithinWidest
  BY <1>1, <1>2 DEF WithinWidest
<1>5. Inserting = {}
  BY NoTaskType DEF CatalogInit, Inserting
<1>6. InsertingOvershoot
  BY <1>1, <1>2, <1>5, FS_EmptySet, CountsAreNumbers DEF CatalogInit, InsertingOvershoot
<1>7. QED
  BY <1>3, <1>4, <1>6 DEF CatalogInv

LEMMA CatalogInvStep == CatalogInv /\ [CatalogNext]_catalogVars => CatalogInv'
<1> SUFFICES ASSUME CatalogInv, [CatalogNext]_catalogVars PROVE CatalogInv'
  OBVIOUS
<1>1. CASE UNCHANGED catalogVars
  BY <1>1, SameTasks
  DEF catalogVars, CatalogInv, CatalogTypeOK, WithinWidest, InsertingOvershoot
<1>2. QED
  BY <1>1, TaskSteps, DeleteStep, PlanChangesStep, PlanEditedStep DEF CatalogNext

LEMMA CatalogInvHolds == CatalogSpec => []CatalogInv
  BY CatalogInvInit, CatalogInvStep, PTL DEF CatalogSpec

\* Every variable of the catalog keeps its type, the number of products a natural
\* number.
THEOREM CatalogTypeCorrect == CatalogSpec => []CatalogTypeOK
<1>1. CatalogInv => CatalogTypeOK
  BY DEF CatalogInv
<1>2. QED
  BY <1>1, CatalogInvHolds, PTL

\* However many creations and imports are in flight, the plan's limit is exceeded by
\* fewer products than there are requests.
THEOREM OvershootIsBounded == CatalogSpec => []ProductsOvershoot
<1>1. ASSUME CatalogInv PROVE ProductsOvershoot
  <2>1. goods \in Nat /\ widest \in Nat
    BY <1>1 DEF CatalogInv, CatalogTypeOK
  <2>2. QED
    BY <1>1, <2>1, CountsAreNumbers DEF CatalogInv, InsertingOvershoot, ProductsOvershoot
<1>2. QED
  BY <1>1, CatalogInvHolds, PTL

-----------------------------------------------------------------------------
(***************************************************************************)
(* Distribution                                                            *)
(***************************************************************************)

\* A member is only ever bound to a distributor.
BoundToDistributor ==
  \A m \in Persons : parentOf[m] # None => IsDistributor(parentOf[m])

\* What the stage of a request says of the data it carries.
Knows(v) ==
  /\ v.pc # "idle" => v.member \in Persons
  /\ v.pc \in {"check", "parent", "bind"} => v.parent \in Persons
  /\ v.pc = "member" => v.parent = None
  /\ v.pc \in {"member", "parent"} => v.grandparent = None
  /\ v.pc \in {"parent", "bind", "insert"} /\ v.parent # None => IsDistributor(v.parent)
  /\ v.pc = "insert" /\ v.grandparent # None =>
       v.parent # None /\ distributor[v.parent].parent = v.grandparent

DistributionInv ==
  /\ DistributionTypeOK
  /\ BoundToDistributor
  /\ \A r \in Requests : Knows(visit[r])
  /\ \A m \in Persons : distributor[m].id <= lastId
  /\ UplineIsOlder

\* What a distributor is does not change, apart from its status.
DistributorsStay ==
  \A m \in Persons : IsDistributor(m) =>
    /\ distributor'[m].id = distributor[m].id
    /\ distributor'[m].parent = distributor[m].parent
    /\ distributor'[m].grandparent = distributor[m].grandparent

-----------------------------------------------------------------------------
(* Requests *)

LEMMA NoVisitType == NoVisit \in VisitState /\ Knows(NoVisit)
  BY DEF NoVisit, VisitState, Knows

\* What a request knows stays true.
LEMMA KnowsStays ==
  ASSUME DistributionInv, DistributorsStay, NEW v \in VisitState, Knows(v)
  PROVE  Knows(v)'
<1>1. v.parent \in Persons \cup {None}
  BY DEF VisitState
<1>2. v.parent # None /\ IsDistributor(v.parent) => IsDistributor(v.parent)'
  BY <1>1 DEF DistributorsStay, IsDistributor
<1>3. v.parent # None /\ IsDistributor(v.parent) =>
        distributor'[v.parent].parent = distributor[v.parent].parent
  BY <1>1 DEF DistributorsStay
<1>4. QED
  BY <1>1, <1>2, <1>3 DEF Knows

\* One request moves, the others know what they knew.
LEMMA VisitMoves ==
  ASSUME DistributionInv, DistributorsStay, NEW r \in Requests, NEW s \in VisitState,
         Knows(s), visit' = [visit EXCEPT ![r] = s]
  PROVE  /\ visit' \in [Requests -> VisitState]
         /\ \A q \in Requests : Knows(visit[q])'
<1>1. visit \in [Requests -> VisitState] /\ \A q \in Requests : Knows(visit[q])
  BY DEF DistributionInv, DistributionTypeOK
<1>2. ASSUME NEW q \in Requests PROVE Knows(visit[q])'
  <2>1. PICK v \in VisitState : v = visit'[q] /\ Knows(v)
    BY <1>1
  <2>2. Knows(v)'
    BY <2>1, KnowsStays
  <2>3. QED
    BY <2>1, <2>2 DEF Knows
<1>3. QED
  BY <1>1, <1>2

\* Only the request changes.
LEMMA OnlyVisit ==
  ASSUME DistributionInv, NEW r \in Requests, NEW s \in VisitState, Knows(s),
         visit' = [visit EXCEPT ![r] = s],
         UNCHANGED <<rules, parentOf, distributor, lastId>>
  PROVE  DistributionInv'
<1>1. DistributorsStay
  BY DEF DistributorsStay
<1>2. QED
  BY <1>1, VisitMoves
  DEF DistributionInv, DistributionTypeOK, BoundToDistributor, UplineIsOlder, IsDistributor

-----------------------------------------------------------------------------
(* Apply *)

LEMMA ApplyStep ==
  ASSUME DistributionInv, NEW r \in Requests, NEW m \in Persons, Apply(r, m)
  PROVE  DistributionInv'
<1>1. PICK b \in BOOLEAN : b = (rules = "automatic")
  OBVIOUS
<1>2. PICK s : s = [NoVisit EXCEPT !.pc = "member", !.member = m, !.normal = b]
  OBVIOUS
<1>3. /\ s \in VisitState /\ s.pc = "member" /\ s.member = m
      /\ s.parent = NoVisit.parent /\ s.grandparent = NoVisit.grandparent
  BY <1>2, NoVisitType DEF VisitState
<1>4. Knows(s)
  BY <1>3 DEF Knows, NoVisit
<1>5. visit' = [visit EXCEPT ![r] = s] /\ UNCHANGED <<rules, parentOf, distributor, lastId>>
  BY <1>1, <1>2 DEF Apply, VisitStarts
<1>6. QED
  BY <1>3, <1>4, <1>5, OnlyVisit

LEMMA ReadMemberStep ==
  ASSUME DistributionInv, NEW r \in Requests, ReadMember(r)
  PROVE  DistributionInv'
<1>1. visit[r] \in VisitState /\ Knows(visit[r]) /\ visit[r].pc = "member"
  BY DEF ReadMember, DistributionInv, DistributionTypeOK
<1>2. PICK m \in Persons : m = visit[r].member
  BY <1>1 DEF Knows
<1>3. parentOf[m] \in Persons \cup {None}
  BY DEF DistributionInv, DistributionTypeOK
<1>4. PICK pc \in {"insert", "parent"} :
        pc = IF parentOf[m] = None THEN "insert" ELSE "parent"
  OBVIOUS
<1>5. PICK s : s = [visit[r] EXCEPT !.pc = pc, !.parent = parentOf[m]]
  OBVIOUS
<1>6. /\ s \in VisitState /\ s.pc = pc /\ s.member = m /\ s.parent = parentOf[m]
      /\ s.grandparent = visit[r].grandparent
  BY <1>1, <1>2, <1>3, <1>5 DEF VisitState
<1>7. parentOf[m] # None => IsDistributor(parentOf[m])
  BY DEF DistributionInv, BoundToDistributor
<1>8. Knows(s)
  BY <1>1, <1>2, <1>3, <1>4, <1>6, <1>7 DEF Knows
<1>9. visit' = [visit EXCEPT ![r] = s] /\ UNCHANGED <<rules, parentOf, distributor, lastId>>
  BY <1>2, <1>4, <1>5 DEF ReadMember
<1>10. QED
  BY <1>6, <1>8, <1>9, OnlyVisit

LEMMA ReadParentStep ==
  ASSUME DistributionInv, NEW r \in Requests, ReadParent(r)
  PROVE  DistributionInv'
<1>1. visit[r] \in VisitState /\ Knows(visit[r]) /\ visit[r].pc = "parent"
  BY DEF ReadParent, DistributionInv, DistributionTypeOK
<1>2. PICK p \in Persons : p = visit[r].parent
  BY <1>1 DEF Knows
<1>3. distributor[p] \in DistributorRow
  BY DEF DistributionInv, DistributionTypeOK
<1>4. PICK g \in Persons \cup {None} :
        g = IF distributor[p].id # 0 /\ distributor[p].normal
              THEN distributor[p].parent ELSE None
  BY <1>3 DEF DistributorRow
<1>5. PICK s : s = [visit[r] EXCEPT !.pc = "insert", !.grandparent = g]
  OBVIOUS
<1>6. /\ s \in VisitState /\ s.pc = "insert" /\ s.member = visit[r].member
      /\ s.parent = p /\ s.grandparent = g
  BY <1>1, <1>2, <1>4, <1>5 DEF VisitState
<1>7. g # None => distributor[p].parent = g
  BY <1>4
<1>8. Knows(s)
  BY <1>1, <1>2, <1>6, <1>7 DEF Knows
<1>9. visit' = [visit EXCEPT ![r] = s] /\ UNCHANGED <<rules, parentOf, distributor, lastId>>
  BY <1>2, <1>4, <1>5 DEF ReadParent
<1>10. QED
  BY <1>6, <1>8, <1>9, OnlyVisit

\* The new row is the youngest, and no row was below it before.
LEMMA CreateDistributorStep ==
  ASSUME DistributionInv, NEW r \in Requests, CreateDistributor(r)
  PROVE  DistributionInv'
<1>1. visit[r] \in VisitState /\ Knows(visit[r]) /\ visit[r].pc = "insert"
  BY DEF CreateDistributor, VisitReturns, DistributionInv, DistributionTypeOK
<1>2. PICK m \in Persons : m = visit[r].member
  BY <1>1 DEF Knows
<1>3. /\ distributor \in [Persons -> DistributorRow] /\ lastId \in Nat
      /\ \A n \in Persons : distributor[n].id \in Nat /\ distributor[n].id <= lastId
  BY DEF DistributionInv, DistributionTypeOK, DistributorRow
<1>4. PICK row : row = [id |-> lastId + 1, parent |-> visit[r].parent,
                        grandparent |-> visit[r].grandparent, normal |-> visit[r].normal]
  OBVIOUS
<1>5. row \in DistributorRow
  <2>1. lastId + 1 \in Nat
    BY <1>3
  <2>2. QED
    BY <1>1, <1>4, <2>1 DEF VisitState, DistributorRow
<1>6. /\ distributor' = [distributor EXCEPT ![m] = row]
      /\ lastId' = lastId + 1 /\ ~IsDistributor(m)
      /\ visit' = [visit EXCEPT ![r] = NoVisit]
      /\ UNCHANGED <<rules, parentOf>>
  BY <1>2, <1>4 DEF CreateDistributor, VisitReturns
<1>7. /\ distributor' \in [Persons -> DistributorRow] /\ distributor'[m] = row
      /\ \A n \in Persons \ {m} : distributor'[n] = distributor[n]
  BY <1>3, <1>5, <1>6
<1>8. DistributorsStay
  BY <1>6, <1>7 DEF DistributorsStay
<1>9. \A n \in Persons : IsDistributor(n) => IsDistributor(n)'
  BY <1>8 DEF DistributorsStay, IsDistributor
<1>10. BoundToDistributor'
  BY <1>6, <1>9 DEF DistributionInv, DistributionTypeOK, BoundToDistributor
<1>11. \A n \in Persons : distributor'[n].id <= lastId'
  BY <1>3, <1>4, <1>6, <1>7
<1>12. UplineIsOlder'
  <2> SUFFICES ASSUME NEW n \in Persons, IsDistributor(n)'
               PROVE  /\ distributor'[n].parent # None =>
                           /\ IsDistributor(distributor[n].parent)'
                           /\ distributor'[distributor'[n].parent].id < distributor'[n].id
                      /\ distributor'[n].grandparent # None =>
                           /\ distributor'[n].parent # None
                           /\ distributor'[distributor'[n].parent].parent
                                = distributor'[n].grandparent
    BY DEF UplineIsOlder
  <2>1. CASE n = m
    <3>1. /\ distributor'[n].parent = visit[r].parent
          /\ distributor'[n].grandparent = visit[r].grandparent
          /\ distributor'[n].id = lastId + 1
          /\ visit[r].parent \in Persons \cup {None}
      BY <1>1, <1>4, <1>7, <2>1 DEF VisitState
    <3>2. CASE visit[r].parent = None
      BY <1>1, <3>1, <3>2 DEF Knows
    <3>3. CASE visit[r].parent # None
      <4>1. PICK p \in Persons : p = visit[r].parent
        BY <3>1, <3>3
      <4>2. IsDistributor(p)
        BY <1>1, <3>3, <4>1 DEF Knows
      <4>3. distributor'[p] = distributor[p]
        BY <1>6, <1>7, <4>2
      <4>4. distributor'[p].id < lastId + 1
        BY <1>3, <4>3
      <4>5. visit[r].grandparent # None => distributor[p].parent = visit[r].grandparent
        BY <1>1, <4>1 DEF Knows
      <4>6. QED
        BY <1>9, <3>1, <3>3, <4>1, <4>2, <4>3, <4>4, <4>5 DEF IsDistributor
    <3>4. QED
      BY <3>2, <3>3
  <2>2. CASE n # m
    <3>1. distributor'[n] = distributor[n] /\ IsDistributor(n)
      BY <1>7, <2>2 DEF IsDistributor
    <3>2. PICK p \in Persons \cup {None} : p = distributor[n].parent
      BY <1>3 DEF DistributorRow
    <3>3. /\ p # None => IsDistributor(p) /\ distributor[p].id < distributor[n].id
          /\ distributor[n].grandparent # None =>
               p # None /\ distributor[p].parent = distributor[n].grandparent
      BY <3>1, <3>2 DEF DistributionInv, UplineIsOlder
    <3>4. p # None => IsDistributor(p)' /\ distributor'[p] = distributor[p]
      BY <1>6, <1>7, <3>2, <3>3 DEF IsDistributor
    <3>5. QED
      BY <3>1, <3>2, <3>3, <3>4 DEF IsDistributor
  <2>3. QED
    BY <2>1, <2>2
<1>13. lastId' \in Nat
  BY <1>3, <1>6
<1>14. QED
  BY <1>6, <1>7, <1>8, <1>10, <1>11, <1>12, <1>13, NoVisitType, VisitMoves
  DEF DistributionInv, DistributionTypeOK

-----------------------------------------------------------------------------
(* BindParent *)

LEMMA BindParentStep ==
  ASSUME DistributionInv, NEW r \in Requests, NEW m \in Persons, NEW inviter \in Persons,
         BindParent(r, m, inviter)
  PROVE  DistributionInv'
<1>1. PICK s : s = [NoVisit EXCEPT !.pc = "check", !.member = m, !.parent = inviter]
  OBVIOUS
<1>2. s \in VisitState /\ s.pc = "check" /\ s.member = m /\ s.parent = inviter
  BY <1>1, NoVisitType DEF VisitState
<1>3. Knows(s)
  BY <1>2 DEF Knows
<1>4. visit' = [visit EXCEPT ![r] = s] /\ UNCHANGED <<rules, parentOf, distributor, lastId>>
  BY <1>1 DEF BindParent, VisitStarts
<1>5. QED
  BY <1>2, <1>3, <1>4, OnlyVisit

LEMMA CheckInviterStep ==
  ASSUME DistributionInv, NEW r \in Requests, CheckInviter(r)
  PROVE  DistributionInv'
<1>1. visit[r] \in VisitState /\ Knows(visit[r]) /\ visit[r].pc = "check"
  BY DEF CheckInviter, VisitGoesOn, DistributionInv, DistributionTypeOK
<1>2. PICK s : s = [visit[r] EXCEPT !.pc = "bind"]
  OBVIOUS
<1>3. /\ s \in VisitState /\ s.pc = "bind" /\ s.member = visit[r].member
      /\ s.parent = visit[r].parent
  BY <1>1, <1>2 DEF VisitState
<1>4. IsDistributor(s.parent)
  BY <1>3 DEF CheckInviter, Invites
<1>5. Knows(s)
  BY <1>1, <1>3, <1>4 DEF Knows
<1>6. visit' = [visit EXCEPT ![r] = s] /\ UNCHANGED <<rules, parentOf, distributor, lastId>>
  BY <1>2 DEF CheckInviter, VisitGoesOn
<1>7. QED
  BY <1>3, <1>5, <1>6, OnlyVisit

LEMMA WriteParentStep ==
  ASSUME DistributionInv, NEW r \in Requests, WriteParent(r)
  PROVE  DistributionInv'
<1>1. visit[r] \in VisitState /\ Knows(visit[r]) /\ visit[r].pc = "bind"
  BY DEF WriteParent, VisitReturns, DistributionInv, DistributionTypeOK
<1>2. PICK m, p \in Persons : m = visit[r].member /\ p = visit[r].parent
  BY <1>1 DEF Knows
<1>3. IsDistributor(p)
  BY <1>1, <1>2 DEF Knows
<1>4. /\ parentOf' = [parentOf EXCEPT ![m] = p]
      /\ visit' = [visit EXCEPT ![r] = NoVisit]
      /\ UNCHANGED <<rules, distributor, lastId>>
  BY <1>2 DEF WriteParent, VisitReturns
<1>5. parentOf \in [Persons -> Persons \cup {None}]
  BY DEF DistributionInv, DistributionTypeOK
<1>6. parentOf' \in [Persons -> Persons \cup {None}]
  BY <1>4, <1>5
<1>7. BoundToDistributor'
  BY <1>3, <1>4, <1>5 DEF DistributionInv, BoundToDistributor, IsDistributor
<1>8. DistributorsStay
  BY <1>4 DEF DistributorsStay
<1>9. UplineIsOlder'
  BY <1>4 DEF DistributionInv, UplineIsOlder, IsDistributor
<1>10. QED
  BY <1>4, <1>6, <1>7, <1>8, <1>9, NoVisitType, VisitMoves
  DEF DistributionInv, DistributionTypeOK

-----------------------------------------------------------------------------
(* The admin *)

LEMMA AuditStep ==
  ASSUME DistributionInv, NEW m \in Persons, NEW normal \in BOOLEAN,
         AuditDistributor(m, normal)
  PROVE  DistributionInv'
<1>1. distributor \in [Persons -> DistributorRow]
  BY DEF DistributionInv, DistributionTypeOK
<1>2. PICK row : row = [distributor[m] EXCEPT !.normal = normal]
  OBVIOUS
<1>3. /\ row \in DistributorRow /\ row.id = distributor[m].id
      /\ row.parent = distributor[m].parent /\ row.grandparent = distributor[m].grandparent
  BY <1>1, <1>2 DEF DistributorRow
<1>4. distributor' = [distributor EXCEPT ![m] = row]
      /\ UNCHANGED <<rules, parentOf, lastId, visit>>
  BY <1>2 DEF AuditDistributor
<1>5. /\ distributor' \in [Persons -> DistributorRow]
      /\ \A n \in Persons : /\ distributor'[n].id = distributor[n].id
                            /\ distributor'[n].parent = distributor[n].parent
                            /\ distributor'[n].grandparent = distributor[n].grandparent
  BY <1>1, <1>3, <1>4
<1>6. DistributorsStay
  BY <1>5 DEF DistributorsStay
<1>7. \A r \in Requests : Knows(visit[r])'
  <2>1. ASSUME NEW r \in Requests PROVE Knows(visit[r])'
    <3>1. PICK v \in VisitState : v = visit[r] /\ Knows(v)
      BY DEF DistributionInv, DistributionTypeOK
    <3>2. Knows(v)'
      BY <1>6, <3>1, KnowsStays
    <3>3. QED
      BY <1>4, <3>1, <3>2 DEF Knows
  <2>2. QED
    BY <2>1
<1>8. BoundToDistributor'
  BY <1>4, <1>5 DEF DistributionInv, DistributionTypeOK, BoundToDistributor, IsDistributor
<1>9. UplineIsOlder'
  <2>1. \A n \in Persons : distributor[n].parent \in Persons \cup {None}
    BY <1>1 DEF DistributorRow
  <2>2. QED
    BY <1>5, <2>1 DEF DistributionInv, UplineIsOlder, IsDistributor
<1>10. QED
  BY <1>4, <1>5, <1>7, <1>8, <1>9 DEF DistributionInv, DistributionTypeOK

-----------------------------------------------------------------------------
LEMMA DistributionInvInit == DistributionInit => DistributionInv
<1> SUFFICES ASSUME DistributionInit PROVE DistributionInv
  OBVIOUS
<1>1. NoDistributor \in DistributorRow /\ NoDistributor.id = 0
  BY DEF NoDistributor, DistributorRow
<1>2. DistributionTypeOK
  BY <1>1, NoVisitType DEF DistributionInit, DistributionTypeOK, Rules
<1>3. \A r \in Requests : Knows(visit[r])
  BY DEF DistributionInit, Knows, NoVisit
<1>4. BoundToDistributor /\ UplineIsOlder /\ \A m \in Persons : distributor[m].id <= lastId
  BY <1>1 DEF DistributionInit, BoundToDistributor, UplineIsOlder, IsDistributor
<1>5. QED
  BY <1>2, <1>3, <1>4 DEF DistributionInv

LEMMA DistributionInvStep ==
  DistributionInv /\ [DistributionNext]_distributionVars => DistributionInv'
<1> SUFFICES ASSUME DistributionInv, [DistributionNext]_distributionVars
             PROVE  DistributionInv'
  OBVIOUS
<1>1. ASSUME NEW r \in Requests, VisitStep(r) PROVE DistributionInv'
  <2>1. CASE VisitFails(r)
    BY <2>1, NoVisitType, OnlyVisit DEF VisitFails
  <2>2. QED
    BY <1>1, <2>1, ApplyStep, ReadMemberStep, ReadParentStep, CreateDistributorStep,
       BindParentStep, CheckInviterStep, WriteParentStep DEF VisitStep
<1>2. ASSUME NEW enabled, NEW auto \in BOOLEAN, UpdateSettings(enabled, auto)
      PROVE  DistributionInv'
  <2>1. rules' \in Rules /\ UNCHANGED <<parentOf, distributor, lastId, visit>>
    BY <1>2 DEF UpdateSettings, Rules
  <2>2. QED
    BY <2>1 DEF DistributionInv, DistributionTypeOK, BoundToDistributor, UplineIsOlder,
                IsDistributor, Knows
<1>3. CASE UNCHANGED distributionVars
  BY <1>3 DEF distributionVars, DistributionInv, DistributionTypeOK, BoundToDistributor,
              UplineIsOlder, IsDistributor, Knows
<1>4. QED
  BY <1>1, <1>2, <1>3, AuditStep DEF DistributionNext, AdminStep

LEMMA DistributionInvHolds == DistributionSpec => []DistributionInv
  BY DistributionInvInit, DistributionInvStep, PTL DEF DistributionSpec

\* Every variable of the distribution keeps its type.
THEOREM DistributionTypeCorrect == DistributionSpec => []DistributionTypeOK
<1>1. DistributionInv => DistributionTypeOK
  BY DEF DistributionInv
<1>2. QED
  BY <1>1, DistributionInvHolds, PTL

\* A distributor's parent became a distributor before it, and its grandparent is the
\* parent of its parent: no upline runs in a circle, however applications, bindings
\* and audits interleave.
THEOREM UplineEnds == DistributionSpec => []UplineIsOlder
<1>1. DistributionInv => UplineIsOlder
  BY DEF DistributionInv
<1>2. QED
  BY <1>1, DistributionInvHolds, PTL

-----------------------------------------------------------------------------
(***************************************************************************)
(* Seckill                                                                 *)
(***************************************************************************)

\* Past the UPDATE of the head, in a transaction that saves.
Saving(b) == b.save # 0 /\ b.pc \in {"goods", "lock", "insert"}

BatchAims(b) ==
  /\ b.pc # "idle" /\ b.save # 0 => lastSave > 0
  /\ b.pc = "insert" => b.save # 0
  /\ b.head => Saving(b)
  /\ activity.exists =>
       /\ Saving(b) => b.head
       /\ b.head /\ b.pc = "lock" => b.seen = products
       /\ b.head /\ b.pc = "insert" => b.removed = products

OneHead == \A q, r \in Requests : batch[q].head /\ batch[r].head => q = r

SeckillInv ==
  /\ SeckillTypeOK
  /\ activity.exists => lastSave > 0
  /\ \A r \in Requests : BatchAims(batch[r])
  /\ OneHead
  /\ GoodsOfOneSave

LEMMA NoBatchType ==
  NoBatch \in BatchState /\ NoBatch.pc = "idle" /\ NoBatch.save = 0 /\ NoBatch.head = FALSE
  BY SeckillAssumption DEF NoBatch, BatchState

\* A statement that commits nothing.
LEMMA BatchMoves ==
  ASSUME SeckillInv, NEW r \in Requests, NEW b \in BatchState,
         batch' = [batch EXCEPT ![r] = b],
         UNCHANGED <<activity, products>>,
         lastSave' \in 0..MaxSaves, lastSave' >= lastSave,
         BatchAims(b)',
         b.head => batch[r].head \/ HeadIsFree(r)
  PROVE  SeckillInv'
<1>1. SeckillTypeOK'
  BY DEF SeckillInv, SeckillTypeOK
<1>2. /\ batch'[r] = b
      /\ \A q \in Requests \ {r} : batch'[q] = batch[q]
  BY DEF SeckillInv, SeckillTypeOK
<1>3. OneHead'
  BY <1>2 DEF SeckillInv, OneHead, HeadIsFree
<1>4. lastSave \in Int /\ lastSave' \in Int
  BY DEF SeckillInv, SeckillTypeOK
<1>5. ASSUME NEW q \in Requests
      PROVE  BatchAims(batch[q])'
  <2>1. CASE q = r
    BY <1>2, <2>1 DEF BatchAims, Saving
  <2>2. CASE q # r
    <3>1. BatchAims(batch[q]) /\ batch'[q] = batch[q]
      BY <1>2, <2>2 DEF SeckillInv
    <3>2. QED
      BY <1>4, <3>1 DEF BatchAims, Saving
  <2>3. QED
    BY <2>1, <2>2
<1>6. QED
  BY <1>1, <1>3, <1>4, <1>5 DEF SeckillInv, GoodsOfOneSave

LEMMA BatchOfRequest ==
  ASSUME SeckillInv, NEW r \in Requests
  PROVE  /\ batch[r] \in BatchState /\ BatchAims(batch[r])
         /\ lastSave \in 0..MaxSaves /\ lastSave >= lastSave
         /\ products \subseteq Saves
  BY DEF SeckillInv, SeckillTypeOK

LEMMA FindKeeps ==
  ASSUME SeckillInv, NEW r \in Requests, FindActivity(r)
  PROVE  SeckillInv'
<1>1. PICK n : n = lastSave + 1
  OBVIOUS
<1>2. n \in 0..MaxSaves /\ n > lastSave /\ n > 0
  BY <1>1, BatchOfRequest DEF FindActivity
<1>3. PICK b : b = [NoBatch EXCEPT !.pc = "head", !.save = n]
  OBVIOUS
<1>4. b \in BatchState /\ b.pc = "head" /\ b.head = FALSE /\ b.save = n
  BY <1>2, <1>3, NoBatchType DEF BatchState
<1>5. /\ batch' = [batch EXCEPT ![r] = b]
      /\ lastSave' = n /\ UNCHANGED <<activity, products>>
  BY <1>1, <1>3 DEF FindActivity
<1>6. BatchAims(b)'
  BY <1>2, <1>4, <1>5 DEF BatchAims, Saving
<1>7. lastSave' \in 0..MaxSaves /\ lastSave' >= lastSave
  BY <1>2, <1>5, BatchOfRequest
<1>8. QED
  BY <1>4, <1>5, <1>6, <1>7, BatchMoves

LEMMA UpdateHeadKeeps ==
  ASSUME SeckillInv, NEW r \in Requests, UpdateHead(r)
  PROVE  SeckillInv'
<1>1. PICK b : b = [batch[r] EXCEPT !.pc = "goods", !.head = LocksHead]
  OBVIOUS
<1>2. LocksHead = activity.exists /\ activity.exists \in BOOLEAN
  BY DEF LocksHead, SeckillInv, SeckillTypeOK, Activity
<1>3. /\ b \in BatchState /\ b.pc = "goods" /\ b.head = activity.exists
      /\ b.save = batch[r].save
  BY <1>1, <1>2, BatchOfRequest DEF BatchState
<1>4. /\ batch' = [batch EXCEPT ![r] = b]
      /\ batch[r].pc = "head" /\ batch[r].save # 0 /\ HeadIsFree(r)
      /\ UNCHANGED <<activity, products, lastSave>>
  BY <1>1 DEF UpdateHead
<1>5. BatchAims(b)'
  BY <1>2, <1>3, <1>4, BatchOfRequest DEF BatchAims, Saving
<1>6. lastSave' \in 0..MaxSaves /\ lastSave' >= lastSave
  BY <1>4, BatchOfRequest
<1>7. QED
  BY <1>3, <1>4, <1>5, <1>6, BatchMoves

LEMMA SeeGoodsKeeps ==
  ASSUME SeckillInv, NEW r \in Requests, SeeGoods(r)
  PROVE  SeckillInv'
<1>1. PICK b : b = [batch[r] EXCEPT !.pc = "lock", !.seen = products]
  OBVIOUS
<1>2. /\ b \in BatchState /\ b.pc = "lock" /\ b.head = batch[r].head
      /\ b.save = batch[r].save /\ b.seen = products
  BY <1>1, BatchOfRequest DEF BatchState
<1>3. /\ batch' = [batch EXCEPT ![r] = b]
      /\ batch[r].pc = "goods"
      /\ UNCHANGED <<activity, products, lastSave>>
  BY <1>1 DEF SeeGoods
<1>4. BatchAims(b)'
  BY <1>2, <1>3, BatchOfRequest DEF BatchAims, Saving
<1>5. lastSave' \in 0..MaxSaves /\ lastSave' >= lastSave
  BY <1>3, BatchOfRequest
<1>6. QED
  BY <1>2, <1>3, <1>4, <1>5, BatchMoves

LEMMA RemoveGoodsKeeps ==
  ASSUME SeckillInv, NEW r \in Requests, RemoveGoods(r)
  PROVE  SeckillInv'
<1>1. PICK pc : pc = IF batch[r].save = 0 THEN "head" ELSE "insert"
  OBVIOUS
<1>2. PICK S : S = batch[r].seen \cap products
  OBVIOUS
<1>3. PICK b : b = [batch[r] EXCEPT !.pc = pc, !.removed = S]
  OBVIOUS
<1>4. S \subseteq Saves
  BY <1>2, BatchOfRequest
<1>5. /\ b \in BatchState /\ b.pc = pc /\ b.head = batch[r].head
      /\ b.save = batch[r].save /\ b.removed = S
  BY <1>1, <1>3, <1>4, BatchOfRequest DEF BatchState
<1>6. /\ batch' = [batch EXCEPT ![r] = b]
      /\ batch[r].pc = "lock"
      /\ UNCHANGED <<activity, products, lastSave>>
  BY <1>1, <1>2, <1>3 DEF RemoveGoods
<1>7. BatchAims(b)'
  <2>1. CASE b.save = 0
    <3>1. b.pc = "head" /\ ~b.head
      BY <1>1, <1>5, <2>1, BatchOfRequest DEF BatchAims, Saving
    <3>2. QED
      BY <2>1, <3>1 DEF BatchAims, Saving
  <2>2. CASE b.save # 0
    <3>1. b.pc = "insert" /\ Saving(batch[r]) /\ lastSave > 0
      BY <1>1, <1>5, <1>6, <2>2, BatchOfRequest DEF BatchAims, Saving
    <3>2. activity.exists => b.head /\ b.removed = products
      BY <1>2, <1>5, <1>6, <3>1, BatchOfRequest DEF BatchAims
    <3>3. QED
      BY <1>6, <2>2, <3>1, <3>2 DEF BatchAims, Saving
  <2>3. QED
    BY <2>1, <2>2
<1>8. lastSave' \in 0..MaxSaves /\ lastSave' >= lastSave
  BY <1>6, BatchOfRequest
<1>9. QED
  BY <1>5, <1>6, <1>7, <1>8, BatchMoves

LEMMA DeleteBegins ==
  ASSUME SeckillInv, NEW r \in Requests, DeleteActivity(r)
  PROVE  SeckillInv'
<1>1. PICK b : b = [NoBatch EXCEPT !.pc = "goods"]
  OBVIOUS
<1>2. b \in BatchState /\ b.pc = "goods" /\ b.head = FALSE /\ b.save = 0
  BY <1>1, NoBatchType DEF BatchState
<1>3. batch' = [batch EXCEPT ![r] = b] /\ UNCHANGED <<activity, products, lastSave>>
  BY <1>1 DEF DeleteActivity
<1>4. BatchAims(b)'
  BY <1>2 DEF BatchAims, Saving
<1>5. QED
  BY <1>2, <1>3, <1>4, BatchOfRequest, BatchMoves

LEMMA RollBackKeeps ==
  ASSUME SeckillInv, NEW r \in Requests, RollBack(r)
  PROVE  SeckillInv'
<1>1. batch' = [batch EXCEPT ![r] = NoBatch] /\ UNCHANGED <<activity, products, lastSave>>
  BY DEF RollBack
<1>2. BatchAims(NoBatch)'
  BY NoBatchType DEF BatchAims, Saving
<1>3. QED
  BY <1>1, <1>2, NoBatchType, BatchOfRequest, BatchMoves

\* A transaction that ends leaves the others without the head.
LEMMA BatchEnds ==
  ASSUME SeckillInv, NEW r \in Requests, batch' = [batch EXCEPT ![r] = NoBatch]
  PROVE  /\ batch' \in [Requests -> BatchState]
         /\ OneHead'
         /\ batch'[r] = NoBatch
         /\ \A q \in Requests \ {r} : batch'[q] = batch[q]
<1>1. /\ batch'[r] = NoBatch
      /\ \A q \in Requests \ {r} : batch'[q] = batch[q]
      /\ batch' \in [Requests -> BatchState]
  BY NoBatchType DEF SeckillInv, SeckillTypeOK
<1>2. OneHead'
  BY <1>1, NoBatchType DEF SeckillInv, OneHead
<1>3. QED
  BY <1>1, <1>2

LEMMA InsertGoodsKeeps ==
  ASSUME SeckillInv, NEW r \in Requests, InsertGoods(r)
  PROVE  SeckillInv'
<1>1. PICK b \in BatchState : b = batch[r] /\ BatchAims(b)
  BY BatchOfRequest
<1>2. /\ b.pc = "insert"
      /\ products' = (products \ b.removed) \cup {b.save}
      /\ activity' = IF activity.exists THEN [activity EXCEPT !.save = b.save] ELSE activity
      /\ batch' = [batch EXCEPT ![r] = NoBatch]
      /\ lastSave' = lastSave
  BY <1>1 DEF InsertGoods
<1>3. b.save \in Saves /\ Saving(b)
  BY <1>1, <1>2 DEF BatchAims, BatchState, Saves, Saving
<1>4. /\ activity' \in Activity /\ activity'.exists = activity.exists
      /\ activity.exists => activity'.save = b.save
  BY <1>2, <1>3 DEF SeckillInv, SeckillTypeOK, Activity, Saves
<1>5. SeckillTypeOK'
  BY <1>2, <1>3, <1>4, BatchEnds DEF SeckillInv, SeckillTypeOK
<1>6. activity.exists => b.head /\ b.removed = products
  BY <1>1, <1>2, <1>3 DEF BatchAims
<1>7. GoodsOfOneSave'
  BY <1>2, <1>4, <1>6 DEF GoodsOfOneSave
<1>8. ASSUME NEW q \in Requests
      PROVE  BatchAims(batch[q])'
  <2>1. CASE q = r
    BY <1>2, <2>1, NoBatchType, BatchEnds DEF BatchAims, Saving
  <2>2. CASE q # r
    <3>1. BatchAims(batch[q]) /\ batch'[q] = batch[q]
      BY <1>2, <2>2, BatchEnds DEF SeckillInv
    <3>2. activity.exists => ~batch[q].head
      BY <1>1, <1>6, <2>2 DEF SeckillInv, OneHead
    <3>3. QED
      BY <1>2, <1>4, <3>1, <3>2 DEF BatchAims, Saving
  <2>3. QED
    BY <2>1, <2>2
<1>9. QED
  BY <1>2, <1>4, <1>5, <1>7, <1>8, BatchEnds DEF SeckillInv

LEMMA DeleteHeadKeeps ==
  ASSUME SeckillInv, NEW r \in Requests, DeleteHead(r)
  PROVE  SeckillInv'
<1>1. /\ products' \subseteq products
      /\ activity' = [exists |-> FALSE, save |-> 0]
      /\ batch' = [batch EXCEPT ![r] = NoBatch]
      /\ lastSave' = lastSave
  BY DEF DeleteHead
<1>2. activity' \in Activity /\ activity'.exists = FALSE
  BY <1>1 DEF Activity
<1>3. SeckillTypeOK'
  BY <1>1, <1>2, BatchEnds DEF SeckillInv, SeckillTypeOK
<1>4. ASSUME NEW q \in Requests
      PROVE  BatchAims(batch[q])'
  <2>1. batch'[q] = NoBatch \/ (batch'[q] = batch[q] /\ BatchAims(batch[q]))
    BY <1>1, BatchEnds DEF SeckillInv
  <2>2. QED
    BY <1>1, <1>2, <2>1, NoBatchType DEF BatchAims, Saving
<1>5. GoodsOfOneSave'
  BY <1>2 DEF GoodsOfOneSave
<1>6. QED
  BY <1>1, <1>2, <1>3, <1>4, <1>5, BatchEnds DEF SeckillInv

LEMMA CreateKeeps ==
  ASSUME SeckillInv, CreateActivity
  PROVE  SeckillInv'
<1>1. /\ lastSave = 0 /\ lastSave' = 1
      /\ activity' = [exists |-> TRUE, save |-> 1]
      /\ products' = {1} /\ batch' = batch
  BY DEF CreateActivity
<1>2. SeckillTypeOK'
  BY <1>1 DEF SeckillInv, SeckillTypeOK, Activity, Saves
<1>3. ASSUME NEW r \in Requests
      PROVE  BatchAims(batch[r])'
  <2>1. batch[r].pc # "idle" => batch[r].save = 0
    BY <1>1 DEF SeckillInv, BatchAims
  <2>2. ~Saving(batch[r]) /\ batch'[r] = batch[r]
    BY <1>1, <2>1 DEF Saving
  <2>3. BatchAims(batch[r])
    BY DEF SeckillInv
  <2>4. ~batch[r].head
    BY <2>2, <2>3 DEF BatchAims
  <2>5. batch[r].pc = "insert" => batch[r].save # 0
    BY <2>3 DEF BatchAims
  <2>6. batch[r].pc = "idle" \/ batch[r].save = 0
    BY <2>1
  <2>7. QED
    BY <2>2, <2>4, <2>5, <2>6 DEF BatchAims, Saving
<1>4. GoodsOfOneSave' /\ OneHead' /\ lastSave' > 0
  BY <1>1 DEF GoodsOfOneSave, OneHead, SeckillInv
<1>5. QED
  BY <1>2, <1>3, <1>4 DEF SeckillInv

LEMMA SeckillInvHolds == SeckillSpec => []SeckillInv
<1>1. SeckillInit => SeckillInv
  <2>1. SUFFICES ASSUME SeckillInit PROVE SeckillInv
    OBVIOUS
  <2>2. SeckillTypeOK /\ ~activity.exists
    BY <2>1, NoBatchType DEF SeckillInit, SeckillTypeOK, Activity
  <2>3. OneHead /\ \A r \in Requests : BatchAims(batch[r])
    BY <2>1, NoBatchType DEF SeckillInit, OneHead, BatchAims, Saving
  <2>4. QED
    BY <2>2, <2>3 DEF SeckillInv, GoodsOfOneSave
<1>2. ASSUME SeckillInv, [SeckillNext]_seckillVars
      PROVE  SeckillInv'
  <2>1. CASE UNCHANGED seckillVars
    BY <1>2, <2>1 DEF seckillVars, SeckillInv, SeckillTypeOK, BatchAims, Saving, OneHead,
       GoodsOfOneSave
  <2>2. QED
    BY <1>2, <2>1, CreateKeeps, FindKeeps, UpdateHeadKeeps, SeeGoodsKeeps, RemoveGoodsKeeps,
       InsertGoodsKeeps, DeleteBegins, DeleteHeadKeeps, RollBackKeeps DEF SeckillNext, BatchStep
<1>3. QED
  BY <1>1, <1>2, PTL DEF SeckillSpec

\* The head of the sale, its goods and the saves in flight keep their types.
THEOREM SeckillTypeCorrect == SeckillSpec => []SeckillTypeOK
<1>1. SeckillInv => SeckillTypeOK
  BY DEF SeckillInv
<1>2. QED
  BY <1>1, SeckillInvHolds, PTL

\* The lock that the UPDATE of the head takes is enough to keep the goods of two
\* saves apart, for any numbers of both (SeckillRepo.UpdateActivity).
THEOREM SaleShowsOneSave == SeckillSpec => []GoodsOfOneSave
<1>1. SeckillInv => GoodsOfOneSave
  BY DEF SeckillInv
<1>2. QED
  BY <1>1, SeckillInvHolds, PTL

-----------------------------------------------------------------------------
(***************************************************************************)
(* CouponIssue                                                             *)
(***************************************************************************)

\* Whoever counts or issues holds the lock.
HoldsLock(r) ==
  req[r].pc \in {"count", "issue"} => lock = r /\ req[r].member \in Members

\* What an edit will write agrees with itself, whatever the row has become.
WriteAgrees(r) ==
  IF req[r].recount
  THEN /\ req[r].write.remain <= req[r].write.total
       /\ req[r].write.unlimited => req[r].write.total = 0
  ELSE ~req[r].write.unlimited

\* The count made under the lock is still good when the row is inserted.
CountIsGood(r) ==
  req[r].pc = "issue" /\ ~req[r].granted /\ coupon.perLimit > 0 =>
    Cardinality(RowsOf(req[r].member)) < coupon.perLimit

-----------------------------------------------------------------------------
(* Types *)

\* The state of a request that is idle, and of one whose stage alone changes.
LEMMA IdleType == Idle \in RequestState
  BY DEF Idle, NoCoupon, RequestState, CouponRow

\* What a form may hold, and the columns the two counts are replaced in, are rows.
LEMMA FormType ==
  ASSUME NEW form \in Forms
  PROVE  /\ form \in CouponRow
         /\ Created(form) \in CouponRow
         /\ [form EXCEPT !.total = 0] \in CouponRow
         /\ TypeOK => Edited(form) \in CouponRow
  <1>1. form \in CouponRow
    <2>1. form \in [exists : BOOLEAN, enabled : BOOLEAN, unlimited : BOOLEAN,
                    total : Totals, remain : {0}, perLimit : PerLimits]
      BY DEF Forms
    <2>2. form.total \in Totals /\ form.remain = 0 /\ form.perLimit \in PerLimits
      BY <2>1
    <2>3. form.total \in Nat
      BY <2>2
    <2>4. form.perLimit \in Nat
      BY <2>2
    <2>5. form.remain \in Nat
      BY <2>2
    <2> QED BY <2>1, <2>3, <2>4, <2>5 DEF CouponRow
  <1>2. Created(form) \in CouponRow
    BY <1>1 DEF Created, CouponRow
  <1>3. [form EXCEPT !.total = 0] \in CouponRow
    BY <1>1 DEF CouponRow
  <1>4. ASSUME TypeOK PROVE Edited(form) \in CouponRow
    <2>1. NewRemain(form) \in Nat
      BY <1>1, <1>4 DEF NewRemain, Max0, TypeOK, CouponRow
    <2>2. PICK n \in Nat : n = NewRemain(form)
      BY <2>1
    <2>3. CASE form.unlimited
      <3>1. PICK f \in CouponRow : f = [form EXCEPT !.total = 0]
        BY <1>3
      <3>2. Edited(form) = [f EXCEPT !.remain = 0]
        BY <1>1, <2>3, <3>1 DEF Edited, CouponRow
      <3> QED BY <3>2 DEF CouponRow
    <2>4. CASE ~form.unlimited
      <3>1. Edited(form) = [form EXCEPT !.remain = n]
        BY <1>1, <2>2, <2>4 DEF Edited, CouponRow
      <3> QED BY <1>1, <3>1 DEF CouponRow
    <2> QED BY <2>3, <2>4
  <1> QED BY <1>1, <1>2, <1>3, <1>4

\* A request that starts or ends keeps the type of the whole function.
LEMMA SetRequest ==
  ASSUME req \in [Requests -> RequestState], NEW r \in Requests,
         NEW s \in RequestState, req' = [req EXCEPT ![r] = s]
  PROVE  req' \in [Requests -> RequestState]
  OBVIOUS

\* No step breaks a type.
LEMMA TypeStep == TypeOK /\ [Next]_vars => TypeOK'
  <1> SUFFICES ASSUME TypeOK, [Next]_vars PROVE TypeOK'
    OBVIOUS
  <1>1. CASE UNCHANGED vars
    BY <1>1 DEF TypeOK, vars
  <1>2. CASE DeleteCoupon
    BY <1>2 DEF DeleteCoupon, TypeOK, NoCoupon, CouponRow
  <1>3. ASSUME NEW r \in Requests, RequestStep(r) PROVE TypeOK'
    <2>1. CASE \E m \in Members : Receive(r, m) \/ AdminGrantCoupon(r, m)
      <3>1. PICK m \in Members : Receive(r, m) \/ AdminGrantCoupon(r, m)
        BY <2>1
      <3>2. PICK s \in RequestState : req' = [req EXCEPT ![r] = s]
        <4>1. CASE Receive(r, m)
          <5>1. [Idle EXCEPT !.pc = "count", !.member = m] \in RequestState
            BY IdleType DEF RequestState
          <5> QED BY <4>1, <5>1 DEF Receive, Starts
        <4>2. CASE AdminGrantCoupon(r, m)
          <5>1. [Idle EXCEPT !.pc = "issue", !.member = m, !.granted = TRUE] \in RequestState
            BY IdleType DEF RequestState
          <5> QED BY <4>2, <5>1 DEF AdminGrantCoupon, Starts
        <4> QED BY <3>1, <4>1, <4>2
      <3>3. UNCHANGED <<coupon, issued>> /\ lock' = r
        BY <3>1 DEF Receive, AdminGrantCoupon, FindByIDForUpdate
      <3> QED BY <3>2, <3>3, SetRequest DEF TypeOK
    <2>2. CASE CountReceived(r)
      <3>1. [req[r] EXCEPT !.pc = "issue"] \in RequestState
        BY DEF TypeOK, RequestState
      <3> QED BY <2>2, <3>1, SetRequest DEF CountReceived, TypeOK
    <2>3. CASE Issue(r)
      <3>1. PICK i \in Rows :
              /\ issued' = [issued EXCEPT ![i] = req[r].member]
              /\ IF coupon.unlimited THEN UNCHANGED coupon ELSE DecreaseRemain
              /\ lock' = None
              /\ Finishes(r)
        BY <2>3 DEF Issue
      <3>2. coupon' \in CouponRow
        BY <3>1 DEF DecreaseRemain, TypeOK, CouponRow
      <3>3. req[r].member \in Members \cup {None}
        BY DEF TypeOK, RequestState
      <3>4. issued' \in [Rows -> Members \cup {None}]
        BY <3>1, <3>3 DEF TypeOK
      <3> QED BY <3>1, <3>2, <3>4, SetRequest, IdleType DEF Finishes, TypeOK
    <2>4. CASE ReadCoupon(r)
      <3>1. PICK form \in Forms :
              /\ Starts(r, [Idle EXCEPT !.pc = "edit", !.recount = Recounts(form),
                              !.write = IF Recounts(form) THEN Edited(form) ELSE
                                [form EXCEPT !.total = 0]])
              /\ UNCHANGED <<coupon, lock, issued>>
        BY <2>4 DEF ReadCoupon
      <3>2. PICK w \in CouponRow :
              w = IF Recounts(form) THEN Edited(form) ELSE [form EXCEPT !.total = 0]
        BY FormType
      <3>3. PICK b \in BOOLEAN : b = Recounts(form)
        BY FormType DEF Recounts, TypeOK, CouponRow
      <3>4. [Idle EXCEPT !.pc = "edit", !.recount = b, !.write = w] \in RequestState
        BY IdleType DEF RequestState
      <3> QED BY <3>1, <3>2, <3>3, <3>4, SetRequest DEF Starts, TypeOK
    <2>5. CASE WriteCoupon(r)
      <3>1. req[r].write \in CouponRow
        BY DEF TypeOK, RequestState
      <3>2. [req[r].write EXCEPT !.total = coupon.total, !.remain = coupon.remain] \in CouponRow
        BY <3>1 DEF TypeOK, CouponRow
      <3>3. coupon' \in CouponRow
        BY <2>5, <3>1, <3>2 DEF WriteCoupon, TypeOK
      <3> QED BY <2>5, <3>3, SetRequest, IdleType DEF WriteCoupon, Finishes, TypeOK
    <2>6. CASE Abandon(r)
      BY <2>6, SetRequest, IdleType DEF Abandon, Finishes, TypeOK
    <2> QED BY <1>3, <2>1, <2>2, <2>3, <2>4, <2>5, <2>6 DEF RequestStep
  <1> QED BY <1>1, <1>2, <1>3 DEF Next

\* The initial state is well typed.
LEMMA TypeInit == Init => TypeOK
  <1> SUFFICES ASSUME Init PROVE TypeOK
    OBVIOUS
  <1>1. coupon \in CouponRow
    BY FormType DEF Init
  <1> QED BY <1>1, IdleType DEF Init, TypeOK

\* Every variable keeps its type, the remaining count a natural number.
THEOREM CouponTypeCorrect == Spec => []TypeOK
  BY TypeInit, TypeStep, PTL DEF Spec

-----------------------------------------------------------------------------
(* The counts *)

CountsInv == CountsAgree /\ \A r \in Requests : WriteAgrees(r)

\* A step that writes neither the coupon nor the write of any request.
LEMMA SameWrites ==
  ASSUME CountsInv, UNCHANGED coupon,
         \A q \in Requests : WriteAgrees(q)'
  PROVE  CountsInv'
  BY DEF CountsInv, CountsAgree

\* One request's state is replaced, the others' stay.
LEMMA Replaced ==
  ASSUME TypeOK, NEW r \in Requests, NEW s, req' = [req EXCEPT ![r] = s]
  PROVE  /\ req'[r] = s
         /\ \A q \in Requests \ {r} : req'[q] = req[q]
  BY DEF TypeOK

\* What a form makes of the row that was read agrees with itself.
LEMMA EditedAgrees ==
  ASSUME TypeOK, CountsAgree, NEW form \in Forms
  PROVE  /\ Recounts(form) => /\ Edited(form).remain <= Edited(form).total
                              /\ Edited(form).unlimited => Edited(form).total = 0
         /\ ~Recounts(form) => ~form.unlimited
  <1>1. form \in CouponRow /\ coupon \in CouponRow
    BY FormType DEF TypeOK
  <1>2. Recounts(form) <=>
          form.unlimited \/ coupon.unlimited \/ form.total # coupon.total
    BY DEF Recounts
  <1>3. CASE form.unlimited
    <2>1. Edited(form).total = 0 /\ Edited(form).remain = 0
      BY <1>1, <1>3 DEF Edited, CouponRow
    <2> QED BY <1>2, <1>3, <2>1
  <1>4. CASE ~form.unlimited
    <2>1. /\ Edited(form).total = form.total
          /\ Edited(form).remain = NewRemain(form)
          /\ Edited(form).unlimited = form.unlimited
      BY <1>1, <1>4 DEF Edited, CouponRow
    <2>2. NewRemain(form) <= form.total
      <3>1. form.total \in Nat /\ coupon.total \in Nat /\ coupon.remain \in Nat
        BY <1>1 DEF CouponRow
      <3>2. coupon.remain <= coupon.total
        BY DEF CountsAgree
      <3> QED BY <3>1, <3>2 DEF NewRemain, Max0
    <2> QED BY <1>4, <2>1, <2>2
  <1> QED BY <1>3, <1>4

\* No step makes the counts disagree: an edit overwrites them with a pair that
\* agrees, or leaves them to a row that is limited.
LEMMA CountsStep == TypeOK /\ CountsInv /\ [Next]_vars => CountsInv'
  <1> SUFFICES ASSUME TypeOK, CountsInv, [Next]_vars PROVE CountsInv'
    OBVIOUS
  <1>1. CASE UNCHANGED vars
    BY <1>1 DEF CountsInv, CountsAgree, WriteAgrees, vars
  <1>2. CASE DeleteCoupon
    BY <1>2 DEF DeleteCoupon, CountsInv, CountsAgree, WriteAgrees, NoCoupon
  <1>3. ASSUME NEW r \in Requests, RequestStep(r) PROVE CountsInv'
    <2>1. ASSUME UNCHANGED coupon, NEW s, req' = [req EXCEPT ![r] = s],
                 IF s.recount
                 THEN /\ s.write.remain <= s.write.total
                      /\ s.write.unlimited => s.write.total = 0
                 ELSE ~s.write.unlimited
          PROVE  CountsInv'
      <3>1. \A q \in Requests : WriteAgrees(q)'
        BY <2>1, Replaced DEF CountsInv, WriteAgrees
      <3> QED BY <2>1, <3>1, SameWrites
    <2>2. ASSUME req' = [req EXCEPT ![r] = Idle] PROVE \A q \in Requests : WriteAgrees(q)'
      BY <2>2, Replaced DEF CountsInv, WriteAgrees, Idle, NoCoupon
    <2>3. CASE \E m \in Members : Receive(r, m) \/ AdminGrantCoupon(r, m)
      <3>1. PICK m \in Members : Receive(r, m) \/ AdminGrantCoupon(r, m)
        BY <2>3
      <3>2. PICK s \in RequestState : req' = [req EXCEPT ![r] = s] /\ ~s.recount /\ s.write = NoCoupon
        <4>1. PICK a : a = [Idle EXCEPT !.pc = "count", !.member = m]
          OBVIOUS
        <4>2. PICK b : b = [Idle EXCEPT !.pc = "issue", !.member = m, !.granted = TRUE]
          OBVIOUS
        <4>3. /\ a \in RequestState /\ ~a.recount /\ a.write = NoCoupon
              /\ b \in RequestState /\ ~b.recount /\ b.write = NoCoupon
          <5>1. a \in RequestState
            BY IdleType, <4>1 DEF RequestState
          <5>2. b \in RequestState
            BY IdleType, <4>2 DEF RequestState
          <5> QED BY <5>1, <5>2, <4>1, <4>2 DEF Idle
        <4>4. req' = [req EXCEPT ![r] = a] \/ req' = [req EXCEPT ![r] = b]
          BY <3>1, <4>1, <4>2 DEF Receive, AdminGrantCoupon, Starts
        <4> QED BY <4>3, <4>4
      <3>3. UNCHANGED coupon
        BY <3>1 DEF Receive, AdminGrantCoupon
      <3>4. ~s.write.unlimited
        BY <3>2 DEF NoCoupon
      <3> QED BY <3>2, <3>3, <3>4, <2>1
    <2>4. CASE CountReceived(r)
      <3>1. PICK s : s = [req[r] EXCEPT !.pc = "issue"]
        OBVIOUS
      <3>2. s.recount = req[r].recount /\ s.write = req[r].write
        BY <3>1 DEF TypeOK, RequestState
      <3> QED BY <2>1, <2>4, <3>1, <3>2 DEF CountReceived, CountsInv, WriteAgrees
    <2>5. CASE Issue(r)
      <3>1. /\ IF coupon.unlimited THEN UNCHANGED coupon ELSE DecreaseRemain
            /\ req' = [req EXCEPT ![r] = Idle]
        BY <2>5 DEF Issue, Finishes
      <3>2. CountsAgree'
        BY <3>1 DEF DecreaseRemain, CountsInv, CountsAgree, TypeOK, CouponRow
      <3> QED BY <3>1, <3>2, <2>2 DEF CountsInv
    <2>6. CASE ReadCoupon(r)
      <3>1. PICK form \in Forms :
              /\ Starts(r, [Idle EXCEPT !.pc = "edit", !.recount = Recounts(form),
                              !.write = IF Recounts(form) THEN Edited(form) ELSE
                                [form EXCEPT !.total = 0]])
              /\ UNCHANGED <<coupon, lock, issued>>
        BY <2>6 DEF ReadCoupon
      <3>2. PICK s : s = [Idle EXCEPT !.pc = "edit", !.recount = Recounts(form),
                              !.write = IF Recounts(form) THEN Edited(form) ELSE
                                [form EXCEPT !.total = 0]]
        OBVIOUS
      <3>3. /\ s.recount = Recounts(form)
            /\ s.write = IF Recounts(form) THEN Edited(form) ELSE [form EXCEPT !.total = 0]
        BY <3>2 DEF Idle
      <3>4. [form EXCEPT !.total = 0].unlimited = form.unlimited
        BY FormType DEF CouponRow
      <3>5. CountsAgree
        BY DEF CountsInv
      <3>6. IF s.recount
            THEN /\ s.write.remain <= s.write.total
                 /\ s.write.unlimited => s.write.total = 0
            ELSE ~s.write.unlimited
        BY <3>3, <3>4, <3>5, EditedAgrees
      <3>7. UNCHANGED coupon /\ req' = [req EXCEPT ![r] = s]
        BY <3>1, <3>2 DEF Starts
      <3> QED BY <3>6, <3>7, <2>1
    <2>7. CASE WriteCoupon(r)
      <3>1. CountsAgree'
        <4>1. req[r].write \in CouponRow /\ coupon \in CouponRow
          BY DEF TypeOK, RequestState
        <4>2. PICK w : w = [req[r].write EXCEPT !.total = coupon.total, !.remain = coupon.remain]
          OBVIOUS
        <4>3. /\ w.total = coupon.total /\ w.remain = coupon.remain
              /\ w.unlimited = req[r].write.unlimited
          BY <4>1, <4>2 DEF CouponRow
        <4>4. coupon' = IF ~coupon.exists THEN coupon
                        ELSE IF req[r].recount THEN req[r].write ELSE w
          BY <2>7, <4>2 DEF WriteCoupon
        <4>5. CountsAgree /\ WriteAgrees(r)
          BY DEF CountsInv
        <4> QED BY <4>3, <4>4, <4>5 DEF CountsAgree, WriteAgrees
      <3> QED BY <2>7, <3>1, <2>2 DEF WriteCoupon, Finishes, CountsInv
    <2>8. CASE Abandon(r)
      <3>1. UNCHANGED coupon /\ req' = [req EXCEPT ![r] = Idle]
        BY <2>8 DEF Abandon, Finishes
      <3> QED BY <3>1, <2>2, SameWrites
    <2> QED BY <1>3, <2>3, <2>4, <2>5, <2>6, <2>7, <2>8 DEF RequestStep
  <1> QED BY <1>1, <1>2, <1>3 DEF Next

\* The first row agrees with itself, and no request has anything to write.
LEMMA CountsInit == Init => CountsInv
  <1> SUFFICES ASSUME Init PROVE CountsInv
    OBVIOUS
  <1>1. PICK form \in Forms : coupon = Created(form)
    BY DEF Init
  <1>2. form \in CouponRow
    BY FormType
  <1>3. CountsAgree
    BY <1>1, <1>2 DEF Created, CouponRow, CountsAgree
  <1> QED BY <1>3 DEF Init, CountsInv, WriteAgrees, Idle, NoCoupon

\* However edits overlap, no more of the coupon is left than its total, and an
\* unlimited coupon counts nothing.
THEOREM CountsAlwaysAgree == Spec => []CountsAgree
  <1>1. CountsInv => CountsAgree
    BY DEF CountsInv
  <1> QED BY <1>1, CountsInit, CountsStep, CouponTypeCorrect, PTL DEF Spec

-----------------------------------------------------------------------------
(* The limit of coupons a member can receive *)

LimitInv == \A r \in Requests : HoldsLock(r) /\ CountIsGood(r)

\* A request that neither counts nor issues asks nothing of the lock.
LEMMA OffTheLock ==
  ASSUME NEW q \in Requests, req[q].pc \notin {"count", "issue"}
  PROVE  HoldsLock(q) /\ CountIsGood(q)
  BY DEF HoldsLock, CountIsGood

\* A request that has ended, likewise.
LEMMA EndedIsGood ==
  ASSUME TypeOK, NEW r \in Requests, req' = [req EXCEPT ![r] = Idle]
  PROVE  (HoldsLock(r) /\ CountIsGood(r))'
  <1>1. req'[r] = Idle
    BY DEF TypeOK
  <1>2. Idle.pc = "idle"
    BY DEF Idle
  <1> QED BY <1>1, <1>2 DEF HoldsLock, CountIsGood

\* A request that did not move, with the lock, the limit and the rows as they were.
LEMMA Undisturbed ==
  ASSUME NEW q \in Requests, HoldsLock(q), CountIsGood(q), req'[q] = req[q],
         UNCHANGED <<issued, lock>>, coupon'.perLimit = coupon.perLimit
  PROVE  HoldsLock(q)' /\ CountIsGood(q)'
  BY DEF HoldsLock, CountIsGood, RowsOf

\* Nobody else counts or issues while a request has the lock, or while it is free.
LEMMA NobodyElse ==
  ASSUME LimitInv, NEW q \in Requests, lock # q
  PROVE  req[q].pc \notin {"count", "issue"}
  BY DEF LimitInv, HoldsLock

\* A step of one request in which the others either do not move or are off the
\* lock keeps the invariant, if it holds for the request itself.
LEMMA OneRequest ==
  ASSUME TypeOK, LimitInv, NEW r \in Requests, NEW s, req' = [req EXCEPT ![r] = s],
         (HoldsLock(r) /\ CountIsGood(r))',
         \A q \in Requests \ {r} :
           \/ req[q].pc \notin {"count", "issue"}
           \/ UNCHANGED <<issued, lock>> /\ coupon'.perLimit = coupon.perLimit
  PROVE  LimitInv'
  <1>1. ASSUME NEW q \in Requests PROVE (HoldsLock(q) /\ CountIsGood(q))'
    <2>1. CASE q = r
      BY <2>1
    <2>2. CASE q # r /\ req[q].pc \notin {"count", "issue"}
      <3>1. req'[q] = req[q]
        BY <2>2, Replaced
      <3> QED BY <2>2, <3>1 DEF HoldsLock, CountIsGood
    <2>3. CASE q # r /\ UNCHANGED <<issued, lock>> /\ coupon'.perLimit = coupon.perLimit
      <3>1. req'[q] = req[q]
        BY <2>3, Replaced
      <3>2. HoldsLock(q) /\ CountIsGood(q)
        BY DEF LimitInv
      <3> QED BY <2>3, <3>1, <3>2, Undisturbed
    <2> QED BY <2>1, <2>2, <2>3
  <1> QED BY <1>1 DEF LimitInv

\* A count made under the lock is good until the row is inserted: the steps that
\* could spoil it wait for the lock.
LEMMA LimitStep == TypeOK /\ LimitInv /\ [Next]_vars => LimitInv'
  <1> SUFFICES ASSUME TypeOK, LimitInv, [Next]_vars PROVE LimitInv'
    OBVIOUS
  <1>1. CASE UNCHANGED vars
    BY <1>1 DEF LimitInv, HoldsLock, CountIsGood, RowsOf, vars
  <1>2. CASE DeleteCoupon
    <2>1. \A q \in Requests : q # None
      BY DEF ValuesAssumption, CallsAssumption
    <2>2. \A q \in Requests : req[q].pc \notin {"count", "issue"}
      BY <1>2, <2>1, NobodyElse DEF DeleteCoupon
    <2>3. UNCHANGED req
      BY <1>2 DEF DeleteCoupon
    <2> QED BY <2>2, <2>3 DEF LimitInv, HoldsLock, CountIsGood
  <1>3. ASSUME NEW r \in Requests, RequestStep(r) PROVE LimitInv'
    <2>n. \A q \in Requests : q # None
      BY DEF ValuesAssumption, CallsAssumption
    <2>r. HoldsLock(r) /\ CountIsGood(r)
      BY DEF LimitInv
    <2>1. CASE \E m \in Members : Receive(r, m)
      <3>1. PICK m \in Members : Receive(r, m)
        BY <2>1
      <3>2. PICK s : s = [Idle EXCEPT !.pc = "count", !.member = m]
        OBVIOUS
      <3>3. req' = [req EXCEPT ![r] = s] /\ lock = None /\ lock' = r
        BY <3>1, <3>2 DEF Receive, FindByIDForUpdate, Starts
      <3>4. s.pc = "count" /\ s.member = m
        BY <3>2 DEF Idle
      <3>5. (HoldsLock(r) /\ CountIsGood(r))'
        BY <3>3, <3>4, Replaced DEF HoldsLock, CountIsGood
      <3>6. \A q \in Requests : req[q].pc \notin {"count", "issue"}
        BY <2>n, <3>3, NobodyElse
      <3> QED BY <3>3, <3>5, <3>6, OneRequest
    <2>2. CASE \E m \in Members : AdminGrantCoupon(r, m)
      <3>1. PICK m \in Members : AdminGrantCoupon(r, m)
        BY <2>2
      <3>2. PICK s : s = [Idle EXCEPT !.pc = "issue", !.member = m, !.granted = TRUE]
        OBVIOUS
      <3>3. req' = [req EXCEPT ![r] = s] /\ lock = None /\ lock' = r
        BY <3>1, <3>2 DEF AdminGrantCoupon, FindByIDForUpdate, Starts
      <3>4. s.granted /\ s.member = m
        BY <3>2 DEF Idle
      <3>5. (HoldsLock(r) /\ CountIsGood(r))'
        BY <3>3, <3>4, Replaced DEF HoldsLock, CountIsGood
      <3>6. \A q \in Requests : req[q].pc \notin {"count", "issue"}
        BY <2>n, <3>3, NobodyElse
      <3> QED BY <3>3, <3>5, <3>6, OneRequest
    <2>3. CASE CountReceived(r)
      <3>1. PICK s : s = [req[r] EXCEPT !.pc = "issue"]
        OBVIOUS
      <3>2. /\ req' = [req EXCEPT ![r] = s]
            /\ UNCHANGED <<coupon, lock, issued>>
            /\ req[r].pc = "count"
            /\ UnderLimit(req[r].member)
        BY <2>3, <3>1 DEF CountReceived
      <3>3. s.member = req[r].member
        BY <3>1 DEF TypeOK, RequestState
      <3>4. HoldsLock(r)'
        BY <2>r, <3>2, <3>3, Replaced DEF HoldsLock
      <3>5. coupon.perLimit > 0 => Cardinality(RowsOf(req[r].member)) < coupon.perLimit
        BY <3>2 DEF UnderLimit, TypeOK, CouponRow
      <3>6. CountIsGood(r)'
        BY <3>2, <3>3, <3>5, Replaced DEF CountIsGood, RowsOf
      <3> QED BY <3>2, <3>4, <3>6, OneRequest
    <2>4. CASE Issue(r)
      <3>1. req[r].pc = "issue" /\ req' = [req EXCEPT ![r] = Idle]
        BY <2>4 DEF Issue, Finishes
      <3>2. \A q \in Requests \ {r} : req[q].pc \notin {"count", "issue"}
        BY <2>r, <3>1, NobodyElse DEF HoldsLock
      <3>3. (HoldsLock(r) /\ CountIsGood(r))'
        BY <3>1, EndedIsGood
      <3> QED BY <3>1, <3>2, <3>3, OneRequest
    <2>5. CASE ReadCoupon(r)
      <3>1. PICK form \in Forms :
              /\ Starts(r, [Idle EXCEPT !.pc = "edit", !.recount = Recounts(form),
                              !.write = IF Recounts(form) THEN Edited(form) ELSE
                                [form EXCEPT !.total = 0]])
              /\ UNCHANGED <<coupon, lock, issued>>
        BY <2>5 DEF ReadCoupon
      <3>2. PICK s : s = [Idle EXCEPT !.pc = "edit", !.recount = Recounts(form),
                              !.write = IF Recounts(form) THEN Edited(form) ELSE
                                [form EXCEPT !.total = 0]]
        OBVIOUS
      <3>3. req' = [req EXCEPT ![r] = s] /\ s.pc = "edit"
        BY <3>1, <3>2 DEF Starts, Idle
      <3>4. (HoldsLock(r) /\ CountIsGood(r))'
        BY <3>3, Replaced DEF HoldsLock, CountIsGood
      <3>5. UNCHANGED <<issued, lock>> /\ coupon'.perLimit = coupon.perLimit
        BY <3>1
      <3> QED BY <3>3, <3>4, <3>5, OneRequest
    <2>6. CASE WriteCoupon(r)
      <3>1. lock = None /\ req' = [req EXCEPT ![r] = Idle]
        BY <2>6 DEF WriteCoupon, Finishes
      <3>2. \A q \in Requests : req[q].pc \notin {"count", "issue"}
        BY <2>n, <3>1, NobodyElse
      <3>3. (HoldsLock(r) /\ CountIsGood(r))'
        BY <3>1, EndedIsGood
      <3> QED BY <3>1, <3>2, <3>3, OneRequest
    <2>7. CASE Abandon(r)
      <3>1. /\ req' = [req EXCEPT ![r] = Idle]
            /\ lock' = IF lock = r THEN None ELSE lock
            /\ UNCHANGED <<coupon, issued>>
        BY <2>7 DEF Abandon, Finishes
      <3>2. (HoldsLock(r) /\ CountIsGood(r))'
        BY <3>1, EndedIsGood
      <3>3. CASE lock = r
        <4>1. \A q \in Requests \ {r} : req[q].pc \notin {"count", "issue"}
          BY <3>3, NobodyElse
        <4> QED BY <3>1, <3>2, <4>1, OneRequest
      <3>4. CASE lock # r
        <4>1. UNCHANGED <<issued, lock>> /\ coupon'.perLimit = coupon.perLimit
          BY <3>1, <3>4
        <4> QED BY <3>1, <3>2, <4>1, OneRequest
      <3> QED BY <3>3, <3>4
    <2> QED BY <1>3, <2>1, <2>2, <2>3, <2>4, <2>5, <2>6, <2>7 DEF RequestStep
  <1> QED BY <1>1, <1>2, <1>3 DEF Next

\* A step that gives a member a coupon it asked for stays within the limit.
LEMMA IssueIsWithinLimit ==
  ASSUME TypeOK, LimitInv, NEW r \in Requests, Issue(r),
         ~req[r].granted, coupon.perLimit > 0
  PROVE  Cardinality({i \in Rows : issued'[i] = req[r].member}) <= coupon.perLimit
  <1>1. PICK i \in Rows :
          /\ req[r].pc = "issue"
          /\ issued[i] = None
          /\ issued' = [issued EXCEPT ![i] = req[r].member]
    BY DEF Issue
  <1>2. PICK m \in Members : m = req[r].member
    BY <1>1 DEF LimitInv, HoldsLock
  <1>3. m # None
    BY <1>2 DEF ValuesAssumption, CallsAssumption
  <1>4. {j \in Rows : issued'[j] = m} = RowsOf(m) \cup {i}
    BY <1>1, <1>2 DEF RowsOf, TypeOK
  <1>5. i \notin RowsOf(m)
    BY <1>1, <1>3 DEF RowsOf
  <1>6. IsFiniteSet(RowsOf(m))
    <2>1. RowsOf(m) \subseteq Rows
      BY DEF RowsOf
    <2> QED BY <2>1, RowsAssumption, FS_Subset
  <1>7. Cardinality(RowsOf(m) \cup {i}) = Cardinality(RowsOf(m)) + 1
    BY <1>5, <1>6, FS_AddElement
  <1>8. Cardinality(RowsOf(m)) \in Nat
    BY <1>6, FS_CardinalityType
  <1>9. Cardinality(RowsOf(m)) < coupon.perLimit
    BY <1>1, <1>2 DEF LimitInv, CountIsGood
  <1>10. coupon.perLimit \in Nat
    BY DEF TypeOK, CouponRow
  <1>11. Cardinality({j \in Rows : issued'[j] = m}) <= coupon.perLimit
    <2>1. Cardinality(RowsOf(m) \cup {i}) <= coupon.perLimit
      BY <1>7, <1>8, <1>9, <1>10
    <2> QED BY <1>4, <2>1
  <1> QED BY <1>2, <1>11

\* A member who receives the coupon never ends up with more of it than the limit
\* of the moment, for any number of members, requests and rows.
THEOREM ReceivingKeepsTheLimit == Spec => ReceivedWithinLimit
  <1>1. Init => LimitInv
    BY DEF Init, LimitInv, HoldsLock, CountIsGood, Idle
  <1>2. TypeOK /\ LimitInv /\ [Next]_vars =>
          [\A r \in Requests :
             Issue(r) /\ ~req[r].granted /\ coupon.perLimit > 0 =>
               Cardinality({i \in Rows : issued'[i] = req[r].member}) <= coupon.perLimit]_vars
    BY IssueIsWithinLimit
  <1> QED BY <1>1, <1>2, LimitStep, CouponTypeCorrect, PTL DEF Spec, ReceivedWithinLimit
=============================================================================
