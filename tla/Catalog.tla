------------------------------ MODULE Catalog --------------------------------
(***************************************************************************)
(* The products of one tenant as far as its plan limits them: creating one *)
(* (ProductService.Create), importing a file of them (ImportCSV), deleting *)
(* one, and the tenant's plan, which may change, and whose limit the       *)
(* platform may edit.  The stock of the products and their editing are in  *)
(* OrderTrade.                                                             *)
(*                                                                         *)
(* The products are counted in one statement and inserted in another.  An  *)
(* import is a sequence of creations by one request; a row that fails is   *)
(* skipped, the rows before it stay.                                       *)
(*                                                                         *)
(* BelowLimitInclusive is not part of the specification: BelowLimit with a *)
(* plausible defect, kept to see that the property can fail.               *)
(***************************************************************************)
EXTENDS Calls

CONSTANTS
  PlanIds,
  Quotas,    \* the values of a plan's ProductLimit, 0 for no limit
  MaxFileRows, \* rows of a file; a creation is a file of one row (bound of the model)
  MaxGoods   \* products at a time (bound of the model)

ASSUME CatalogAssumption ==
  /\ None \notin PlanIds
  /\ Quotas \subseteq Nat
  /\ MaxFileRows \in Nat /\ MaxGoods \in Nat
ASSUME TasksAssumption == IsFiniteSet(Requests)

VARIABLES
  goods,   \* the products that are not deleted
  planId,  \* the tenant's plan
  quota,   \* [PlanIds -> the plan's ProductLimit]
  widest,  \* the widest limit there has been, 0 after no limit (history)
  task     \* [Requests -> TaskState]

catalogVars == <<goods, planId, quota, widest, task>>

-----------------------------------------------------------------------------
\* plan is the one that the tenant had when the request came in.
TaskState == [pc : {"idle", "count", "insert"}, rows : 0..MaxFileRows,
              plan : PlanIds \cup {None}]

NoTask == [pc |-> "idle", rows |-> 0, plan |-> None]

\* The row is done with, created or not.
NextRow(t) ==
  IF t.rows = 1 THEN NoTask ELSE [t EXCEPT !.pc = "count", !.rows = @ - 1]

Wider(a, b) == IF a = 0 \/ b = 0 THEN 0 ELSE IF a < b THEN b ELSE a

CreateProducts(r, n) ==
  /\ task[r].pc = "idle"
  /\ task' = [task EXCEPT ![r] = [pc |-> "count", rows |-> n, plan |-> planId]]
  /\ UNCHANGED <<goods, planId, quota, widest>>

BelowLimitInclusive(p) == quota[p] = 0 \/ goods <= quota[p]
BelowLimit(p) == quota[p] = 0 \/ goods < quota[p]

\* Count, CheckProductLimit and the features of the plan.
CountProducts(r) ==
  /\ task[r].pc = "count"
  /\ BelowLimit(task[r].plan)
  /\ task' = [task EXCEPT ![r] = [@ EXCEPT !.pc = "insert"]]
  /\ UNCHANGED <<goods, planId, quota, widest>>

InsertProduct(r) ==
  /\ task[r].pc = "insert"
  /\ goods < MaxGoods
  /\ goods' = goods + 1
  /\ task' = [task EXCEPT ![r] = NextRow(@)]
  /\ UNCHANGED <<planId, quota, widest>>

\* A limit that is reached, a feature that the plan lacks, a row that
\* buildImportProduct refuses: the import goes on with the next row.
RowFails(r) ==
  /\ task[r].pc # "idle"
  /\ task' = [task EXCEPT ![r] = NextRow(@)]
  /\ UNCHANGED <<goods, planId, quota, widest>>

\* A process that dies: the rows that are done stay.
TaskDies(r) ==
  /\ task[r].pc # "idle"
  /\ task' = [task EXCEPT ![r] = NoTask]
  /\ UNCHANGED <<goods, planId, quota, widest>>

\* Soft, so that it is no longer counted.
DeleteProduct ==
  /\ goods > 0
  /\ goods' = goods - 1
  /\ UNCHANGED <<planId, quota, widest, task>>

PlanChanges(p) ==
  /\ planId' = p
  /\ UNCHANGED <<goods, quota, widest, task>>

PlanEdited(p, q) ==
  /\ quota' = [quota EXCEPT ![p] = q]
  /\ widest' = Wider(widest, q)
  /\ UNCHANGED <<goods, planId, task>>

-----------------------------------------------------------------------------
CatalogInit ==
  /\ goods = 0
  /\ planId \in PlanIds
  /\ \E q \in Quotas : quota = [p \in PlanIds |-> q] /\ widest = q
  /\ task = [r \in Requests |-> NoTask]

TaskStep(r) ==
  \/ \E n \in 1..MaxFileRows : CreateProducts(r, n)
  \/ CountProducts(r) \/ InsertProduct(r)
  \/ RowFails(r) \/ TaskDies(r)

CatalogNext ==
  \/ \E r \in Requests : TaskStep(r)
  \/ DeleteProduct
  \/ \E p \in PlanIds : PlanChanges(p)
  \/ \E p \in PlanIds, q \in Quotas : PlanEdited(p, q)

CatalogSpec == CatalogInit /\ [][CatalogNext]_catalogVars

-----------------------------------------------------------------------------
(* Properties *)

\* The variables keep their types.
CatalogTypeOK ==
  /\ goods \in Nat
  /\ planId \in PlanIds
  /\ quota \in [PlanIds -> Quotas]
  /\ widest \in Quotas \cup {0}
  /\ task \in [Requests -> TaskState]

\* The check and the insertion are apart, so the plan's limit can be exceeded: by
\* fewer products than there are requests in flight, however many rows their files
\* have, and whatever the plan was when they came in and is now
\* (ProductService.Create, TenantService.CheckProductLimit).
ProductsOvershoot ==
  widest # 0 => goods < widest + Cardinality(Requests)
=============================================================================
