------------------------- MODULE SubscriptionProofs -------------------------
(***************************************************************************)
(* Theorems about Subscription, for every set of orders, plans, billing    *)
(* cycles and requests, and for every length of the trial, the graces and  *)
(* the cycles.                                                             *)
(***************************************************************************)
EXTENDS Subscription, SumProofs, TLAPS

USE SubscriptionAssumption

\* What the stage of a request says of the data it carries.
Aimed(s) ==
  /\ s.pc \in {"hasPaid", "insert"} => s.plan \in Plans /\ s.cycle \in Cycles
  /\ s.pc \in {"tenant", "markPaid", "extend"} =>
       s.order \in SubOrders /\ order[s.order].status # "none"
TypeInv == TypeOK /\ \A p \in Processes : Aimed(req[p])

RowsKept == \A o \in SubOrders : order[o].status # "none" => order'[o].status # "none"

-----------------------------------------------------------------------------
(* Type correctness *)

LEMMA IdleType == Idle \in RequestState
  BY DEF Idle, RequestState, TenantStatus

LEMMA LaterType == \A a, b \in Nat : Later(a, b) \in Nat
  BY DEF Later

\* A process moves to a state that is aimed, and no row disappears.
LEMMA RequestMoves ==
  ASSUME TypeInv, NEW p \in Processes, NEW s \in RequestState,
         req' = [req EXCEPT ![p] = s], Aimed(s)', RowsKept
  PROVE  /\ req' \in [Processes -> RequestState]
         /\ \A q \in Processes : Aimed(req[q])'
<1>1. req \in [Processes -> RequestState]
  BY DEF TypeInv, TypeOK
<1>2. ASSUME NEW q \in Processes
      PROVE  Aimed(req[q])'
  <2>1. CASE q = p
    BY <1>1, <2>1 DEF Aimed
  <2>2. CASE q # p
    <3>1. req'[q] = req[q] /\ Aimed(req[q])
      BY <1>1, <2>2 DEF TypeInv
    <3>2. QED
      BY <3>1 DEF Aimed, RowsKept
  <2>3. QED
    BY <2>1, <2>2
<1>3. QED
  BY <1>1, <1>2

LEMMA ProcessFinishes ==
  ASSUME TypeInv, NEW p \in Processes, Finishes(p), RowsKept
  PROVE  /\ req' \in [Processes -> RequestState]
         /\ \A q \in Processes : Aimed(req[q])'
<1>1. Aimed(Idle)'
  BY DEF Aimed, Idle
<1>2. QED
  BY <1>1, IdleType, RequestMoves DEF Finishes

\* A process goes to a stage for which it needs no data, or on with the data
\* of the stage it is in.
LEMMA ProcessGoesOn ==
  ASSUME TypeInv, NEW p \in Processes, NEW pc, GoesTo(p, pc), RowsKept,
         \/ pc \in {"clear", "listOverdue", "ban", "invalidate"}
         \/ pc = "insert" /\ req[p].pc = "hasPaid"
         \/ pc = "extend" /\ req[p].pc = "markPaid"
  PROVE  /\ req' \in [Processes -> RequestState]
         /\ \A q \in Processes : Aimed(req[q])'
<1>0. PICK s : s = [req[p] EXCEPT !.pc = pc]
  OBVIOUS
<1>1. req[p] \in RequestState /\ Aimed(req[p])
  BY DEF TypeInv, TypeOK
<1>2. s \in RequestState
  BY <1>0, <1>1 DEF RequestState
<1>3. Aimed(s)'
  BY <1>0, <1>1 DEF Aimed, RequestState, RowsKept
<1>4. req' = [req EXCEPT ![p] = s]
  BY <1>0 DEF GoesTo
<1>5. QED
  BY <1>2, <1>3, <1>4, RequestMoves

LEMMA Bounds ==
  /\ TrialDays \in Nat /\ MaxDay \in Nat /\ MaxInterventions \in Nat
  /\ \A c \in Cycles : CycleDays[c] \in Nat
  OBVIOUS

LEMMA InitType == Init => TypeInv
<1> SUFFICES ASSUME Init PROVE TypeInv
  OBVIOUS
<1>1. tenant \in TenantRow /\ granted \in Nat
  BY Bounds DEF Init, Registered, TenantRow, TenantStatus
<1>2. order \in [SubOrders -> SubOrderRow]
  BY DEF Init, SubOrderRow, NoSubOrder
<1>3. \A o \in SubOrders : order[o].status = "none"
  BY DEF Init, NoSubOrder
<1>4. req \in [Processes -> RequestState]
  BY IdleType DEF Init
<1>5. now \in 0..MaxDay /\ interventions \in 0..MaxInterventions
  BY Bounds DEF Init
<1>6. \A p \in Processes : Aimed(req[p])
  BY DEF Init, Aimed, Idle
<1>7. admins \in BOOLEAN /\ cached \in TenantStatus \cup {None} /\ given \subseteq Plans
  BY DEF Init
<1>8. QED
  BY <1>1, <1>2, <1>3, <1>4, <1>5, <1>6, <1>7 DEF TypeInv, TypeOK

LEMMA CreateOrderType ==
  ASSUME TypeInv, NEW r \in Requests, CreateOrder(r)
  PROVE  TypeInv'
<1>1. PICK plan \in Plans \cup {None}, cycle \in Cycles :
        Starts(r, [Idle EXCEPT
          !.pc = IF plan \in {None, tenant.plan} THEN "insert" ELSE "hasPaid",
          !.plan = TargetPlan(plan), !.cycle = cycle, !.base = tenant.expire])
  BY DEF CreateOrder
<1>2. PICK s : s = [Idle EXCEPT
          !.pc = IF plan \in {None, tenant.plan} THEN "insert" ELSE "hasPaid",
          !.plan = TargetPlan(plan), !.cycle = cycle, !.base = tenant.expire]
  OBVIOUS
<1>3. TargetPlan(plan) \in Plans /\ tenant.expire \in Nat
  BY <1>1 DEF TargetPlan, TypeInv, TypeOK, TenantRow
<1>4. s \in RequestState /\ Aimed(s)'
  BY <1>1, <1>2, <1>3, IdleType DEF RequestState, Aimed, Idle
<1>5. UNCHANGED <<now, tenant, order, admins, cached, history>>
  BY DEF CreateOrder
<1>6. RowsKept
  BY <1>5 DEF RowsKept
<1>7. req' = [req EXCEPT ![r] = s]
  BY <1>1, <1>2 DEF Starts
<1>8. req' \in [Processes -> RequestState] /\ \A q \in Processes : Aimed(req[q])'
  BY <1>4, <1>6, <1>7, RequestMoves DEF Processes
<1>9. QED
  BY <1>5, <1>8 DEF TypeInv, TypeOK, history

\* The other steps that start a request and write no row.
LEMMA StartType ==
  ASSUME TypeInv, NEW p \in Processes, NEW s \in RequestState, Starts(p, s), Aimed(s),
         UNCHANGED <<now, tenant, order, admins, cached, history>>
  PROVE  TypeInv'
<1>1. Aimed(s)' /\ RowsKept
  BY DEF Aimed, RowsKept
<1>2. req' = [req EXCEPT ![p] = s]
  BY DEF Starts
<1>3. req' \in [Processes -> RequestState] /\ \A q \in Processes : Aimed(req[q])'
  BY <1>1, <1>2, RequestMoves
<1>4. QED
  BY <1>3 DEF TypeInv, TypeOK, history

LEMMA QuietStartsType ==
  ASSUME TypeInv, NEW r \in Requests,
         (\E o \in SubOrders : Notified(r, o)) \/ LoadContext(r)
  PROVE  TypeInv'
<1>1. CASE \E o \in SubOrders : Notified(r, o)
  <2>1. PICK o \in SubOrders : Notified(r, o)
    BY <1>1
  <2>2. PICK s : s = [Idle EXCEPT !.pc = "tenant", !.order = o]
    OBVIOUS
  <2>3. s \in RequestState
    BY <2>2, IdleType DEF RequestState
  <2>4. Aimed(s)
    BY <2>1, <2>2 DEF Notified, Aimed, Idle
  <2>5. Starts(r, s)
    BY <2>1, <2>2 DEF Notified
  <2>6. QED
    BY <2>1, <2>3, <2>4, <2>5, StartType DEF Notified, Processes
<1>2. CASE LoadContext(r)
  <2>1. PICK s : s = [Idle EXCEPT !.pc = "set", !.seen = tenant.status]
    OBVIOUS
  <2>2. tenant.status \in TenantStatus
    BY DEF TypeInv, TypeOK, TenantRow
  <2>3. s \in RequestState
    BY <2>1, <2>2, IdleType DEF RequestState
  <2>4. Aimed(s)
    BY <2>1 DEF Aimed, Idle
  <2>5. Starts(r, s)
    BY <1>2, <2>1 DEF LoadContext
  <2>6. QED
    BY <1>2, <2>3, <2>4, <2>5, StartType DEF LoadContext, Processes
<1>3. QED
  BY <1>1, <1>2

LEMMA IntervenesType ==
  ASSUME TypeInv, NEW r \in Requests, NEW row \in TenantRow,
         NEW stage \in {"admins", "invalidate"}, NEW enable \in BOOLEAN,
         Intervenes(r, row, stage, enable)
  PROVE  TypeInv'
<1>1. PICK s : s = [Idle EXCEPT !.pc = stage, !.enable = enable]
  OBVIOUS
<1>2. s \in RequestState
  BY <1>1, IdleType DEF RequestState
<1>3. Aimed(s)' /\ RowsKept
  BY <1>1 DEF Aimed, Idle, RowsKept, Intervenes
<1>4. req' = [req EXCEPT ![r] = s]
  BY <1>1 DEF Intervenes, Starts
<1>5. req' \in [Processes -> RequestState] /\ \A q \in Processes : Aimed(req[q])'
  BY <1>2, <1>3, <1>4, RequestMoves DEF Processes
<1>6. row.expire \in Nat /\ row.plan \in Plans
  BY DEF TenantRow
<1>7. granted' \in Nat /\ given' \subseteq Plans
  BY <1>6, LaterType DEF Intervenes, TypeInv, TypeOK
<1>8. interventions' \in 0..MaxInterventions
  BY Bounds DEF Intervenes, TypeInv, TypeOK
<1>9. tenant' \in TenantRow
  BY DEF Intervenes
<1>10. QED
  BY <1>5, <1>7, <1>8, <1>9 DEF TypeInv, TypeOK, Intervenes

LEMMA PlatformType ==
  ASSUME TypeInv, NEW r \in Requests, Audit(r) \/ SetStatus(r) \/ SetPlan(r)
  PROVE  TypeInv'
<1>1. tenant \in TenantRow /\ now + TrialDays \in Nat
  BY Bounds DEF TypeInv, TypeOK
<1>2. CASE Audit(r)
  <2>1. [tenant EXCEPT !.status = "active", !.expire = now + TrialDays] \in TenantRow
    BY <1>1 DEF TenantRow, TenantStatus
  <2>2. [tenant EXCEPT !.status = "banned"] \in TenantRow
    BY <1>1 DEF TenantRow, TenantStatus
  <2>3. QED
    <3>1. PICK row \in TenantRow, enable \in BOOLEAN : Intervenes(r, row, "admins", enable)
      BY <1>2, <2>1, <2>2 DEF Audit
    <3>2. QED
      BY <3>1, IntervenesType
<1>3. CASE SetStatus(r)
  <2>1. PICK status \in {"active", "banned"} :
          Intervenes(r, [tenant EXCEPT !.status = status], "admins", status = "active")
    BY <1>3 DEF SetStatus
  <2>2. [tenant EXCEPT !.status = status] \in TenantRow
    BY <1>1 DEF TenantRow, TenantStatus
  <2>3. PICK row \in TenantRow, enable \in BOOLEAN : Intervenes(r, row, "admins", enable)
    BY <2>1, <2>2
  <2>4. QED
    BY <2>3, IntervenesType
<1>4. CASE SetPlan(r)
  <2>1. PICK plan \in Plans, expire \in Grants \cup {tenant.expire} :
          Intervenes(r, [tenant EXCEPT !.plan = plan, !.expire = expire], "invalidate", FALSE)
    BY <1>4 DEF SetPlan
  <2>2. expire \in Nat
    BY <1>1, <2>1 DEF TenantRow
  <2>3. [tenant EXCEPT !.plan = plan, !.expire = expire] \in TenantRow
    BY <1>1, <2>2 DEF TenantRow
  <2>4. PICK row \in TenantRow : Intervenes(r, row, "invalidate", FALSE)
    BY <2>1, <2>3
  <2>5. QED
    BY <2>4, IntervenesType
<1>5. QED
  BY <1>2, <1>3, <1>4

\* The steps of CreateOrder and OnPaySuccess that write an order.
LEMMA InsertOrderType ==
  ASSUME TypeInv, NEW p \in Processes, InsertOrder(p)
  PROVE  TypeInv'
<1>1. PICK o \in SubOrders :
        order' = [order EXCEPT ![o] =
          [status |-> "unpaid", plan |-> req[p].plan, cycle |-> req[p].cycle,
           before |-> req[p].base, after |-> 0]]
  BY DEF InsertOrder
<1>2. /\ req[p].pc = "insert" /\ Finishes(p)
      /\ UNCHANGED <<now, tenant, admins, cached, history>>
  BY DEF InsertOrder
<1>3. req[p].plan \in Plans /\ req[p].cycle \in Cycles /\ req[p].base \in Nat
  BY <1>2 DEF TypeInv, TypeOK, Aimed, RequestState
<1>4. order' \in [SubOrders -> SubOrderRow]
  BY <1>1, <1>3 DEF TypeInv, TypeOK, SubOrderRow
<1>5. \A x \in SubOrders :
        order'[x].status # "none" => order'[x].plan \in Plans /\ order'[x].cycle \in Cycles
  BY <1>1, <1>3 DEF TypeInv, TypeOK
<1>6. RowsKept
  BY <1>1 DEF RowsKept, TypeInv, TypeOK
<1>7. req' \in [Processes -> RequestState] /\ \A q \in Processes : Aimed(req[q])'
  BY <1>2, <1>6, ProcessFinishes
<1>8. QED
  BY <1>2, <1>4, <1>5, <1>7 DEF TypeInv, TypeOK, history

\* A request that writes an order or extends a tenant works on an order with
\* a cycle.
LEMMA NewExpireType ==
  ASSUME TypeInv, NEW p \in Processes, req[p].pc \in {"markPaid", "extend"}
  PROVE  /\ req[p].order \in SubOrders
         /\ order[req[p].order].status # "none"
         /\ order[req[p].order].plan \in Plans
         /\ req[p].base \in Nat
         /\ NewExpire(p) \in Nat
<1>1. req[p].order \in SubOrders /\ order[req[p].order].status # "none"
  BY DEF TypeInv, Aimed
<1>2. order[req[p].order].plan \in Plans /\ order[req[p].order].cycle \in Cycles
  BY <1>1 DEF TypeInv, TypeOK
<1>3. req[p].base \in Nat /\ CycleDays[order[req[p].order].cycle] \in Nat
  BY <1>2, Bounds DEF TypeInv, TypeOK, RequestState
<1>4. QED
  BY <1>1, <1>2, <1>3 DEF NewExpire

LEMMA MarkPaidType ==
  ASSUME TypeInv, NEW p \in Processes, MarkPaid(p)
  PROVE  TypeInv'
<1>1. req[p].pc = "markPaid" /\ UNCHANGED <<now, tenant, admins, cached, history>>
  BY DEF MarkPaid
<1>2. PICK o \in SubOrders : o = req[p].order
  BY <1>1, NewExpireType
<1>3. CASE StillUnpaid(o)
  <2>1. PICK row : row = [order[o] EXCEPT
          !.status = "paid", !.before = req[p].base, !.after = NewExpire(p)]
    OBVIOUS
  <2>2. order' = [order EXCEPT ![o] = row] /\ GoesTo(p, "extend")
    BY <1>2, <1>3, <2>1 DEF MarkPaid, StillUnpaid
  <2>3. row \in SubOrderRow
    <3>1. order[o] \in SubOrderRow
      BY DEF TypeInv, TypeOK
    <3>2. req[p].base \in Nat /\ NewExpire(p) \in Nat
      BY <1>1, NewExpireType
    <3>3. QED
      BY <2>1, <3>1, <3>2 DEF SubOrderRow
  <2>4. row.plan = order[o].plan /\ row.cycle = order[o].cycle /\ row.status = "paid"
    BY <2>1 DEF TypeInv, TypeOK, SubOrderRow
  <2>5. order' \in [SubOrders -> SubOrderRow]
    BY <2>2, <2>3 DEF TypeInv, TypeOK
  <2>6. \A x \in SubOrders :
          order'[x].status # "none" => order'[x].plan \in Plans /\ order'[x].cycle \in Cycles
    BY <1>3, <2>2, <2>4 DEF TypeInv, TypeOK, StillUnpaid
  <2>7. RowsKept
    BY <2>2, <2>4 DEF RowsKept, TypeInv, TypeOK
  <2>8. req' \in [Processes -> RequestState] /\ \A q \in Processes : Aimed(req[q])'
    BY <1>1, <2>2, <2>7, ProcessGoesOn
  <2>9. QED
    BY <1>1, <2>5, <2>6, <2>8 DEF TypeInv, TypeOK, history
<1>4. CASE ~StillUnpaid(o)
  <2>1. Finishes(p) /\ UNCHANGED order
    BY <1>2, <1>4 DEF MarkPaid, StillUnpaid
  <2>2. RowsKept
    BY <2>1 DEF RowsKept
  <2>3. req' \in [Processes -> RequestState] /\ \A q \in Processes : Aimed(req[q])'
    BY <2>1, <2>2, ProcessFinishes
  <2>4. QED
    BY <1>1, <2>1, <2>3 DEF TypeInv, TypeOK, history
<1>5. QED
  BY <1>3, <1>4

LEMMA ReadTenantType ==
  ASSUME TypeInv, NEW p \in Processes, ReadTenant(p)
  PROVE  TypeInv'
<1>1. PICK s : s = [req[p] EXCEPT !.pc = "markPaid", !.seen = tenant.status,
                                  !.base = Later(tenant.expire, now)]
  OBVIOUS
<1>2. req[p] \in RequestState /\ Aimed(req[p]) /\ req[p].pc = "tenant"
  BY DEF TypeInv, TypeOK, ReadTenant
<1>3. tenant.status \in TenantStatus /\ Later(tenant.expire, now) \in Nat
  <2>1. tenant.status \in TenantStatus /\ tenant.expire \in Nat /\ now \in Nat
    BY DEF TypeInv, TypeOK, TenantRow
  <2>2. QED
    BY <2>1, LaterType
<1>4. s \in RequestState
  BY <1>1, <1>2, <1>3 DEF RequestState
<1>5. s.pc = "markPaid" /\ s.order = req[p].order
  BY <1>1, <1>2 DEF RequestState
<1>6. UNCHANGED <<now, tenant, order, admins, cached, history>> /\ RowsKept
  BY DEF ReadTenant, RowsKept
<1>7. Aimed(s)'
  BY <1>2, <1>5, <1>6 DEF Aimed
<1>8. req' = [req EXCEPT ![p] = s]
  BY <1>1 DEF ReadTenant
<1>9. req' \in [Processes -> RequestState] /\ \A q \in Processes : Aimed(req[q])'
  BY <1>4, <1>6, <1>7, <1>8, RequestMoves
<1>10. QED
  BY <1>6, <1>9 DEF TypeInv, TypeOK, history

\* The steps that leave the orders alone and only move the process on, the
\* tenant, the administrators and the cache being written with typed values.
LEMMA WriteType ==
  ASSUME TypeInv, NEW p \in Processes,
         UNCHANGED <<now, order, history>>,
         tenant' \in TenantRow, admins' \in BOOLEAN,
         cached' \in TenantStatus \cup {None},
         \/ Finishes(p)
         \/ \E pc \in {"clear", "listOverdue", "ban", "invalidate"} : GoesTo(p, pc)
         \/ req[p].pc = "hasPaid" /\ GoesTo(p, "insert")
  PROVE  TypeInv'
<1>1. RowsKept
  BY DEF RowsKept
<1>2. req' \in [Processes -> RequestState] /\ \A q \in Processes : Aimed(req[q])'
  BY <1>1, ProcessFinishes, ProcessGoesOn
<1>3. QED
  BY <1>2 DEF TypeInv, TypeOK, history

LEMMA ContinuesType ==
  ASSUME TypeInv, NEW p \in Processes, Continues(p)
  PROVE  TypeInv'
<1>1. /\ tenant \in TenantRow /\ admins \in BOOLEAN
      /\ cached \in TenantStatus \cup {None} /\ req[p] \in RequestState
  BY DEF TypeInv, TypeOK
<1>2. CASE HasPaid(p)
  BY <1>1, <1>2, WriteType DEF HasPaid
<1>3. CASE ExtendTenant(p)
  <2>1. NewExpire(p) \in Nat /\ order[req[p].order].plan \in Plans
    BY <1>3, NewExpireType DEF ExtendTenant
  <2>2. tenant' \in TenantRow
    BY <1>1, <1>3, <2>1 DEF ExtendTenant, TenantRow, TenantStatus
  <2>3. QED
    BY <1>1, <1>3, <2>2, WriteType DEF ExtendTenant
<1>4. CASE SetContext(p)
  <2>1. cached' \in TenantStatus
    BY <1>1, <1>4 DEF SetContext, RequestState
  <2>2. QED
    BY <1>1, <1>4, <2>1, WriteType DEF SetContext
<1>5. CASE UpdateAdmins(p)
  <2>1. admins' \in BOOLEAN
    BY <1>1, <1>5 DEF UpdateAdmins, RequestState
  <2>2. QED
    BY <1>1, <1>5, <2>1, WriteType DEF UpdateAdmins
<1>6. CASE Invalidate(p)
  BY <1>1, <1>6, WriteType DEF Invalidate
<1>7. CASE Abandon(p)
  BY <1>1, <1>7, WriteType DEF Abandon
<1>8. QED
  BY <1>2, <1>3, <1>4, <1>5, <1>6, <1>7, InsertOrderType, MarkPaidType, ReadTenantType
  DEF Continues

LEMMA ScanType ==
  ASSUME TypeInv, Scan
  PROVE  TypeInv'
<1>1. /\ tenant \in TenantRow /\ admins \in BOOLEAN
      /\ cached \in TenantStatus \cup {None} /\ Worker \in Processes
  BY DEF TypeInv, TypeOK, Processes
<1>2. CASE ScanActive
  <2>1. PICK pc \in {"overdue", "listOverdue"} : Starts(Worker, [Idle EXCEPT !.pc = pc])
    BY <1>2 DEF ScanActive
  <2>2. PICK s : s = [Idle EXCEPT !.pc = pc]
    OBVIOUS
  <2>3. s \in RequestState
    BY <2>1, <2>2, IdleType DEF RequestState
  <2>4. Aimed(s)
    BY <2>1, <2>2 DEF Aimed, Idle
  <2>5. QED
    BY <1>1, <1>2, <2>1, <2>2, <2>3, <2>4, StartType DEF ScanActive
<1>3. CASE WriteOverdue
  <2>1. tenant' \in TenantRow
    BY <1>1, <1>3 DEF WriteOverdue, Writes, TenantRow, TenantStatus
  <2>2. QED
    BY <1>1, <1>3, <2>1, WriteType DEF WriteOverdue
<1>4. CASE ClearOverdue
  BY <1>1, <1>4, WriteType DEF ClearOverdue
<1>5. CASE ScanOverdue
  BY <1>1, <1>5, WriteType DEF ScanOverdue
<1>6. CASE WriteBanned
  <2>1. tenant' \in TenantRow
    BY <1>1, <1>6 DEF WriteBanned, Writes, TenantRow, TenantStatus
  <2>2. QED
    BY <1>1, <1>6, <2>1, WriteType DEF WriteBanned
<1>7. QED
  BY <1>1, <1>2, <1>3, <1>4, <1>5, <1>6, ContinuesType DEF Scan

LEMMA NextType ==
  ASSUME TypeInv, [Next]_vars
  PROVE  TypeInv'
<1>1. CASE \E r \in Requests : RequestStep(r)
  <2>1. PICK r \in Requests : RequestStep(r)
    BY <1>1
  <2>2. QED
    BY <2>1, CreateOrderType, QuietStartsType, PlatformType, ContinuesType
    DEF RequestStep, Processes
<1>2. CASE ExpireContext
  BY <1>2 DEF ExpireContext, TypeInv, TypeOK, Aimed, history
<1>3. CASE Tick
  BY <1>3, Bounds DEF Tick, TypeInv, TypeOK, Aimed, history
<1>4. CASE UNCHANGED vars
  BY <1>4 DEF vars, TypeInv, TypeOK, Aimed
<1>5. QED
  BY <1>1, <1>2, <1>3, <1>4, ScanType DEF Next

\* Every row, request and cached context keeps its type, and every request in
\* flight works on an order that exists.
THEOREM TypeInvariant == Spec => []TypeInv
<1>1. Init => TypeInv
  BY InitType
<1>2. TypeInv /\ [Next]_vars => TypeInv'
  BY NextType
<1>3. QED
  BY <1>1, <1>2, PTL DEF Spec

\* The type invariant that the runs check.
THEOREM TypeCorrect == Spec => []TypeOK
<1>1. TypeInv => TypeOK
  BY DEF TypeInv
<1>2. QED
  BY <1>1, TypeInvariant, PTL

-----------------------------------------------------------------------------
(* Paid orders are final *)

LEMMA OrderSteps ==
  ASSUME TypeInv, [Next]_vars
  PROVE  \/ UNCHANGED order
         \/ \E p \in Processes : InsertOrder(p) \/ MarkPaid(p)
<1>1. ASSUME NEW p \in Processes, Continues(p)
      PROVE  UNCHANGED order \/ InsertOrder(p) \/ MarkPaid(p)
  BY <1>1 DEF Continues, HasPaid, ReadTenant, ExtendTenant, SetContext, UpdateAdmins,
              Invalidate, Abandon
<1>2. ASSUME NEW r \in Requests, RequestStep(r)
      PROVE  UNCHANGED order \/ Continues(r)
  BY <1>2 DEF RequestStep, CreateOrder, Notified, LoadContext, Audit, SetStatus, SetPlan,
              Intervenes
<1>3. ASSUME Scan PROVE UNCHANGED order \/ Continues(Worker)
  BY <1>3 DEF Scan, ScanActive, WriteOverdue, ClearOverdue, ScanOverdue, WriteBanned
<1>4. QED
  BY <1>1, <1>2, <1>3 DEF Next, ExpireContext, Tick, vars, Processes

LEMMA PaidRowsStay ==
  ASSUME TypeInv, [Next]_vars, NEW o \in SubOrders, order[o].status = "paid"
  PROVE  order'[o] = order[o]
<1>1. CASE UNCHANGED order
  BY <1>1
<1>2. ASSUME NEW p \in Processes, InsertOrder(p)
      PROVE  order'[o] = order[o]
  <2>1. PICK x \in SubOrders :
          /\ order[x].status = "none"
          /\ \E row : order' = [order EXCEPT ![x] = row]
    BY <1>2 DEF InsertOrder
  <2>2. QED
    BY <2>1 DEF TypeInv, TypeOK
<1>3. ASSUME NEW p \in Processes, MarkPaid(p)
      PROVE  order'[o] = order[o]
  <2>1. CASE StillUnpaid(req[p].order)
    <3>1. \E row : order' = [order EXCEPT ![req[p].order] = row]
      BY <1>3, <2>1 DEF MarkPaid
    <3>2. o # req[p].order
      BY <2>1 DEF StillUnpaid
    <3>3. QED
      BY <3>1, <3>2 DEF TypeInv, TypeOK
  <2>2. CASE ~StillUnpaid(req[p].order)
    BY <1>3, <2>2 DEF MarkPaid
  <2>3. QED
    BY <2>1, <2>2
<1>4. QED
  BY <1>1, <1>2, <1>3, OrderSteps

\* An order is paid once, by whichever of its notifications comes first: no
\* other one changes what it recorded.
THEOREM PaidOrdersAreFinal == Spec => PaidOrderIsFinal
<1>1. TypeInv /\ [Next]_vars =>
        [\A o \in SubOrders : order[o].status = "paid" => order'[o] = order[o]]_vars
  BY PaidRowsStay
<1>2. QED
  BY <1>1, TypeInvariant, PTL DEF Spec, PaidOrderIsFinal

-----------------------------------------------------------------------------
(* Plans are switched by tenants that have paid *)

\* Whoever has a plan it was not given has paid for one it was given: this holds
\* of the plan of the tenant, of every order and of every order to be inserted.
PaidForGiven == \E paid \in PaidOrders : order[paid].plan \in given
Backed(plan) == plan \in given \/ PaidForGiven
SwitchInv ==
  /\ Backed(tenant.plan)
  /\ \A o \in SubOrders : order[o].status # "none" => Backed(order[o].plan)
  /\ \A p \in Processes : req[p].pc = "insert" => Backed(req[p].plan)

LEMMA GivenGrows ==
  ASSUME [Next]_vars
  PROVE  given \subseteq given'
<1>1. ASSUME NEW p, Continues(p) PROVE given' = given
  BY <1>1 DEF Continues, HasPaid, InsertOrder, MarkPaid, ReadTenant, ExtendTenant,
              SetContext, UpdateAdmins, Invalidate, Abandon, history
<1>2. ASSUME NEW r \in Requests, RequestStep(r) PROVE given \subseteq given'
  BY <1>1, <1>2 DEF RequestStep, CreateOrder, Notified, LoadContext, Audit, SetStatus,
                    SetPlan, Intervenes, history
<1>3. ASSUME Scan PROVE given' = given
  BY <1>1, <1>3 DEF Scan, ScanActive, WriteOverdue, ClearOverdue, ScanOverdue,
                    WriteBanned, history
<1>4. QED
  BY <1>2, <1>3 DEF Next, ExpireContext, Tick, vars, history

LEMMA BackedStays ==
  ASSUME TypeInv, [Next]_vars, NEW plan, Backed(plan)
  PROVE  Backed(plan)'
<1>1. CASE plan \in given
  BY <1>1, GivenGrows DEF Backed
<1>2. CASE PaidForGiven
  <2>1. PICK paid \in PaidOrders : order[paid].plan \in given
    BY <1>2 DEF PaidForGiven
  <2>2. paid \in SubOrders /\ order'[paid] = order[paid]
    BY <2>1, PaidRowsStay DEF PaidOrders
  <2>3. paid \in PaidOrders' /\ order'[paid].plan \in given'
    BY <2>1, <2>2, GivenGrows DEF PaidOrders
  <2>4. QED
    BY <2>3 DEF Backed, PaidForGiven
<1>3. QED
  BY <1>1, <1>2 DEF Backed

\* The plan of the tenant: OnPaySuccess writes that of an order, the platform one
\* that it gives, the worker leaves it alone.
LEMMA TenantBacked ==
  ASSUME TypeInv, SwitchInv, [Next]_vars
  PROVE  Backed(tenant.plan)'
<1>1. CASE tenant'.plan = tenant.plan
  <2>1. PICK plan : plan = tenant.plan
    OBVIOUS
  <2>2. Backed(plan)'
    BY <2>1, BackedStays DEF SwitchInv
  <2>3. QED
    BY <1>1, <2>1, <2>2 DEF Backed
<1>2. ASSUME NEW p \in Processes, ExtendTenant(p)
      PROVE  Backed(tenant.plan)'
  <2>1. PICK plan : plan = order[req[p].order].plan
    OBVIOUS
  <2>2. req[p].order \in SubOrders /\ order[req[p].order].status # "none"
    BY <1>2, NewExpireType DEF ExtendTenant
  <2>3. Backed(plan)'
    BY <2>1, <2>2, BackedStays DEF SwitchInv
  <2>4. tenant'.plan = plan
    BY <1>2, <2>1 DEF ExtendTenant
  <2>5. QED
    BY <2>3, <2>4 DEF Backed
<1>3. ASSUME NEW r, NEW row, NEW stage, NEW enable, Intervenes(r, row, stage, enable)
      PROVE  Backed(tenant.plan)'
  BY <1>3 DEF Intervenes, Backed
<1>4. ASSUME NEW p, Continues(p)
      PROVE  tenant' = tenant \/ ExtendTenant(p)
  BY <1>4 DEF Continues, HasPaid, InsertOrder, MarkPaid, ReadTenant, SetContext,
              UpdateAdmins, Invalidate, Abandon
<1>5. CASE \E r \in Requests : RequestStep(r)
  <2>1. PICK r \in Requests : RequestStep(r)
    BY <1>5
  <2>2. CASE Audit(r) \/ SetStatus(r) \/ SetPlan(r)
    BY <1>3, <2>2 DEF Audit, SetStatus, SetPlan
  <2>3. CASE CreateOrder(r) \/ LoadContext(r) \/ \E o \in SubOrders : Notified(r, o)
    BY <1>1, <2>3 DEF CreateOrder, LoadContext, Notified
  <2>4. CASE Continues(r)
    BY <1>1, <1>2, <1>4, <2>4 DEF Processes
  <2>5. QED
    BY <2>1, <2>2, <2>3, <2>4 DEF RequestStep
<1>6. CASE Scan
  <2>1. CASE WriteOverdue \/ WriteBanned
    BY <1>1, <2>1 DEF WriteOverdue, WriteBanned, Writes, TypeInv, TypeOK, TenantRow
  <2>2. CASE ScanActive \/ ClearOverdue \/ ScanOverdue
    BY <1>1, <2>2 DEF ScanActive, ClearOverdue, ScanOverdue
  <2>3. CASE Continues(Worker)
    BY <1>1, <1>2, <1>4, <2>3 DEF Processes
  <2>4. QED
    BY <1>6, <2>1, <2>2, <2>3 DEF Scan
<1>7. CASE ExpireContext \/ Tick \/ UNCHANGED vars
  BY <1>1, <1>7 DEF ExpireContext, Tick, vars
<1>8. QED
  BY <1>5, <1>6, <1>7 DEF Next

\* The plan of an order: it is inserted with the one of its request.
LEMMA OrdersBacked ==
  ASSUME TypeInv, SwitchInv, [Next]_vars,
         NEW o \in SubOrders, order'[o].status # "none"
  PROVE  Backed(order[o].plan)'
<1>1. CASE order'[o].plan = order[o].plan /\ order[o].status # "none"
  <2>1. PICK plan : plan = order[o].plan
    OBVIOUS
  <2>2. Backed(plan)'
    BY <1>1, <2>1, BackedStays DEF SwitchInv
  <2>3. QED
    BY <1>1, <2>1, <2>2 DEF Backed
<1>2. ASSUME NEW p \in Processes, InsertOrder(p)
      PROVE  Backed(order[o].plan)'
  <2>1. PICK plan : plan = req[p].plan
    OBVIOUS
  <2>2. Backed(plan)'
    BY <1>2, <2>1, BackedStays DEF SwitchInv, InsertOrder
  <2>3. PICK x \in SubOrders :
          order' = [order EXCEPT ![x] =
            [status |-> "unpaid", plan |-> req[p].plan, cycle |-> req[p].cycle,
             before |-> req[p].base, after |-> 0]]
    BY <1>2 DEF InsertOrder
  <2>4. CASE o = x
    <3>1. order'[o].plan = plan
      BY <2>1, <2>3, <2>4 DEF TypeInv, TypeOK
    <3>2. QED
      BY <2>2, <3>1 DEF Backed
  <2>5. CASE o # x
    <3>1. order'[o] = order[o]
      BY <2>3, <2>5 DEF TypeInv, TypeOK
    <3>2. QED
      BY <1>1, <3>1
  <2>6. QED
    BY <2>4, <2>5
<1>3. ASSUME NEW p \in Processes, MarkPaid(p)
      PROVE  Backed(order[o].plan)'
  <2>1. req[p].order \in SubOrders /\ order[req[p].order].status # "none"
    BY <1>3, NewExpireType DEF MarkPaid
  <2>2. CASE order' = order
    BY <1>1, <2>2
  <2>3. CASE order' # order
    <3>1. order' = [order EXCEPT ![req[p].order] = [order[req[p].order] EXCEPT
            !.status = "paid", !.before = req[p].base, !.after = NewExpire(p)]]
      BY <1>3, <2>3 DEF MarkPaid
    <3>2. order[o] \in SubOrderRow
      BY DEF TypeInv, TypeOK
    <3>3. CASE o = req[p].order
      <4>1. order'[o].plan = order[o].plan
        BY <3>1, <3>2, <3>3 DEF TypeInv, TypeOK, SubOrderRow
      <4>2. QED
        BY <1>1, <2>1, <3>3, <4>1
    <3>4. CASE o # req[p].order
      <4>1. order'[o] = order[o]
        BY <3>1, <3>4 DEF TypeInv, TypeOK
      <4>2. QED
        BY <1>1, <4>1
    <3>5. QED
      BY <3>3, <3>4
  <2>4. QED
    BY <2>2, <2>3
<1>4. QED
  BY <1>1, <1>2, <1>3, OrderSteps

\* An order about to be inserted: CreateOrder has found the plan to be that of
\* the tenant, or the tenant to have a paid order.
LEMMA RequestsBacked ==
  ASSUME TypeInv, SwitchInv, [Next]_vars,
         NEW q \in Processes, req'[q].pc = "insert"
  PROVE  Backed(req[q].plan)'
<1>1. req \in [Processes -> RequestState]
  BY DEF TypeInv, TypeOK
<1>2. CASE req'[q] = req[q]
  <2>1. PICK plan : plan = req[q].plan
    OBVIOUS
  <2>2. Backed(plan)'
    BY <1>2, <2>1, BackedStays DEF SwitchInv
  <2>3. QED
    BY <1>2, <2>1, <2>2 DEF Backed
<1>3. CASE HasPaid(q)
  <2>1. PaidForGiven
    BY <1>3 DEF HasPaid, HasAnyPaidOrder, SwitchInv, Backed, PaidOrders, PaidForGiven
  <2>2. PICK plan : plan = req[q].plan
    OBVIOUS
  <2>3. Backed(plan)'
    BY <2>1, BackedStays DEF Backed
  <2>4. req'[q].plan = plan
    BY <1>1, <1>3, <2>2 DEF HasPaid, GoesTo, RequestState
  <2>5. QED
    BY <2>3, <2>4 DEF Backed
<1>4. CASE CreateOrder(q)
  <2>1. PICK plan \in Plans \cup {None}, cycle \in Cycles :
          req' = [req EXCEPT ![q] = [Idle EXCEPT
            !.pc = IF plan \in {None, tenant.plan} THEN "insert" ELSE "hasPaid",
            !.plan = TargetPlan(plan), !.cycle = cycle, !.base = tenant.expire]]
    BY <1>4 DEF CreateOrder, Starts
  <2>2. plan \in {None, tenant.plan} /\ req'[q].plan = TargetPlan(plan)
    BY <1>1, <2>1 DEF Idle
  <2>3. PICK held : held = tenant.plan
    OBVIOUS
  <2>4. Backed(held)'
    BY <2>3, BackedStays DEF SwitchInv
  <2>5. req'[q].plan = held
    BY <2>2, <2>3 DEF TargetPlan
  <2>6. QED
    BY <2>4, <2>5 DEF Backed
\* Every other step leaves the request alone or takes it to another stage.
<1>5. ASSUME NEW p \in Processes, NEW s, req' = [req EXCEPT ![p] = s], s.pc # "insert"
      PROVE  req'[q] = req[q]
  BY <1>1, <1>5
<1>6. ASSUME NEW p \in Processes, Finishes(p)
      PROVE  req'[q] = req[q]
  BY <1>1, <1>6 DEF Finishes, Idle
<1>7. ASSUME NEW p \in Processes, NEW pc, GoesTo(p, pc), pc # "insert"
      PROVE  req'[q] = req[q]
  BY <1>1, <1>7 DEF GoesTo, RequestState
<1>8. ASSUME NEW p \in Processes, Continues(p)
      PROVE  req'[q] = req[q] \/ HasPaid(q)
  <2>1. CASE HasPaid(p)
    BY <1>1, <2>1 DEF HasPaid, GoesTo
  <2>2. CASE ReadTenant(p)
    BY <1>1, <2>2 DEF ReadTenant, RequestState
  <2>3. QED
    BY <1>6, <1>7, <1>8, <2>1, <2>2
    DEF Continues, InsertOrder, MarkPaid, ExtendTenant, SetContext, UpdateAdmins,
        Invalidate, Abandon
<1>9. ASSUME NEW r \in Requests, RequestStep(r)
      PROVE  req'[q] = req[q] \/ HasPaid(q) \/ CreateOrder(q)
  <2>1. CASE CreateOrder(r)
    BY <1>1, <2>1 DEF CreateOrder, Starts
  <2>2. CASE LoadContext(r) \/ \E o \in SubOrders : Notified(r, o)
    <3>1. CASE LoadContext(r)
      <4>1. PICK s : s = [Idle EXCEPT !.pc = "set", !.seen = tenant.status]
        OBVIOUS
      <4>2. s.pc = "set"
        BY <4>1 DEF Idle
      <4>3. req' = [req EXCEPT ![r] = s]
        BY <3>1, <4>1 DEF LoadContext, Starts
      <4>4. QED
        BY <1>5, <4>2, <4>3 DEF Processes
    <3>2. CASE \E o \in SubOrders : Notified(r, o)
      <4>1. PICK o \in SubOrders : Notified(r, o)
        BY <3>2
      <4>2. PICK s : s = [Idle EXCEPT !.pc = "tenant", !.order = o]
        OBVIOUS
      <4>3. s.pc = "tenant"
        BY <4>2 DEF Idle
      <4>4. req' = [req EXCEPT ![r] = s]
        BY <4>1, <4>2 DEF Notified, Starts
      <4>5. QED
        BY <1>5, <4>3, <4>4 DEF Processes
    <3>3. QED
      BY <2>2, <3>1, <3>2
  <2>3. CASE Audit(r) \/ SetStatus(r) \/ SetPlan(r)
    <3>1. PICK stage \in {"admins", "invalidate"}, enable \in BOOLEAN :
            \E row : Intervenes(r, row, stage, enable)
      BY <2>3 DEF Audit, SetStatus, SetPlan
    <3>2. PICK s : s = [Idle EXCEPT !.pc = stage, !.enable = enable]
      OBVIOUS
    <3>3. s.pc = stage
      BY <3>2 DEF Idle
    <3>4. req' = [req EXCEPT ![r] = s]
      BY <3>1, <3>2 DEF Intervenes, Starts
    <3>5. QED
      BY <1>5, <3>1, <3>3, <3>4 DEF Processes
  <2>4. QED
    BY <1>8, <1>9, <2>1, <2>2, <2>3 DEF RequestStep, Processes
<1>10. ASSUME Scan
       PROVE  req'[q] = req[q] \/ HasPaid(q)
  <2>1. CASE ScanActive
    BY <1>1, <2>1 DEF ScanActive, Starts, Idle
  <2>2. Worker \in Processes
    BY DEF Processes
  <2>3. QED
    BY <1>6, <1>7, <1>8, <1>10, <2>1, <2>2
    DEF Scan, WriteOverdue, ClearOverdue, ScanOverdue, WriteBanned
<1>11. QED
  BY <1>2, <1>3, <1>4, <1>9, <1>10 DEF Next, ExpireContext, Tick, vars

\* "During the trial the plan cannot be switched", whatever notifications,
\* orders and interventions of the platform run in between.
THEOREM SwitchesArePaidFor == Spec => []SwitchIsPaidFor
<1>1. Init => SwitchInv
  BY DEF Init, SwitchInv, Backed, Registered, NoSubOrder, Idle
<1>2. TypeInv /\ SwitchInv /\ [Next]_vars => SwitchInv'
  BY TenantBacked, OrdersBacked, RequestsBacked DEF SwitchInv
<1>3. SwitchInv => SwitchIsPaidFor
  BY DEF SwitchInv, SwitchIsPaidFor, Backed, PaidForGiven
<1>4. QED
  BY <1>1, <1>2, <1>3, TypeInvariant, PTL DEF Spec

-----------------------------------------------------------------------------
(* The time a tenant has *)

\* What the tenant was granted or paid for bounds what it has, and also what
\* every notification in flight has computed and will still write.
Limit == Later(granted, now) + DaysPaid
Within(s) ==
  /\ s.pc = "markPaid" => s.base <= Limit
  /\ s.pc = "extend" => /\ order[s.order].status = "paid"
                        /\ s.base + CycleDays[order[s.order].cycle] <= Limit
TimeInv == tenant.expire <= Limit /\ \A p \in Processes : Within(req[p])

\* The days an order pays for.
PaidDays == [o \in PaidOrders |-> CycleDays[order[o].cycle]]

SummedUp ==
  /\ IsFiniteSet(PaidOrders)
  /\ \A o \in PaidOrders : PaidDays[o] = CycleDays[order[o].cycle] /\ PaidDays[o] \in Nat
  /\ DaysPaid = SumFunctionOnSet(PaidDays, PaidOrders)
  /\ DaysPaid \in Nat

LEMMA PaidDaysSum ==
  ASSUME IsFiniteSet(SubOrders), TypeInv
  PROVE  SummedUp
<1>1. PaidOrders \subseteq SubOrders /\ IsFiniteSet(PaidOrders)
  BY FS_Subset DEF PaidOrders
<1>2. \A o \in PaidOrders : PaidDays[o] = CycleDays[order[o].cycle]
  BY DEF PaidDays
<1>3. \A o \in PaidOrders : order[o].cycle \in Cycles
  BY DEF PaidOrders, TypeInv, TypeOK
<1>4. \A o \in PaidOrders : PaidDays[o] \in Nat
  BY <1>2, <1>3, Bounds
<1>5. DaysPaid = SumFunctionOnSet(PaidDays, PaidOrders)
  BY DEF DaysPaid, SumFunction, PaidDays
<1>6. SumFunctionOnSet(PaidDays, PaidOrders) \in Nat
  BY <1>1, <1>4, SumIsNat
<1>7. QED
  BY <1>1, <1>2, <1>4, <1>5, <1>6 DEF SummedUp

LEMMA PaidDaysSumAfter ==
  ASSUME IsFiniteSet(SubOrders)
  PROVE  TypeInv' => SummedUp'
<1>1. TypeInv => SummedUp
  BY PaidDaysSum
<1>2. QED
  BY <1>1, PTL

\* A notification pays an order: one that was unpaid and that it found so.
Pays(p) == MarkPaid(p) /\ StillUnpaid(req[p].order)

LEMMA PaysOne ==
  ASSUME TypeInv, NEW p \in Processes, Pays(p), NEW o, o = req[p].order
  PROVE  /\ o \in SubOrders /\ order[o].status = "unpaid" /\ order[o].cycle \in Cycles
         /\ order'[o].status = "paid" /\ order'[o].cycle = order[o].cycle
         /\ \A x \in SubOrders \ {o} : order'[x] = order[x]
         /\ req' = [req EXCEPT ![p] = [req[p] EXCEPT !.pc = "extend"]]
<1>1. req[p].pc = "markPaid"
  BY DEF Pays, MarkPaid
<1>2. o \in SubOrders /\ order[o].status = "unpaid"
  BY <1>1, NewExpireType DEF Pays, StillUnpaid
<1>3. order[o] \in SubOrderRow /\ order[o].cycle \in Cycles
  BY <1>2 DEF TypeInv, TypeOK
<1>4. PICK row : row = [order[o] EXCEPT
        !.status = "paid", !.before = req[p].base, !.after = NewExpire(p)]
  OBVIOUS
<1>5. order' = [order EXCEPT ![o] = row] /\ GoesTo(p, "extend")
  BY <1>4 DEF Pays, MarkPaid
<1>6. row.status = "paid" /\ row.cycle = order[o].cycle
  BY <1>3, <1>4 DEF SubOrderRow
<1>7. order'[o] = row /\ \A x \in SubOrders \ {o} : order'[x] = order[x]
  BY <1>2, <1>5 DEF TypeInv, TypeOK
<1>8. QED
  BY <1>2, <1>3, <1>5, <1>6, <1>7 DEF GoesTo

\* The paid orders change only by the one that a notification pays.
LEMMA PaidOrdersStep ==
  ASSUME TypeInv, [Next]_vars
  PROVE  \/ /\ PaidOrders' = PaidOrders
            /\ \A o \in PaidOrders : order'[o] = order[o]
         \/ \E p \in Processes : Pays(p)
<1>1. CASE UNCHANGED order
  BY <1>1 DEF PaidOrders
<1>2. ASSUME NEW p \in Processes, InsertOrder(p)
      PROVE  PaidOrders' = PaidOrders
  <2>1. PICK x \in SubOrders :
          /\ order[x].status = "none"
          /\ \E row : row.status = "unpaid" /\ order' = [order EXCEPT ![x] = row]
    BY <1>2 DEF InsertOrder
  <2>2. order'[x].status = "unpaid" /\ \A o \in SubOrders \ {x} : order'[o] = order[o]
    BY <2>1 DEF TypeInv, TypeOK
  <2>3. QED
    BY <2>1, <2>2 DEF PaidOrders
<1>3. \A o \in PaidOrders : order'[o] = order[o]
  BY PaidRowsStay DEF PaidOrders
<1>4. ASSUME NEW p \in Processes, MarkPaid(p), ~StillUnpaid(req[p].order)
      PROVE  UNCHANGED order
  BY <1>4 DEF MarkPaid
<1>5. QED
  BY <1>1, <1>2, <1>3, <1>4, OrderSteps DEF Pays

LEMMA DaysPaidStep ==
  ASSUME IsFiniteSet(SubOrders), TypeInv, TypeInv', [Next]_vars
  PROVE  /\ DaysPaid' \in Nat /\ DaysPaid <= DaysPaid'
         /\ \A p \in Processes : Pays(p) =>
              DaysPaid' = DaysPaid + CycleDays[order[req[p].order].cycle]
<1>1. /\ IsFiniteSet(PaidOrders) /\ IsFiniteSet(PaidOrders')
      /\ \A o \in PaidOrders :
           PaidDays[o] = CycleDays[order[o].cycle] /\ PaidDays[o] \in Nat
      /\ \A o \in PaidOrders' :
           PaidDays'[o] = CycleDays[order'[o].cycle] /\ PaidDays'[o] \in Nat
      /\ DaysPaid = SumFunctionOnSet(PaidDays, PaidOrders)
      /\ DaysPaid' = SumFunctionOnSet(PaidDays', PaidOrders')
      /\ DaysPaid \in Nat /\ DaysPaid' \in Nat
  BY PaidDaysSum, PaidDaysSumAfter DEF SummedUp
<1>2. CASE PaidOrders' = PaidOrders /\ \A o \in PaidOrders : order'[o] = order[o]
  <2>1. \A o \in PaidOrders : PaidDays'[o] = PaidDays[o] /\ PaidDays[o] \in Int
    BY <1>1, <1>2
  <2>2. SumFunctionOnSet(PaidDays', PaidOrders) = SumFunctionOnSet(PaidDays, PaidOrders)
    BY <1>1, <2>1, SumOfEqual
  <2>3. DaysPaid' = DaysPaid
    BY <1>1, <1>2, <2>2
  <2>4. ASSUME NEW p \in Processes, Pays(p)
        PROVE  FALSE
    <3>1. PICK o \in SubOrders : o = req[p].order
      BY <2>4, PaysOne
    <3>2. order[o].status = "unpaid" /\ order'[o].status = "paid"
      BY <2>4, <3>1, PaysOne
    <3>3. QED
      BY <1>2, <3>1, <3>2 DEF PaidOrders
  <2>5. DaysPaid <= DaysPaid'
    BY <1>1, <2>3
  <2>6. QED
    BY <1>1, <2>4, <2>5
<1>3. ASSUME NEW p \in Processes, Pays(p)
      PROVE  /\ DaysPaid' = DaysPaid + CycleDays[order[req[p].order].cycle]
             /\ CycleDays[order[req[p].order].cycle] \in Nat
  <2>1. PICK o \in SubOrders : o = req[p].order
    BY <1>3, PaysOne
  <2>2. /\ order[o].status = "unpaid" /\ order[o].cycle \in Cycles
        /\ order'[o].status = "paid" /\ order'[o].cycle = order[o].cycle
        /\ \A x \in SubOrders \ {o} : order'[x] = order[x]
    BY <1>3, <2>1, PaysOne
  <2>3. o \in PaidOrders' /\ PaidOrders' \ {o} = PaidOrders
    BY <2>2 DEF PaidOrders
  <2>4. PICK f : f = PaidDays'
    OBVIOUS
  <2>5. ASSUME NEW x \in PaidOrders
        PROVE  f[x] = PaidDays[x] /\ PaidDays[x] \in Int
    <3>1. x \in SubOrders \ {o} /\ x \in PaidOrders'
      BY <2>3, <2>2 DEF PaidOrders
    <3>2. order'[x] = order[x]
      BY <2>2, <3>1
    <3>3. f[x] = CycleDays[order[x].cycle] /\ PaidDays[x] = CycleDays[order[x].cycle]
      BY <1>1, <2>4, <3>1, <3>2
    <3>4. PaidDays[x] \in Nat
      BY <1>1
    <3>5. QED
      BY <3>3, <3>4
  <2>6. SumFunctionOnSet(f, PaidOrders) = DaysPaid
    BY <1>1, <2>5, SumOfEqual
  <2>7. \A x \in PaidOrders' : f[x] \in Int
    BY <1>1, <2>4
  <2>8. SumFunctionOnSet(f, PaidOrders') = f[o] + SumFunctionOnSet(f, PaidOrders' \ {o})
    BY <1>1, <2>3, <2>7, SumOfOneMore
  <2>9. f[o] = CycleDays[order[o].cycle] /\ f[o] \in Nat
    BY <1>1, <2>2, <2>3, <2>4
  <2>10. SumFunctionOnSet(f, PaidOrders') = DaysPaid'
    BY <1>1, <2>4
  <2>11. DaysPaid' = f[o] + DaysPaid
    BY <2>3, <2>6, <2>8, <2>10
  <2>12. QED
    BY <1>1, <2>1, <2>9, <2>11
<1>4. QED
  <2>1. CASE \E p \in Processes : Pays(p)
    BY <1>1, <1>3, <2>1
  <2>2. QED
    BY <1>1, <1>2, <2>1, PaidOrdersStep
-----------------------------------------------------------------------------
\* What a step does to the tenant's expiry: the platform enters one, which is
\* granted with it, or a notification writes the one it has computed.
LEMMA ExpireStep ==
  ASSUME TypeInv, [Next]_vars
  PROVE  /\ granted \in Nat /\ granted' \in Nat /\ granted <= granted'
         /\ now \in Nat /\ now' \in Nat /\ now <= now'
         /\ \/ tenant'.expire = tenant.expire
            \/ tenant'.expire <= granted'
            \/ \E p \in Processes : ExtendTenant(p)
<1>1. granted \in Nat /\ now \in Nat /\ tenant \in TenantRow
  BY Bounds DEF TypeInv, TypeOK
<1>2. TypeInv'
  BY NextType
<1>3. granted' \in Nat /\ now' \in Nat /\ tenant'.expire \in Nat
  BY <1>2, Bounds DEF TypeInv, TypeOK, TenantRow
<1>4. ASSUME NEW p \in Processes, Continues(p)
      PROVE  UNCHANGED <<granted, now>> /\ (tenant' = tenant \/ ExtendTenant(p))
  BY <1>4 DEF Continues, HasPaid, InsertOrder, MarkPaid, ReadTenant, ExtendTenant,
              SetContext, UpdateAdmins, Invalidate, Abandon, history
<1>5. ASSUME NEW r, NEW row, NEW stage, NEW enable, Intervenes(r, row, stage, enable)
      PROVE  /\ granted <= granted' /\ now' = now
             /\ tenant'.expire <= granted'
  <2>1. tenant' = row /\ granted' = Later(granted, row.expire) /\ now' = now
    BY <1>5 DEF Intervenes
  <2>2. row.expire \in Nat
    BY <1>3, <2>1
  <2>3. QED
    BY <1>1, <2>1, <2>2 DEF Later
<1>6. ASSUME NEW r \in Requests, RequestStep(r)
      PROVE  /\ granted <= granted' /\ now' = now
             /\ \/ tenant'.expire = tenant.expire
                \/ tenant'.expire <= granted'
                \/ ExtendTenant(r)
  <2>1. CASE Audit(r) \/ SetStatus(r) \/ SetPlan(r)
    BY <1>5, <2>1 DEF Audit, SetStatus, SetPlan
  <2>2. CASE CreateOrder(r) \/ LoadContext(r) \/ \E o \in SubOrders : Notified(r, o)
    <3>1. UNCHANGED <<tenant, granted, now>>
      BY <2>2 DEF CreateOrder, LoadContext, Notified, history
    <3>2. QED
      BY <1>1, <3>1
  <2>3. CASE Continues(r)
    BY <1>1, <1>4, <2>3 DEF Processes
  <2>4. QED
    BY <1>6, <2>1, <2>2, <2>3 DEF RequestStep
<1>7. ASSUME Scan
      PROVE  /\ UNCHANGED <<granted, now>>
             /\ tenant'.expire = tenant.expire \/ ExtendTenant(Worker)
  <2>1. CASE WriteOverdue \/ WriteBanned
    BY <1>1, <2>1 DEF WriteOverdue, WriteBanned, Writes, TenantRow, history
  <2>2. CASE ScanActive \/ ClearOverdue \/ ScanOverdue
    BY <2>2 DEF ScanActive, ClearOverdue, ScanOverdue, history
  <2>3. CASE Continues(Worker)
    BY <1>4, <2>3 DEF Processes
  <2>4. QED
    BY <1>7, <2>1, <2>2, <2>3 DEF Scan
<1>8. CASE ExpireContext \/ Tick \/ UNCHANGED vars
  BY <1>1, <1>8 DEF ExpireContext, Tick, vars, history
<1>9. QED
  BY <1>1, <1>3, <1>6, <1>7, <1>8 DEF Next, Processes

\* What a step does to a request: only its own SELECT takes it to "markPaid", and
\* only the UPDATE that pays its order to "extend".
LEMMA RenewalStep ==
  ASSUME TypeInv, [Next]_vars, NEW p \in Processes
  PROVE  \/ req'[p] = req[p]
         \/ req'[p].pc \notin {"markPaid", "extend"}
         \/ ReadTenant(p)
         \/ Pays(p)
<1> DEFINE Goal == \/ req'[p] = req[p]
                   \/ req'[p].pc \notin {"markPaid", "extend"}
                   \/ ReadTenant(p)
                   \/ Pays(p)
<1>1. req \in [Processes -> RequestState]
  BY DEF TypeInv, TypeOK
<1>2. ASSUME NEW q \in Processes, NEW s, req' = [req EXCEPT ![q] = s],
             s.pc \notin {"markPaid", "extend"}
      PROVE  Goal
  BY <1>1, <1>2
<1>3. ASSUME NEW q \in Processes, Finishes(q)
      PROVE  Goal
  <2>1. Idle.pc = "idle"
    BY DEF Idle
  <2>2. QED
    BY <1>2, <1>3, <2>1 DEF Finishes
<1>4. ASSUME NEW q \in Processes, NEW pc, GoesTo(q, pc), pc \notin {"markPaid", "extend"}
      PROVE  Goal
  <2>1. PICK s : s = [req[q] EXCEPT !.pc = pc]
    OBVIOUS
  <2>2. s.pc = pc
    BY <1>1, <2>1 DEF RequestState
  <2>3. req' = [req EXCEPT ![q] = s]
    BY <1>4, <2>1 DEF GoesTo
  <2>4. QED
    BY <1>2, <1>4, <2>2, <2>3
<1>5. ASSUME NEW q \in Processes, NEW s, Starts(q, s), s.pc \notin {"markPaid", "extend"}
      PROVE  Goal
  BY <1>2, <1>5 DEF Starts
<1>6. ASSUME NEW q \in Processes, Continues(q)
      PROVE  Goal
  <2>1. CASE HasPaid(q)
    BY <1>4, <2>1 DEF HasPaid
  <2>2. CASE InsertOrder(q)
    BY <1>3, <2>2 DEF InsertOrder
  <2>3. CASE ReadTenant(q)
    <3>1. \E s : req' = [req EXCEPT ![q] = s]
      BY <2>3 DEF ReadTenant
    <3>2. CASE q # p
      BY <1>1, <3>1, <3>2
    <3>3. QED
      BY <2>3, <3>2
  <2>4. CASE MarkPaid(q)
    <3>1. CASE ~StillUnpaid(req[q].order)
      BY <1>3, <2>4, <3>1 DEF MarkPaid
    <3>2. CASE StillUnpaid(req[q].order)
      <4>1. \E s : req' = [req EXCEPT ![q] = s]
        BY <2>4, <3>2 DEF MarkPaid, GoesTo
      <4>2. CASE q # p
        BY <1>1, <4>1, <4>2
      <4>3. QED
        BY <2>4, <3>2, <4>2 DEF Pays
    <3>3. QED
      BY <3>1, <3>2
  <2>5. CASE ExtendTenant(q)
    BY <1>4, <2>5 DEF ExtendTenant
  <2>6. CASE SetContext(q) \/ Invalidate(q) \/ Abandon(q)
    BY <1>3, <2>6 DEF SetContext, Invalidate, Abandon
  <2>7. CASE UpdateAdmins(q)
    BY <1>4, <2>7 DEF UpdateAdmins
  <2>8. QED
    BY <1>6, <2>1, <2>2, <2>3, <2>4, <2>5, <2>6, <2>7 DEF Continues
<1>7. ASSUME NEW r \in Requests, NEW row, NEW stage \in {"admins", "invalidate"}, NEW enable,
             Intervenes(r, row, stage, enable)
      PROVE  Goal
  <2>1. PICK s : s = [Idle EXCEPT !.pc = stage, !.enable = enable]
    OBVIOUS
  <2>2. s.pc = stage
    BY <2>1 DEF Idle
  <2>3. Starts(r, s)
    BY <1>7, <2>1 DEF Intervenes
  <2>4. QED
    BY <1>5, <2>2, <2>3 DEF Processes
<1>8. ASSUME NEW r \in Requests, CreateOrder(r)
      PROVE  Goal
  <2>1. PICK s, pc : Starts(r, s) /\ s.pc = pc /\ pc \in {"insert", "hasPaid"}
    <3>1. PICK plan \in Plans \cup {None}, cycle \in Cycles :
            Starts(r, [Idle EXCEPT
              !.pc = IF plan \in {None, tenant.plan} THEN "insert" ELSE "hasPaid",
              !.plan = TargetPlan(plan), !.cycle = cycle, !.base = tenant.expire])
      BY <1>8 DEF CreateOrder
    <3>2. PICK s : s = [Idle EXCEPT
              !.pc = IF plan \in {None, tenant.plan} THEN "insert" ELSE "hasPaid",
              !.plan = TargetPlan(plan), !.cycle = cycle, !.base = tenant.expire]
      OBVIOUS
    <3>3. s.pc \in {"insert", "hasPaid"}
      BY <3>2 DEF Idle
    <3>4. QED
      BY <3>1, <3>2, <3>3
  <2>2. QED
    BY <1>5, <2>1 DEF Processes
<1>9. ASSUME NEW r \in Requests, RequestStep(r)
      PROVE  Goal
  <2>1. CASE Audit(r) \/ SetStatus(r) \/ SetPlan(r)
    BY <1>7, <2>1 DEF Audit, SetStatus, SetPlan
  <2>2. CASE LoadContext(r)
    BY <1>5, <2>2 DEF LoadContext, Idle, Processes
  <2>3. ASSUME NEW o \in SubOrders, Notified(r, o)
        PROVE  Goal
    BY <1>5, <2>3 DEF Notified, Idle, Processes
  <2>4. QED
    BY <1>6, <1>8, <1>9, <2>1, <2>2, <2>3 DEF RequestStep, Processes
<1>10. ASSUME Scan
       PROVE  Goal
  <2>1. CASE ScanActive
    <3>1. PICK pc \in {"overdue", "listOverdue"} : Starts(Worker, [Idle EXCEPT !.pc = pc])
      BY <2>1 DEF ScanActive
    <3>2. PICK s : s = [Idle EXCEPT !.pc = pc]
      OBVIOUS
    <3>3. s.pc = pc
      BY <3>2 DEF Idle
    <3>4. QED
      BY <1>5, <3>1, <3>2, <3>3 DEF Processes
  <2>2. CASE WriteOverdue \/ ClearOverdue \/ WriteBanned
    BY <1>4, <2>2 DEF WriteOverdue, ClearOverdue, WriteBanned, Processes
  <2>3. CASE ScanOverdue
    BY <1>3, <1>4, <2>3 DEF ScanOverdue, Processes
  <2>4. CASE Continues(Worker)
    BY <1>6, <2>4 DEF Processes
  <2>5. QED
    BY <1>10, <2>1, <2>2, <2>3, <2>4 DEF Scan
<1>11. CASE ExpireContext \/ Tick \/ UNCHANGED vars
  BY <1>11 DEF ExpireContext, Tick, vars
<1>12. QED
  BY <1>9, <1>10, <1>11 DEF Next

LEMMA LimitGrows ==
  ASSUME IsFiniteSet(SubOrders), TypeInv, TypeInv', [Next]_vars
  PROVE  /\ Limit \in Nat /\ Limit' \in Nat /\ Limit <= Limit'
         /\ granted' <= Limit' /\ now <= Limit
         /\ \A p \in Processes : Pays(p) =>
              Limit + CycleDays[order[req[p].order].cycle] <= Limit'
<1>1. PICK before, after : before = DaysPaid /\ after = DaysPaid'
  OBVIOUS
<1>2. /\ before \in Nat /\ after \in Nat /\ before <= after
      /\ \A p \in Processes : Pays(p) =>
           after = before + CycleDays[order[req[p].order].cycle]
  BY <1>1, DaysPaidStep, PaidDaysSum DEF SummedUp
<1>3. ASSUME NEW p \in Processes, Pays(p)
      PROVE  CycleDays[order[req[p].order].cycle] \in Nat
  BY <1>3, PaysOne, Bounds
<1>4. Limit = Later(granted, now) + before /\ Limit' = Later(granted', now') + after
  BY <1>1 DEF Limit
<1>5. PICK x, y : x = Later(granted, now) /\ y = Later(granted', now')
  OBVIOUS
<1>6. /\ x \in Nat /\ y \in Nat /\ x <= y
      /\ granted' <= y /\ now <= x
      /\ granted' \in Nat /\ now \in Nat
  BY <1>5, ExpireStep DEF Later
<1>7. QED
  BY <1>2, <1>3, <1>4, <1>5, <1>6

LEMMA TimeStep ==
  ASSUME IsFiniteSet(SubOrders), TypeInv, TimeInv, [Next]_vars
  PROVE  TimeInv'
<1>1. TypeInv'
  BY NextType
<1>2. PICK a, b : a = Limit /\ b = Limit'
  OBVIOUS
<1>3. /\ a \in Nat /\ b \in Nat /\ a <= b /\ now <= a
      /\ \A p \in Processes : Pays(p) => a + CycleDays[order[req[p].order].cycle] <= b
  BY <1>1, <1>2, LimitGrows
<1>4. granted' <= b /\ granted' \in Nat
  BY <1>1, <1>2, LimitGrows, ExpireStep
<1>5. tenant.expire <= a /\ tenant.expire \in Nat /\ tenant'.expire \in Nat
  BY <1>1, <1>2 DEF TimeInv, TypeInv, TypeOK, TenantRow
<1>6. tenant'.expire <= b
  <2>1. ASSUME NEW p \in Processes, ExtendTenant(p)
        PROVE  tenant'.expire <= b
    <3>1. tenant'.expire = req[p].base + CycleDays[order[req[p].order].cycle]
      BY <2>1 DEF ExtendTenant, NewExpire
    <3>2. tenant'.expire <= a
      BY <1>2, <2>1, <3>1 DEF TimeInv, Within, ExtendTenant
    <3>3. QED
      BY <1>3, <1>5, <3>2
  <2>2. CASE tenant'.expire = tenant.expire
    BY <1>3, <1>5, <2>2
  <2>3. CASE tenant'.expire <= granted'
    BY <1>3, <1>4, <1>5, <2>3
  <2>4. QED
    BY <2>1, <2>2, <2>3, ExpireStep
<1>7. ASSUME NEW p \in Processes
      PROVE  Within(req[p])'
  <2>1. CASE req'[p] = req[p]
    <3>1. CASE req[p].pc = "markPaid"
      <4>1. req[p].base <= a /\ req[p].base \in Nat
        BY <1>2, <3>1 DEF TimeInv, Within, TypeInv, TypeOK, RequestState
      <4>2. req[p].base <= b
        BY <1>3, <4>1
      <4>3. QED
        BY <1>2, <2>1, <3>1, <4>2 DEF Within
    <3>2. CASE req[p].pc = "extend"
      <4>1. PICK o \in SubOrders : o = req[p].order
        BY <3>2, NewExpireType
      <4>2. order[o].status = "paid" /\ order'[o] = order[o]
        BY <3>2, <4>1, PaidRowsStay DEF TimeInv, Within
      <4>3. PICK new : new = NewExpire(p)
        OBVIOUS
      <4>4. new <= a /\ new \in Nat
        BY <1>2, <3>2, <4>3, NewExpireType DEF TimeInv, Within, NewExpire
      <4>5. new <= b
        BY <1>3, <4>4
      <4>6. new = req'[p].base + CycleDays[order'[req'[p].order].cycle]
        BY <2>1, <4>1, <4>2, <4>3 DEF NewExpire
      <4>7. QED
        BY <1>2, <2>1, <3>2, <4>1, <4>2, <4>5, <4>6 DEF Within
    <3>3. QED
      BY <2>1, <3>1, <3>2 DEF Within
  <2>2. CASE req'[p].pc \notin {"markPaid", "extend"}
    BY <2>2 DEF Within
  <2>3. CASE ReadTenant(p)
    <3>1. PICK s : s = [req[p] EXCEPT !.pc = "markPaid", !.seen = tenant.status,
                                      !.base = Later(tenant.expire, now)]
      OBVIOUS
    <3>2. s.pc = "markPaid" /\ s.base = Later(tenant.expire, now)
      BY <3>1 DEF TypeInv, TypeOK, RequestState
    <3>3. req'[p] = s
      BY <2>3, <3>1 DEF ReadTenant, TypeInv, TypeOK
    <3>4. Later(tenant.expire, now) <= a /\ Later(tenant.expire, now) \in Nat
      BY <1>3, <1>5, ExpireStep DEF Later
    <3>5. Later(tenant.expire, now) <= b
      BY <1>3, <3>4
    <3>6. QED
      BY <1>2, <3>2, <3>3, <3>5 DEF Within
  <2>4. CASE Pays(p)
    <3>1. PICK o \in SubOrders : o = req[p].order
      BY <2>4, PaysOne
    <3>2. /\ order[o].cycle \in Cycles
          /\ order'[o].status = "paid" /\ order'[o].cycle = order[o].cycle
          /\ req' = [req EXCEPT ![p] = [req[p] EXCEPT !.pc = "extend"]]
      BY <2>4, <3>1, PaysOne
    <3>3. PICK s : s = [req[p] EXCEPT !.pc = "extend"]
      OBVIOUS
    <3>4. req'[p] = s /\ s.pc = "extend" /\ s.order = o /\ s.base = req[p].base
      BY <3>1, <3>2, <3>3 DEF TypeInv, TypeOK, RequestState
    <3>5. PICK days : days = CycleDays[order[o].cycle]
      OBVIOUS
    <3>6. days \in Nat /\ a + days <= b
      BY <1>3, <2>4, <3>1, <3>2, <3>5, Bounds
    <3>7. req[p].base <= a /\ req[p].base \in Nat
      BY <1>2, <2>4 DEF Pays, MarkPaid, TimeInv, Within, TypeInv, TypeOK, RequestState
    <3>8. req[p].base + days <= b
      BY <1>3, <3>6, <3>7
    <3>9. QED
      BY <1>2, <3>2, <3>4, <3>5, <3>8 DEF Within
  <2>5. QED
    BY <2>1, <2>2, <2>3, <2>4, RenewalStep
<1>8. QED
  BY <1>2, <1>6, <1>7 DEF TimeInv

LEMMA InitTime ==
  ASSUME IsFiniteSet(SubOrders), Init
  PROVE  TimeInv
<1>1. TypeInv
  BY InitType
<1>2. PICK days : days = DaysPaid
  OBVIOUS
<1>3. days \in Nat
  BY <1>1, <1>2, PaidDaysSum DEF SummedUp
<1>4. tenant.expire = TrialDays /\ granted = TrialDays /\ now = 0 /\ TrialDays \in Nat
  BY Bounds DEF Init, Registered
<1>5. Later(granted, now) = TrialDays
  BY <1>4 DEF Later
<1>6. tenant.expire <= Limit
  BY <1>2, <1>3, <1>4, <1>5 DEF Limit
<1>7. \A p \in Processes : Within(req[p])
  BY DEF Init, Within, Idle
<1>8. QED
  BY <1>6, <1>7 DEF TimeInv

\* A tenant never has more time than it was granted or has paid for: not when a
\* notification comes twice, nor when those of two orders, the platform and the
\* worker interleave.  Only finitely many orders can be summed up.
THEOREM NoTimeIsFree ==
  ASSUME IsFiniteSet(SubOrders)
  PROVE  Spec => []NoFreeTime
<1>1. Init => TimeInv
  BY InitTime
<1>2. TypeInv /\ TimeInv /\ [Next]_vars => TimeInv'
  BY TimeStep
<1>3. TimeInv => NoFreeTime
  BY DEF TimeInv, Limit, NoFreeTime
<1>4. QED
  BY <1>1, <1>2, <1>3, TypeInvariant, PTL DEF Spec

=============================================================================
