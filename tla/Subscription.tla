---------------------------- MODULE Subscription ----------------------------
(***************************************************************************)
(* The subscription of one tenant: SubscriptionService, the platform's     *)
(* operations on tenants (TenantService) and the worker that moves tenants *)
(* whose plan has run out to overdue and banned, with the cached tenant    *)
(* context every API request is admitted by.                               *)
(*                                                                         *)
(* Nothing here runs in a transaction, so every statement is a step, and   *)
(* so is every call of Redis.  Time is counted in days; the lengths of the *)
(* trial, the graces and the billing cycles are parameters.                *)
(*                                                                         *)
(* Operators named ...Unchecked, ...Assumed, ...Raw, ...Active and         *)
(* ...Forever are not part of the specification: each is the definition    *)
(* below it with a plausible defect, kept to see that a property can fail. *)
(***************************************************************************)
EXTENDS Integers, FiniteSets, Functions

CONSTANTS
  SubOrders,         \* the tenant_subscription_orders rows a run may insert
  Plans,
  DefaultPlan,       \* the plan the tenant registered with
  Cycles,            \* billing cycles
  CycleDays,         \* [Cycles -> Nat], their lengths
  TrialDays, GraceOverdueDays, GraceBannedDays,
  Requests,          \* API requests and notifications in flight together
  Worker,            \* the worker process
  HasCache,          \* BOOLEAN, TenantService was given a Redis client
  MaxDay,            \* bound: the last day of a run
  Grants,            \* the expiry dates the platform enters for the tenant
  MaxInterventions,  \* bound: how often it intervenes after the tenant's audit
  None

ASSUME SubscriptionAssumption ==
  /\ DefaultPlan \in Plans
  /\ CycleDays \in [Cycles -> Nat]
  /\ {TrialDays, GraceOverdueDays, GraceBannedDays, MaxDay, MaxInterventions} \subseteq Nat
  /\ Grants \subseteq Nat
  /\ HasCache \in BOOLEAN
  /\ Worker \notin Requests
  /\ None \notin SubOrders \cup Plans \cup Cycles

VARIABLES
  now,           \* the day
  tenant,        \* TenantRow
  order,         \* [SubOrders -> SubOrderRow]
  admins,        \* BOOLEAN, the tenant's administrators may log in
  cached,        \* the status in the tenant context in Redis, or None
  interventions, \* how often the platform intervened
  granted,       \* history: the latest expiry the platform ever granted
  given,         \* history: the plans the tenant had without paying an order
  req            \* [Processes -> RequestState]

vars == <<now, tenant, order, admins, cached, interventions, granted, given, req>>
history == <<interventions, granted, given>>

-----------------------------------------------------------------------------
(* Rows and requests *)

TenantStatus == {"pending", "active", "overdue", "banned"}
TenantRow == [status : TenantStatus, plan : Plans, expire : Nat]

SubOrderRow == [status : {"none", "unpaid", "paid"},
                plan : Plans \cup {None},
                cycle : Cycles \cup {None},
                before : Nat,              \* expire_before
                after : Nat]               \* expire_after
NoSubOrder == [status |-> "none", plan |-> None, cycle |-> None, before |-> 0, after |-> 0]

Processes == Requests \cup {Worker}

\* "hasPaid" and "insert" are stages of CreateOrder, "tenant", "markPaid" and
\* "extend" of OnPaySuccess, "admins" of the platform's operations, "set" of
\* LoadContext, "overdue", "listOverdue" and "ban" of ScanAndTransition.
\* "invalidate" ends the operations that change the tenant, and "clear" does it
\* in the middle of the scan.
RequestState ==
  [pc : {"idle", "hasPaid", "insert", "tenant", "markPaid", "extend", "admins",
         "set", "overdue", "clear", "listOverdue", "ban", "invalidate"},
   order : SubOrders \cup {None},
   plan : Plans \cup {None},
   cycle : Cycles \cup {None},
   seen : TenantStatus,   \* the tenant's status as it was read
   base : Nat,            \* the expiry read; for OnPaySuccess the renewal's start
   enable : BOOLEAN]      \* admins: the status it will write

Registered == [status |-> "pending", plan |-> DefaultPlan, expire |-> TrialDays]
Idle == [pc |-> "idle", order |-> None, plan |-> None, cycle |-> None,
         seen |-> "pending", base |-> 0, enable |-> FALSE]

Starts(p, state) ==
  /\ req[p].pc = "idle"
  /\ req' = [req EXCEPT ![p] = state]

GoesTo(p, pc) == req' = [req EXCEPT ![p] = [@ EXCEPT !.pc = pc]]
Finishes(p) == req' = [req EXCEPT ![p] = Idle]

\* An early error return, the deadline of the scan, or a process that dies.
Abandon(p) ==
  /\ req[p].pc # "idle"
  /\ Finishes(p)
  /\ UNCHANGED <<now, tenant, order, admins, cached, history>>

Later(a, b) == IF a < b THEN b ELSE a

-----------------------------------------------------------------------------
(* CreateOrder *)

\* No plan asked for is the plan the tenant has.
TargetPlanRaw(plan) == plan
TargetPlan(plan) == IF plan = None THEN tenant.plan ELSE plan

CreateOrder(r) ==
  /\ tenant.status \in {"active", "overdue"}
  /\ \E plan \in Plans \cup {None}, cycle \in Cycles :
       Starts(r, [Idle EXCEPT
         !.pc = IF plan \in {None, tenant.plan} THEN "insert" ELSE "hasPaid",
         !.plan = TargetPlan(plan), !.cycle = cycle, !.base = tenant.expire])
  /\ UNCHANGED <<now, tenant, order, admins, cached, history>>

PaidOrders == {o \in SubOrders : order[o].status = "paid"}

\* Another plan needs an order that was paid.
HasAnyPaidOrderAssumed == TRUE
HasAnyPaidOrder == PaidOrders # {}

HasPaid(r) ==
  /\ req[r].pc = "hasPaid"
  /\ HasAnyPaidOrder
  /\ GoesTo(r, "insert")
  /\ UNCHANGED <<now, tenant, order, admins, cached, history>>

\* The payment is then prepared at WeChat; that it fails leaves the row.
InsertOrder(r) ==
  \E o \in SubOrders :
    /\ req[r].pc = "insert"
    /\ order[o].status = "none"
    /\ order' = [order EXCEPT ![o] =
         [status |-> "unpaid", plan |-> req[r].plan, cycle |-> req[r].cycle,
          before |-> req[r].base, after |-> 0]]
    /\ Finishes(r)
    /\ UNCHANGED <<now, tenant, admins, cached, history>>

-----------------------------------------------------------------------------
(* OnPaySuccess: WeChat's notification, which may come several times *)

\* An order read as paid is answered with success at once.
Notified(r, o) ==
  /\ order[o].status = "unpaid"
  /\ Starts(r, [Idle EXCEPT !.pc = "tenant", !.order = o])
  /\ UNCHANGED <<now, tenant, order, admins, cached, history>>

\* The renewal starts at the later of now and the expiry read.
ReadTenant(r) ==
  /\ req[r].pc = "tenant"
  /\ req' = [req EXCEPT ![r] = [@ EXCEPT !.pc = "markPaid", !.seen = tenant.status,
                                         !.base = Later(tenant.expire, now)]]
  /\ UNCHANGED <<now, tenant, order, admins, cached, history>>

NewExpire(r) == req[r].base + CycleDays[order[req[r].order].cycle]

\* UPDATE ... WHERE status = 0; a notification that matches no row ends here.
StillUnpaidUnchecked(o) == TRUE
StillUnpaid(o) == order[o].status = "unpaid"

MarkPaid(r) ==
  LET o == req[r].order IN
  /\ req[r].pc = "markPaid"
  /\ IF StillUnpaid(o)
     THEN /\ order' = [order EXCEPT ![o] = [@ EXCEPT
                         !.status = "paid", !.before = req[r].base, !.after = NewExpire(r)]]
          /\ GoesTo(r, "extend")
     ELSE Finishes(r) /\ UNCHANGED order
  /\ UNCHANGED <<now, tenant, admins, cached, history>>

\* The tenant's row is written with what was computed from the one read.
ExtendTenant(r) ==
  /\ req[r].pc = "extend"
  /\ tenant' = [plan |-> order[req[r].order].plan,
                expire |-> NewExpire(r),
                status |-> IF req[r].seen \in {"overdue", "banned"}
                           THEN "active" ELSE tenant.status]
  /\ GoesTo(r, "invalidate")
  /\ UNCHANGED <<now, order, admins, cached, history>>

-----------------------------------------------------------------------------
(* The cached context: LoadContext and Invalidate *)

LoadContext(r) ==
  /\ HasCache
  /\ cached = None
  /\ Starts(r, [Idle EXCEPT !.pc = "set", !.seen = tenant.status])
  /\ UNCHANGED <<now, tenant, order, admins, cached, history>>

SetContext(r) ==
  /\ req[r].pc = "set"
  /\ cached' = req[r].seen
  /\ Finishes(r)
  /\ UNCHANGED <<now, tenant, order, admins, history>>

\* The key lives five minutes.
OutlivedForever == FALSE
Outlived == cached # None

ExpireContext ==
  /\ Outlived
  /\ cached' = None
  /\ UNCHANGED <<now, tenant, order, admins, history, req>>

\* DEL of the key, if there is a cache; its error is dropped, which is Abandon where it is the last
\* statement, and a cache left as it is where it is not.
Invalidate(p) ==
  /\ req[p].pc = "invalidate"
  /\ cached' = None
  /\ Finishes(p)
  /\ UNCHANGED <<now, tenant, order, admins, history>>

-----------------------------------------------------------------------------
(* The platform: Audit, SetStatus, SetPlan *)

Intervenes(r, row, stage, enable) ==
  /\ IF tenant.status = "pending"
     THEN UNCHANGED interventions
     ELSE interventions < MaxInterventions /\ interventions' = interventions + 1
  /\ tenant' = row
  /\ granted' = Later(granted, row.expire)
  /\ given' = given \cup {row.plan}
  /\ Starts(r, [Idle EXCEPT !.pc = stage, !.enable = enable])
  /\ UNCHANGED <<now, order, admins, cached>>

\* An approval starts the trial again, whatever the tenant's status was.
Audit(r) ==
  \/ Intervenes(r, [tenant EXCEPT !.status = "active", !.expire = now + TrialDays],
                "admins", TRUE)
  \/ Intervenes(r, [tenant EXCEPT !.status = "banned"], "admins", FALSE)

SetStatus(r) ==
  \E status \in {"active", "banned"} :
    Intervenes(r, [tenant EXCEPT !.status = status], "admins", status = "active")

\* The expiry may be left as it is.
SetPlan(r) ==
  \E plan \in Plans, expire \in Grants \cup {tenant.expire} :
    Intervenes(r, [tenant EXCEPT !.plan = plan, !.expire = expire], "invalidate", FALSE)

\* The error of this UPDATE is dropped.
UpdateAdmins(r) ==
  /\ req[r].pc = "admins"
  /\ admins' \in {admins, req[r].enable}
  /\ GoesTo(r, "invalidate")
  /\ UNCHANGED <<now, tenant, order, cached, history>>

-----------------------------------------------------------------------------
(* The worker: ScanAndTransition *)

\* SELECT ... WHERE status = ? AND plan_expire_at < now - grace
Listed(status, grace) == tenant.status = status /\ tenant.expire < now - grace

ScanActive ==
  /\ Starts(Worker, [Idle EXCEPT
       !.pc = IF Listed("active", GraceOverdueDays) THEN "overdue" ELSE "listOverdue"])
  /\ UNCHANGED <<now, tenant, order, admins, cached, history>>

\* The row is written WHERE only its id, and an error of the UPDATE dropped.
Writes(status) == tenant' \in {tenant, [tenant EXCEPT !.status = status]}

WriteOverdue ==
  /\ req[Worker].pc = "overdue"
  /\ Writes("overdue")
  /\ GoesTo(Worker, "clear")
  /\ UNCHANGED <<now, order, admins, cached, history>>

ClearOverdue ==
  /\ req[Worker].pc = "clear"
  /\ cached' \in {cached, None}
  /\ GoesTo(Worker, "listOverdue")
  /\ UNCHANGED <<now, tenant, order, admins, history>>

\* The status the second list is taken of.
BannedFromActive == "active"
BannedFrom == "overdue"

ScanOverdue ==
  /\ req[Worker].pc = "listOverdue"
  /\ IF Listed(BannedFrom, GraceBannedDays) THEN GoesTo(Worker, "ban") ELSE Finishes(Worker)
  /\ UNCHANGED <<now, tenant, order, admins, cached, history>>

WriteBanned ==
  /\ req[Worker].pc = "ban"
  /\ Writes("banned")
  /\ GoesTo(Worker, "invalidate")
  /\ UNCHANGED <<now, order, admins, cached, history>>

-----------------------------------------------------------------------------
(* The specification *)

Tick ==
  /\ now < MaxDay
  /\ now' = now + 1
  /\ UNCHANGED <<tenant, order, admins, cached, history, req>>

Init ==
  /\ now = 0
  /\ tenant = Registered
  /\ order = [o \in SubOrders |-> NoSubOrder]
  /\ admins = FALSE
  /\ cached = None
  /\ interventions = 0
  /\ granted = TrialDays
  /\ given = {DefaultPlan}
  /\ req = [p \in Processes |-> Idle]

\* The steps that go on with what a process is doing.
Continues(p) ==
  \/ HasPaid(p)
  \/ InsertOrder(p)
  \/ ReadTenant(p)
  \/ MarkPaid(p)
  \/ ExtendTenant(p)
  \/ SetContext(p)
  \/ UpdateAdmins(p)
  \/ Invalidate(p)
  \/ Abandon(p)

RequestStep(r) ==
  \/ CreateOrder(r)
  \/ \E o \in SubOrders : Notified(r, o)
  \/ LoadContext(r)
  \/ Audit(r)
  \/ SetStatus(r)
  \/ SetPlan(r)
  \/ Continues(r)

Scan ==
  \/ ScanActive
  \/ WriteOverdue
  \/ ClearOverdue
  \/ ScanOverdue
  \/ WriteBanned
  \/ Continues(Worker)

Next ==
  \/ \E r \in Requests : RequestStep(r)
  \/ Scan
  \/ ExpireContext
  \/ Tick

Spec == Init /\ [][Next]_vars

\* Processes go on or die; the key expires; the worker scans again and again,
\* and neither every write of it nor every scan fails.
Fairness ==
  /\ \A r \in Requests : WF_vars(Continues(r))
  /\ WF_vars(ExpireContext)
  /\ WF_vars(Scan)
  /\ SF_vars(ScanOverdue)
  /\ SF_vars(WriteOverdue /\ tenant'.status = "overdue")
  /\ SF_vars(WriteBanned /\ tenant'.status = "banned")

FairSpec == Spec /\ Fairness

-----------------------------------------------------------------------------
(* Properties *)

\* Every variable has its type.
TypeOK ==
  /\ now \in 0..MaxDay
  /\ tenant \in TenantRow
  /\ order \in [SubOrders -> SubOrderRow]
  /\ \A o \in SubOrders :
       order[o].status # "none" => order[o].plan \in Plans /\ order[o].cycle \in Cycles
  /\ admins \in BOOLEAN
  /\ cached \in TenantStatus \cup {None}
  /\ interventions \in 0..MaxInterventions
  /\ granted \in Nat
  /\ given \subseteq Plans
  /\ req \in [Processes -> RequestState]

\* The tenant never has more time than it was granted or paid for, however often
\* and at whatever moments its payments are notified.
DaysPaid == SumFunction([o \in PaidOrders |-> CycleDays[order[o].cycle]])
NoFreeTime == tenant.expire <= Later(granted, now) + DaysPaid

\* "During the trial the plan cannot be switched": an order for a plan the
\* tenant was not given exists only once it has paid for one it was given.
SwitchIsPaidFor ==
  \A o \in SubOrders :
    order[o].status # "none" /\ order[o].plan \notin given =>
      \E paid \in PaidOrders : order[paid].plan \in given

\* An order is paid once: what the first notification recorded, the plan and
\* the period, no later or parallel one changes.
PaidOrderIsFinal ==
  [][\A o \in SubOrders : order[o].status = "paid" => order'[o] = order[o]]_vars

\* A tenant whose plan ran out longer ago than the grace is banned in the end,
\* unless it is renewed or the platform intervenes.
RanOut == tenant.expire < now - GraceBannedDays
UnpaidIsBanned ==
  (tenant.status = "active" /\ RanOut) ~> (tenant.status = "banned" \/ ~RanOut)

\* A ban that lasts reaches the cached context for good, although a request can
\* write back a context it loaded before the ban.
BanReachesCache ==
  <>[](tenant.status = "banned") =>
    <>[](cached \in {None, "banned"})
=============================================================================
