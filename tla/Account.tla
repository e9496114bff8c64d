------------------------------ MODULE Account --------------------------------
(***************************************************************************)
(* The administrators' accounts and the applications of new tenants:       *)
(* AuthService from AdminLoginBySMS down, the audit and the status of a    *)
(* tenant (TenantService), and the platform's own users                    *)
(* (PlatformUserHandler).  A request that needs a verification code starts *)
(* here where VerifyCode has let it through.                               *)
(*                                                                         *)
(* Nothing here is a transaction: an application inserts its tenant and    *)
(* its administrator by two INSERTs, an audit updates the tenant and its   *)
(* administrators by two UPDATEs.  Passwords, tokens and roles, on which   *)
(* no step depends, are left out.                                          *)
(*                                                                         *)
(* CodeIsNewTwice is not part of the specification: it is CodeIsNew with a *)
(* plausible defect, kept to see that a property can fail.                 *)
(***************************************************************************)
EXTENDS Calls

CONSTANTS
  Mobiles,     \* phone numbers
  Usernames,
  Founder,     \* the username of the super administrator init_db.sql inserts
  Tenants,     \* tenants, each named by its code
  MaxAdmins    \* rows of admins a run may insert

ASSUME AccountAssumption ==
  /\ Founder \in Usernames
  /\ MaxAdmins \in Nat \ {0}
  /\ None \notin Mobiles \cup Usernames \cup Tenants

VARIABLES
  tenant,  \* [Tenants -> TenantRow]
  admin,   \* [AdminIds -> AdminRow]
  call     \* [Requests -> CallState]

accountVars == <<tenant, admin, call>>

-----------------------------------------------------------------------------
(* Rows and requests *)

AdminIds == 1..MaxAdmins

\* by is the username of the application: history.
TenantRow == [status : {"none", "pending", "active", "banned"},
              by : Usernames \cup {None}]

\* tenant is None for an administrator of the platform (tenant_id = 0).
AdminRow == [row : {"none", "present", "deleted"},
             username : Usernames \cup {None},
             tenant : Tenants \cup {None},
             phone : Mobiles \cup {None},
             enabled : BOOLEAN]

CallState ==
  [pc : {"idle", "found", "tenant", "admin", "link", "user", "delete"},
   username : Usernames \cup {None},
   tenant : Tenants \cup {None},
   phone : Mobiles \cup {None},
   target : AdminIds \cup {None},
   on : BOOLEAN]       \* link: the tenant is made active; user: enabled

NoTenant == [status |-> "none", by |-> None]
NoAdmin == [row |-> "none", username |-> None, tenant |-> None, phone |-> None,
            enabled |-> FALSE]
NoCall == [pc |-> "idle", username |-> None, tenant |-> None, phone |-> None,
           target |-> None, on |-> FALSE]

CallStarts(r, state) ==
  /\ call[r].pc = "idle"
  /\ call' = [call EXCEPT ![r] = state]
CallGoesOn(r, from, to) ==
  /\ call[r].pc = from
  /\ call' = [call EXCEPT ![r] = [@ EXCEPT !.pc = to]]
CallReturns(r, from) ==
  /\ call[r].pc = from
  /\ call' = [call EXCEPT ![r] = NoCall]

-----------------------------------------------------------------------------
(* The calls a verified code opens *)

\* First orders by the id: of several accounts with the phone, the oldest.
HasPhone(i, t, phone) ==
  admin[i].row = "present" /\ admin[i].tenant = t /\ admin[i].phone = phone
FindByPhone(i, t, phone) ==
  /\ HasPhone(i, t, phone)
  /\ \A j \in AdminIds : HasPhone(j, t, phone) => i <= j

\* t is None for the platform's administrators.
AdminLoginBySMS(r, t, phone, i) ==
  /\ FindByPhone(i, t, phone) /\ admin[i].enabled
  /\ CallStarts(r, [NoCall EXCEPT !.pc = "found", !.target = i])
  /\ UNCHANGED <<tenant, admin>>

ResetAdminPassword(r, t, phone, i) ==
  /\ FindByPhone(i, t, phone)
  /\ CallStarts(r, [NoCall EXCEPT !.pc = "found", !.target = i])
  /\ UNCHANGED <<tenant, admin>>

\* UpdateLogin or UpdatePassword, by id: it matches no row if the account has
\* been deleted meanwhile, and neither looks at the phone again.
UpdatesFound(r) ==
  /\ CallReturns(r, "found")
  /\ UNCHANGED <<tenant, admin>>

UsernameTaken(u) ==
  \E i \in AdminIds : admin[i].row = "present" /\ admin[i].username = u

\* The username and the code of the tenant are looked up, both unlocked.
RegisterTenantWithAdmin(r, t, u, phone) ==
  /\ ~UsernameTaken(u)
  /\ tenant[t].status = "none"
  /\ CallStarts(r, [NoCall EXCEPT !.pc = "tenant", !.username = u, !.tenant = t,
                                  !.phone = phone])
  /\ UNCHANGED <<tenant, admin>>

\* tenants.code is UNIQUE.
CodeIsNewTwice(t) == TRUE
CodeIsNew(t) == tenant[t].status = "none"

InsertTenant(r) ==
  LET t == call[r].tenant IN
    /\ CallGoesOn(r, "tenant", "admin")
    /\ CodeIsNew(t)
    /\ tenant' = [tenant EXCEPT ![t] = [@ EXCEPT !.status = "pending",
                                                 !.by = call[r].username]]
    /\ UNCHANGED admin

\* admins.username is UNIQUE; ids come from a sequence.
InsertsAdmin(new) ==
  \E i \in AdminIds :
    /\ ~UsernameTaken(new.username)
    /\ admin[i].row = "none"
    /\ \A j \in AdminIds : admin[j].row = "none" => i <= j
    /\ admin' = [admin EXCEPT ![i] = new]

\* Admin.Status is tagged default:1, and gorm's Create stores the default of a field
\* whose value is zero: 0, which the code means for disabled, becomes 1.
Stored(status) == IF status = 0 THEN 1 ELSE status

\* Status: 0, to be enabled when the platform approves the tenant.
ApplicantsAdmin(r) ==
  [NoAdmin EXCEPT !.row = "present", !.username = call[r].username,
                  !.tenant = call[r].tenant, !.phone = call[r].phone,
                  !.enabled = Stored(0) = 1]

InsertAdmin(r) ==
  /\ CallReturns(r, "admin")
  /\ InsertsAdmin(ApplicantsAdmin(r))
  /\ UNCHANGED tenant

\* Any error return, or a process that dies: nothing is undone.
CallFails(r) ==
  /\ call[r].pc # "idle"
  /\ call' = [call EXCEPT ![r] = NoCall]
  /\ UNCHANGED <<tenant, admin>>

-----------------------------------------------------------------------------
(* The platform's decisions *)

\* UPDATE tenants by id, whatever the status is; the administrators follow.
DecidesTenant(r, t, active) ==
  /\ tenant[t].status # "none"
  /\ tenant' = [tenant EXCEPT ![t] =
       [@ EXCEPT !.status = IF active THEN "active" ELSE "banned"]]
  /\ CallStarts(r, [NoCall EXCEPT !.pc = "link", !.tenant = t, !.on = active])
  /\ UNCHANGED admin

Audit(r, t, approve) == DecidesTenant(r, t, approve)
SetStatus(r, t, active) == DecidesTenant(r, t, active)

\* The UPDATE's error is dropped.
UpdateStatusByTenant(r) ==
  /\ CallReturns(r, "link")
  /\ admin' \in {admin,
       [i \in AdminIds |-> IF admin[i].row = "present" /\ admin[i].tenant = call[r].tenant
                             THEN [admin[i] EXCEPT !.enabled = call[r].on]
                             ELSE admin[i]]}
  /\ UNCHANGED tenant

-----------------------------------------------------------------------------
(* PlatformUserHandler *)

\* The status of the form is not checked; a form without one gives 1.
CreateUser(r, u, status) ==
  /\ ~UsernameTaken(u)
  /\ CallStarts(r, [NoCall EXCEPT !.pc = "user", !.username = u,
                                  !.on = Stored(status) = 1])
  /\ UNCHANGED <<tenant, admin>>

InsertUser(r, phone) ==
  /\ CallReturns(r, "user")
  /\ InsertsAdmin([NoAdmin EXCEPT !.row = "present", !.username = call[r].username,
                                  !.phone = phone, !.enabled = call[r].on])
  /\ UNCHANGED tenant

\* One UPDATE of the fields submitted (the others keep their values), by id: of any
\* row, a tenant's included.
UpdateUser(i, phone, on) ==
  /\ admin[i].row = "present"
  /\ phone \in Mobiles \cup {admin[i].phone}
  /\ admin' = [admin EXCEPT ![i] = [@ EXCEPT !.phone = phone, !.enabled = on]]
  /\ UNCHANGED <<tenant, call>>

\* me is known from the token and not looked up again.
DeleteUser(r, me, i) ==
  /\ admin[me].row # "none" /\ me # i
  /\ admin[i].row = "present"
  /\ CallStarts(r, [NoCall EXCEPT !.pc = "delete", !.target = i])
  /\ UNCHANGED <<tenant, admin>>

RemoveUser(r) ==
  /\ CallReturns(r, "delete")
  /\ admin' = [admin EXCEPT ![call[r].target] = [@ EXCEPT !.row = "deleted"]]
  /\ UNCHANGED tenant

-----------------------------------------------------------------------------
AccountInit ==
  /\ tenant = [t \in Tenants |-> NoTenant]
  /\ admin = [i \in AdminIds |->
       IF i = 1 THEN [NoAdmin EXCEPT !.row = "present", !.username = Founder,
                                     !.enabled = TRUE]
                ELSE NoAdmin]
  /\ call = [r \in Requests |-> NoCall]

AccountNext ==
  \/ \E r \in Requests :
       \/ \E t \in Tenants \cup {None}, phone \in Mobiles, i \in AdminIds :
            AdminLoginBySMS(r, t, phone, i) \/ ResetAdminPassword(r, t, phone, i)
       \/ UpdatesFound(r)
       \/ \E t \in Tenants, u \in Usernames, phone \in Mobiles :
            RegisterTenantWithAdmin(r, t, u, phone)
       \/ InsertTenant(r) \/ InsertAdmin(r)
       \/ CallFails(r)
       \/ \E t \in Tenants, ok \in BOOLEAN : Audit(r, t, ok) \/ SetStatus(r, t, ok)
       \/ UpdateStatusByTenant(r)
       \/ \E u \in Usernames, status \in 0..2 : CreateUser(r, u, status)
       \/ \E phone \in Mobiles \cup {None} : InsertUser(r, phone)
       \/ \E me, i \in AdminIds : DeleteUser(r, me, i)
       \/ RemoveUser(r)
  \/ \E i \in AdminIds, phone \in Mobiles \cup {None}, on \in BOOLEAN :
       UpdateUser(i, phone, on)

AccountSpec == AccountInit /\ [][AccountNext]_accountVars

-----------------------------------------------------------------------------
(* Properties *)

\* The variables keep their types.
AccountTypeOK ==
  /\ tenant \in [Tenants -> TenantRow]
  /\ admin \in [AdminIds -> AdminRow]
  /\ call \in [Requests -> CallState]

\* Two applications for one tenant code never share the tenant: whichever reads
\* are stale, each tenant has at most one administrator and it is the one whose
\* application inserted the tenant (RegisterTenantWithAdmin).
ApplicantOwnsTenant ==
  \A i \in AdminIds :
    admin[i].tenant # None =>
      /\ tenant[admin[i].tenant].by = admin[i].username
      /\ \A j \in AdminIds : admin[j].tenant = admin[i].tenant =>
           i = j
=============================================================================
