---------------------------- MODULE Distribution -----------------------------
(***************************************************************************)
(* The distributors of one tenant: a member applies to be one, a member    *)
(* binds itself to the member who invited it, and the admin audits         *)
(* distributors and changes the settings (the two DistributionHandlers).   *)
(*                                                                         *)
(* Nothing here is a transaction.  parent_id and grandparent_id name       *)
(* members; they are what a two-level commission is to be paid along.      *)
(* Rates, amounts, the count of invitations and the list of commissions,   *)
(* which no code reads or fills, are left out; a member's own status is in *)
(* Membership.                                                             *)
(*                                                                         *)
(* InvitesAnyone is not part of the specification: it is Invites with a    *)
(* plausible defect, kept to see that the property can fail.               *)
(***************************************************************************)
EXTENDS Calls

CONSTANT Persons   \* the members of the tenant

ASSUME PersonsAssumption == None \notin Persons

VARIABLES
  rules,        \* the DistributionSetting: off, or how applications are taken
  parentOf,     \* [Persons -> members.parent_id, or None]
  distributor,  \* [Persons -> DistributorRow]; member_id is UNIQUE
  lastId,       \* the last id given to a distributor
  visit         \* [Requests -> VisitState]

distributionVars == <<rules, parentOf, distributor, lastId, visit>>

-----------------------------------------------------------------------------
(* Rows and requests *)

\* auto_become counts only while enabled = 1.
Rules == {"off", "audited", "automatic"}

\* id is 0 if the member has no row; normal is status = 1, neither waiting for the
\* audit (0) nor frozen (2).
DistributorRow == [id : Nat,
                   parent : Persons \cup {None},
                   grandparent : Persons \cup {None},
                   normal : BOOLEAN]

\* "member", "parent" and "insert" are stages of Apply, the others of BindParent.
VisitState ==
  [pc : {"idle", "member", "parent", "insert", "check", "bind"},
   member : Persons \cup {None},
   parent : Persons \cup {None},        \* BindParent: the inviter
   grandparent : Persons \cup {None},
   normal : BOOLEAN]

NoDistributor == [id |-> 0, parent |-> None, grandparent |-> None,
                  normal |-> FALSE]
NoVisit == [pc |-> "idle", member |-> None, parent |-> None,
            grandparent |-> None, normal |-> FALSE]

VisitStarts(r, state) ==
  /\ visit[r].pc = "idle"
  /\ visit' = [visit EXCEPT ![r] = state]
VisitGoesOn(r, from, to) ==
  /\ visit[r].pc = from
  /\ visit' = [visit EXCEPT ![r] = [@ EXCEPT !.pc = to]]
VisitReturns(r, from) ==
  /\ visit[r].pc = from
  /\ visit' = [visit EXCEPT ![r] = NoVisit]

IsDistributor(m) == distributor[m].id # 0

-----------------------------------------------------------------------------
(* Apply *)

\* The settings, then whether the member has a row already.
Apply(r, m) ==
  /\ rules # "off"
  /\ ~IsDistributor(m)
  /\ VisitStarts(r, [NoVisit EXCEPT !.pc = "member", !.member = m,
                                    !.normal = rules = "automatic"])
  /\ UNCHANGED <<rules, parentOf, distributor, lastId>>

ReadMember(r) ==
  LET p == parentOf[visit[r].member] IN
    /\ visit[r].pc = "member"
    /\ visit' = [visit EXCEPT ![r] =
         [@ EXCEPT !.pc = IF p = None THEN "insert" ELSE "parent", !.parent = p]]
    /\ UNCHANGED <<rules, parentOf, distributor, lastId>>

\* The grandparent is known only while the parent is a normal distributor.
ReadParent(r) ==
  LET p == distributor[visit[r].parent] IN
    /\ visit[r].pc = "parent"
    /\ visit' = [visit EXCEPT ![r] =
         [@ EXCEPT !.pc = "insert",
                   !.grandparent = IF p.id # 0 /\ p.normal THEN p.parent ELSE None]]
    /\ UNCHANGED <<rules, parentOf, distributor, lastId>>

CreateDistributor(r) ==
  LET v == visit[r] IN
    /\ VisitReturns(r, "insert")
    /\ ~IsDistributor(v.member)
    /\ lastId' = lastId + 1
    /\ distributor' = [distributor EXCEPT ![v.member] =
         [id |-> lastId + 1, parent |-> v.parent, grandparent |-> v.grandparent,
          normal |-> v.normal]]
    /\ UNCHANGED <<rules, parentOf>>

-----------------------------------------------------------------------------
(* BindParent *)

BindParent(r, m, inviter) ==
  /\ inviter # m
  /\ parentOf[m] = None
  /\ VisitStarts(r, [NoVisit EXCEPT !.pc = "check", !.member = m, !.parent = inviter])
  /\ UNCHANGED <<rules, parentOf, distributor, lastId>>

InvitesAnyone(m) == TRUE
Invites(m) == IsDistributor(m) /\ distributor[m].normal

\* Whether the inviter is an active member is left open: VisitFails covers the no.
CheckInviter(r) ==
  /\ VisitGoesOn(r, "check", "bind")
  /\ Invites(visit[r].parent)
  /\ UNCHANGED <<rules, parentOf, distributor, lastId>>

\* By the member's id: a parent bound meanwhile is overwritten.
WriteParent(r) ==
  /\ VisitReturns(r, "bind")
  /\ parentOf' = [parentOf EXCEPT ![visit[r].member] = visit[r].parent]
  /\ UNCHANGED <<rules, distributor, lastId>>

\* Any error return, or a process that dies: nothing is undone.
VisitFails(r) ==
  /\ visit[r].pc # "idle"
  /\ visit' = [visit EXCEPT ![r] = NoVisit]
  /\ UNCHANGED <<rules, parentOf, distributor, lastId>>

-----------------------------------------------------------------------------
(* The admin *)

\* 0 is stored as 1 (defaultCouponStatus): only another value switches it off.
UpdateSettings(enabled, auto) ==
  /\ rules' = IF enabled \notin {0, 1} THEN "off"
               ELSE IF auto THEN "automatic" ELSE "audited"
  /\ UNCHANGED <<parentOf, distributor, lastId, visit>>

AuditDistributor(m, normal) ==
  /\ IsDistributor(m)
  /\ distributor' = [distributor EXCEPT ![m] = [@ EXCEPT !.normal = normal]]
  /\ UNCHANGED <<rules, parentOf, lastId, visit>>

-----------------------------------------------------------------------------
\* With no row of settings it is on, and applications are audited.
DistributionInit ==
  /\ rules = "audited"
  /\ parentOf = [m \in Persons |-> None]
  /\ distributor = [m \in Persons |-> NoDistributor]
  /\ lastId = 0
  /\ visit = [r \in Requests |-> NoVisit]

VisitStep(r) ==
  \/ \E m \in Persons : Apply(r, m)
  \/ ReadMember(r) \/ ReadParent(r) \/ CreateDistributor(r)
  \/ \E m, inviter \in Persons : BindParent(r, m, inviter)
  \/ CheckInviter(r) \/ WriteParent(r)
  \/ VisitFails(r)

AdminStep ==
  \/ \E enabled \in {0, 2}, auto \in BOOLEAN : UpdateSettings(enabled, auto)
  \/ \E m \in Persons, normal \in BOOLEAN : AuditDistributor(m, normal)

DistributionNext == (\E r \in Requests : VisitStep(r)) \/ AdminStep

DistributionSpec == DistributionInit /\ [][DistributionNext]_distributionVars

-----------------------------------------------------------------------------
(* Properties *)

\* The variables keep their types.
DistributionTypeOK ==
  /\ rules \in Rules
  /\ parentOf \in [Persons -> Persons \cup {None}]
  /\ distributor \in [Persons -> DistributorRow]
  /\ lastId \in Nat
  /\ visit \in [Requests -> VisitState]

\* A distributor's parent became a distributor before it, and its grandparent is
\* the parent of its parent (Apply): no one is its own upline at any distance, so
\* that a commission has somewhere to end.  The members' parent_id do not have
\* this property: two distributors can invite each other.
UplineIsOlder ==
  \A m \in Persons : IsDistributor(m) =>
    LET p == distributor[m].parent
        g == distributor[m].grandparent
    IN /\ p # None => IsDistributor(p) /\ distributor[p].id < distributor[m].id
       /\ g # None => p # None /\ distributor[p].parent = g
=============================================================================
