----------------------------- MODULE Membership ------------------------------
(***************************************************************************)
(* The members of one tenant and their levels: the logins that create a    *)
(* member (AuthService), the binding of a phone, and the admin's changes   *)
(* of a member's status and level and of the levels themselves.            *)
(*                                                                         *)
(* Nothing here is a transaction; what keeps two rows apart is the unique  *)
(* indexes of members, what keeps a level in use is the foreign key.  A    *)
(* login of a known member, which only refreshes its profile, the profile  *)
(* and the addresses are left out.                                         *)
(*                                                                         *)
(* Operators named ...Anyway are not part of the specification: each is    *)
(* the definition below it with a plausible defect, kept to see that a     *)
(* property can fail.                                                      *)
(***************************************************************************)
EXTENDS Calls

CONSTANTS
  OpenIds,     \* identities at WeChat
  Numbers,     \* phone numbers
  MaxRows,     \* rows of members a run may insert
  Levels       \* ids of member_levels

ASSUME IdentityAssumption ==
  /\ MaxRows \in Nat
  /\ None \notin OpenIds \cup Numbers \cup Levels

VARIABLES
  people,  \* [RowIds -> PersonRow], the table members
  level,   \* [Levels -> {"none", "present", "deleted"}]
  login    \* [Requests -> LoginState]

membershipVars == <<people, level, login>>

-----------------------------------------------------------------------------
(* Rows and requests *)

RowIds == 1..MaxRows

\* A member of the development login has an openid drawn at random, here None.
PersonRow == [present : BOOLEAN,
              openid : OpenIds \cup {None},
              phone : Numbers \cup {None},
              active : BOOLEAN,
              level : Levels \cup {None}]

LoginState ==
  [pc : {"idle", "create", "level", "save"},
   openid : OpenIds \cup {None},
   phone : Numbers \cup {None},
   member : RowIds \cup {None},
   level : Levels \cup {None}]

NoPerson == [present |-> FALSE, openid |-> None, phone |-> None,
             active |-> FALSE, level |-> None]
NoLogin == [pc |-> "idle", openid |-> None, phone |-> None, member |-> None,
            level |-> None]

LoginStarts(r, state) ==
  /\ login[r].pc = "idle"
  /\ login' = [login EXCEPT ![r] = state]
LoginReturns(r, from) ==
  /\ login[r].pc = from
  /\ login' = [login EXCEPT ![r] = NoLogin]

HasOpenId(o) == \E i \in RowIds : people[i].present /\ people[i].openid = o
HasNumber(n) == \E i \in RowIds : people[i].present /\ people[i].phone = n

-----------------------------------------------------------------------------
(* Logins *)

MemberLoginByWechat(r, o) ==
  /\ ~HasOpenId(o)
  /\ LoginStarts(r, [NoLogin EXCEPT !.pc = "create", !.openid = o])
  /\ UNCHANGED <<people, level>>

MemberDevLogin(r, n) ==
  /\ ~HasNumber(n)
  /\ LoginStarts(r, [NoLogin EXCEPT !.pc = "create", !.phone = n])
  /\ UNCHANGED <<people, level>>

\* UNIQUE (tenant_id, openid) and UNIQUE (tenant_id, phone) where there is one.
UniqueAnyway(o, n) == TRUE
Unique(o, n) ==
  /\ o # None => ~HasOpenId(o)
  /\ n # None => ~HasNumber(n)

CreateMember(r) ==
  \E i \in RowIds :
    /\ LoginReturns(r, "create")
    /\ Unique(login[r].openid, login[r].phone)
    /\ ~people[i].present
    /\ \A j \in RowIds : ~people[j].present => i <= j
    /\ people' = [people EXCEPT ![i] =
         [present |-> TRUE, openid |-> login[r].openid, phone |-> login[r].phone,
          active |-> TRUE, level |-> None]]
    /\ UNCHANGED level

\* One UPDATE whose error is dropped: a phone that is taken is not bound, but the
\* caller is told it is.
BindPhoneByWechat(i, n) ==
  /\ people[i].present
  /\ people' = IF people[i].phone # n /\ HasNumber(n) THEN people
               ELSE [people EXCEPT ![i] = [@ EXCEPT !.phone = n]]
  /\ UNCHANGED <<level, login>>

-----------------------------------------------------------------------------
(* The admin *)

\* A member is never deleted, so what FindByID has seen stays.
UpdateMemberStatus(i, on) ==
  /\ people[i].present
  /\ people' = [people EXCEPT ![i] = [@ EXCEPT !.active = on]]
  /\ UNCHANGED <<level, login>>

UpdateMemberLevel(r, i, l) ==
  /\ people[i].present
  /\ level[l] = "present"
  /\ LoginStarts(r, [NoLogin EXCEPT !.pc = "level", !.member = i, !.level = l])
  /\ UNCHANGED <<people, level>>

\* The foreign key of level_id.
RefersAnyway(l) == TRUE
Refers(l) == level[l] = "present"

WriteMemberLevel(r) ==
  LET i == login[r].member IN
    /\ LoginReturns(r, "level")
    /\ Refers(login[r].level)
    /\ people' = [people EXCEPT ![i] = [@ EXCEPT !.level = login[r].level]]
    /\ UNCHANGED level

ClearMemberLevel(i) ==
  /\ people[i].present
  /\ people' = [people EXCEPT ![i] = [@ EXCEPT !.level = None]]
  /\ UNCHANGED <<level, login>>

CreateLevel(l) ==
  /\ level[l] = "none"
  /\ level' = [level EXCEPT ![l] = "present"]
  /\ UNCHANGED <<people, login>>

UpdateLevel(r, l) ==
  /\ level[l] = "present"
  /\ LoginStarts(r, [NoLogin EXCEPT !.pc = "save", !.level = l])
  /\ UNCHANGED <<people, level>>

\* Save of the row as it was read: an UPDATE, and an INSERT if it matches no row,
\* so that a level deleted meanwhile is back.
SaveLevel(r) ==
  /\ LoginReturns(r, "save")
  /\ level' = [level EXCEPT ![login[r].level] = "present"]
  /\ UNCHANGED people

\* The foreign key refuses the DELETE of a level some member has.
DeleteLevel(l) ==
  /\ level[l] = "present"
  /\ \A i \in RowIds : people[i].level # l
  /\ level' = [level EXCEPT ![l] = "deleted"]
  /\ UNCHANGED <<people, login>>

\* Any error return, or a process that dies.
LoginFails(r) ==
  /\ login[r].pc # "idle"
  /\ login' = [login EXCEPT ![r] = NoLogin]
  /\ UNCHANGED <<people, level>>

-----------------------------------------------------------------------------
MembershipInit ==
  /\ people = [i \in RowIds |-> NoPerson]
  /\ level = [l \in Levels |-> "none"]
  /\ login = [r \in Requests |-> NoLogin]

LoginStep(r) ==
  \/ \E o \in OpenIds : MemberLoginByWechat(r, o)
  \/ \E n \in Numbers : MemberDevLogin(r, n)
  \/ CreateMember(r)
  \/ LoginFails(r)

LevelStep(r) ==
  \/ \E i \in RowIds, l \in Levels : UpdateMemberLevel(r, i, l)
  \/ WriteMemberLevel(r)
  \/ \E l \in Levels : UpdateLevel(r, l)
  \/ SaveLevel(r)

MembershipNext ==
  \/ \E r \in Requests : LoginStep(r) \/ LevelStep(r)
  \/ \E i \in RowIds, n \in Numbers : BindPhoneByWechat(i, n)
  \/ \E i \in RowIds, on \in BOOLEAN : UpdateMemberStatus(i, on)
  \/ \E i \in RowIds : ClearMemberLevel(i)
  \/ \E l \in Levels : CreateLevel(l) \/ DeleteLevel(l)

MembershipSpec == MembershipInit /\ [][MembershipNext]_membershipVars

-----------------------------------------------------------------------------
(* Properties *)

\* The variables keep their types.
MembershipTypeOK ==
  /\ people \in [RowIds -> PersonRow]
  /\ level \in [Levels -> {"none", "present", "deleted"}]
  /\ login \in [Requests -> LoginState]

\* However the first logins of one person race with each other and with phones
\* that are bound, one person is one member: no openid and no phone is in two
\* rows (memberLoginByWechatSession, MemberDevLogin, BindPhoneByWechat).
OneMemberPerIdentity ==
  \A i, j \in RowIds :
    people[i].present /\ people[j].present /\ i # j =>
      /\ people[i].openid # None => people[i].openid # people[j].openid
      /\ people[i].phone # None => people[i].phone # people[j].phone

\* The level looked up in one statement is still there when it is written in
\* another (UpdateMemberLevel), and none in use is deleted.
LevelOfMemberExists ==
  \A i \in RowIds : people[i].level # None => level[people[i].level] = "present"
=============================================================================
