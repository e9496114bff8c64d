------------------------------- MODULE Reasons -------------------------------
(***************************************************************************)
(* The reasons for after-sales that the platform maintains                 *)
(* (SettingsService, AfterSaleReasonRepo) and their use by applications    *)
(* (AfterSaleService.Apply).  An application keeps the label of a reason   *)
(* and no id; no two rows share a code, but labels may be alike.           *)
(*                                                                         *)
(* Codes, the order of the list and the type that narrows the choice are   *)
(* left out: they refuse a call, which a call may suffer here anyway.      *)
(*                                                                         *)
(* UnusedUncounted is not part of the specification: it is Unused with a   *)
(* plausible defect, kept to see that the property can fail.               *)
(***************************************************************************)
EXTENDS Calls

CONSTANTS
  Reasons,      \* ids of rows
  Labels,
  Applications  \* after-sales that can be opened

ASSUME ReasonsAssumption == None \notin Reasons \cup Labels

VARIABLES
  reason,       \* [Reasons -> ReasonRow]
  application,  \* [Applications -> Labels \cup {None}], after_sale_orders.reason
  chore,        \* [Requests -> ChoreState]
  disturbed     \* calls overlapped, or a label was edited (history)

reasonsVars == <<reason, application, chore, disturbed>>

-----------------------------------------------------------------------------
(* Rows and requests *)

ReasonRow == [state : {"new", "live", "gone"},
              label : Labels \cup {None},
              enabled : BOOLEAN]

\* "insert": an application has found its reason enabled; "count", "delete": a
\* deletion has found its row, has counted no use of it.
ChoreState == [pc : {"idle", "insert", "count", "delete"},
               row : Reasons \cup {None},
               label : Labels \cup {None}]

NoChore == [pc |-> "idle", row |-> None, label |-> None]

Live(i) == reason[i].state = "live"

ChoreStarts(r, pc, i, l) ==
  /\ chore[r].pc = "idle"
  /\ chore' = [chore EXCEPT ![r] = [pc |-> pc, row |-> i, label |-> l]]
  /\ disturbed' = (disturbed \/ \E q \in Requests : chore[q].pc # "idle")

ChoreReturns(r, pc) ==
  /\ chore[r].pc = pc
  /\ chore' = [chore EXCEPT ![r] = NoChore]
  /\ UNCHANGED disturbed

-----------------------------------------------------------------------------
(* Applications, of which nothing but the reason matters here *)

IsReasonEnabled(l) == \E i \in Reasons : Live(i) /\ reason[i].enabled /\ reason[i].label = l

CheckReason(r, l) ==
  /\ IsReasonEnabled(l)
  /\ ChoreStarts(r, "insert", None, l)
  /\ UNCHANGED <<reason, application>>

InsertApplication(r, a) ==
  /\ application[a] = None
  /\ ChoreReturns(r, "insert")
  /\ application' = [application EXCEPT ![a] = chore[r].label]
  /\ UNCHANGED reason

-----------------------------------------------------------------------------
(* The platform *)

\* A reason that is created disabled is stored enabled: gorm leaves the zero value to
\* the column's default.
CreateReason(i, l) ==
  /\ reason[i].state = "new"
  /\ reason' = [reason EXCEPT ![i] = [state |-> "live", label |-> l, enabled |-> TRUE]]
  /\ UNCHANGED <<application, chore, disturbed>>

UpdateReason(i, l, enabled) ==
  /\ Live(i)
  /\ reason' = [reason EXCEPT ![i].label = l, ![i].enabled = enabled]
  /\ disturbed' = (disturbed \/ l # reason[i].label)
  /\ UNCHANGED <<application, chore>>

SetReasonEnabled(i, enabled) ==
  /\ Live(i)
  /\ reason' = [reason EXCEPT ![i].enabled = enabled]
  /\ UNCHANGED <<application, chore, disturbed>>

FindReason(r, i) ==
  /\ Live(i)
  /\ ChoreStarts(r, "count", i, reason[i].label)
  /\ UNCHANGED <<reason, application>>

UnusedUncounted(l) == TRUE
Unused(l) == \A a \in Applications : application[a] # l

\* A reason that is used is refused (ChoreFails).
CountUsage(r) ==
  /\ chore[r].pc = "count"
  /\ Unused(chore[r].label)
  /\ chore' = [chore EXCEPT ![r].pc = "delete"]
  /\ UNCHANGED <<reason, application, disturbed>>

DeleteReason(r) ==
  /\ ChoreReturns(r, "delete")
  /\ reason' = [reason EXCEPT ![chore[r].row] =
                  [state |-> "gone", label |-> None, enabled |-> FALSE]]
  /\ UNCHANGED application

ChoreFails(r) ==
  /\ chore[r].pc # "idle"
  /\ ChoreReturns(r, chore[r].pc)
  /\ UNCHANGED <<reason, application>>

-----------------------------------------------------------------------------
ReasonsInit ==
  /\ reason = [i \in Reasons |-> [state |-> "new", label |-> None, enabled |-> FALSE]]
  /\ application = [a \in Applications |-> None]
  /\ chore = [r \in Requests |-> NoChore]
  /\ disturbed = FALSE

ChoreStep(r) ==
  \/ \E l \in Labels : CheckReason(r, l)
  \/ \E a \in Applications : InsertApplication(r, a)
  \/ \E i \in Reasons : FindReason(r, i)
  \/ CountUsage(r) \/ DeleteReason(r) \/ ChoreFails(r)

ReasonsNext ==
  \/ \E r \in Requests : ChoreStep(r)
  \/ \E i \in Reasons, l \in Labels : CreateReason(i, l)
  \/ \E i \in Reasons, l \in Labels, enabled \in BOOLEAN : UpdateReason(i, l, enabled)
  \/ \E i \in Reasons, enabled \in BOOLEAN : SetReasonEnabled(i, enabled)

ReasonsSpec == ReasonsInit /\ [][ReasonsNext]_reasonsVars

-----------------------------------------------------------------------------
(* Properties *)

\* The variables keep their types.
ReasonsTypeOK ==
  /\ reason \in [Reasons -> ReasonRow]
  /\ application \in [Applications -> Labels \cup {None}]
  /\ chore \in [Requests -> ChoreState]
  /\ disturbed \in BOOLEAN

\* A reason in use is disabled rather than deleted, says the refusal of
\* SettingsService.DeleteAfterSaleReason: while calls do not overlap and no label is
\* edited, every after-sale finds a row with its reason.
UsedReasonHasRow ==
  disturbed
  \/ \A a \in Applications : application[a] # None =>
       \E i \in Reasons : Live(i) /\ reason[i].label = application[a]
=============================================================================
