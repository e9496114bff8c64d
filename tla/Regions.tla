------------------------------ MODULE Regions --------------------------------
(***************************************************************************)
(* The provinces, cities and districts that the platform maintains         *)
(* (RegionHandler, RegionRepo).  A region that is created or moved gets    *)
(* the level below its parent's, and levelForParent walks up from the      *)
(* parent, one read per ancestor, so that no region is put below itself.   *)
(* Nothing is a transaction.                                               *)
(*                                                                         *)
(* Names, codes, sorting and enabled are left out.                         *)
(*                                                                         *)
(* ReachesSelfAtOnce and TakesChildrenAtAnyLevel are not part of the       *)
(* specification: each is the definition below it with a plausible defect, *)
(* kept to see that a property can fail.                                   *)
(***************************************************************************)
EXTENDS Calls

CONSTANT Places   \* the ids that regions can get (bound of the model)

ASSUME RegionsAssumption == None \notin Places

VARIABLES
  region,   \* [Places -> RegionRow]
  given,    \* the ids given so far: none is given twice
  survey,   \* [Requests -> SurveyState]
  raced     \* two Updates have been in flight together (history)

regionsVars == <<region, given, survey, raced>>

-----------------------------------------------------------------------------
(* Rows and requests *)

\* level is 0 if there is no row; parent is None for parent_id = 0.
RegionRow == [level : 0..3, parent : Places \cup {None}]

\* "parent" reads the parent, "climb" an ancestor, "save" saves; "delete" deletes.
SurveyState == [pc : {"idle", "parent", "climb", "save", "delete"},
                self : Places \cup {None},     \* None for Create
                row : RegionRow,
                at : Places \cup {None}]       \* the ancestor to read next

NoRegion == [level |-> 0, parent |-> None]
NoSurvey == [pc |-> "idle", self |-> None, row |-> NoRegion, at |-> None]

Exists(p) == region[p].level # 0

SurveyReturns(r, pc) ==
  /\ survey[r].pc = pc
  /\ survey' = [survey EXCEPT ![r] = NoSurvey]

\* Without a parent the level is 1 and nothing else is read.
Surveyed(self, p) ==
  [pc |-> IF p = None THEN "save" ELSE "parent",
   self |-> self,
   row |-> [level |-> 1, parent |-> p],
   at |-> p]

-----------------------------------------------------------------------------
(* Create and Update *)

CreateRegion(r, p) ==
  /\ survey[r].pc = "idle"
  /\ survey' = [survey EXCEPT ![r] = Surveyed(None, p)]
  /\ UNCHANGED <<region, given, raced>>

UpdateRegion(r, self, p) ==
  /\ survey[r].pc = "idle"
  /\ Exists(self)
  /\ p # self
  /\ survey' = [survey EXCEPT ![r] = Surveyed(self, p)]
  /\ raced' = (raced \/ \E q \in Requests \ {r} : survey[q].self # None)
  /\ UNCHANGED <<region, given>>

ReachesSelfAtOnce(s) == s.pc = "parent" /\ region[s.at].parent = s.self
ReachesSelf(s) == region[s.at].parent = s.self

\* One turn of the loop: up to the root, or to an ancestor that is gone.
Climbed(s) ==
  LET up == region[s.at].parent IN
    [s EXCEPT !.pc = IF up = None THEN "save" ELSE "climb", !.at = up]

\* A district has no regions below it.
TakesChildrenAtAnyLevel(p) == Exists(p)
TakesChildren(p) == Exists(p) /\ region[p].level < 3

ReadParentRegion(r) ==
  LET s == survey[r] IN
    /\ s.pc = "parent"
    /\ TakesChildren(s.at)
    /\ s.self # None => ~ReachesSelf(s)
    /\ survey' = [survey EXCEPT ![r] =
         [Climbed(s) EXCEPT !.row.level = region[s.at].level + 1]]
    /\ UNCHANGED <<region, given, raced>>

ReadAncestor(r) ==
  LET s == survey[r] IN
    /\ s.pc = "climb"
    /\ s.self # None => ~ReachesSelf(s)
    /\ survey' = [survey EXCEPT ![r] = Climbed(s)]
    /\ UNCHANGED <<region, given, raced>>

\* gorm's Save of the whole row: a region deleted meanwhile is there again.
SaveRegion(r) ==
  LET s == survey[r] IN
    /\ SurveyReturns(r, "save")
    /\ \E p \in IF s.self = None THEN Places \ given ELSE {s.self} :
         /\ region' = [region EXCEPT ![p] = s.row]
         /\ given' = given \cup {p}
    /\ UNCHANGED raced

-----------------------------------------------------------------------------
(* Delete, and errors *)

CountChildren(r, p) ==
  /\ survey[r].pc = "idle"
  /\ \A q \in Places : Exists(q) => region[q].parent # p
  /\ survey' = [survey EXCEPT ![r] = [NoSurvey EXCEPT !.pc = "delete", !.at = p]]
  /\ UNCHANGED <<region, given, raced>>

DeleteRegion(r) ==
  /\ SurveyReturns(r, "delete")
  /\ region' = [region EXCEPT ![survey[r].at] = NoRegion]
  /\ UNCHANGED <<given, raced>>

SurveyFails(r) ==
  /\ survey[r].pc # "idle"
  /\ survey' = [survey EXCEPT ![r] = NoSurvey]
  /\ UNCHANGED <<region, given, raced>>

-----------------------------------------------------------------------------
RegionsInit ==
  /\ region = [p \in Places |-> NoRegion]
  /\ given = {}
  /\ survey = [r \in Requests |-> NoSurvey]
  /\ raced = FALSE

SurveyStep(r) ==
  \/ \E p \in given \cup {None} : CreateRegion(r, p)
  \/ \E self \in given, p \in given \cup {None} : UpdateRegion(r, self, p)
  \/ ReadParentRegion(r) \/ ReadAncestor(r) \/ SaveRegion(r)
  \/ \E p \in given : CountChildren(r, p)
  \/ DeleteRegion(r)
  \/ SurveyFails(r)

RegionsNext == \E r \in Requests : SurveyStep(r)

RegionsSpec == RegionsInit /\ [][RegionsNext]_regionsVars

-----------------------------------------------------------------------------
(* Properties *)

\* The variables keep their types.
RegionsTypeOK ==
  /\ region \in [Places -> RegionRow]
  /\ given \subseteq Places
  /\ survey \in [Requests -> SurveyState]
  /\ raced \in BOOLEAN

\* Regions none of which is below a root that exists or below one that is gone.
Circle(S) == \A p \in S : Exists(p) /\ region[p].parent \in S

\* No regions are below one another in a circle.
NoCircle == \A S \in SUBSET Places : S # {} => ~Circle(S)

\* Only Updates in flight together can put regions below one another in a circle,
\* where no tree shows them and levelForParent walks round for ever: one Update,
\* with creations and deletions around it, cannot (RegionHandler.levelForParent).
CircleNeedsARace == (\E S \in (SUBSET Places) \ {{}} : Circle(S)) => raced
=============================================================================
