------------------------------ MODULE Settings -------------------------------
(***************************************************************************)
(* What one tenant configures and the platform vets: the row of its site   *)
(* with its own domain (SiteConfigHandler, PlatformDomainHandler,          *)
(* PlatformDeploymentHandler, PlatformStorefrontHandler), and the account  *)
(* it is paid out to (SettingsService, PaymentConfigRepo).                 *)
(*                                                                         *)
(* Every form of the tenant reads the whole row of the site, changes its   *)
(* own part and saves the whole row; the platform updates columns.         *)
(* Brand, storefront and deployment, whose values nothing depends on, are  *)
(* left out, but not the forms that save them.                             *)
(*                                                                         *)
(* NewDomainKept is not part of the specification: it is NewDomain with a  *)
(* plausible defect, kept to see that the property can fail.               *)
(***************************************************************************)
EXTENDS Calls

CONSTANTS
  Domains,
  Accounts   \* settlement accounts a tenant may submit

ASSUME SettingsAssumption == None \notin Domains \cup Accounts

VARIABLES
  site,      \* the tenant's SiteRow
  edit,      \* [Requests -> EditState]
  vetted,    \* the domains that the platform verified in the row (history)
  payout,    \* the tenant's PayoutRow of one provider
  approved   \* the accounts that the platform approved in the row (history)

settingsVars == <<site, edit, vetted, payout, approved>>

-----------------------------------------------------------------------------
(* Rows and requests *)

SiteRow == [exists : BOOLEAN,
            domain : Domains \cup {None},
            verified : BOOLEAN,
            ssl : {"none", "pending", "active"}]

PayoutRow == [exists : BOOLEAN,
              account : Accounts \cup {None},
              status : {"pending", "approved", "rejected"},
              enabled : BOOLEAN]

\* "save": a form of the tenant has made the row it will save; "insert": the
\* platform has found no row.
EditState == [pc : {"idle", "save", "insert"}, row : SiteRow]

NoSite == [exists |-> FALSE, domain |-> None, verified |-> FALSE, ssl |-> "none"]
NoPayout == [exists |-> FALSE, account |-> None, status |-> "pending",
             enabled |-> FALSE]
NoEdit == [pc |-> "idle", row |-> NoSite]

\* What Get and normalizeSiteConfig give a form: the row, or the defaults.
siteConfig == [site EXCEPT !.exists = TRUE]

EditStarts(r, pc, row) ==
  /\ edit[r].pc = "idle"
  /\ edit' = [edit EXCEPT ![r] = [pc |-> pc, row |-> row]]
EditReturns(r, pc) ==
  /\ edit[r].pc = pc
  /\ edit' = [edit EXCEPT ![r] = NoEdit]

-----------------------------------------------------------------------------
(* The forms of the tenant *)

NewDomainKept(row, d) == [row EXCEPT !.domain = d]
NewDomain(row, d) ==
  IF row.domain = d
    THEN row
    ELSE [row EXCEPT !.domain = d, !.verified = FALSE, !.ssl = "pending"]

UpdateDomain(r, d) ==
  /\ EditStarts(r, "save", NewDomain(siteConfig, d))
  /\ UNCHANGED <<site, vetted, payout, approved>>

\* UpdateBrand, UpdateStorefront and UpdateDeployment.
UpdateOther(r) ==
  /\ EditStarts(r, "save", siteConfig)
  /\ UNCHANGED <<site, vetted, payout, approved>>

\* Upsert is gorm's Save: every column, inserted if there is no row.
SaveSite(r) ==
  /\ EditReturns(r, "save")
  /\ site' = edit[r].row
  /\ UNCHANGED <<vetted, payout, approved>>

EditFails(r) ==
  /\ edit[r].pc # "idle"
  /\ edit' = [edit EXCEPT ![r] = NoEdit]
  /\ UNCHANGED <<site, vetted, payout, approved>>

-----------------------------------------------------------------------------
(* The platform, on the site *)

\* Whatever domain the row holds when the statement runs.
Verify ==
  /\ site.exists
  /\ site' = [site EXCEPT !.verified = TRUE, !.ssl = "active"]
  /\ vetted' = vetted \cup {site.domain}
  /\ UNCHANGED <<edit, payout, approved>>

Reject ==
  /\ site.exists
  /\ site' = [site EXCEPT !.domain = None, !.verified = FALSE, !.ssl = "none"]
  /\ UNCHANGED <<edit, vetted, payout, approved>>

\* Deployments and quick entries: a row that exists is updated in other columns.
FindNoSite(r) ==
  /\ ~site.exists
  /\ EditStarts(r, "insert", siteConfig)
  /\ UNCHANGED <<site, vetted, payout, approved>>

InsertSite(r) ==
  /\ EditReturns(r, "insert")
  /\ ~site.exists
  /\ site' = edit[r].row
  /\ UNCHANGED <<vetted, payout, approved>>

-----------------------------------------------------------------------------
(* The account: one statement each *)

Submitted(row, a) ==
  [exists |-> TRUE, account |-> a, status |-> "pending", enabled |-> FALSE]

SubmitPaymentConfig(a) ==
  /\ payout' = Submitted(payout, a)
  /\ UNCHANGED <<site, edit, vetted, approved>>

\* By the id of the row, whatever account it holds by now; a rejection leaves
\* enabled alone.
AuditPayment(approve) ==
  /\ payout.exists
  /\ payout' = IF approve
                 THEN [payout EXCEPT !.status = "approved", !.enabled = TRUE]
                 ELSE [payout EXCEPT !.status = "rejected"]
  /\ approved' = IF approve THEN approved \cup {payout.account} ELSE approved
  /\ UNCHANGED <<site, edit, vetted>>

-----------------------------------------------------------------------------
SettingsInit ==
  /\ site = NoSite
  /\ edit = [r \in Requests |-> NoEdit]
  /\ vetted = {}
  /\ payout = NoPayout
  /\ approved = {}

EditStep(r) ==
  \/ \E d \in Domains \cup {None} : UpdateDomain(r, d)
  \/ UpdateOther(r) \/ SaveSite(r)
  \/ FindNoSite(r) \/ InsertSite(r)
  \/ EditFails(r)

PayoutStep ==
  \/ \E a \in Accounts : SubmitPaymentConfig(a)
  \/ \E approve \in BOOLEAN : AuditPayment(approve)

SettingsNext ==
  \/ \E r \in Requests : EditStep(r)
  \/ Verify \/ Reject
  \/ PayoutStep

SettingsSpec == SettingsInit /\ [][SettingsNext]_settingsVars

-----------------------------------------------------------------------------
(* Properties *)

\* The variables keep their types.
SettingsTypeOK ==
  /\ site \in SiteRow
  /\ edit \in [Requests -> EditState]
  /\ vetted \subseteq Domains \cup {None}
  /\ payout \in PayoutRow
  /\ approved \subseteq Accounts

\* A domain that tenant/resolve answers for was in the row when the platform
\* verified it, whatever forms saved their older copy of the row in between, and
\* its certificate is active exactly then (SiteConfigHandler.UpdateDomain).
VerifiedWasVetted ==
  /\ site.verified => site.domain \in vetted
  /\ site.verified <=> site.ssl = "active"

\* An enabled account was in the row when the platform approved it
\* (PaymentConfigRepo.Upsert).
EnabledWasApproved == payout.enabled => payout.account \in approved
=============================================================================
