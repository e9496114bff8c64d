------------------------------ MODULE Carriers -------------------------------
(***************************************************************************)
(* The carriers the platform maintains for all tenants, and how a tracking *)
(* number is matched to one of them (SettingsService,                      *)
(* ShippingCarrierRepo).  Every edit is one statement; a match changes     *)
(* nothing and is decided by the rows it read, so it is an operator.       *)
(*                                                                         *)
(* A code stands for itself and for the aliases carrierAliases lists for   *)
(* it: the aliases of two codes share nothing, and the name of a carrier   *)
(* contains those of one code at most.  A tracking number is the code that *)
(* its prefix stands for, or None; an empty code or name is None.          *)
(***************************************************************************)
EXTENDS Calls, Sequences

CONSTANTS
  Carriers,     \* ids of rows, in the order they are given out
  CarrierCodes, \* codes and names a carrier can have, Kuaidi100 can answer
  Known,        \* the codes with an entry in carrierAliases
  Priorities

ASSUME CarriersAssumption ==
  /\ Carriers \subseteq Nat
  /\ Known \subseteq CarrierCodes
  /\ Priorities \subseteq Int
  /\ None \notin Carriers \cup CarrierCodes

VARIABLE carrier   \* [Carriers -> CarrierRow]

-----------------------------------------------------------------------------
(* Rows *)

CarrierRow == [exists : BOOLEAN,
               code : CarrierCodes \cup {None},
               name : CarrierCodes \cup {None},
               kuaidi100 : BOOLEAN,   \* the provider is kuaidi100 and there is a key
               priority : Priorities \cup {0},
               enabled : BOOLEAN]

NoCarrier == [exists |-> FALSE, code |-> None, name |-> None, kuaidi100 |-> FALSE,
              priority |-> 0, enabled |-> FALSE]

\* What a form can send.
CarrierForms == {row \in CarrierRow : row.exists}

EnabledCarriers == {c \in Carriers : carrier[c].exists /\ carrier[c].enabled}

-----------------------------------------------------------------------------
(* Matching *)

\* ORDER BY priority DESC, id ASC.
Before(c, d) ==
  \/ carrier[c].priority > carrier[d].priority
  \/ carrier[c].priority = carrier[d].priority /\ c <= d

FirstOf(S) ==
  IF S = {} THEN None ELSE CHOOSE c \in S : \A d \in S : Before(c, d)

Aliases(code) == {code} \cap Known

\* The aliases of the code are keys of every row.
KeysOf(c, code) == {carrier[c].code, carrier[c].name} \cup Aliases(code)

CarrierMatchesCode(c, code) == KeysOf(c, code) \cap ({code} \cup Aliases(code)) # {}

Matching(code) == {c \in EnabledCarriers : CarrierMatchesCode(c, code)}

MatchedBy(codes) ==
  LET hits == {i \in DOMAIN codes : Matching(codes[i]) # {}}
  IN IF hits = {}
       THEN None
       ELSE FirstOf(Matching(codes[CHOOSE i \in hits : \A j \in hits : i <= j]))

AsksKuaidi100 == \E c \in EnabledCarriers : carrier[c].kuaidi100

\* answered: the codes Kuaidi100 answers with, none if the call fails.
MatchCarrierByTrackingNo(number, answered) ==
  LET asked == IF AsksKuaidi100 THEN MatchedBy(answered) ELSE None
  IN IF asked # None THEN asked
     ELSE IF number = None THEN None
     ELSE FirstOf(Matching(number))

-----------------------------------------------------------------------------
(* The platform's edits *)

\* The repository enables every carrier it creates.
CreateCarrier(c, row) ==
  /\ ~carrier[c].exists
  /\ row.code # None /\ row.name # None
  /\ carrier' = [carrier EXCEPT ![c] = [row EXCEPT !.enabled = TRUE]]

\* The form may empty the code and the name, leave the key as it is and leave the
\* flag as it is.
UpdateCarrier(c, row) ==
  /\ carrier[c].exists
  /\ carrier' = [carrier EXCEPT ![c] = row]

SetCarrierEnabled(c, enabled) ==
  /\ carrier[c].exists
  /\ carrier' = [carrier EXCEPT ![c].enabled = enabled]

DeleteCarrier(c) ==
  /\ carrier[c].exists
  /\ carrier' = [carrier EXCEPT ![c] = NoCarrier]

-----------------------------------------------------------------------------
CarriersInit == carrier = [c \in Carriers |-> NoCarrier]

CarriersNext ==
  \E c \in Carriers :
    \/ \E row \in CarrierForms : CreateCarrier(c, row) \/ UpdateCarrier(c, row)
    \/ \E enabled \in BOOLEAN : SetCarrierEnabled(c, enabled)
    \/ DeleteCarrier(c)

CarriersSpec == CarriersInit /\ [][CarriersNext]_carrier

-----------------------------------------------------------------------------
(* Properties *)

\* The variable keeps its type.
CarriersTypeOK == carrier \in [Carriers -> CarrierRow]
=============================================================================
