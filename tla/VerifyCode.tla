----------------------------- MODULE VerifyCode ------------------------------
(***************************************************************************)
(* Verification codes: AuthService.SendVerifyCode, sendVerifyCodeSMS and   *)
(* VerifyAndConsumeCode.  What a verified code opens is in Account.        *)
(*                                                                         *)
(* A code and the lock that throttles its sending are two keys of Redis    *)
(* that expire by themselves.  A code is read and deleted by two calls.    *)
(* Two draws of six digits are told apart even if the digits agree.        *)
(*                                                                         *)
(* codeKeyByPhone is not part of the specification: it is codeKey with a   *)
(* plausible defect, kept to see that the property can fail.               *)
(***************************************************************************)
EXTENDS Calls

CONSTANTS
  Phones,
  Codes        \* codes a run may draw

VARIABLES
  code,    \* [Keys -> code or None], the codes in Redis
  sending, \* the keys whose 60 seconds lock is set
  drawn,   \* [Codes -> the key the code was sent for, or None] (history)
  text     \* [Requests -> TextState]

codeVars == <<code, sending, drawn, text>>

-----------------------------------------------------------------------------
(* Keys and requests *)

Purposes == {"apply", "login", "reset_password"}
Keys == Purposes \X Phones

ASSUME CodesAssumption ==
  /\ None \notin Phones \cup Codes
  /\ None \notin Keys

TextState == [pc : {"idle", "store", "sms", "undo", "consume", "verified"},
              key : Keys \cup {None},
              code : Codes \cup {None}]
NoText == [pc |-> "idle", key |-> None, code |-> None]

TextStarts(r, state) ==
  /\ text[r].pc = "idle"
  /\ text' = [text EXCEPT ![r] = state]
TextGoesOn(r, from, to) ==
  /\ text[r].pc = from
  /\ text' = [text EXCEPT ![r] = [@ EXCEPT !.pc = to]]
TextReturns(r, from) ==
  /\ text[r].pc = from
  /\ text' = [text EXCEPT ![r] = NoText]

-----------------------------------------------------------------------------
(* SendVerifyCode *)

\* The key a code is stored and looked up under.
codeKeyByPhone(purpose, phone) == <<"login", phone>>
codeKey(purpose, phone) == <<purpose, phone>>

\* SETNX on the lock decides which of two calls sends.
SendVerifyCode(r, purpose, phone) ==
  LET k == <<purpose, phone>> IN
    /\ k \notin sending
    /\ sending' = sending \cup {k}
    /\ TextStarts(r, [NoText EXCEPT !.pc = "store", !.key = k])
    /\ UNCHANGED <<code, drawn>>

StoreCode(r, c) ==
  LET k == text[r].key IN
    /\ TextGoesOn(r, "store", "sms")
    /\ drawn[c] = None
    /\ drawn' = [drawn EXCEPT ![c] = k]
    /\ code' = [code EXCEPT ![codeKey(k[1], k[2])] = c]
    /\ UNCHANGED sending

\* The gateway has taken it, or a development environment returns the code.
CodeSent(r) == TextReturns(r, "sms") /\ UNCHANGED <<code, sending, drawn>>

\* Settings or template missing, the gateway's error, or the log's INSERT.
CodeNotSent(r) == TextGoesOn(r, "sms", "undo") /\ UNCHANGED <<code, sending, drawn>>

\* DEL of both keys, whatever they hold by now.
UndoCode(r) ==
  LET k == text[r].key IN
    /\ TextReturns(r, "undo")
    /\ code' = [code EXCEPT ![codeKey(k[1], k[2])] = None]
    /\ sending' = sending \ {k}
    /\ UNCHANGED drawn

LockExpires(k) ==
  /\ k \in sending
  /\ sending' = sending \ {k}
  /\ UNCHANGED <<code, drawn, text>>

CodeExpires(k) ==
  /\ code[k] # None
  /\ code' = [code EXCEPT ![k] = None]
  /\ UNCHANGED <<sending, drawn, text>>

-----------------------------------------------------------------------------
(* VerifyAndConsumeCode *)

\* GET and the comparison with what the caller has entered.
VerifyCode(r, purpose, phone, c) ==
  /\ code[codeKey(purpose, phone)] = c
  /\ TextStarts(r, [NoText EXCEPT !.pc = "consume", !.key = <<purpose, phone>>, !.code = c])
  /\ UNCHANGED <<code, sending, drawn>>

\* DEL, of whatever the key holds by now; its error is dropped.
ConsumeCode(r) ==
  LET k == text[r].key IN
    /\ TextGoesOn(r, "consume", "verified")
    /\ code' \in {code, [code EXCEPT ![codeKey(k[1], k[2])] = None]}
    /\ UNCHANGED <<sending, drawn>>

\* The request goes on in Account, or fails; a process may die anywhere.
TextEnds(r) ==
  /\ text[r].pc # "idle"
  /\ text' = [text EXCEPT ![r] = NoText]
  /\ UNCHANGED <<code, sending, drawn>>

-----------------------------------------------------------------------------
CodeInit ==
  /\ code = [k \in Keys |-> None]
  /\ sending = {}
  /\ drawn = [c \in Codes |-> None]
  /\ text = [r \in Requests |-> NoText]

CodeNext ==
  \/ \E r \in Requests :
       \/ \E purpose \in Purposes, phone \in Phones :
            \/ SendVerifyCode(r, purpose, phone)
            \/ \E c \in Codes : VerifyCode(r, purpose, phone, c)
       \/ \E c \in Codes : StoreCode(r, c)
       \/ CodeSent(r) \/ CodeNotSent(r) \/ UndoCode(r)
       \/ ConsumeCode(r)
       \/ TextEnds(r)
  \/ \E k \in Keys : LockExpires(k) \/ CodeExpires(k)

CodeSpec == CodeInit /\ [][CodeNext]_codeVars

-----------------------------------------------------------------------------
(* Properties *)

\* The variables keep their types.
CodeTypeOK ==
  /\ code \in [Keys -> Codes \cup {None}]
  /\ sending \subseteq Keys
  /\ drawn \in [Codes -> Keys \cup {None}]
  /\ text \in [Requests -> TextState]

\* A request goes on with a code only if the code was sent to its phone and for
\* its purpose, whatever other codes are sent, fail and expire meanwhile: a code
\* for the login neither resets a password nor opens an application (codeKey).
CodeServesItsPurpose ==
  \A r \in Requests :
    text[r].code # None => drawn[text[r].code] = text[r].key
=============================================================================
