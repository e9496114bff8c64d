-------------------------- MODULE BackOfficeProofs ---------------------------
(***************************************************************************)
(* Proofs about the other modules that are checked one at a time, for any  *)
(* numbers of rows and requests: VerifyCode, Account, Membership,          *)
(* Settings, Carriers, Reasons and Regions.  Each part stands on its own.  *)
(*                                                                         *)
(* VerifyCode: a code opens nothing but what it was sent for.  A code that *)
(* is stored was sent for the key it is stored under, and what a request   *)
(* has verified was stored under its key; a code is drawn once.            *)
(*                                                                         *)
(* Account: the one administrator of a tenant is the one whose application *)
(* inserted the tenant.  A request between its two INSERTs is the only one *)
(* at its tenant, which has no administrator yet, because the code of a    *)
(* tenant is unique; what was looked up before does not matter.            *)
(*                                                                         *)
(* Membership: no two members share an openid or a phone, and no member    *)
(* has a level that is gone.  The unique indexes and the foreign key are   *)
(* enough; nothing has to be known of what requests have read.             *)
(*                                                                         *)
(* Settings, Carriers and Reasons: a verified domain was vetted, an        *)
(* enabled account was approved, and a reason in use keeps its row; of     *)
(* Carriers, whose edits are single statements, only the types.  That a    *)
(* domain was vetted needs to be known of every row a form is about to     *)
(* save as well: such a row can be older than the one it replaces, but the *)
(* platform has vetted its domain then or before.  That a reason keeps its *)
(* row needs to be known of a call between its check and its write, and    *)
(* that it is the only one.                                                *)
(*                                                                         *)
(* Regions: Updates that come one after the other put no region below      *)
(* itself.  The regions that the one in flight has walked up are closed    *)
(* under parents and do without its own, whatever is created and deleted   *)
(* meanwhile, so that no circle goes through the parent it writes.         *)
(*                                                                         *)
(* At the end, the run that explores these modules and those of            *)
(* StorefrontProofs one at a time: what it explores are behaviours of each *)
(* of them, so that what is proved of each holds in it.                    *)
(***************************************************************************)
EXTENDS MCBackOffice, StorefrontProofs, TLAPS

USE CallsAssumption, CodesAssumption, AccountAssumption, IdentityAssumption,
    SettingsAssumption, RegionsAssumption

-----------------------------------------------------------------------------
(***************************************************************************)
(* VerifyCode                                                              *)
(***************************************************************************)

\* What the stage of a request says of its key and its code.
KeyOfText(t) ==
  /\ t.pc # "idle" => t.key \in Keys
  /\ t.code # None => t.pc # "idle" /\ drawn[t.code] = t.key

StoredWhereSent == \A k \in Keys : code[k] # None => drawn[code[k]] = k

CodeInv ==
  /\ CodeTypeOK
  /\ StoredWhereSent
  /\ \A r \in Requests : KeyOfText(text[r])

LEMMA CodeKeyIsKey ==
  ASSUME NEW k \in Keys
  PROVE  codeKey(k[1], k[2]) = k
  BY DEF codeKey, Keys

LEMMA NoTextType == NoText \in TextState /\ NoText.pc = "idle" /\ NoText.code = None
  BY DEF NoText, TextState

\* A request moves on, and deletes a code at most: no code is drawn.
LEMMA TextMoves ==
  ASSUME CodeInv, NEW r \in Requests, NEW t \in TextState, KeyOfText(t),
         text' = [text EXCEPT ![r] = t], drawn' = drawn,
         sending' \subseteq Keys,
         NEW k \in Keys,
         code' = code \/ code' = [code EXCEPT ![k] = None]
  PROVE  CodeInv'
<1>1. code' \in [Keys -> Codes \cup {None}]
  BY DEF CodeInv, CodeTypeOK
<1>2. text' \in [Requests -> TextState]
  BY DEF CodeInv, CodeTypeOK
<1>3. CodeTypeOK'
  BY <1>1, <1>2 DEF CodeInv, CodeTypeOK
<1>4. StoredWhereSent'
  BY DEF CodeInv, CodeTypeOK, StoredWhereSent
<1>5. \A q \in Requests : text'[q] = t \/ text'[q] = text[q]
  BY DEF CodeInv, CodeTypeOK
<1>6. \A q \in Requests : KeyOfText(text[q])'
  BY <1>5 DEF CodeInv, KeyOfText
<1>7. QED
  BY <1>3, <1>4, <1>6 DEF CodeInv

LEMMA SendStep ==
  ASSUME CodeInv, NEW r \in Requests, NEW purpose \in Purposes, NEW phone \in Phones,
         SendVerifyCode(r, purpose, phone)
  PROVE  CodeInv'
<1> DEFINE t == [NoText EXCEPT !.pc = "store", !.key = <<purpose, phone>>]
<1>1. <<purpose, phone>> \in Keys
  BY DEF Keys
<1>2. t \in TextState /\ t.key = <<purpose, phone>> /\ t.code = None
  BY <1>1 DEF NoText, TextState
<1>3. KeyOfText(t)
  BY <1>1, <1>2 DEF KeyOfText
<1>4. /\ text' = [text EXCEPT ![r] = t]
      /\ drawn' = drawn /\ code' = code
      /\ sending' \subseteq Keys
  BY <1>1 DEF SendVerifyCode, TextStarts, CodeInv, CodeTypeOK
<1> HIDE DEF t
<1>5. QED
  BY <1>1, <1>2, <1>3, <1>4, TextMoves

LEMMA VerifyStep ==
  ASSUME CodeInv, NEW r \in Requests, NEW purpose \in Purposes, NEW phone \in Phones,
         NEW c \in Codes, VerifyCode(r, purpose, phone, c)
  PROVE  CodeInv'
<1> DEFINE k == <<purpose, phone>>
           t == [NoText EXCEPT !.pc = "consume", !.key = k, !.code = c]
<1>1. k \in Keys /\ code[k] = c
  BY DEF Keys, VerifyCode, codeKey
<1>2. drawn[c] = k
  BY <1>1 DEF CodeInv, StoredWhereSent
<1>3. t \in TextState /\ t.key = k /\ t.code = c /\ t.pc = "consume"
  BY <1>1 DEF NoText, TextState
<1>4. KeyOfText(t)
  BY <1>1, <1>2, <1>3 DEF KeyOfText
<1>5. /\ text' = [text EXCEPT ![r] = t]
      /\ drawn' = drawn /\ code' = code
      /\ sending' \subseteq Keys
  BY DEF VerifyCode, TextStarts, CodeInv, CodeTypeOK
<1> HIDE DEF t, k
<1>6. QED
  BY <1>1, <1>3, <1>4, <1>5, TextMoves

\* A step to the next stage keeps the key and the code of a request.
LEMMA GoesOnKnows ==
  ASSUME CodeInv, NEW r \in Requests, text[r].pc # "idle",
         NEW to \in {"sms", "undo", "verified"}
  PROVE  /\ [text[r] EXCEPT !.pc = to] \in TextState
         /\ KeyOfText([text[r] EXCEPT !.pc = to])
         /\ text[r].key \in Keys
<1>1. text[r] \in TextState /\ KeyOfText(text[r])
  BY DEF CodeInv, CodeTypeOK
<1>2. QED
  BY <1>1 DEF TextState, KeyOfText

\* A code is drawn once, so no request and no other key has it.
LEMMA StoreStep ==
  ASSUME CodeInv, NEW r \in Requests, NEW c \in Codes, StoreCode(r, c)
  PROVE  CodeInv'
<1>1. PICK k \in Keys : k = text[r].key
  BY GoesOnKnows DEF StoreCode, TextGoesOn
<1>2. PICK t : /\ t = [text[r] EXCEPT !.pc = "sms"]
               /\ text' = [text EXCEPT ![r] = t]
  BY DEF StoreCode, TextGoesOn
<1>3. t \in TextState /\ KeyOfText(t)
  BY <1>2, GoesOnKnows DEF StoreCode, TextGoesOn
<1>4. /\ drawn[c] = None
      /\ drawn' = [drawn EXCEPT ![c] = k]
      /\ code' = [code EXCEPT ![k] = c]
      /\ sending' = sending
  BY <1>1, CodeKeyIsKey DEF StoreCode
<1>5. CodeTypeOK'
  BY <1>2, <1>3, <1>4 DEF CodeInv, CodeTypeOK
<1>6. StoredWhereSent'
  BY <1>4 DEF CodeInv, CodeTypeOK, StoredWhereSent
<1>7. ASSUME NEW u \in TextState, KeyOfText(u)
      PROVE  KeyOfText(u)'
  <2>1. u.code # None => u.code # c /\ u.code \in Codes
    BY <1>4, <1>7 DEF KeyOfText, TextState
  <2>2. u.code # None => drawn'[u.code] = drawn[u.code]
    BY <1>4, <2>1 DEF CodeInv, CodeTypeOK
  <2>3. QED
    BY <1>7, <2>2 DEF KeyOfText
<1>8. \A q \in Requests :
        (text'[q] = t \/ text'[q] = text[q]) /\ text[q] \in TextState /\ KeyOfText(text[q])
  BY <1>2 DEF CodeInv, CodeTypeOK
<1>9. \A q \in Requests : KeyOfText(text[q])'
  <2>1. SUFFICES ASSUME NEW q \in Requests PROVE KeyOfText(text[q])'
    OBVIOUS
  <2>2. PICK u \in TextState : u = text'[q] /\ KeyOfText(u)
    BY <1>3, <1>8
  <2>3. KeyOfText(u)'
    BY <1>7, <2>2
  <2>4. QED
    BY <2>2, <2>3 DEF KeyOfText
<1>10. QED
  BY <1>5, <1>6, <1>9 DEF CodeInv

LEMMA RequestReturns ==
  ASSUME CodeInv, NEW r \in Requests,
         CodeSent(r) \/ UndoCode(r) \/ TextEnds(r)
  PROVE  CodeInv'
<1>1. KeyOfText(NoText)
  BY NoTextType DEF KeyOfText
<1>2. CASE CodeSent(r) \/ TextEnds(r)
  <2>1. /\ text' = [text EXCEPT ![r] = NoText]
        /\ drawn' = drawn /\ code' = code
        /\ sending' \subseteq Keys
        /\ text[r].key \in Keys
    BY <1>2 DEF CodeSent, TextEnds, TextReturns, CodeInv, CodeTypeOK, KeyOfText
  <2>2. QED
    BY <1>1, <2>1, NoTextType, TextMoves
<1>3. CASE UndoCode(r)
  <2>1. PICK k \in Keys : k = text[r].key
    BY <1>3, GoesOnKnows DEF UndoCode, TextReturns
  <2>2. /\ text' = [text EXCEPT ![r] = NoText]
        /\ drawn' = drawn
        /\ code' = [code EXCEPT ![k] = None]
        /\ sending' \subseteq Keys
    BY <1>3, <2>1, CodeKeyIsKey DEF UndoCode, TextReturns, CodeInv, CodeTypeOK
  <2>3. QED
    BY <1>1, <2>2, NoTextType, TextMoves
<1>4. QED
  BY <1>2, <1>3

LEMMA RequestGoesOn ==
  ASSUME CodeInv, NEW r \in Requests, CodeNotSent(r) \/ ConsumeCode(r)
  PROVE  CodeInv'
<1>1. CASE CodeNotSent(r)
  <2>1. /\ text' = [text EXCEPT ![r] = [text[r] EXCEPT !.pc = "undo"]]
        /\ drawn' = drawn /\ code' = code
        /\ sending' \subseteq Keys
        /\ text[r].pc # "idle"
    BY <1>1 DEF CodeNotSent, TextGoesOn, CodeInv, CodeTypeOK
  <2>2. QED
    BY <2>1, GoesOnKnows, TextMoves
<1>2. CASE ConsumeCode(r)
  <2>1. text[r].pc # "idle"
    BY <1>2 DEF ConsumeCode, TextGoesOn
  <2>2. PICK k \in Keys : k = text[r].key
    BY <2>1, GoesOnKnows
  <2>3. /\ text' = [text EXCEPT ![r] = [text[r] EXCEPT !.pc = "verified"]]
        /\ drawn' = drawn
        /\ code' = code \/ code' = [code EXCEPT ![k] = None]
        /\ sending' \subseteq Keys
    BY <1>2, <2>2, CodeKeyIsKey DEF ConsumeCode, TextGoesOn, CodeInv, CodeTypeOK
  <2>4. PICK t \in TextState : t = [text[r] EXCEPT !.pc = "verified"] /\ KeyOfText(t)
    BY <2>1, GoesOnKnows
  <2>5. QED
    BY <2>3, <2>4, TextMoves
<1>3. QED
  BY <1>1, <1>2

LEMMA ExpiryStep ==
  ASSUME CodeInv, NEW k \in Keys, LockExpires(k) \/ CodeExpires(k)
  PROVE  CodeInv'
<1>1. UNCHANGED <<drawn, text>> /\ sending' \subseteq Keys
  BY DEF LockExpires, CodeExpires, CodeInv, CodeTypeOK
<1>2. code' = code \/ code' = [code EXCEPT ![k] = None]
  BY DEF LockExpires, CodeExpires
<1>3. CodeTypeOK'
  BY <1>1, <1>2 DEF CodeInv, CodeTypeOK
<1>4. StoredWhereSent'
  BY <1>1, <1>2 DEF CodeInv, CodeTypeOK, StoredWhereSent
<1>5. QED
  BY <1>1, <1>3, <1>4 DEF CodeInv, KeyOfText

LEMMA CodeInvHolds == CodeSpec => []CodeInv
<1>1. CodeInit => CodeInv
  <2>1. SUFFICES ASSUME CodeInit PROVE CodeInv
    OBVIOUS
  <2>2. CodeTypeOK
    BY <2>1, NoTextType DEF CodeInit, CodeTypeOK
  <2>3. StoredWhereSent
    BY <2>1 DEF CodeInit, StoredWhereSent
  <2>4. \A r \in Requests : KeyOfText(text[r])
    BY <2>1, NoTextType DEF CodeInit, KeyOfText
  <2>5. QED
    BY <2>2, <2>3, <2>4 DEF CodeInv
<1>2. ASSUME CodeInv, [CodeNext]_codeVars
      PROVE  CodeInv'
  <2>1. CASE UNCHANGED codeVars
    BY <1>2, <2>1 DEF codeVars, CodeInv, CodeTypeOK, StoredWhereSent, KeyOfText
  <2>2. QED
    BY <1>2, <2>1, SendStep, VerifyStep, StoreStep, RequestReturns, RequestGoesOn, ExpiryStep
       DEF CodeNext
<1>3. QED
  BY <1>1, <1>2, PTL DEF CodeSpec

\* Drawn and stored codes, the locks of keys and the requests keep their types.
THEOREM CodesTypeCorrect == CodeSpec => []CodeTypeOK
<1>1. CodeInv => CodeTypeOK
  BY DEF CodeInv
<1>2. QED
  BY <1>1, CodeInvHolds, PTL

\* A code opens nothing but what it was sent for, for any numbers of phones, codes
\* and requests (codeKey, VerifyAndConsumeCode).
THEOREM CodesServeTheirPurpose == CodeSpec => []CodeServesItsPurpose
<1>1. CodeInv => CodeServesItsPurpose
  BY DEF CodeInv, KeyOfText, CodeServesItsPurpose
<1>2. QED
  BY <1>1, CodeInvHolds, PTL

-----------------------------------------------------------------------------
(***************************************************************************)
(* Account                                                                 *)
(***************************************************************************)

\* Between the lookup and the INSERTs, and between the two INSERTs.
Applying(q) ==
  /\ q.pc = "tenant" => q.tenant \in Tenants
  /\ q.pc = "admin" =>
       /\ q.tenant \in Tenants
       /\ tenant[q.tenant].status # "none"
       /\ tenant[q.tenant].by = q.username
       /\ \A i \in AdminIds : admin[i].tenant # q.tenant

OneApplicant ==
  \A q, r \in Requests :
    call[q].pc = "admin" /\ call[r].pc = "admin" /\ call[q].tenant = call[r].tenant => q = r

AdminsHaveTenants ==
  \A i \in AdminIds : admin[i].tenant # None => tenant[admin[i].tenant].status # "none"

AccountInv ==
  /\ AccountTypeOK
  /\ \A r \in Requests : Applying(call[r])
  /\ OneApplicant
  /\ AdminsHaveTenants
  /\ ApplicantOwnsTenant

LEMMA NoCallType == NoCall \in CallState /\ NoCall.pc = "idle"
  BY DEF NoCall, CallState

\* A step that brings no request between the two INSERTs and no row.
LEMMA AccountMoves ==
  ASSUME AccountInv, AccountTypeOK',
         \A t \in Tenants :
           tenant[t].status # "none" =>
             tenant'[t].status # "none" /\ tenant'[t].by = tenant[t].by,
         \A i \in AdminIds :
           admin'[i].tenant # None =>
             admin'[i].tenant = admin[i].tenant /\ admin'[i].username = admin[i].username,
         \A q \in Requests :
           /\ call'[q].pc = "admin" => call'[q] = call[q]
           /\ call'[q].pc = "tenant" => call'[q].tenant \in Tenants
  PROVE  AccountInv'
<1>1. \A i \in AdminIds : admin[i].tenant \in Tenants \cup {None}
  BY DEF AccountInv, AccountTypeOK, AdminRow
<1>2. AdminsHaveTenants'
  BY <1>1 DEF AccountInv, AdminsHaveTenants
<1>3. ApplicantOwnsTenant'
  BY <1>1 DEF AccountInv, AdminsHaveTenants, ApplicantOwnsTenant
<1>4. OneApplicant'
  BY DEF AccountInv, OneApplicant
<1>5. ASSUME NEW q \in Requests
      PROVE  Applying(call[q])'
  <2>1. CASE call'[q].pc = "admin"
    <3>1. Applying(call[q]) /\ call'[q] = call[q]
      BY <2>1 DEF AccountInv
    <3>2. call[q].tenant \in Tenants /\ call[q].tenant # None
      BY <2>1, <3>1 DEF Applying
    <3>3. QED
      BY <2>1, <3>1, <3>2 DEF Applying
  <2>2. CASE call'[q].pc # "admin"
    BY <2>2 DEF Applying
  <2>3. QED
    BY <2>1, <2>2
<1>6. QED
  BY <1>2, <1>3, <1>4, <1>5 DEF AccountInv

\* The same for steps that change nothing but where one request is.
LEMMA OnlyCall ==
  ASSUME AccountInv, NEW r \in Requests, NEW state \in CallState,
         state.pc # "admin", state.pc = "tenant" => state.tenant \in Tenants,
         call' = [call EXCEPT ![r] = state], UNCHANGED <<tenant, admin>>
  PROVE  AccountInv'
<1>1. AccountTypeOK'
  BY DEF AccountInv, AccountTypeOK
<1>2. \A q \in Requests : call'[q] = state \/ call'[q] = call[q]
  BY DEF AccountInv, AccountTypeOK
<1>3. \A q \in Requests :
        /\ call'[q].pc = "admin" => call'[q] = call[q]
        /\ call'[q].pc = "tenant" => call'[q].tenant \in Tenants
  BY <1>2 DEF AccountInv, Applying
<1>4. QED
  BY <1>1, <1>3, AccountMoves

LEMMA LooksUp ==
  ASSUME AccountInv, NEW r \in Requests,
         \/ \E t \in Tenants \cup {None}, phone \in Mobiles, i \in AdminIds :
              AdminLoginBySMS(r, t, phone, i) \/ ResetAdminPassword(r, t, phone, i)
         \/ \E me, i \in AdminIds : DeleteUser(r, me, i)
         \/ \E u \in Usernames, status \in 0..2 : CreateUser(r, u, status)
  PROVE  AccountInv'
<1>1. ASSUME NEW t, NEW phone, NEW i \in AdminIds,
             AdminLoginBySMS(r, t, phone, i) \/ ResetAdminPassword(r, t, phone, i)
      PROVE  AccountInv'
  <2>1. PICK state : state = [NoCall EXCEPT !.pc = "found", !.target = i]
    OBVIOUS
  <2>2. state \in CallState /\ state.pc = "found"
    BY <2>1 DEF NoCall, CallState
  <2>3. call' = [call EXCEPT ![r] = state] /\ UNCHANGED <<tenant, admin>>
    BY <1>1, <2>1 DEF AdminLoginBySMS, ResetAdminPassword, CallStarts
  <2>4. QED
    BY <2>2, <2>3, OnlyCall
<1>2. ASSUME NEW me, NEW i \in AdminIds, DeleteUser(r, me, i)
      PROVE  AccountInv'
  <2>1. PICK state : state = [NoCall EXCEPT !.pc = "delete", !.target = i]
    OBVIOUS
  <2>2. state \in CallState /\ state.pc = "delete"
    BY <2>1 DEF NoCall, CallState
  <2>3. call' = [call EXCEPT ![r] = state] /\ UNCHANGED <<tenant, admin>>
    BY <1>2, <2>1 DEF DeleteUser, CallStarts
  <2>4. QED
    BY <2>2, <2>3, OnlyCall
<1>3. ASSUME NEW u \in Usernames, NEW status, CreateUser(r, u, status)
      PROVE  AccountInv'
  <2>1. PICK on : on = (Stored(status) = 1)
    OBVIOUS
  <2>2. PICK state : state = [NoCall EXCEPT !.pc = "user", !.username = u, !.on = on]
    OBVIOUS
  <2>3. on \in BOOLEAN
    BY <2>1
  <2>4. state \in CallState /\ state.pc = "user"
    BY <2>2, <2>3 DEF NoCall, CallState
  <2>5. call' = [call EXCEPT ![r] = state] /\ UNCHANGED <<tenant, admin>>
    BY <1>3, <2>1, <2>2 DEF CreateUser, CallStarts
  <2>6. QED
    BY <2>4, <2>5, OnlyCall
<1>4. QED
  BY <1>1, <1>2, <1>3

LEMMA RegisterKeeps ==
  ASSUME AccountInv, NEW r \in Requests, NEW t \in Tenants, NEW u \in Usernames,
         NEW phone \in Mobiles, RegisterTenantWithAdmin(r, t, u, phone)
  PROVE  AccountInv'
<1>1. PICK state : state = [NoCall EXCEPT !.pc = "tenant", !.username = u, !.tenant = t,
                                          !.phone = phone]
  OBVIOUS
<1>2. state \in CallState /\ state.pc = "tenant" /\ state.tenant = t
  BY <1>1 DEF NoCall, CallState
<1>3. call' = [call EXCEPT ![r] = state] /\ UNCHANGED <<tenant, admin>>
  BY <1>1 DEF RegisterTenantWithAdmin, CallStarts
<1>4. QED
  BY <1>2, <1>3, OnlyCall

\* The code is new, so no administrator and no other request is at the tenant.
LEMMA InsertTenantKeeps ==
  ASSUME AccountInv, NEW r \in Requests, InsertTenant(r)
  PROVE  AccountInv'
<1>0. PICK u : u = call[r].username
  OBVIOUS
<1>1. /\ call[r] \in CallState /\ call[r].pc = "tenant"
      /\ call \in [Requests -> CallState] /\ tenant \in [Tenants -> TenantRow]
      /\ admin \in [AdminIds -> AdminRow]
  BY DEF InsertTenant, CallGoesOn, AccountInv, AccountTypeOK
<1>2. PICK t \in Tenants : t = call[r].tenant
  BY <1>1 DEF AccountInv, Applying
<1>3. PICK state : state = [call[r] EXCEPT !.pc = "admin"]
  OBVIOUS
<1>4. /\ state \in CallState /\ state.pc = "admin"
      /\ state.tenant = t /\ state.username = u
      /\ u \in Usernames \cup {None}
  BY <1>1, <1>0, <1>2, <1>3 DEF CallState
<1>5. /\ call' = [call EXCEPT ![r] = state]
      /\ tenant[t].status = "none"
      /\ tenant' = [tenant EXCEPT ![t] = [tenant[t] EXCEPT !.status = "pending", !.by = u]]
      /\ admin' = admin
  BY <1>0, <1>2, <1>3 DEF InsertTenant, CallGoesOn, CodeIsNew
<1>6. tenant[t] \in TenantRow
  BY <1>1
<1>7. PICK row \in TenantRow : /\ row.status = "pending" /\ row.by = u
                               /\ tenant' = [tenant EXCEPT ![t] = row]
  BY <1>4, <1>5, <1>6 DEF TenantRow
<1>8. /\ tenant'[t] = row
      /\ \A s \in Tenants \ {t} : tenant'[s] = tenant[s]
      /\ call'[r] = state
      /\ \A q \in Requests \ {r} : call'[q] = call[q]
  BY <1>1, <1>5, <1>7
<1>9. \A i \in AdminIds : admin[i].tenant \in Tenants \cup {None} /\ admin[i].tenant # t
  BY <1>1, <1>5 DEF AccountInv, AdminsHaveTenants, AdminRow
<1>10. \A q \in Requests : call[q].pc = "admin" =>
         call[q].tenant \in Tenants \ {t}
  BY <1>5 DEF AccountInv, Applying
<1>11. AccountTypeOK'
  BY <1>1, <1>4, <1>5, <1>7 DEF AccountTypeOK
<1>12. OneApplicant'
  BY <1>4, <1>8, <1>10 DEF AccountInv, OneApplicant
<1>13. AdminsHaveTenants' /\ ApplicantOwnsTenant'
  BY <1>5, <1>8, <1>9 DEF AccountInv, AdminsHaveTenants, ApplicantOwnsTenant
<1>14. ASSUME NEW q \in Requests
       PROVE  Applying(call[q])'
  <2>1. CASE q = r
    BY <1>4, <1>5, <1>7, <1>8, <1>9, <2>1 DEF Applying
  <2>2. CASE q # r
    <3>1. Applying(call[q]) /\ call'[q] = call[q]
      BY <1>8, <2>2 DEF AccountInv
    <3>2. QED
      BY <1>5, <1>8, <1>10, <3>1 DEF Applying
  <2>3. QED
    BY <2>1, <2>2
<1>15. QED
  BY <1>11, <1>12, <1>13, <1>14 DEF AccountInv

\* The tenant gets its administrator from the one request that is at it.
LEMMA InsertAdminKeeps ==
  ASSUME AccountInv, NEW r \in Requests, InsertAdmin(r)
  PROVE  AccountInv'
<1>0. PICK u : u = call[r].username
  OBVIOUS
<1>1. /\ call[r] \in CallState /\ call[r].pc = "admin"
      /\ call \in [Requests -> CallState] /\ admin \in [AdminIds -> AdminRow]
      /\ call' = [call EXCEPT ![r] = NoCall]
      /\ tenant' = tenant
  BY DEF InsertAdmin, CallReturns, AccountInv, AccountTypeOK
<1>2. PICK t \in Tenants :
        /\ t = call[r].tenant
        /\ tenant[t].status # "none" /\ tenant[t].by = u
        /\ \A j \in AdminIds : admin[j].tenant # t
  BY <1>0, <1>1 DEF AccountInv, Applying
<1>3. PICK new : new = ApplicantsAdmin(r)
  OBVIOUS
<1>4. new \in AdminRow /\ new.tenant = t /\ new.username = u
  BY <1>0, <1>1, <1>2, <1>3 DEF ApplicantsAdmin, NoAdmin, AdminRow, CallState
<1>5. PICK i \in AdminIds : admin' = [admin EXCEPT ![i] = new]
  BY <1>3 DEF InsertAdmin, InsertsAdmin
<1>6. /\ admin'[i] = new
      /\ \A j \in AdminIds \ {i} : admin'[j] = admin[j]
      /\ \A q \in Requests \ {r} : call'[q] = call[q]
      /\ call'[r].pc = "idle"
  BY <1>1, <1>5, NoCallType
<1>7. AccountTypeOK'
  BY <1>1, <1>4, <1>5, NoCallType DEF AccountInv, AccountTypeOK
<1>8. AdminsHaveTenants' /\ ApplicantOwnsTenant'
  BY <1>1, <1>2, <1>4, <1>6 DEF AccountInv, AdminsHaveTenants, ApplicantOwnsTenant
<1>9. OneApplicant'
  BY <1>6 DEF AccountInv, OneApplicant
<1>10. ASSUME NEW q \in Requests
       PROVE  Applying(call[q])'
  <2>1. CASE q = r
    BY <1>6, <2>1 DEF Applying
  <2>2. CASE q # r
    <3>1. Applying(call[q]) /\ call'[q] = call[q]
      BY <1>6, <2>2 DEF AccountInv
    <3>2. call[q].pc = "admin" => call[q].tenant # t
      BY <1>1, <1>2, <2>2 DEF AccountInv, OneApplicant
    <3>3. QED
      BY <1>1, <1>4, <1>6, <3>1, <3>2 DEF Applying
  <2>3. QED
    BY <2>1, <2>2
<1>11. QED
  BY <1>7, <1>8, <1>9, <1>10 DEF AccountInv

LEMMA ReturnsKeep ==
  ASSUME AccountInv, NEW r \in Requests, UpdatesFound(r) \/ CallFails(r)
  PROVE  AccountInv'
<1>1. call' = [call EXCEPT ![r] = NoCall] /\ UNCHANGED <<tenant, admin>>
  BY DEF UpdatesFound, CallFails, CallReturns
<1>2. QED
  BY <1>1, NoCallType, OnlyCall

\* Rows of administrators are edited by a request that returns.
LEMMA AdminsEdited ==
  ASSUME AccountInv,
         call' = call \/ \E r \in Requests : call' = [call EXCEPT ![r] = NoCall],
         tenant' = tenant, admin' \in [AdminIds -> AdminRow],
         \A i \in AdminIds :
           admin'[i].tenant # None =>
             admin'[i].tenant = admin[i].tenant /\ admin'[i].username = admin[i].username
  PROVE  AccountInv'
<1>1. AccountTypeOK'
  BY NoCallType DEF AccountInv, AccountTypeOK
<1>2. \A q \in Requests :
        /\ call'[q].pc = "admin" => call'[q] = call[q]
        /\ call'[q].pc = "tenant" => call'[q].tenant \in Tenants
  <2>1. \A q \in Requests : call'[q] = NoCall \/ call'[q] = call[q]
    BY DEF AccountInv, AccountTypeOK
  <2>2. QED
    BY <2>1, NoCallType DEF AccountInv, Applying
<1>3. QED
  BY <1>1, <1>2, AccountMoves

LEMMA EditsKeep ==
  ASSUME AccountInv, NEW r \in Requests,
         \/ UpdateStatusByTenant(r)
         \/ RemoveUser(r)
         \/ \E phone \in Mobiles \cup {None} : InsertUser(r, phone)
  PROVE  AccountInv'
<1>0. /\ admin \in [AdminIds -> AdminRow] /\ call[r] \in CallState
      /\ call' = [call EXCEPT ![r] = NoCall] /\ tenant' = tenant
  BY DEF AccountInv, AccountTypeOK, UpdateStatusByTenant, RemoveUser, InsertUser, CallReturns
<1>1. ASSUME admin' \in [AdminIds -> AdminRow],
             \A i \in AdminIds :
               admin'[i].tenant # None =>
                 admin'[i].tenant = admin[i].tenant /\ admin'[i].username = admin[i].username
      PROVE  AccountInv'
  <2>1. \E q \in Requests : call' = [call EXCEPT ![q] = NoCall]
    BY <1>0
  <2>2. QED
    BY <1>0, <1>1, <2>1, AdminsEdited
<1>2. CASE UpdateStatusByTenant(r)
  <2>1. PICK on \in BOOLEAN : on = call[r].on
    BY <1>0 DEF CallState
  <2>2. \A i \in AdminIds : [admin[i] EXCEPT !.enabled = on] \in AdminRow
    BY <1>0 DEF AdminRow
  <2>3. admin' \in [AdminIds -> AdminRow]
    BY <1>0, <1>2, <2>1, <2>2 DEF UpdateStatusByTenant
  <2>4. \A i \in AdminIds : admin'[i] = admin[i] \/ admin'[i] = [admin[i] EXCEPT !.enabled = on]
    BY <1>2, <2>1 DEF UpdateStatusByTenant
  <2>5. ASSUME NEW i \in AdminIds
        PROVE  admin'[i].tenant = admin[i].tenant /\ admin'[i].username = admin[i].username
    <3>1. PICK row \in AdminRow : row = admin[i]
      BY <1>0
    <3>2. [row EXCEPT !.enabled = on].tenant = row.tenant /\ [row EXCEPT !.enabled = on].username = row.username
      BY DEF AdminRow
    <3>3. QED
      BY <2>4, <3>1, <3>2
  <2>6. QED
    BY <1>1, <2>3, <2>5
<1>3. CASE RemoveUser(r)
  <2>1. PICK k : admin' = [admin EXCEPT ![k] = [admin[k] EXCEPT !.row = "deleted"]]
    BY <1>3 DEF RemoveUser
  <2>2. \A i \in AdminIds : [admin[i] EXCEPT !.row = "deleted"] \in AdminRow
    BY <1>0 DEF AdminRow
  <2>3. admin' \in [AdminIds -> AdminRow]
    BY <1>0, <2>1, <2>2
  <2>4. \A i \in AdminIds : admin'[i] = admin[i] \/ admin'[i] = [admin[i] EXCEPT !.row = "deleted"]
    BY <1>0, <2>1
  <2>5. ASSUME NEW i \in AdminIds
        PROVE  admin'[i].tenant = admin[i].tenant /\ admin'[i].username = admin[i].username
    <3>1. PICK row \in AdminRow : row = admin[i]
      BY <1>0
    <3>2. [row EXCEPT !.row = "deleted"].tenant = row.tenant /\ [row EXCEPT !.row = "deleted"].username = row.username
      BY DEF AdminRow
    <3>3. QED
      BY <2>4, <3>1, <3>2
  <2>6. QED
    BY <1>1, <2>3, <2>5
<1>4. ASSUME NEW phone \in Mobiles \cup {None}, InsertUser(r, phone)
      PROVE  AccountInv'
  <2>1. PICK new : new = [NoAdmin EXCEPT !.row = "present", !.username = call[r].username,
                                         !.phone = phone, !.enabled = call[r].on]
    OBVIOUS
  <2>2. new \in AdminRow /\ new.tenant = None
    BY <1>0, <2>1 DEF NoAdmin, AdminRow, CallState
  <2>3. PICK k \in AdminIds : admin' = [admin EXCEPT ![k] = new]
    BY <1>4, <2>1 DEF InsertUser, InsertsAdmin
  <2>4. admin' \in [AdminIds -> AdminRow]
    BY <1>0, <2>2, <2>3
  <2>5. \A i \in AdminIds : admin'[i] = admin[i] \/ admin'[i].tenant = None
    BY <1>0, <2>2, <2>3
  <2>6. QED
    BY <1>1, <2>4, <2>5
<1>5. QED
  BY <1>2, <1>3, <1>4

LEMMA UpdateUserKeeps ==
  ASSUME AccountInv, NEW i \in AdminIds, NEW phone \in Mobiles \cup {None},
         NEW on \in BOOLEAN, UpdateUser(i, phone, on)
  PROVE  AccountInv'
<1>0. admin \in [AdminIds -> AdminRow] /\ admin[i] \in AdminRow
  BY DEF AccountInv, AccountTypeOK
<1>1. PICK row : row = [admin[i] EXCEPT !.phone = phone, !.enabled = on]
  OBVIOUS
<1>2. /\ row \in AdminRow
      /\ row.tenant = admin[i].tenant /\ row.username = admin[i].username
  BY <1>0, <1>1 DEF AdminRow
<1>3. admin' = [admin EXCEPT ![i] = row] /\ UNCHANGED <<tenant, call>>
  BY <1>1 DEF UpdateUser
<1>4. admin' \in [AdminIds -> AdminRow]
  BY <1>0, <1>2, <1>3
<1>5. \A j \in AdminIds :
        admin'[j].tenant = admin[j].tenant /\ admin'[j].username = admin[j].username
  BY <1>0, <1>2, <1>3
<1>6. QED
  BY <1>3, <1>4, <1>5, AdminsEdited

LEMMA DecisionKeeps ==
  ASSUME AccountInv, NEW r \in Requests, NEW t \in Tenants, NEW ok \in BOOLEAN,
         Audit(r, t, ok) \/ SetStatus(r, t, ok)
  PROVE  AccountInv'
<1>0. /\ tenant \in [Tenants -> TenantRow] /\ tenant[t] \in TenantRow
      /\ call \in [Requests -> CallState] /\ admin \in [AdminIds -> AdminRow]
  BY DEF AccountInv, AccountTypeOK
<1>1. PICK state : state = [NoCall EXCEPT !.pc = "link", !.tenant = t, !.on = ok]
  OBVIOUS
<1>2. state \in CallState /\ state.pc = "link"
  BY <1>1 DEF NoCall, CallState
<1>3. PICK status : status = (IF ok THEN "active" ELSE "banned")
  OBVIOUS
<1>4. status \in {"active", "banned"}
  BY <1>3
<1>5. PICK row : row = [tenant[t] EXCEPT !.status = status]
  OBVIOUS
<1>6. row \in TenantRow /\ row.by = tenant[t].by /\ row.status # "none"
  BY <1>0, <1>4, <1>5 DEF TenantRow
<1>7. /\ tenant' = [tenant EXCEPT ![t] = row]
      /\ call' = [call EXCEPT ![r] = state]
      /\ admin' = admin
  BY <1>1, <1>3, <1>5 DEF Audit, SetStatus, DecidesTenant, CallStarts
<1>8. AccountTypeOK'
  BY <1>0, <1>2, <1>6, <1>7 DEF AccountTypeOK
<1>9. \A s \in Tenants :
        tenant[s].status # "none" =>
          tenant'[s].status # "none" /\ tenant'[s].by = tenant[s].by
  BY <1>0, <1>6, <1>7
<1>10. \A q \in Requests :
        /\ call'[q].pc = "admin" => call'[q] = call[q]
        /\ call'[q].pc = "tenant" => call'[q].tenant \in Tenants
  BY <1>0, <1>2, <1>7 DEF AccountInv, Applying
<1>11. QED
  BY <1>7, <1>8, <1>9, <1>10, AccountMoves

LEMMA AccountInvInit == AccountInit => AccountInv
<1> SUFFICES ASSUME AccountInit PROVE AccountInv
  OBVIOUS
<1>1. PICK founder : founder = [NoAdmin EXCEPT !.row = "present", !.username = Founder,
                                               !.enabled = TRUE]
  OBVIOUS
<1>2. /\ founder \in AdminRow /\ founder.tenant = None
      /\ NoAdmin \in AdminRow /\ NoAdmin.tenant = None
  BY <1>1 DEF NoAdmin, AdminRow
<1>3. \A i \in AdminIds : admin[i] = founder \/ admin[i] = NoAdmin
  BY <1>1 DEF AccountInit
<1>4. NoTenant \in TenantRow
  BY DEF NoTenant, TenantRow
<1>5. AccountTypeOK
  BY <1>1, <1>2, <1>4, NoCallType DEF AccountInit, AccountTypeOK
<1>6. AdminsHaveTenants /\ ApplicantOwnsTenant
  BY <1>2, <1>3 DEF AdminsHaveTenants, ApplicantOwnsTenant
<1>7. OneApplicant /\ \A r \in Requests : Applying(call[r])
  BY NoCallType DEF AccountInit, OneApplicant, Applying
<1>8. QED
  BY <1>5, <1>6, <1>7 DEF AccountInv

LEMMA AccountInvHolds == AccountSpec => []AccountInv
<1>1. ASSUME AccountInv, [AccountNext]_accountVars
      PROVE  AccountInv'
  <2>1. CASE UNCHANGED accountVars
    BY <1>1, <2>1 DEF accountVars, AccountInv, AccountTypeOK, Applying, OneApplicant,
       AdminsHaveTenants, ApplicantOwnsTenant
  <2>2. QED
    BY <1>1, <2>1, LooksUp, RegisterKeeps, InsertTenantKeeps, InsertAdminKeeps, ReturnsKeep,
       EditsKeep, UpdateUserKeeps, DecisionKeeps DEF AccountNext
<1>2. QED
  BY AccountInvInit, <1>1, PTL DEF AccountSpec

\* Tenants, administrators and the requests keep their types.
THEOREM AccountTypeCorrect == AccountSpec => []AccountTypeOK
<1>1. AccountInv => AccountTypeOK
  BY DEF AccountInv
<1>2. QED
  BY <1>1, AccountInvHolds, PTL

\* Two applications for one code never share a tenant: its one administrator is the
\* one whose application inserted it, for any numbers of both.
THEOREM ApplicantsOwnTheirTenants == AccountSpec => []ApplicantOwnsTenant
<1>1. AccountInv => ApplicantOwnsTenant
  BY DEF AccountInv
<1>2. QED
  BY <1>1, AccountInvHolds, PTL

-----------------------------------------------------------------------------
(***************************************************************************)
(* Membership                                                              *)
(***************************************************************************)

MembershipInv == MembershipTypeOK /\ OneMemberPerIdentity /\ LevelOfMemberExists

LEMMA NoLoginType == NoLogin \in LoginState
  BY DEF NoLogin, LoginState

\* A statement that writes no row of members and takes no level away.
LEMMA OnlyLogin ==
  ASSUME MembershipInv, people' = people,
         level' \in [Levels -> {"none", "present", "deleted"}],
         \A l \in Levels : level[l] = "present" => level'[l] = "present",
         login' \in [Requests -> LoginState]
  PROVE  MembershipInv'
<1>1. MembershipTypeOK'
  BY DEF MembershipInv, MembershipTypeOK
<1>2. OneMemberPerIdentity'
  BY DEF MembershipInv, OneMemberPerIdentity
<1>3. LevelOfMemberExists'
  BY DEF MembershipInv, MembershipTypeOK, PersonRow, LevelOfMemberExists
<1>4. QED
  BY <1>1, <1>2, <1>3 DEF MembershipInv

\* A statement that writes one row of members, which is alone with its openid
\* and phone and has a level that exists or none.
LEMMA WritesPerson ==
  ASSUME MembershipInv, level' = level, login' \in [Requests -> LoginState],
         NEW i \in RowIds, NEW row \in PersonRow,
         people' = [people EXCEPT ![i] = row],
         row.level # None => level[row.level] = "present",
         \A j \in RowIds \ {i} :
           people[j].present /\ row.present =>
             /\ row.openid # None => people[j].openid # row.openid
             /\ row.phone # None => people[j].phone # row.phone
  PROVE  MembershipInv'
<1>1. /\ people'[i] = row
      /\ \A j \in RowIds \ {i} : people'[j] = people[j]
  BY DEF MembershipInv, MembershipTypeOK
<1>2. MembershipTypeOK'
  BY DEF MembershipInv, MembershipTypeOK
<1>3. OneMemberPerIdentity'
  <2>1. SUFFICES ASSUME NEW j \in RowIds, NEW k \in RowIds, j # k,
                        people'[j].present, people'[k].present
                 PROVE  /\ people'[j].openid # None => people'[j].openid # people'[k].openid
                        /\ people'[j].phone # None => people'[j].phone # people'[k].phone
    BY DEF OneMemberPerIdentity
  <2>2. CASE j = i
    BY <1>1, <2>1, <2>2
  <2>3. CASE k = i
    BY <1>1, <2>1, <2>3
  <2>4. CASE j # i /\ k # i
    BY <1>1, <2>1, <2>4 DEF MembershipInv, OneMemberPerIdentity
  <2>5. QED
    BY <2>2, <2>3, <2>4
<1>4. LevelOfMemberExists'
  BY <1>1 DEF MembershipInv, LevelOfMemberExists
<1>5. QED
  BY <1>2, <1>3, <1>4 DEF MembershipInv

\* A statement that leaves openid and phone of the row alone.
LEMMA WritesOther ==
  ASSUME MembershipInv, level' = level, login' \in [Requests -> LoginState],
         NEW i \in RowIds, NEW row \in PersonRow,
         people' = [people EXCEPT ![i] = row],
         row.present = people[i].present, row.openid = people[i].openid, row.phone = people[i].phone,
         row.level # None => level[row.level] = "present"
  PROVE  MembershipInv'
<1>1. \A j \in RowIds \ {i} :
        people[j].present /\ row.present =>
          /\ row.openid # None => people[j].openid # row.openid
          /\ row.phone # None => people[j].phone # row.phone
  BY DEF MembershipInv, OneMemberPerIdentity
<1>2. QED
  BY <1>1, WritesPerson

LEMMA LoginStarted ==
  ASSUME MembershipInv, NEW r \in Requests
  PROVE  /\ login \in [Requests -> LoginState]
         /\ \A state \in LoginState :
              [login EXCEPT ![r] = state] \in [Requests -> LoginState]
  BY DEF MembershipInv, MembershipTypeOK

LEMMA LoginKeeps ==
  ASSUME MembershipInv, NEW r \in Requests, LoginStep(r)
  PROVE  MembershipInv'
<1>1. ASSUME NEW state \in LoginState, login' = [login EXCEPT ![r] = state],
             UNCHANGED <<people, level>>
      PROVE  MembershipInv'
  <2>1. login' \in [Requests -> LoginState]
    BY <1>1, LoginStarted
  <2>2. level' \in [Levels -> {"none", "present", "deleted"}]
    BY <1>1 DEF MembershipInv, MembershipTypeOK
  <2>3. QED
    BY <1>1, <2>1, <2>2, OnlyLogin
<1>2. ASSUME NEW o \in OpenIds, MemberLoginByWechat(r, o)
      PROVE  MembershipInv'
  <2>1. [NoLogin EXCEPT !.pc = "create", !.openid = o] \in LoginState
    BY DEF NoLogin, LoginState
  <2>2. QED
    BY <1>1, <1>2, <2>1 DEF MemberLoginByWechat, LoginStarts
<1>3. ASSUME NEW n \in Numbers, MemberDevLogin(r, n)
      PROVE  MembershipInv'
  <2>1. [NoLogin EXCEPT !.pc = "create", !.phone = n] \in LoginState
    BY DEF NoLogin, LoginState
  <2>2. QED
    BY <1>1, <1>3, <2>1 DEF MemberDevLogin, LoginStarts
<1>4. CASE CreateMember(r)
  <2>1. PICK row : row = [present |-> TRUE, openid |-> login[r].openid,
                          phone |-> login[r].phone, active |-> TRUE, level |-> None]
    OBVIOUS
  <2>2. login[r] \in LoginState
    BY DEF MembershipInv, MembershipTypeOK
  <2>3. row \in PersonRow /\ row.level = None
    BY <2>1, <2>2 DEF PersonRow, LoginState
  <2>4. PICK i \in RowIds :
          /\ people' = [people EXCEPT ![i] = row]
          /\ Unique(login[r].openid, login[r].phone)
          /\ login' = [login EXCEPT ![r] = NoLogin]
          /\ level' = level
    BY <1>4, <2>1 DEF CreateMember, LoginReturns
  <2>5. \A j \in RowIds \ {i} :
          people[j].present /\ row.present =>
            /\ row.openid # None => people[j].openid # row.openid
            /\ row.phone # None => people[j].phone # row.phone
    BY <2>1, <2>4 DEF Unique, HasOpenId, HasNumber
  <2>6. login' \in [Requests -> LoginState]
    BY <2>4, LoginStarted, NoLoginType
  <2>7. row.level # None => level[row.level] = "present"
    BY <2>3
  <2>8. QED
    BY <2>3, <2>4, <2>5, <2>6, <2>7, WritesPerson
<1>5. CASE LoginFails(r)
  BY <1>1, <1>5, NoLoginType DEF LoginFails
<1>6. QED
  BY <1>2, <1>3, <1>4, <1>5 DEF LoginStep

LEMMA LevelKeeps ==
  ASSUME MembershipInv, NEW r \in Requests, LevelStep(r)
  PROVE  MembershipInv'
<1>1. ASSUME NEW state \in LoginState, login' = [login EXCEPT ![r] = state],
             people' = people,
             level' \in [Levels -> {"none", "present", "deleted"}],
             \A l \in Levels : level[l] = "present" => level'[l] = "present"
      PROVE  MembershipInv'
  BY <1>1, LoginStarted, OnlyLogin
<1>2. level \in [Levels -> {"none", "present", "deleted"}]
  BY DEF MembershipInv, MembershipTypeOK
<1>3. ASSUME NEW i \in RowIds, NEW l \in Levels, UpdateMemberLevel(r, i, l)
      PROVE  MembershipInv'
  <2>1. [NoLogin EXCEPT !.pc = "level", !.member = i, !.level = l] \in LoginState
    BY DEF NoLogin, LoginState
  <2>2. QED
    BY <1>1, <1>2, <1>3, <2>1 DEF UpdateMemberLevel, LoginStarts
<1>4. ASSUME NEW l \in Levels, UpdateLevel(r, l)
      PROVE  MembershipInv'
  <2>1. [NoLogin EXCEPT !.pc = "save", !.level = l] \in LoginState
    BY DEF NoLogin, LoginState
  <2>2. QED
    BY <1>1, <1>2, <1>4, <2>1 DEF UpdateLevel, LoginStarts
<1>5. CASE SaveLevel(r)
  <2>1. /\ login' = [login EXCEPT ![r] = NoLogin]
        /\ level' = [level EXCEPT ![login[r].level] = "present"]
        /\ people' = people
    BY <1>5 DEF SaveLevel, LoginReturns
  <2>2. level' \in [Levels -> {"none", "present", "deleted"}]
    BY <1>2, <2>1
  <2>3. \A l \in Levels : level[l] = "present" => level'[l] = "present"
    BY <1>2, <2>1
  <2>4. QED
    BY <1>1, <2>1, <2>2, <2>3, NoLoginType
<1>6. CASE WriteMemberLevel(r)
  <2>1. PICK i, l :
          /\ i = login[r].member /\ l = login[r].level
          /\ level[l] = "present"
          /\ people' = [people EXCEPT ![i] = [people[i] EXCEPT !.level = l]]
          /\ login' = [login EXCEPT ![r] = NoLogin]
          /\ level' = level
    BY <1>6 DEF WriteMemberLevel, LoginReturns, Refers
  <2>2. l \in Levels \cup {None}
    BY <2>1 DEF MembershipInv, MembershipTypeOK, LoginState
  <2>3. login' \in [Requests -> LoginState]
    BY <2>1, LoginStarted, NoLoginType
  <2>4. CASE i \in RowIds
    <3>1. PICK row : row = [people[i] EXCEPT !.level = l]
      OBVIOUS
    <3>2. people[i] \in PersonRow
      BY <2>4 DEF MembershipInv, MembershipTypeOK
    <3>3. /\ row \in PersonRow /\ row.level = l /\ row.present = people[i].present
          /\ row.openid = people[i].openid /\ row.phone = people[i].phone
      BY <2>2, <3>1, <3>2 DEF PersonRow
    <3>4. QED
      BY <2>1, <2>3, <2>4, <3>1, <3>3, WritesOther
  <2>5. CASE i \notin RowIds
    <3>1. people' = people
      BY <2>1, <2>5 DEF MembershipInv, MembershipTypeOK
    <3>2. QED
      BY <1>2, <2>1, <2>3, <3>1, OnlyLogin
  <2>6. QED
    BY <2>4, <2>5
<1>7. QED
  BY <1>3, <1>4, <1>5, <1>6 DEF LevelStep

LEMMA PersonEdits ==
  ASSUME MembershipInv, NEW i \in RowIds,
         \/ \E n \in Numbers : BindPhoneByWechat(i, n)
         \/ \E on \in BOOLEAN : UpdateMemberStatus(i, on)
         \/ ClearMemberLevel(i)
  PROVE  MembershipInv'
<1>1. /\ people[i] \in PersonRow /\ people[i].present
      /\ login' \in [Requests -> LoginState] /\ level' = level
      /\ level' \in [Levels -> {"none", "present", "deleted"}]
  BY DEF MembershipInv, MembershipTypeOK, BindPhoneByWechat, UpdateMemberStatus,
         ClearMemberLevel
<1>2. people[i].level # None => level[people[i].level] = "present"
  BY DEF MembershipInv, LevelOfMemberExists
<1>3. ASSUME NEW n \in Numbers, BindPhoneByWechat(i, n)
      PROVE  MembershipInv'
  <2>1. PICK row : row = [people[i] EXCEPT !.phone = n]
    OBVIOUS
  <2>2. /\ row \in PersonRow /\ row.phone = n
        /\ row.openid = people[i].openid /\ row.level = people[i].level
    BY <1>1, <2>1 DEF PersonRow
  <2>3. CASE people' = people
    BY <1>1, <2>3, OnlyLogin
  <2>4. CASE people' # people
    <3>1. /\ people' = [people EXCEPT ![i] = row]
          /\ people[i].phone = n \/ ~HasNumber(n)
      BY <1>3, <2>1, <2>4 DEF BindPhoneByWechat
    <3>2. \A j \in RowIds \ {i} :
            people[j].present /\ row.present =>
              /\ row.openid # None => people[j].openid # row.openid
              /\ row.phone # None => people[j].phone # row.phone
      BY <1>1, <2>2, <3>1 DEF MembershipInv, OneMemberPerIdentity, HasNumber
    <3>3. row.level # None => level[row.level] = "present"
      BY <1>2, <2>2
    <3>4. QED
      BY <1>1, <2>2, <3>1, <3>2, <3>3, WritesPerson
  <2>5. QED
    BY <2>3, <2>4
<1>4. ASSUME NEW on \in BOOLEAN, UpdateMemberStatus(i, on)
      PROVE  MembershipInv'
  <2>1. PICK row : row = [people[i] EXCEPT !.active = on]
    OBVIOUS
  <2>2. /\ row \in PersonRow /\ row.phone = people[i].phone
        /\ row.present = people[i].present
        /\ row.openid = people[i].openid /\ row.level = people[i].level
    BY <1>1, <2>1 DEF PersonRow
  <2>3. people' = [people EXCEPT ![i] = row]
    BY <1>4, <2>1 DEF UpdateMemberStatus
  <2>4. QED
    BY <1>1, <1>2, <2>2, <2>3, WritesOther
<1>5. CASE ClearMemberLevel(i)
  <2>1. PICK row : row = [people[i] EXCEPT !.level = None]
    OBVIOUS
  <2>2. /\ row \in PersonRow /\ row.phone = people[i].phone
        /\ row.present = people[i].present
        /\ row.openid = people[i].openid /\ row.level = None
    BY <1>1, <2>1 DEF PersonRow
  <2>3. people' = [people EXCEPT ![i] = row]
    BY <1>5, <2>1 DEF ClearMemberLevel
  <2>4. QED
    BY <1>1, <2>2, <2>3, WritesOther
<1>6. QED
  BY <1>3, <1>4, <1>5

LEMMA LevelEdits ==
  ASSUME MembershipInv, NEW l \in Levels, CreateLevel(l) \/ DeleteLevel(l)
  PROVE  MembershipInv'
<1>1. MembershipTypeOK' /\ people' = people
  BY DEF CreateLevel, DeleteLevel, MembershipInv, MembershipTypeOK
<1>2. OneMemberPerIdentity'
  BY <1>1 DEF MembershipInv, OneMemberPerIdentity
<1>3. \A k \in Levels :
        level[k] = "present" /\ level'[k] # "present" => \A i \in RowIds : people[i].level # k
  BY DEF CreateLevel, DeleteLevel, MembershipInv, MembershipTypeOK
<1>4. \A i \in RowIds : people[i].level \in Levels \cup {None}
  BY DEF MembershipInv, MembershipTypeOK, PersonRow
<1>5. LevelOfMemberExists'
  BY <1>1, <1>3, <1>4 DEF MembershipInv, LevelOfMemberExists
<1>6. QED
  BY <1>1, <1>2, <1>5 DEF MembershipInv

LEMMA MembershipInvHolds == MembershipSpec => []MembershipInv
<1>1. MembershipInit => MembershipInv
  BY NoLoginType DEF MembershipInit, MembershipInv, MembershipTypeOK, OneMemberPerIdentity,
     LevelOfMemberExists, NoPerson, PersonRow
<1>2. ASSUME MembershipInv, [MembershipNext]_membershipVars
      PROVE  MembershipInv'
  <2>1. CASE UNCHANGED membershipVars
    BY <1>2, <2>1 DEF membershipVars, MembershipInv, MembershipTypeOK,
       OneMemberPerIdentity, LevelOfMemberExists
  <2>2. QED
    BY <1>2, <2>1, LoginKeeps, LevelKeeps, PersonEdits, LevelEdits DEF MembershipNext
<1>3. QED
  BY <1>1, <1>2, PTL DEF MembershipSpec

\* Members, levels and the requests keep their types.
THEOREM MembershipTypeCorrect == MembershipSpec => []MembershipTypeOK
<1>1. MembershipInv => MembershipTypeOK
  BY DEF MembershipInv
<1>2. QED
  BY <1>1, MembershipInvHolds, PTL

\* However first logins and bindings of phones race, no openid and no phone is in
\* two rows: the unique indexes are enough, for any numbers of both.
THEOREM IdentityIsOneMember == MembershipSpec => []OneMemberPerIdentity
<1>1. MembershipInv => OneMemberPerIdentity
  BY DEF MembershipInv
<1>2. QED
  BY <1>1, MembershipInvHolds, PTL

\* No member has a level that is gone: the foreign key is enough, whatever the
\* admin looked up before (UpdateMemberLevel, DeleteLevel).
THEOREM MembersLevelExists == MembershipSpec => []LevelOfMemberExists
<1>1. MembershipInv => LevelOfMemberExists
  BY DEF MembershipInv
<1>2. QED
  BY <1>1, MembershipInvHolds, PTL

-----------------------------------------------------------------------------
(***************************************************************************)
(* Settings                                                                *)
(***************************************************************************)

\* What VerifiedWasVetted says of the row of the site, of any row.
Vetted(row) ==
  /\ row.verified => row.domain \in vetted
  /\ row.verified <=> row.ssl = "active"

SettingsInv ==
  /\ SettingsTypeOK
  /\ Vetted(site)
  /\ \A r \in Requests : Vetted(edit[r].row)
  /\ payout.exists => payout.account \in Accounts
  /\ EnabledWasApproved

(* Rows *)

LEMMA NoRows ==
  /\ NoSite \in SiteRow /\ Vetted(NoSite)
  /\ NoEdit \in EditState /\ Vetted(NoEdit.row)
  /\ NoPayout \in PayoutRow
  BY DEF NoSite, NoEdit, NoPayout, SiteRow, EditState, PayoutRow, Vetted

LEMMA SiteType ==
  ASSUME SettingsInv
  PROVE  /\ site \in SiteRow /\ Vetted(site)
         /\ siteConfig \in SiteRow /\ Vetted(siteConfig)
<1>1. site \in SiteRow /\ Vetted(site)
  BY DEF SettingsInv, SettingsTypeOK
<1>2. QED
  BY <1>1 DEF siteConfig, SiteRow, Vetted

\* A form that changes the domain takes the verification back.
LEMMA NewDomainIsVetted ==
  ASSUME NEW row \in SiteRow, Vetted(row), NEW d \in Domains \cup {None}
  PROVE  NewDomain(row, d) \in SiteRow /\ Vetted(NewDomain(row, d))
<1>1. CASE row.domain = d
  BY <1>1 DEF NewDomain
<1>2. CASE row.domain # d
  <2>1. PICK new : new = [row EXCEPT !.domain = d, !.verified = FALSE, !.ssl = "pending"]
    OBVIOUS
  <2>2. new \in SiteRow /\ ~new.verified /\ new.ssl = "pending"
    BY <2>1 DEF SiteRow
  <2>3. QED
    BY <1>2, <2>1, <2>2 DEF NewDomain, Vetted
<1>3. QED
  BY <1>1, <1>2

(* Steps *)

\* A request goes to a stage with a vetted row.
LEMMA EditMoves ==
  ASSUME SettingsInv, NEW r \in Requests, NEW s \in EditState, Vetted(s.row),
         edit' = [edit EXCEPT ![r] = s], UNCHANGED vetted
  PROVE  /\ edit' \in [Requests -> EditState]
         /\ \A q \in Requests : Vetted(edit[q].row)'
<1>1. edit \in [Requests -> EditState] /\ \A q \in Requests : Vetted(edit[q].row)
  BY DEF SettingsInv, SettingsTypeOK
<1>2. QED
  BY <1>1 DEF Vetted

LEMMA StartStep ==
  ASSUME SettingsInv, NEW r \in Requests, NEW pc \in {"save", "insert"},
         NEW row \in SiteRow, Vetted(row), EditStarts(r, pc, row),
         UNCHANGED <<site, vetted, payout, approved>>
  PROVE  SettingsInv'
<1>1. PICK s : s = [pc |-> pc, row |-> row]
  OBVIOUS
<1>2. s \in EditState /\ Vetted(s.row)
  BY <1>1 DEF EditState
<1>3. edit' = [edit EXCEPT ![r] = s]
  BY <1>1 DEF EditStarts
<1>4. QED
  BY <1>2, <1>3, EditMoves DEF SettingsInv, SettingsTypeOK, Vetted, EnabledWasApproved

\* SaveSite and InsertSite: the row of the site becomes the row of the form.
LEMMA SaveStep ==
  ASSUME SettingsInv, NEW r \in Requests, site' = edit[r].row,
         edit' = [edit EXCEPT ![r] = NoEdit], UNCHANGED <<vetted, payout, approved>>
  PROVE  SettingsInv'
<1>1. edit[r].row \in SiteRow /\ Vetted(edit[r].row)
  BY DEF SettingsInv, SettingsTypeOK, EditState
<1>2. site' \in SiteRow /\ Vetted(site)'
  BY <1>1 DEF Vetted
<1>3. QED
  BY <1>2, NoRows, EditMoves DEF SettingsInv, SettingsTypeOK, EnabledWasApproved

LEMMA EditSteps ==
  ASSUME SettingsInv, NEW r \in Requests, EditStep(r)
  PROVE  SettingsInv'
<1>1. ASSUME NEW d \in Domains \cup {None}, UpdateDomain(r, d) PROVE SettingsInv'
  BY <1>1, SiteType, NewDomainIsVetted, StartStep DEF UpdateDomain
<1>2. CASE UpdateOther(r)
  BY <1>2, SiteType, StartStep DEF UpdateOther
<1>3. CASE FindNoSite(r)
  BY <1>3, SiteType, StartStep DEF FindNoSite
<1>4. CASE SaveSite(r)
  BY <1>4, SaveStep DEF SaveSite, EditReturns
<1>5. CASE InsertSite(r)
  BY <1>5, SaveStep DEF InsertSite, EditReturns
<1>6. CASE EditFails(r)
  BY <1>6, NoRows, EditMoves
  DEF EditFails, SettingsInv, SettingsTypeOK, Vetted, EnabledWasApproved
<1>7. QED
  BY <1>1, <1>2, <1>3, <1>4, <1>5, <1>6 DEF EditStep

\* The platform verifies the domain that is in the row, or takes it out.
LEMMA PlatformStep ==
  ASSUME SettingsInv, Verify \/ Reject
  PROVE  SettingsInv'
<1>1. site \in SiteRow /\ vetted \subseteq Domains \cup {None}
  BY DEF SettingsInv, SettingsTypeOK
<1>2. CASE Verify
  <2>1. site' = [site EXCEPT !.verified = TRUE, !.ssl = "active"]
        /\ vetted' = vetted \cup {site.domain} /\ UNCHANGED <<edit, payout, approved>>
    BY <1>2 DEF Verify
  <2>2. /\ site' \in SiteRow /\ site'.verified /\ site'.ssl = "active"
        /\ site'.domain = site.domain
    BY <1>1, <2>1 DEF SiteRow
  <2>3. Vetted(site)'
    BY <2>1, <2>2 DEF Vetted
  <2>4. vetted' \subseteq Domains \cup {None}
    BY <1>1, <2>1 DEF SiteRow
  <2>5. \A r \in Requests : Vetted(edit[r].row)'
    BY <2>1 DEF SettingsInv, Vetted
  <2>6. QED
    BY <2>1, <2>2, <2>3, <2>4, <2>5 DEF SettingsInv, SettingsTypeOK, EnabledWasApproved
<1>3. CASE Reject
  <2>1. site' = [site EXCEPT !.domain = None, !.verified = FALSE, !.ssl = "none"]
        /\ UNCHANGED <<edit, vetted, payout, approved>>
    BY <1>3 DEF Reject
  <2>2. site' \in SiteRow /\ ~site'.verified /\ site'.ssl = "none"
    BY <1>1, <2>1 DEF SiteRow
  <2>3. Vetted(site)'
    BY <2>2 DEF Vetted
  <2>4. \A r \in Requests : Vetted(edit[r].row)'
    BY <2>1 DEF SettingsInv, Vetted
  <2>5. QED
    BY <2>1, <2>2, <2>3, <2>4 DEF SettingsInv, SettingsTypeOK, EnabledWasApproved
<1>4. QED
  BY <1>2, <1>3

\* Whoever submits an account is disabled, and only an approval enables.
LEMMA PayoutSteps ==
  ASSUME SettingsInv, PayoutStep
  PROVE  SettingsInv'
<1>1. /\ payout \in PayoutRow /\ approved \subseteq Accounts /\ EnabledWasApproved
      /\ payout.exists => payout.account \in Accounts
  BY DEF SettingsInv, SettingsTypeOK
<1>2. UNCHANGED <<site, edit, vetted>>
  BY DEF PayoutStep, SubmitPaymentConfig, AuditPayment
<1>3. ASSUME NEW a \in Accounts, SubmitPaymentConfig(a)
      PROVE  /\ payout' \in PayoutRow /\ approved' \subseteq Accounts /\ EnabledWasApproved'
             /\ payout'.exists => payout'.account \in Accounts
  BY <1>1, <1>3 DEF SubmitPaymentConfig, Submitted, PayoutRow, EnabledWasApproved
<1>4. CASE AuditPayment(TRUE)
  <2>1. /\ payout' = [payout EXCEPT !.status = "approved", !.enabled = TRUE]
        /\ approved' = approved \cup {payout.account} /\ payout.exists
    BY <1>4 DEF AuditPayment
  <2>2. payout' \in PayoutRow /\ payout'.account = payout.account
    BY <1>1, <2>1 DEF PayoutRow
  <2>3. QED
    BY <1>1, <1>2, <2>1, <2>2 DEF SettingsInv, SettingsTypeOK, Vetted, EnabledWasApproved
<1>5. CASE AuditPayment(FALSE)
  <2>1. payout' = [payout EXCEPT !.status = "rejected"] /\ approved' = approved
    BY <1>5 DEF AuditPayment
  <2>2. QED
    BY <1>1, <1>2, <2>1 DEF PayoutRow, EnabledWasApproved, SettingsInv, SettingsTypeOK, Vetted
<1>6. QED
  BY <1>2, <1>3, <1>4, <1>5 DEF PayoutStep, SettingsInv, SettingsTypeOK, Vetted

-----------------------------------------------------------------------------
LEMMA SettingsInvInit == SettingsInit => SettingsInv
  BY NoRows DEF SettingsInit, SettingsInv, SettingsTypeOK, EnabledWasApproved, NoPayout, Vetted

LEMMA SettingsInvStep == SettingsInv /\ [SettingsNext]_settingsVars => SettingsInv'
<1> SUFFICES ASSUME SettingsInv, [SettingsNext]_settingsVars PROVE SettingsInv'
  OBVIOUS
<1>1. CASE UNCHANGED settingsVars
  BY <1>1 DEF settingsVars, SettingsInv, SettingsTypeOK, Vetted, EnabledWasApproved
<1>2. QED
  BY <1>1, EditSteps, PlatformStep, PayoutSteps DEF SettingsNext

LEMMA SettingsInvHolds == SettingsSpec => []SettingsInv
  BY SettingsInvInit, SettingsInvStep, PTL DEF SettingsSpec

\* Every variable of the settings keeps its type.
THEOREM SettingsTypeCorrect == SettingsSpec => []SettingsTypeOK
<1>1. SettingsInv => SettingsTypeOK
  BY DEF SettingsInv
<1>2. QED
  BY <1>1, SettingsInvHolds, PTL

\* A verified domain was in the row when the platform verified it, whatever older
\* copies of the row the tenant's forms save.
THEOREM VerifiedIsVetted == SettingsSpec => []VerifiedWasVetted
<1>1. SettingsInv => VerifiedWasVetted
  BY DEF SettingsInv, Vetted, VerifiedWasVetted
<1>2. QED
  BY <1>1, SettingsInvHolds, PTL

\* An enabled account was in the row when the platform approved it.
THEOREM EnabledIsApproved == SettingsSpec => []EnabledWasApproved
<1>1. SettingsInv => EnabledWasApproved
  BY DEF SettingsInv
<1>2. QED
  BY <1>1, SettingsInvHolds, PTL

-----------------------------------------------------------------------------
(***************************************************************************)
(* Carriers                                                                *)
(***************************************************************************)

LEMMA NoCarrierIsRow == NoCarrier \in CarrierRow
  BY DEF NoCarrier, CarrierRow

LEMMA CarriersStep ==
  ASSUME CarriersTypeOK, [CarriersNext]_carrier
  PROVE  CarriersTypeOK'
<1>1. CASE UNCHANGED carrier
  BY <1>1 DEF CarriersTypeOK
<1>2. ASSUME NEW c \in Carriers, NEW row \in CarrierForms,
             CreateCarrier(c, row) \/ UpdateCarrier(c, row)
      PROVE  CarriersTypeOK'
  <2>1. PICK new : new = [row EXCEPT !.enabled = TRUE]
    OBVIOUS
  <2>2. row \in CarrierRow /\ new \in CarrierRow
    BY <2>1 DEF CarrierForms, CarrierRow
  <2>3. \/ carrier' = [carrier EXCEPT ![c] = new]
        \/ carrier' = [carrier EXCEPT ![c] = row]
    BY <1>2, <2>1 DEF CreateCarrier, UpdateCarrier
  <2>4. QED
    BY <2>2, <2>3 DEF CarriersTypeOK
<1>3. ASSUME NEW c \in Carriers, NEW enabled \in BOOLEAN, SetCarrierEnabled(c, enabled)
      PROVE  CarriersTypeOK'
  BY <1>3 DEF SetCarrierEnabled, CarriersTypeOK, CarrierRow
<1>4. ASSUME NEW c \in Carriers, DeleteCarrier(c) PROVE CarriersTypeOK'
  BY <1>4, NoCarrierIsRow DEF DeleteCarrier, CarriersTypeOK
<1>5. QED
  BY <1>1, <1>2, <1>3, <1>4 DEF CarriersNext

\* The table of carriers keeps its type.
THEOREM CarriersTypeCorrect == CarriersSpec => []CarriersTypeOK
<1>1. CarriersInit => CarriersTypeOK
  BY NoCarrierIsRow DEF CarriersInit, CarriersTypeOK
<1>2. QED
  BY <1>1, CarriersStep, PTL DEF CarriersSpec

-----------------------------------------------------------------------------
(***************************************************************************)
(* Reasons                                                                 *)
(***************************************************************************)

HasRow(l) == \E i \in Reasons : Live(i) /\ reason[i].label = l

\* What a call knows of its row and its label.
Aims(r) ==
  /\ chore[r].pc # "idle" => chore[r].label \in Labels
  /\ chore[r].pc \in {"count", "delete"} =>
       chore[r].row \in Reasons /\ reason[chore[r].row].state # "new"

\* Without overlap: the one call there is can rely on what it found.
Quiet ==
  /\ \A q, r \in Requests : chore[q].pc # "idle" /\ chore[r].pc # "idle" => q = r
  /\ \A r \in Requests :
       /\ chore[r].pc = "insert" => HasRow(chore[r].label)
       /\ chore[r].pc \in {"count", "delete"} /\ Live(chore[r].row) =>
            reason[chore[r].row].label = chore[r].label
       /\ chore[r].pc = "delete" => Unused(chore[r].label)
  /\ \A a \in Applications : application[a] # None => HasRow(application[a])

ReasonsInv ==
  /\ ReasonsTypeOK
  /\ \A i \in Reasons : Live(i) => reason[i].label \in Labels
  /\ \A r \in Requests : Aims(r)
  /\ disturbed \/ Quiet

LEMMA NoChoreIsState == NoChore \in ChoreState
  BY DEF NoChore, ChoreState

LEMMA ReasonsInvInit == ReasonsInit => ReasonsInv
<1>1. SUFFICES ASSUME ReasonsInit PROVE ReasonsInv
  OBVIOUS
<1>2. \A r \in Requests : chore[r].pc = "idle"
  BY <1>1 DEF ReasonsInit, NoChore
<1>3. ReasonsTypeOK
  BY <1>1, NoChoreIsState DEF ReasonsInit, ReasonsTypeOK, ReasonRow
<1>4. Quiet
  BY <1>1, <1>2 DEF ReasonsInit, Quiet
<1>5. QED
  BY <1>1, <1>2, <1>3, <1>4 DEF ReasonsInv, Aims, ReasonsInit, Live

\* Edits of the rows keep what calls know, unless they change a label.
LEMMA RowsGrow ==
  ASSUME ReasonsInv, reason' \in [Reasons -> ReasonRow],
         UNCHANGED <<application, chore>>, disturbed' \in BOOLEAN,
         disturbed => disturbed',
         \A i \in Reasons : reason'[i].state = "live" => reason'[i].label \in Labels,
         \A i \in Reasons : reason[i].state # "new" => reason'[i].state = reason[i].state,
         ~disturbed' => \A i \in Reasons : Live(i) => reason'[i].label = reason[i].label
  PROVE  ReasonsInv'
<1>1. ReasonsTypeOK'
  BY DEF ReasonsInv, ReasonsTypeOK
<1>2. \A r \in Requests : Aims(r)'
  BY DEF ReasonsInv, Aims
<1>3. ASSUME ~disturbed' PROVE Quiet'
  <2>1. Quiet
    BY <1>3 DEF ReasonsInv
  <2>2. \A i \in Reasons : Live(i) => Live(i)' /\ reason'[i].label = reason[i].label
    BY <1>3 DEF Live
  <2>3. \A l : HasRow(l) => HasRow(l)'
    BY <2>2 DEF HasRow
  <2>4. ASSUME NEW r \in Requests, chore[r].pc \in {"count", "delete"},
               Live(chore[r].row)'
        PROVE  reason'[chore[r].row].label = chore[r].label
    <3>1. chore[r].row \in Reasons /\ reason[chore[r].row].state # "new"
      BY <2>4 DEF ReasonsInv, Aims
    <3>2. Live(chore[r].row)
      BY <2>4, <3>1 DEF Live
    <3>3. QED
      BY <2>1, <2>2, <2>4, <3>1, <3>2 DEF Quiet
  <2>5. QED
    BY <2>1, <2>3, <2>4 DEF Quiet, Unused
<1>4. QED
  BY <1>1, <1>2, <1>3 DEF ReasonsInv, Live

LEMMA EditsOfReasons ==
  ASSUME ReasonsInv, NEW i \in Reasons, NEW l \in Labels, NEW enabled \in BOOLEAN,
         CreateReason(i, l) \/ UpdateReason(i, l, enabled)
  PROVE  ReasonsInv'
<1>1. /\ reason \in [Reasons -> ReasonRow] /\ disturbed \in BOOLEAN
      /\ \A j \in Reasons : reason[j].state = "live" => reason[j].label \in Labels
  BY DEF ReasonsInv, ReasonsTypeOK, Live
<1>2. CASE CreateReason(i, l)
  <2>1. PICK row : row = [state |-> "live", label |-> l, enabled |-> TRUE]
    OBVIOUS
  <2>2. row \in ReasonRow /\ row.label = l
    BY <2>1 DEF ReasonRow
  <2>3. /\ reason[i].state = "new" /\ reason' = [reason EXCEPT ![i] = row]
        /\ UNCHANGED <<application, chore, disturbed>>
    BY <1>2, <2>1 DEF CreateReason
  <2>4. QED
    BY <1>1, <2>2, <2>3, RowsGrow DEF Live
<1>3. CASE UpdateReason(i, l, enabled)
  <2>1. PICK row : row = [reason[i] EXCEPT !.label = l, !.enabled = enabled]
    OBVIOUS
  <2>2. row \in ReasonRow /\ row.state = reason[i].state /\ row.label = l
    BY <1>1, <2>1 DEF ReasonRow
  <2>3. /\ reason' = [reason EXCEPT ![i] = row]
        /\ disturbed' = (disturbed \/ l # reason[i].label)
        /\ UNCHANGED <<application, chore>>
    BY <1>1, <1>3, <2>1 DEF UpdateReason
  <2>4. QED
    BY <1>1, <2>2, <2>3, RowsGrow
<1>4. QED
  BY <1>2, <1>3

LEMMA SwitchingReasons ==
  ASSUME ReasonsInv, NEW i \in Reasons, NEW enabled \in BOOLEAN,
         SetReasonEnabled(i, enabled)
  PROVE  ReasonsInv'
<1>1. /\ reason \in [Reasons -> ReasonRow] /\ disturbed \in BOOLEAN
      /\ \A j \in Reasons : reason[j].state = "live" => reason[j].label \in Labels
  BY DEF ReasonsInv, ReasonsTypeOK, Live
<1>2. PICK row : row = [reason[i] EXCEPT !.enabled = enabled]
  OBVIOUS
<1>3. row \in ReasonRow /\ row.state = reason[i].state /\ row.label = reason[i].label
  BY <1>1, <1>2 DEF ReasonRow
<1>4. /\ reason' = [reason EXCEPT ![i] = row]
      /\ UNCHANGED <<application, chore, disturbed>>
  BY <1>1, <1>2 DEF SetReasonEnabled
<1>5. QED
  BY <1>1, <1>3, <1>4, RowsGrow

\* A call of an application or a deletion starts with what it has found.
LEMMA ChoreStartStep ==
  ASSUME ReasonsInv, NEW r \in Requests, NEW s \in ChoreState,
         ChoreStarts(r, s.pc, s.row, s.label), UNCHANGED <<reason, application>>,
         s.label \in Labels, HasRow(s.label),
         s.pc \in {"insert", "count"},
         s.pc = "count" => /\ s.row \in Reasons /\ reason[s.row].state # "new"
                           /\ reason[s.row].label = s.label
  PROVE  ReasonsInv'
<1>1. chore \in [Requests -> ChoreState] /\ disturbed \in BOOLEAN
  BY DEF ReasonsInv, ReasonsTypeOK
<1>2. /\ chore[r].pc = "idle" /\ chore' = [chore EXCEPT ![r] = s]
      /\ disturbed' = (disturbed \/ \E q \in Requests : chore[q].pc # "idle")
  <2>1. s = [pc |-> s.pc, row |-> s.row, label |-> s.label]
    BY DEF ChoreState
  <2>2. QED
    BY <2>1 DEF ChoreStarts
<1>3. ReasonsTypeOK'
  BY <1>1, <1>2 DEF ReasonsInv, ReasonsTypeOK
<1>4. \A q \in Requests : Aims(q)'
  BY <1>1, <1>2 DEF ReasonsInv, Aims
<1>5. ASSUME ~disturbed' PROVE Quiet'
  <2>1. Quiet /\ \A q \in Requests : chore[q].pc = "idle"
    BY <1>2, <1>5 DEF ReasonsInv
  <2>2. chore'[r] = s /\ \A q \in Requests : q # r => chore'[q].pc = "idle"
    BY <1>1, <1>2, <2>1
  <2>3. \A l : HasRow(l) => HasRow(l)'
    BY DEF HasRow, Live
  <2>4. \A a \in Applications : application'[a] # None => HasRow(application[a])'
    BY <2>1, <2>3 DEF Quiet
  <2>5. QED
    BY <2>2, <2>3, <2>4 DEF Quiet, Live
<1>6. QED
  BY <1>3, <1>4, <1>5 DEF ReasonsInv, Live

LEMMA ChoreStarting ==
  ASSUME ReasonsInv, NEW r \in Requests,
         \/ \E l \in Labels : CheckReason(r, l)
         \/ \E i \in Reasons : FindReason(r, i)
  PROVE  ReasonsInv'
<1>1. reason \in [Reasons -> ReasonRow] /\ \A l \in Labels : l # None
  BY ReasonsAssumption DEF ReasonsInv, ReasonsTypeOK
<1>2. ASSUME NEW l \in Labels, CheckReason(r, l) PROVE ReasonsInv'
  <2>1. PICK s : s = [pc |-> "insert", row |-> None, label |-> l]
    OBVIOUS
  <2>2. s \in ChoreState /\ s.pc = "insert" /\ s.row = None /\ s.label = l
    BY <2>1 DEF ChoreState
  <2>3. HasRow(l)
    BY <1>2 DEF CheckReason, IsReasonEnabled, HasRow
  <2>4. QED
    BY <1>2, <2>2, <2>3, ChoreStartStep DEF CheckReason
<1>3. ASSUME NEW i \in Reasons, FindReason(r, i) PROVE ReasonsInv'
  <2>1. reason[i].state = "live" /\ reason[i].label \in Labels \cup {None}
    BY <1>1, <1>3 DEF FindReason, Live, ReasonRow
  <2>2. PICK s : s = [pc |-> "count", row |-> i, label |-> reason[i].label]
    OBVIOUS
  <2>3. s \in ChoreState /\ s.pc = "count" /\ s.row = i /\ s.label = reason[i].label
    BY <2>1, <2>2 DEF ChoreState
  <2>4. HasRow(s.label)
    BY <2>1, <2>3 DEF HasRow, Live
  <2>5. s.label \in Labels
    BY <1>3, <2>1, <2>3 DEF ReasonsInv, FindReason
  <2>6. QED
    BY <1>3, <2>1, <2>3, <2>4, <2>5, ChoreStartStep DEF FindReason
<1>4. QED
  BY <1>2, <1>3

\* A call ends, and has done to the rows and the applications what Quiet allows.
LEMMA ChoreEndStep ==
  ASSUME ReasonsInv, NEW r \in Requests, chore[r].pc # "idle",
         ChoreReturns(r, chore[r].pc),
         reason' \in [Reasons -> ReasonRow],
         application' \in [Applications -> Labels \cup {None}],
         \A i \in Reasons : reason[i].state # "new" => reason'[i].state # "new",
         \A i \in Reasons : reason'[i].state = "live" => reason'[i].label \in Labels,
         Quiet => \A a \in Applications : application'[a] # None => HasRow(application[a])'
  PROVE  ReasonsInv'
<1>1. /\ chore \in [Requests -> ChoreState] /\ disturbed \in BOOLEAN
      /\ chore' = [chore EXCEPT ![r] = NoChore] /\ UNCHANGED disturbed
  BY DEF ReasonsInv, ReasonsTypeOK, ChoreReturns
<1>2. ReasonsTypeOK'
  BY <1>1, NoChoreIsState DEF ReasonsTypeOK
<1>3. NoChore.pc = "idle"
  BY DEF NoChore
<1>4. \A q \in Requests : Aims(q)'
  BY <1>1, <1>3 DEF ReasonsInv, Aims
<1>5. ASSUME ~disturbed' PROVE Quiet'
  <2>1. Quiet
    BY <1>1, <1>5 DEF ReasonsInv
  <2>2. \A q \in Requests : chore'[q].pc = "idle"
    BY <1>1, <1>3, <2>1 DEF Quiet
  <2>3. QED
    BY <2>1, <2>2 DEF Quiet
<1>6. QED
  BY <1>2, <1>4, <1>5 DEF ReasonsInv, Live

LEMMA ChoreEnding ==
  ASSUME ReasonsInv, NEW r \in Requests,
         \/ \E a \in Applications : InsertApplication(r, a)
         \/ DeleteReason(r) \/ ChoreFails(r)
  PROVE  ReasonsInv'
<1>1. /\ reason \in [Reasons -> ReasonRow] /\ Aims(r)
      /\ application \in [Applications -> Labels \cup {None}]
      /\ \A j \in Reasons : reason[j].state = "live" => reason[j].label \in Labels
  BY DEF ReasonsInv, ReasonsTypeOK, Live
<1>2. ASSUME NEW a \in Applications, InsertApplication(r, a) PROVE ReasonsInv'
  <2>1. /\ chore[r].pc = "insert" /\ ChoreReturns(r, chore[r].pc)
        /\ application' = [application EXCEPT ![a] = chore[r].label] /\ reason' = reason
    BY <1>2 DEF InsertApplication, ChoreReturns
  <2>2. application' \in [Applications -> Labels \cup {None}]
    BY <1>1, <2>1 DEF Aims
  <2>3. ASSUME Quiet, NEW b \in Applications, application'[b] # None
        PROVE  HasRow(application[b])'
    <3>1. \A l : HasRow(l) => HasRow(l)'
      BY <2>1 DEF HasRow, Live
    <3>2. CASE b = a
      BY <1>1, <2>1, <2>3, <3>1, <3>2 DEF Quiet
    <3>3. CASE b # a
      BY <1>1, <2>1, <2>3, <3>1, <3>3 DEF Quiet
    <3>4. QED
      BY <3>2, <3>3
  <2>4. QED
    BY <1>1, <2>1, <2>2, <2>3, ChoreEndStep
<1>3. CASE DeleteReason(r)
  <2>1. PICK row : row = [state |-> "gone", label |-> None, enabled |-> FALSE]
    OBVIOUS
  <2>2. row \in ReasonRow /\ row.state = "gone"
    BY <2>1 DEF ReasonRow
  <2>3. PICK i : i = chore[r].row
    OBVIOUS
  <2>4. /\ chore[r].pc = "delete" /\ ChoreReturns(r, chore[r].pc)
        /\ reason' = [reason EXCEPT ![i] = row] /\ application' = application
    BY <1>3, <2>1, <2>3 DEF DeleteReason, ChoreReturns
  <2>5. i \in Reasons
    BY <1>1, <2>3, <2>4 DEF Aims
  <2>6. ASSUME Quiet, NEW a \in Applications, application'[a] # None
        PROVE  HasRow(application[a])'
    <3>1. HasRow(application[a]) /\ application[a] # chore[r].label
      BY <2>4, <2>6 DEF Quiet, Unused
    <3>2. PICK j \in Reasons : Live(j) /\ reason[j].label = application[a]
      BY <3>1 DEF HasRow
    <3>3. j # i
      BY <2>3, <2>4, <2>6, <3>1, <3>2 DEF Quiet
    <3>4. Live(j)' /\ reason'[j].label = application'[a]
      BY <1>1, <2>4, <3>2, <3>3 DEF Live
    <3>5. QED
      BY <3>4 DEF HasRow
  <2>7. QED
    BY <1>1, <2>2, <2>4, <2>5, <2>6, ChoreEndStep
<1>4. CASE ChoreFails(r)
  <2>1. /\ chore[r].pc # "idle" /\ ChoreReturns(r, chore[r].pc)
        /\ UNCHANGED <<reason, application>>
    BY <1>4 DEF ChoreFails
  <2>2. ASSUME Quiet, NEW a \in Applications, application'[a] # None
        PROVE  HasRow(application[a])'
    BY <2>1, <2>2 DEF Quiet, HasRow, Live
  <2>3. QED
    BY <1>1, <2>1, <2>2, ChoreEndStep
<1>5. QED
  BY <1>2, <1>3, <1>4

\* A deletion that counts no use goes on.
LEMMA CountReasons ==
  ASSUME ReasonsInv, NEW r \in Requests, CountUsage(r)
  PROVE  ReasonsInv'
<1>1. chore \in [Requests -> ChoreState] /\ Aims(r)
  BY DEF ReasonsInv, ReasonsTypeOK
<1>2. PICK s : s = [chore[r] EXCEPT !.pc = "delete"]
  OBVIOUS
<1>3. /\ s \in ChoreState /\ s.pc = "delete"
      /\ s.row = chore[r].row /\ s.label = chore[r].label
  BY <1>1, <1>2 DEF ChoreState
<1>4. /\ chore[r].pc = "count" /\ Unused(chore[r].label)
      /\ chore' = [chore EXCEPT ![r] = s]
      /\ UNCHANGED <<reason, application, disturbed>>
  BY <1>1, <1>2 DEF CountUsage
<1>5. ReasonsTypeOK'
  BY <1>1, <1>3, <1>4 DEF ReasonsInv, ReasonsTypeOK
<1>6. \A q \in Requests : Aims(q)'
  BY <1>1, <1>3, <1>4 DEF ReasonsInv, Aims
<1>7. ASSUME ~disturbed' PROVE Quiet'
  <2>1. Quiet
    BY <1>4, <1>7 DEF ReasonsInv
  <2>2. \A q \in Requests : q # r => chore'[q].pc = "idle"
    BY <1>1, <1>4, <2>1 DEF Quiet
  <2>3. chore'[r] = s
    BY <1>1, <1>4
  <2>4. \A l : HasRow(l) => HasRow(l)'
    BY <1>4 DEF HasRow, Live
  <2>5. Live(s.row)' => reason'[s.row].label = s.label
    BY <1>3, <1>4, <2>1 DEF Quiet, Live
  <2>6. Unused(s.label)'
    BY <1>3, <1>4 DEF Unused
  <2>7. \A a \in Applications : application'[a] # None => HasRow(application[a])'
    BY <1>4, <2>1, <2>4 DEF Quiet
  <2>8. QED
    BY <1>3, <2>2, <2>3, <2>5, <2>6, <2>7 DEF Quiet
<1>8. QED
  BY <1>4, <1>5, <1>6, <1>7 DEF ReasonsInv, Live

LEMMA ReasonsInvStep == ReasonsInv /\ [ReasonsNext]_reasonsVars => ReasonsInv'
<1> SUFFICES ASSUME ReasonsInv, [ReasonsNext]_reasonsVars PROVE ReasonsInv'
  OBVIOUS
<1>1. CASE UNCHANGED reasonsVars
  BY <1>1 DEF reasonsVars, ReasonsInv, ReasonsTypeOK, Aims, Quiet, HasRow, Live, Unused
<1>2. ASSUME NEW r \in Requests, ChoreStep(r) PROVE ReasonsInv'
  BY <1>2, ChoreStarting, ChoreEnding, CountReasons DEF ChoreStep
<1>3. ASSUME NEW i \in Reasons, NEW l \in Labels, CreateReason(i, l) PROVE ReasonsInv'
  BY <1>3, EditsOfReasons
<1>4. ASSUME NEW i \in Reasons, NEW l \in Labels, NEW enabled \in BOOLEAN,
             UpdateReason(i, l, enabled)
      PROVE  ReasonsInv'
  BY <1>4, EditsOfReasons
<1>5. ASSUME NEW i \in Reasons, NEW enabled \in BOOLEAN, SetReasonEnabled(i, enabled)
      PROVE  ReasonsInv'
  BY <1>5, SwitchingReasons
<1>6. QED
  BY <1>1, <1>2, <1>3, <1>4, <1>5 DEF ReasonsNext

LEMMA ReasonsInvHolds == ReasonsSpec => []ReasonsInv
  BY ReasonsInvInit, ReasonsInvStep, PTL DEF ReasonsSpec

\* Every variable of the reasons keeps its type.
THEOREM ReasonsTypeCorrect == ReasonsSpec => []ReasonsTypeOK
<1>1. ReasonsInv => ReasonsTypeOK
  BY DEF ReasonsInv
<1>2. QED
  BY <1>1, ReasonsInvHolds, PTL

\* While calls do not overlap and no label is edited, the deletion of a reason leaves
\* every after-sale a row with its reason.
THEOREM UsedReasonKeepsRow == ReasonsSpec => []UsedReasonHasRow
<1>1. ReasonsInv => UsedReasonHasRow
  BY DEF ReasonsInv, Quiet, HasRow, UsedReasonHasRow
<1>2. QED
  BY <1>1, ReasonsInvHolds, PTL

-----------------------------------------------------------------------------
(***************************************************************************)
(* Regions                                                                 *)
(***************************************************************************)

\* What the stage of a request says of the regions it names.
Surveying(s) ==
  /\ {s.self, s.at, s.row.parent} \subseteq given \cup {None}
  /\ s.pc = "parent" => s.at = s.row.parent
  /\ s.pc \in {"parent", "climb", "delete"} => s.at # None
  /\ s.pc = "save" => s.at = None

\* The regions W that an Update has walked up: its own is not among them, and
\* their parents are, but for the ancestor it reads next.
Walked(s, W) ==
  /\ s.self \notin W /\ s.self # s.at
  /\ s.row.parent \in W \cup {s.at}
  /\ \A p \in W : region[p].parent \in W \cup {s.at, None}
Walking(s) == s.self # None => \E W \in SUBSET given : Walked(s, W)

OneUpdate ==
  \A q, r \in Requests : survey[q].self # None /\ survey[r].self # None => q = r
ParentsAreGiven == \A p \in Places : region[p].parent \in given \cup {None}

\* As long as Updates came one after the other, the one in flight knows that its
\* region is not above the parent it is going to write.
RegionsInv ==
  /\ RegionsTypeOK
  /\ ParentsAreGiven
  /\ \A r \in Requests : Surveying(survey[r])
  /\ ~raced => NoCircle
  /\ ~raced => OneUpdate /\ \A r \in Requests : Walking(survey[r])

LEMMA NoSurveyType ==
  /\ NoSurvey \in SurveyState /\ Surveying(NoSurvey)
  /\ NoRegion \in RegionRow
  /\ NoSurvey.self = None /\ NoSurvey.pc = "idle"
  BY DEF NoSurvey, NoRegion, SurveyState, RegionRow, Surveying

\* A request goes on in a way that its stage allows, and nothing is written.
LEMMA SurveyMoves ==
  ASSUME RegionsInv, NEW r \in Requests, NEW s \in SurveyState, Surveying(s),
         survey' = [survey EXCEPT ![r] = s], UNCHANGED <<region, given>>,
         raced' \in BOOLEAN, raced => raced',
         ~raced' => Walking(s),
         raced' \/ s.self = None \/ \A q \in Requests \ {r} : survey[q].self = None
  PROVE  RegionsInv'
<1>1. /\ survey \in [Requests -> SurveyState]
      /\ survey' \in [Requests -> SurveyState]
      /\ survey'[r] = s /\ \A q \in Requests \ {r} : survey'[q] = survey[q]
  BY DEF RegionsInv, RegionsTypeOK
<1>2. RegionsTypeOK' /\ ParentsAreGiven'
  BY <1>1 DEF RegionsInv, RegionsTypeOK, ParentsAreGiven
<1>3. \A q \in Requests : Surveying(survey[q])'
  BY <1>1 DEF RegionsInv, Surveying
<1>4. ~raced' => NoCircle'
  BY DEF RegionsInv, NoCircle, Circle, Exists
<1>5. ASSUME ~raced'
      PROVE  OneUpdate' /\ \A q \in Requests : Walking(survey[q])'
  <2>1. OneUpdate /\ \A q \in Requests : Walking(survey[q])
    BY <1>5 DEF RegionsInv
  <2>2. OneUpdate'
    BY <1>1, <1>5, <2>1 DEF OneUpdate
  <2>3. ASSUME NEW q \in Requests
        PROVE  Walking(survey[q])'
    <3>1. PICK t : t = survey'[q]
      OBVIOUS
    <3>2. Walking(t)
      BY <1>1, <1>5, <2>1, <3>1
    <3>3. QED
      BY <3>1, <3>2 DEF Walking, Walked
  <2>4. QED
    BY <2>2, <2>3
<1>6. QED
  BY <1>2, <1>3, <1>4, <1>5 DEF RegionsInv

\* The same for a request that stays the Update, or none, that it is.
LEMMA SurveyGoesOn ==
  ASSUME RegionsInv, NEW r \in Requests, NEW s \in SurveyState, Surveying(s),
         survey' = [survey EXCEPT ![r] = s], UNCHANGED <<region, given, raced>>,
         s.self \in {survey[r].self, None},
         ~raced => Walking(s)
  PROVE  RegionsInv'
<1>1. raced' \in BOOLEAN
  BY DEF RegionsInv, RegionsTypeOK
<1>2. raced' \/ s.self = None \/ \A q \in Requests \ {r} : survey[q].self = None
  BY DEF RegionsInv, OneUpdate
<1>3. QED
  BY <1>1, <1>2, SurveyMoves

\* What a request begins with.
LEMMA SurveyedType ==
  ASSUME RegionsInv, NEW self \in given \cup {None}, NEW p \in given \cup {None},
         NEW s, s = Surveyed(self, p)
  PROVE  /\ s \in SurveyState /\ Surveying(s) /\ s.self = self
         /\ self # p => Walking(s)
<1>1. /\ s.self = self /\ s.at = p
      /\ s.row = [level |-> 1, parent |-> p]
      /\ s.pc = IF p = None THEN "save" ELSE "parent"
  BY DEF Surveyed
<1>2. given \subseteq Places
  BY DEF RegionsInv, RegionsTypeOK
<1>3. s.row \in RegionRow /\ s.row.parent = p
  BY <1>1, <1>2 DEF RegionRow
<1>4. s \in SurveyState
  BY <1>2, <1>3 DEF Surveyed, SurveyState, RegionRow
<1>5. Surveying(s)
  BY <1>1, <1>3 DEF Surveying
<1>6. self # p => Walked(s, {})
  BY <1>1, <1>3 DEF Walked
<1>7. QED
  BY <1>1, <1>4, <1>5, <1>6 DEF Walking

\* One turn of the loop takes the Update one region further up.
LEMMA ClimbedWalks ==
  ASSUME RegionsInv, NEW s \in SurveyState, Surveying(s), s.pc \in {"parent", "climb"},
         s.self # None => ~ReachesSelf(s),
         NEW depth \in 0..3,
         NEW t, t \in {Climbed(s), [Climbed(s) EXCEPT !.row.level = depth]}
  PROVE  /\ t \in SurveyState /\ Surveying(t) /\ t.self = s.self
         /\ Walking(s) => Walking(t)
<1>1. s.at \in given /\ given \subseteq Places
  BY DEF Surveying, RegionsInv, RegionsTypeOK
<1>2. PICK up \in given \cup {None} : up = region[s.at].parent
  BY <1>1 DEF RegionsInv, ParentsAreGiven
<1>3. PICK pc \in {"save", "climb"} : pc = IF up = None THEN "save" ELSE "climb"
  OBVIOUS
<1>4. Climbed(s) = [s EXCEPT !.pc = pc, !.at = up]
  BY <1>2, <1>3 DEF Climbed
<1>5. PICK c : c = Climbed(s)
  OBVIOUS
<1>6. c \in SurveyState /\ c.pc = pc /\ c.at = up /\ c.self = s.self /\ c.row = s.row
  BY <1>1, <1>4, <1>5 DEF SurveyState
<1>7. /\ t \in SurveyState /\ t.pc = pc /\ t.at = up /\ t.self = s.self
      /\ t.row.parent = s.row.parent
  BY <1>5, <1>6 DEF SurveyState, RegionRow
<1>8. Surveying(t)
  BY <1>3, <1>7 DEF Surveying
<1>9. ASSUME Walking(s), t.self # None
      PROVE  Walking(t)
  <2>1. PICK W \in SUBSET given : Walked(s, W)
    BY <1>7, <1>9 DEF Walking
  <2>2. PICK V \in SUBSET given : V = W \cup {s.at}
    BY <1>1
  <2>3. s.self \notin V /\ s.self # up
    BY <1>2, <1>7, <1>9, <2>1, <2>2 DEF Walked, ReachesSelf
  <2>4. s.row.parent \in V
    BY <2>1, <2>2 DEF Walked
  <2>5. \A p \in V : region[p].parent \in V \cup {up, None}
    BY <1>2, <2>1, <2>2 DEF Walked
  <2>6. Walked(t, V)
    BY <1>7, <2>3, <2>4, <2>5 DEF Walked
  <2>7. QED
    BY <2>6 DEF Walking
<1>10. QED
  BY <1>7, <1>8, <1>9 DEF Walking

LEMMA RegionReads ==
  ASSUME RegionsInv, NEW r \in Requests, ReadParentRegion(r) \/ ReadAncestor(r)
  PROVE  RegionsInv'
<1>1. PICK s \in SurveyState : s = survey[r]
  BY DEF RegionsInv, RegionsTypeOK
<1>2. /\ Surveying(s) /\ s.pc \in {"parent", "climb"}
      /\ s.self # None => ~ReachesSelf(s)
      /\ ~raced => Walking(s)
      /\ UNCHANGED <<region, given, raced>>
  BY <1>1 DEF RegionsInv, ReadParentRegion, ReadAncestor
<1>3. PICK depth \in 0..3 :
        \E t \in {Climbed(s), [Climbed(s) EXCEPT !.row.level = depth]} :
          survey' = [survey EXCEPT ![r] = t]
  <2>1. CASE ReadAncestor(r)
    <3>1. 0 \in 0..3
      OBVIOUS
    <3>2. QED
      BY <1>1, <2>1, <3>1 DEF ReadAncestor
  <2>2. CASE ReadParentRegion(r)
    <3>1. s.at \in Places /\ TakesChildren(s.at)
      BY <1>1, <1>2, <2>2 DEF ReadParentRegion, Surveying, RegionsInv, RegionsTypeOK
    <3>2. region[s.at].level \in 0..3
      BY <3>1 DEF RegionsInv, RegionsTypeOK, RegionRow
    <3>3. region[s.at].level + 1 \in 0..3
      BY <3>1, <3>2 DEF TakesChildren
    <3>4. QED
      BY <1>1, <2>2, <3>3 DEF ReadParentRegion
  <2>3. QED
    BY <2>1, <2>2
<1>4. PICK t : /\ t \in {Climbed(s), [Climbed(s) EXCEPT !.row.level = depth]}
               /\ survey' = [survey EXCEPT ![r] = t]
  BY <1>3
<1>5. /\ t \in SurveyState /\ Surveying(t) /\ t.self = s.self
      /\ Walking(s) => Walking(t)
  BY <1>2, <1>4, ClimbedWalks
<1>6. QED
  BY <1>1, <1>2, <1>4, <1>5, SurveyGoesOn

LEMMA RegionBegins ==
  ASSUME RegionsInv, NEW r \in Requests,
         \/ \E p \in given \cup {None} : CreateRegion(r, p)
         \/ \E self \in given, p \in given \cup {None} : UpdateRegion(r, self, p)
  PROVE  RegionsInv'
<1>1. ASSUME NEW p \in given \cup {None}, CreateRegion(r, p)
      PROVE  RegionsInv'
  <2>1. PICK s : s = Surveyed(None, p)
    OBVIOUS
  <2>2. s \in SurveyState /\ Surveying(s) /\ s.self = None
    BY <2>1, SurveyedType
  <2>3. Walking(s)
    BY <2>2 DEF Walking
  <2>4. QED
    BY <1>1, <2>1, <2>2, <2>3, SurveyGoesOn DEF CreateRegion
<1>2. ASSUME NEW self \in given, NEW p \in given \cup {None}, UpdateRegion(r, self, p)
      PROVE  RegionsInv'
  <2>1. PICK s : s = Surveyed(self, p)
    OBVIOUS
  <2>2. s \in SurveyState /\ Surveying(s) /\ Walking(s)
    BY <1>2, <2>1, SurveyedType DEF UpdateRegion
  <2>3. /\ survey' = [survey EXCEPT ![r] = s] /\ UNCHANGED <<region, given>>
        /\ raced' = (raced \/ \E q \in Requests \ {r} : survey[q].self # None)
    BY <1>2, <2>1 DEF UpdateRegion
  <2>4. raced' \in BOOLEAN /\ (raced => raced')
    BY <2>3 DEF RegionsInv, RegionsTypeOK
  <2>5. raced' \/ \A q \in Requests \ {r} : survey[q].self = None
    BY <2>3
  <2>6. QED
    BY <2>2, <2>3, <2>4, <2>5, SurveyMoves
<1>3. QED
  BY <1>1, <1>2

LEMMA RegionReturns ==
  ASSUME RegionsInv, NEW r \in Requests,
         SurveyFails(r) \/ \E p \in given : CountChildren(r, p)
  PROVE  RegionsInv'
<1>1. CASE SurveyFails(r)
  BY <1>1, NoSurveyType, SurveyGoesOn DEF SurveyFails, Walking
<1>2. ASSUME NEW p \in given, CountChildren(r, p)
      PROVE  RegionsInv'
  <2>1. PICK s : s = [NoSurvey EXCEPT !.pc = "delete", !.at = p]
    OBVIOUS
  <2>2. s.pc = "delete" /\ s.at = p /\ s.self = None /\ s.row.parent = None
    BY <2>1 DEF NoSurvey, NoRegion
  <2>3. p \in Places
    BY DEF RegionsInv, RegionsTypeOK
  <2>4. s \in SurveyState
    BY <2>1, <2>3, NoSurveyType DEF SurveyState, NoSurvey, RegionRow
  <2>5. Surveying(s) /\ Walking(s)
    BY <2>2, <2>3 DEF Surveying, Walking
  <2>6. QED
    BY <1>2, <2>1, <2>2, <2>4, <2>5, SurveyGoesOn DEF CountChildren
<1>3. QED
  BY <1>1, <1>2

\* A request writes a row and is done.  What every other Update knows is still
\* true when the row's parent is one of the given regions and the row is not one
\* an Update has walked, or has no parent.
LEMMA RegionWrites ==
  ASSUME RegionsInv, NEW r \in Requests, survey' = [survey EXCEPT ![r] = NoSurvey],
         NEW p \in Places, NEW row \in RegionRow, region' = [region EXCEPT ![p] = row],
         given \subseteq given', given' \subseteq Places,
         row.parent \in given \cup {None},
         UNCHANGED raced,
         ~raced => p \notin given \/ row.parent = None \/ survey[r].self # None,
         ~raced => NoCircle'
  PROVE  RegionsInv'
<1>1. /\ survey \in [Requests -> SurveyState]
      /\ survey' \in [Requests -> SurveyState]
      /\ survey'[r] = NoSurvey /\ \A q \in Requests \ {r} : survey'[q] = survey[q]
  BY NoSurveyType DEF RegionsInv, RegionsTypeOK
<1>2. /\ region' \in [Places -> RegionRow]
      /\ region'[p] = row /\ \A x \in Places \ {p} : region'[x] = region[x]
  BY DEF RegionsInv, RegionsTypeOK
<1>3. RegionsTypeOK'
  BY <1>1, <1>2 DEF RegionsInv, RegionsTypeOK
<1>4. ParentsAreGiven'
  BY <1>2 DEF RegionsInv, ParentsAreGiven
<1>5. ASSUME NEW q \in Requests
      PROVE  Surveying(survey[q])'
  <2>1. PICK s : s = survey'[q]
    OBVIOUS
  <2>2. Surveying(s)
    BY <1>1, <2>1, NoSurveyType DEF RegionsInv
  <2>3. QED
    BY <2>1, <2>2 DEF Surveying
<1>6. ASSUME ~raced'
      PROVE  OneUpdate' /\ \A q \in Requests : Walking(survey[q])'
  <2>1. OneUpdate /\ \A q \in Requests : Walking(survey[q])
    BY <1>6 DEF RegionsInv
  <2>2. OneUpdate'
    BY <1>1, <2>1, NoSurveyType DEF OneUpdate
  <2>3. ASSUME NEW q \in Requests, survey'[q].self # None
        PROVE  Walking(survey[q])'
    <3>1. PICK s : s = survey[q] /\ s = survey'[q] /\ q # r
      BY <1>1, <2>3, NoSurveyType
    <3>2. PICK W \in SUBSET given : Walked(s, W)
      BY <2>1, <2>3, <3>1 DEF Walking
    <3>3. p \notin given \/ row.parent = None
      BY <1>6, <2>1, <2>3, <3>1 DEF OneUpdate
    <3>4. \A x \in W : region'[x].parent \in {region[x].parent, None}
      BY <1>2, <3>3 DEF RegionsInv, RegionsTypeOK
    <3>5. W \in SUBSET given' /\ Walked(s, W)'
      BY <3>2, <3>4 DEF Walked
    <3>6. QED
      BY <3>1, <3>5 DEF Walking
  <2>4. QED
    BY <2>2, <2>3 DEF Walking
<1>7. QED
  BY <1>3, <1>4, <1>5, <1>6 DEF RegionsInv

\* A region that nothing is below, and one that is below nothing that is there,
\* closes no circle.
LEMMA RegionDeletes ==
  ASSUME RegionsInv, NEW r \in Requests, DeleteRegion(r)
  PROVE  RegionsInv'
<1>1. PICK p \in Places : p = survey[r].at
  BY DEF DeleteRegion, SurveyReturns, RegionsInv, RegionsTypeOK, Surveying
<1>2. /\ survey' = [survey EXCEPT ![r] = NoSurvey]
      /\ region' = [region EXCEPT ![p] = NoRegion]
      /\ UNCHANGED <<given, raced>>
  BY <1>1 DEF DeleteRegion, SurveyReturns
<1>3. NoRegion \in RegionRow /\ NoRegion.parent = None /\ NoRegion.level = 0
  BY NoSurveyType DEF NoRegion
<1>4. ASSUME NEW S \in SUBSET Places, S # {}, Circle(S)', ~raced
      PROVE  FALSE
  <2>1. p \notin S
    BY <1>2, <1>3, <1>4 DEF Circle, Exists, RegionsInv, RegionsTypeOK
  <2>2. \A x \in S : region'[x] = region[x]
    BY <1>2, <2>1 DEF RegionsInv, RegionsTypeOK
  <2>3. Circle(S)
    BY <1>4, <2>2 DEF Circle, Exists
  <2>4. QED
    BY <1>4, <2>3 DEF RegionsInv, NoCircle
<1>5. ~raced => NoCircle'
  BY <1>4 DEF NoCircle
<1>6. given \subseteq Places
  BY DEF RegionsInv, RegionsTypeOK
<1>7. QED
  BY <1>2, <1>3, <1>5, <1>6, RegionWrites

LEMMA RegionSaves ==
  ASSUME RegionsInv, NEW r \in Requests, SaveRegion(r)
  PROVE  RegionsInv'
<1>1. PICK s \in SurveyState : s = survey[r]
  BY DEF RegionsInv, RegionsTypeOK
<1>2. s.pc = "save" /\ Surveying(s) /\ survey' = [survey EXCEPT ![r] = NoSurvey]
  BY <1>1 DEF SaveRegion, SurveyReturns, RegionsInv
<1>3. PICK p \in IF s.self = None THEN Places \ given ELSE {s.self} :
        region' = [region EXCEPT ![p] = s.row] /\ given' = given \cup {p}
  BY <1>1 DEF SaveRegion
<1>4. given \subseteq Places /\ raced' = raced
  BY DEF RegionsInv, RegionsTypeOK, SaveRegion
<1>5. p \in Places /\ (s.self = None => p \notin given) /\ (s.self # None => p = s.self)
  BY <1>2, <1>3, <1>4 DEF Surveying
<1>6. s.row \in RegionRow /\ s.row.parent \in given \cup {None}
  BY <1>2 DEF SurveyState, Surveying
<1>7. region'[p] = s.row /\ \A x \in Places \ {p} : region'[x] = region[x]
  BY <1>3, <1>5 DEF RegionsInv, RegionsTypeOK
<1>8. ASSUME NEW S \in SUBSET Places, S # {}, Circle(S)', ~raced
      PROVE  FALSE
  <2>1. \A T \in SUBSET Places : T # {} => ~Circle(T)
    BY <1>8 DEF RegionsInv, NoCircle
  <2>2. p \in S
    <3>1. CASE p \notin S
      <4>1. \A x \in S : region'[x] = region[x]
        BY <1>7, <3>1
      <4>2. Circle(S)
        BY <1>8, <4>1 DEF Circle, Exists
      <4>3. QED
        BY <1>8, <2>1, <4>2
    <3>2. QED
      BY <3>1
  <2>3. CASE s.self = None
    <3>1. p \notin given
      BY <1>5, <2>3
    <3>2. \A x \in S : region'[x].parent \in given \cup {None}
      BY <1>6, <1>7 DEF RegionsInv, ParentsAreGiven
    <3>3. PICK T \in SUBSET Places : T = S \ {p}
      OBVIOUS
    <3>4. \A x \in S : region'[x].parent \in T
      BY <1>4, <1>8, <3>1, <3>2, <3>3 DEF Circle
    <3>5. T # {} /\ \A x \in T : region'[x] = region[x]
      BY <1>7, <2>2, <3>3, <3>4
    <3>6. Circle(T)
      BY <1>8, <3>3, <3>4, <3>5 DEF Circle, Exists
    <3>7. QED
      BY <2>1, <3>5, <3>6
  <2>4. CASE s.self # None
    <3>1. PICK W \in SUBSET given : Walked(s, W)
      BY <1>1, <1>8, <2>4 DEF RegionsInv, Walking
    <3>2. /\ p \notin W /\ s.row.parent \in W \cup {None}
          /\ \A x \in W : region[x].parent \in W \cup {None}
      BY <1>2, <1>5, <2>4, <3>1 DEF Walked, Surveying
    <3>3. PICK T \in SUBSET Places : T = S \cap W
      OBVIOUS
    <3>4. s.row.parent \in T
      BY <1>7, <1>8, <2>2, <3>2, <3>3 DEF Circle
    <3>5. \A x \in T : region'[x] = region[x]
      BY <1>4, <1>7, <3>2, <3>3
    <3>6. ASSUME NEW x \in T
          PROVE  Exists(x) /\ region[x].parent \in T
      <4>1. Exists(x) /\ region[x].parent \in S
        BY <1>8, <3>3, <3>5 DEF Circle, Exists
      <4>2. region[x].parent \in W
        BY <3>2, <3>3, <4>1
      <4>3. QED
        BY <3>3, <4>1, <4>2
    <3>7. Circle(T)
      BY <3>6 DEF Circle
    <3>8. QED
      BY <2>1, <3>4, <3>7
  <2>5. QED
    BY <2>3, <2>4
<1>9. ~raced => NoCircle'
  BY <1>8 DEF NoCircle
<1>10. given \subseteq given' /\ given' \subseteq Places
  BY <1>3, <1>4, <1>5
<1>11. ~raced => p \notin given \/ s.row.parent = None \/ survey[r].self # None
  BY <1>1, <1>5
<1>12. QED
  BY <1>2, <1>3, <1>4, <1>5, <1>6, <1>9, <1>10, <1>11, RegionWrites

LEMMA RegionsStep ==
  ASSUME RegionsInv, [RegionsNext]_regionsVars
  PROVE  RegionsInv'
<1>1. ASSUME NEW r \in Requests, SurveyStep(r)
      PROVE  RegionsInv'
  BY <1>1, RegionBegins, RegionReads, RegionSaves, RegionReturns, RegionDeletes
  DEF SurveyStep
<1>2. CASE UNCHANGED regionsVars
  BY <1>2 DEF regionsVars, RegionsInv, RegionsTypeOK, ParentsAreGiven, Surveying,
              NoCircle, Circle, Exists, OneUpdate, Walking, Walked
<1>3. QED
  BY <1>1, <1>2 DEF RegionsNext

LEMMA RegionsInitInv == RegionsInit => RegionsInv
<1> SUFFICES ASSUME RegionsInit PROVE RegionsInv
  OBVIOUS
<1>1. /\ \A p \in Places : region[p] = NoRegion
      /\ \A r \in Requests : survey[r] = NoSurvey
  BY DEF RegionsInit
<1>2. RegionsTypeOK
  BY NoSurveyType DEF RegionsInit, RegionsTypeOK
<1>3. ParentsAreGiven /\ \A p \in Places : ~Exists(p)
  BY <1>1 DEF ParentsAreGiven, Exists, NoRegion
<1>4. NoCircle
  BY <1>3 DEF NoCircle, Circle
<1>5. QED
  BY <1>1, <1>2, <1>3, <1>4, NoSurveyType DEF RegionsInv, OneUpdate, Walking

THEOREM RegionsInvariant == RegionsSpec => []RegionsInv
<1>1. RegionsInv /\ [RegionsNext]_regionsVars => RegionsInv'
  BY RegionsStep
<1>2. QED
  BY <1>1, RegionsInitInv, PTL DEF RegionsSpec

\* The type invariant that the run checks.
THEOREM RegionsTypeCorrect == RegionsSpec => []RegionsTypeOK
<1>1. RegionsInv => RegionsTypeOK
  BY DEF RegionsInv
<1>2. QED
  BY <1>1, RegionsInvariant, PTL

\* Updates of regions that come one after the other put no region below itself,
\* whatever is created and deleted between their reads, and however many regions
\* and requests there are.
THEOREM CirclesNeedARace == RegionsSpec => []CircleNeedsARace
<1>1. RegionsInv => CircleNeedsARace
  <2>1. ASSUME RegionsInv, NEW S \in (SUBSET Places) \ {{}}, Circle(S)
        PROVE  raced
    <3>1. S \in SUBSET Places /\ S # {}
      BY Zenon
    <3>2. QED
      BY <2>1, <3>1 DEF RegionsInv, NoCircle
  <2>2. QED
    BY <2>1 DEF CircleNeedsARace
<1>2. QED
  BY <1>1, RegionsInvariant, PTL
-----------------------------------------------------------------------------
(***************************************************************************)
(* The modules together, as MCBackOffice explores them                     *)
(***************************************************************************)

\* Whichever part is explored, its steps are steps of its module and stutters of
\* every other.
PartsInit ==
  /\ AccountInit /\ CodeInit /\ DistributionInit /\ MembershipInit /\ SettingsInit
  /\ CartInit /\ CatalogInit /\ RegionsInit /\ SeckillInit /\ CarriersInit
  /\ ReasonsInit /\ Init

PartsStep ==
  /\ [AccountNext]_accountVars
  /\ [CodeNext]_codeVars
  /\ [DistributionNext]_distributionVars
  /\ [MembershipNext]_membershipVars
  /\ [SettingsNext]_settingsVars
  /\ [CartNext]_cartVars
  /\ [CatalogNext]_catalogVars
  /\ [RegionsNext]_regionsVars
  /\ [SeckillNext]_seckillVars
  /\ [CarriersNext]_carrier
  /\ [ReasonsNext]_reasonsVars
  /\ [Next]_vars

LEMMA PartsBegin == BackOfficeInit => PartsInit
  BY DEF BackOfficeInit, PartsInit

LEMMA PartsGoOn ==
  ASSUME [BackOfficeNext]_backOfficeVars
  PROVE  PartsStep
<1>1. CASE UNCHANGED backOfficeVars
  BY <1>1 DEF backOfficeVars, PartsStep
<1>2. CASE BackOfficeNext
  BY <1>2 DEF BackOfficeNext, Rest, PartsStep
<1>3. QED
  BY <1>1, <1>2

\* What the run of the back office explores are behaviours of each of its modules,
\* so that everything proved of one of them holds of the run.
THEOREM BackOfficeRunsItsParts ==
  BackOfficeSpec =>
    /\ AccountSpec /\ CodeSpec /\ DistributionSpec /\ MembershipSpec /\ SettingsSpec
    /\ CartSpec /\ CatalogSpec /\ RegionsSpec /\ SeckillSpec /\ CarriersSpec
    /\ ReasonsSpec /\ Spec
<1>1. [BackOfficeNext]_backOfficeVars => PartsStep
  BY PartsGoOn
<1>2. QED
  BY <1>1, PartsBegin, PTL
  DEF PartsInit, PartsStep, BackOfficeSpec, AccountSpec, CodeSpec, DistributionSpec,
      MembershipSpec, SettingsSpec, CartSpec, CatalogSpec, RegionsSpec, SeckillSpec,
      CarriersSpec, ReasonsSpec, Spec

\* The types of every part, explored or not.
THEOREM BackOfficeTypeCorrect == BackOfficeSpec => []BackOfficeTypeOK
<1>1. /\ AccountTypeOK /\ CodeTypeOK /\ DistributionTypeOK /\ MembershipTypeOK
      /\ SettingsTypeOK /\ CartTypeOK /\ CatalogTypeOK /\ RegionsTypeOK
      /\ SeckillTypeOK /\ CarriersTypeOK /\ ReasonsTypeOK
      => BackOfficeTypeOK
  BY DEF BackOfficeTypeOK
<1>2. QED
  BY <1>1, BackOfficeRunsItsParts, AccountTypeCorrect, CodesTypeCorrect,
     DistributionTypeCorrect, MembershipTypeCorrect, SettingsTypeCorrect,
     CartTypeCorrect, CatalogTypeCorrect, RegionsTypeCorrect, SeckillTypeCorrect,
     CarriersTypeCorrect, ReasonsTypeCorrect, PTL
=============================================================================
