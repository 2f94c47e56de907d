----------------------- MODULE AccountServices_proofs -----------------------
(***************************************************************************)
(* Proofs about the services that decide what a user or a client may do:   *)
(* API tokens, e-mail recovery, rows of users, and the bot's buttons.  For *)
(* each an invariant of the service alone is shown to be inductive, then   *)
(* carried over to the services taken together.                            *)
(***************************************************************************)
EXTENDS MCServices, FiniteSetTheorems, TLAPS

-----------------------------------------------------------------------------
(* API tokens.                                                             *)

\* The row of a token nobody has issued is empty.
UnmadeIsBlank == \A t \in Token : ~tokens[t].made => tokens[t] = Api!NoRow

\* A line of rotations has one end.
OneEnd ==
    \A t \in Token :
        IF tokens[t].reason = "rotated" THEN \E u \in Token : Api!Successors(t) = {u}
                                        ELSE Api!Successors(t) = {}

\* The instance's Cardinality is the library's.
LEMMA ApiCardinality ==
    ASSUME NEW S
    PROVE  Api!Cardinality(S) = Cardinality(S)
BY DEF Api!Cardinality, Cardinality

\* What was closed when a request arrived is closed, and what a request was
\* authorised for is a scope its token has.
CallsHonest ==
    \A r \in ApiCall :
        /\ calls[r].closed => Api!Closed(calls[r].token) /\ tokens[calls[r].token].made
        /\ calls[r].step \in {"authorised", "marked", "answered"} =>
              /\ tokens[calls[r].token].made /\ ~calls[r].closed
              /\ calls[r].scope \in tokens[calls[r].token].scopes

SmokeHasToken == apiSmoke.step = "issued" => apiSmoke.token \in Token

ApiInv == Api!TypeOK /\ UnmadeIsBlank /\ OneEnd /\ CallsHonest /\ SmokeHasToken

LEMMA ApiInit == Api!Init => ApiInv
<1> SUFFICES ASSUME Api!Init PROVE ApiInv
  OBVIOUS
<1>1. \A t \in Token : tokens[t] = Api!NoRow
  BY DEF Api!Init
<1>2. Api!TypeOK
  BY DEF Api!Init, Api!TypeOK, Api!NoRow, Api!TokenRow, Api!Reason, Api!Call, Api!CallStep
<1>3. OneEnd
  BY <1>1, ServicesAssumption DEF OneEnd, Api!Successors, Api!NoRow
<1>4. CallsHonest
  BY DEF Api!Init, CallsHonest
<1> QED
  BY <1>1, <1>2, <1>3, <1>4 DEF Api!Init, ApiInv, UnmadeIsBlank, SmokeHasToken

\* A request, or the smoke cycle, that leaves the rows alone.
LEMMA RowsAlone ==
    ASSUME ApiInv, UNCHANGED tokens
    PROVE  UnmadeIsBlank' /\ OneEnd'
<1>1. \A t \in Token : Api!Successors(t)' = Api!Successors(t)
  BY DEF Api!Successors
<1> QED
  BY <1>1 DEF ApiInv, UnmadeIsBlank, OneEnd

\* A new row ends a line that has just begun.
LEMMA CreateKeeps ==
    ASSUME ApiInv, NEW t \in Token, NEW owned \in BOOLEAN, NEW scopes \in SUBSET Scope,
           Api!CreateToken(t, owned, scopes), UNCHANGED <<owner, calls>>
    PROVE  /\ tokens' \in [Token -> Api!TokenRow]
           /\ UnmadeIsBlank' /\ OneEnd' /\ CallsHonest'
<1> USE DEF ApiInv, Api!TypeOK
<1>1. /\ ~tokens[t].made /\ tokens[t] = Api!NoRow
      /\ tokens' = [tokens EXCEPT ![t] = Api!NewRow(owned, scopes, NoToken)]
  BY DEF Api!CreateToken, UnmadeIsBlank
<1>2. Api!NewRow(owned, scopes, NoToken) \in Api!TokenRow
  BY DEF Api!NewRow, Api!TokenRow, Api!Reason
<1>3. tokens' \in [Token -> Api!TokenRow]
  BY <1>1, <1>2
<1>4. /\ tokens'[t].from = NoToken /\ tokens[t].from = NoToken
      /\ tokens'[t].reason = "none" /\ tokens[t].reason = "none"
      /\ tokens'[t].made
  BY <1>1 DEF Api!NewRow, Api!NoRow
<1>5. \A u \in Token \ {t} : tokens'[u] = tokens[u]
  BY <1>1
<1>6. UnmadeIsBlank'
  BY <1>4, <1>5 DEF UnmadeIsBlank
<1>7. \A u \in Token : tokens'[u].from = tokens[u].from /\ tokens'[u].reason = tokens[u].reason
  BY <1>4, <1>5
<1>8. \A u \in Token : Api!Successors(u)' = Api!Successors(u)
  BY <1>7 DEF Api!Successors
<1>9. OneEnd'
  BY <1>7, <1>8 DEF OneEnd
<1>10. CallsHonest'
  BY <1>1, <1>5 DEF CallsHonest, Api!Closed, Api!Revoked, Api!Call
<1> QED
  BY <1>3, <1>6, <1>9, <1>10

\* A row that is closed, expired or loses its owner stays in its line, and
\* what was closed stays closed.
LEMMA RowsAgeKeeps ==
    ASSUME ApiInv, UNCHANGED calls, tokens' \in [Token -> Api!TokenRow],
           \A t \in Token :
              /\ tokens'[t].made = tokens[t].made
              /\ tokens'[t].from = tokens[t].from
              /\ tokens'[t].scopes = tokens[t].scopes
              /\ tokens'[t].reason = "rotated" <=> tokens[t].reason = "rotated"
              /\ Api!Closed(t) => Api!Closed(t)'
              /\ ~tokens[t].made => tokens'[t] = tokens[t]
    PROVE  UnmadeIsBlank' /\ OneEnd' /\ CallsHonest'
<1> USE DEF ApiInv, Api!TypeOK
<1>1. UnmadeIsBlank'
  BY DEF UnmadeIsBlank
<1>2. \A u \in Token : Api!Successors(u)' = Api!Successors(u)
  BY DEF Api!Successors
<1>3. OneEnd'
  BY <1>2 DEF OneEnd
<1>4. ASSUME NEW r \in ApiCall
      PROVE  /\ calls[r].closed => Api!Closed(calls[r].token)' /\ tokens'[calls[r].token].made
             /\ calls[r].step \in {"authorised", "marked", "answered"} =>
                  /\ tokens'[calls[r].token].made /\ ~calls[r].closed
                  /\ calls[r].scope \in tokens'[calls[r].token].scopes
  <2>1. PICK t \in Token : t = calls[r].token
    BY DEF Api!Call
  <2> QED
    BY <2>1 DEF CallsHonest
<1>5. CallsHonest'
  BY <1>4 DEF CallsHonest, Api!Closed, Api!Revoked
<1> QED
  BY <1>1, <1>3, <1>5

\* Rotation moves the end of a line to a row that was in none.
LEMMA RotateKeeps ==
    ASSUME ApiInv, NEW t \in Token, NEW next \in Token, Api!Rotate(t, next)
    PROVE  ApiInv'
<1> USE DEF ApiInv, Api!TypeOK
<1>1. /\ tokens[t].made /\ ~tokens[next].made /\ tokens[next] = Api!NoRow
      /\ tokens[t].reason = "none"
      /\ UNCHANGED <<owner, calls, apiSmoke>>
  BY DEF Api!Rotate, Api!Revoked, UnmadeIsBlank
<1> DEFINE old == [tokens[t] EXCEPT !.reason = "rotated"]
           new == Api!NewRow(tokens[t].owned, tokens[t].scopes, t)
<1>2. tokens' = [[tokens EXCEPT ![t] = old] EXCEPT ![next] = new]
  BY DEF Api!Rotate, Api!Rotated
<1>3. old \in Api!TokenRow /\ new \in Api!TokenRow
  BY DEF Api!NewRow, Api!TokenRow, Api!Reason
<1>4. /\ tokens' \in [Token -> Api!TokenRow]
      /\ t # next /\ tokens'[t] = old /\ tokens'[next] = new
      /\ \A u \in Token \ {t, next} : tokens'[u] = tokens[u]
  BY <1>1, <1>2, <1>3
<1>5. /\ tokens'[t].made /\ tokens'[t].reason = "rotated" /\ tokens'[t].from = tokens[t].from
      /\ tokens'[t].scopes = tokens[t].scopes
      /\ tokens'[next].made /\ tokens'[next].reason = "none" /\ tokens'[next].from = t
      /\ tokens[next].from = NoToken /\ tokens[next].reason = "none"
  BY <1>1, <1>4 DEF Api!TokenRow, Api!NewRow, Api!NoRow
<1> HIDE DEF old, new
<1>6. Api!TypeOK'
  BY <1>1, <1>4
<1>7. UnmadeIsBlank'
  BY <1>4, <1>5 DEF UnmadeIsBlank
<1>8. OneEnd'
  <2>1. Api!Successors(t) = {}
    BY <1>1 DEF OneEnd
  <2>2. Api!Successors(t)' = {next}
    BY <1>4, <1>5, <2>1 DEF Api!Successors
  <2>3. next \notin UNION {Api!Successors(u) : u \in Token}
    BY <1>5, ServicesAssumption DEF Api!Successors
  <2>4. \A u \in Token \ {t} : Api!Successors(u)' = Api!Successors(u)
    BY <1>4, <1>5, <2>3 DEF Api!Successors
  <2>5. \A u \in Token \ {t} : tokens'[u].reason = "rotated" <=> tokens[u].reason = "rotated"
    BY <1>4, <1>5
  <2> QED
    BY <1>5, <2>2, <2>4, <2>5 DEF OneEnd
<1>9. CallsHonest'
  <2>1. \A u \in Token : /\ tokens[u].made => tokens'[u].made
                         /\ tokens[u].made => tokens'[u].scopes = tokens[u].scopes
                         /\ Api!Closed(u) => Api!Closed(u)'
    BY <1>1, <1>4, <1>5 DEF Api!Closed, Api!Revoked, Api!NoRow
  <2>2. \A r \in ApiCall : calls[r].token \in Token
    BY DEF Api!Call
  <2> HIDE DEF Api!TypeOK
  <2> QED
    BY <1>1, <2>1, <2>2 DEF CallsHonest
<1>10. SmokeHasToken'
  BY <1>1 DEF SmokeHasToken
<1> QED
  BY <1>6, <1>7, <1>8, <1>9, <1>10

\* A row that is closed is not rotated any more.
LEMMA CloseKeeps ==
    ASSUME ApiInv, NEW t \in Token \cup {NoToken}, NEW reason \in {"revoked", "smoke-complete"},
           tokens' = Api!CloseToken(t, reason), UNCHANGED calls
    PROVE  /\ tokens' \in [Token -> Api!TokenRow]
           /\ UnmadeIsBlank' /\ OneEnd' /\ CallsHonest'
<1> USE DEF ApiInv, Api!TypeOK
<1> DEFINE closes == t \in Token /\ tokens[t].made /\ ~Api!Revoked(t)
<1>1. CASE ~closes
  <2>1. tokens' = tokens
    <3>1. CASE t \in Token
      <4>1. tokens' = [tokens EXCEPT ![t].reason = tokens[t].reason]
        BY <1>1, <3>1 DEF Api!CloseToken
      <4>2. [tokens[t] EXCEPT !.reason = tokens[t].reason] = tokens[t]
        BY <3>1 DEF Api!TokenRow
      <4> QED
        BY <3>1, <4>1, <4>2
    <3>2. CASE t \notin Token
      BY <3>2 DEF Api!CloseToken
    <3> QED
      BY <3>1, <3>2
  <2> QED
    BY <2>1, RowsAlone DEF CallsHonest, Api!Closed, Api!Revoked
<1>2. CASE closes
  <2>1. tokens' = [tokens EXCEPT ![t].reason = reason]
    BY <1>2 DEF Api!CloseToken
  <2>2. tokens' \in [Token -> Api!TokenRow]
    <3>1. tokens[t] \in Api!TokenRow
      BY <1>2
    <3>2. [tokens[t] EXCEPT !.reason = reason] \in Api!TokenRow
      BY <3>1 DEF Api!TokenRow, Api!Reason
    <3> QED
      BY <1>2, <2>1, <3>2
  <2>3. ASSUME NEW u \in Token
        PROVE  /\ tokens'[u].made = tokens[u].made
               /\ tokens'[u].from = tokens[u].from
               /\ tokens'[u].scopes = tokens[u].scopes
               /\ tokens'[u].reason = "rotated" <=> tokens[u].reason = "rotated"
               /\ Api!Closed(u) => Api!Closed(u)'
               /\ ~tokens[u].made => tokens'[u] = tokens[u]
    <3>1. CASE u # t
      BY <1>2, <2>1, <3>1 DEF Api!Closed, Api!Revoked
    <3>2. CASE u = t
      <4>1. tokens'[t] = [tokens[t] EXCEPT !.reason = reason]
        BY <1>2, <2>1
      <4> QED
        BY <1>2, <3>2, <4>1 DEF Api!Closed, Api!Revoked, Api!TokenRow
    <3> QED
      BY <3>1, <3>2
  <2> QED
    BY <2>2, <2>3, RowsAgeKeeps
<1> QED
  BY <1>1, <1>2

\* A request goes on only with what its token admits at that moment.
LEMMA CallKeeps ==
    ASSUME ApiInv, NEW r \in ApiCall,
           Api!Arrive(r) \/ Api!Authorise(r) \/ Api!MarkUsed(r) \/ Api!Answer(r)
    PROVE  ApiInv'
<1> USE DEF ApiInv, Api!TypeOK
<1>1. UNCHANGED <<tokens, owner, apiSmoke>>
  BY DEF Api!Arrive, Api!Authorise, Api!MarkUsed, Api!Answer
<1>2. UnmadeIsBlank' /\ OneEnd' /\ SmokeHasToken'
  BY <1>1, RowsAlone DEF SmokeHasToken
<1> SUFFICES calls' \in [ApiCall -> Api!Call] /\ CallsHonest'
  BY <1>1, <1>2
<1> DEFINE t == calls[r].token
<1>3. CASE Api!Arrive(r)
  <2> DEFINE call == [calls[r] EXCEPT !.step = "arrived", !.closed = Api!Closed(t)]
  <2>1. calls' = [calls EXCEPT ![r] = call]
    BY <1>3 DEF Api!Arrive
  <2>2. call \in Api!Call
    BY DEF Api!Call, Api!CallStep, Api!Closed, Api!Revoked, Api!TokenRow
  <2>3. t \in Token /\ (Api!Closed(t) => tokens[t].made)
    BY DEF Api!Call, Api!Closed, Api!Revoked, UnmadeIsBlank, Api!NoRow
  <2>4. call.step = "arrived" /\ call.token = t /\ call.closed = Api!Closed(t)
    BY DEF Api!Call
  <2> HIDE DEF call
  <2> QED
    BY <1>1, <2>1, <2>2, <2>3, <2>4 DEF CallsHonest, Api!Closed, Api!Revoked
<1>4. CASE Api!Authorise(r)
  <2> DEFINE ok   == Api!ValidRow(t) /\ Api!Authenticates(t, calls[r].scope)
             call == [calls[r] EXCEPT !.step = IF ok THEN "authorised" ELSE "refused"]
  <2>1. calls' = [calls EXCEPT ![r] = call]
    BY <1>4 DEF Api!Authorise
  <2>2. call \in Api!Call
    BY DEF Api!Call, Api!CallStep
  <2>3. /\ call.token = t /\ call.scope = calls[r].scope /\ call.closed = calls[r].closed
        /\ call.step = IF ok THEN "authorised" ELSE "refused"
    BY DEF Api!Call
  <2>4. ok => tokens[t].made /\ ~calls[r].closed /\ calls[r].scope \in tokens[t].scopes
    BY DEF Api!ValidRow, Api!Authenticates, CallsHonest, Api!Closed
  <2> HIDE DEF call, ok
  <2> QED
    BY <1>1, <2>1, <2>2, <2>3, <2>4 DEF CallsHonest, Api!Closed, Api!Revoked
<1>5. CASE Api!MarkUsed(r) \/ Api!Answer(r)
  <2>1. PICK s \in {"marked", "answered", "refused"} : calls' = [calls EXCEPT ![r].step = s]
    BY <1>5 DEF Api!MarkUsed, Api!Answer
  <2>2. calls[r].step \in {"authorised", "marked"}
    BY <1>5 DEF Api!MarkUsed, Api!Answer
  <2> DEFINE call == [calls[r] EXCEPT !.step = s]
  <2>3. calls' = [calls EXCEPT ![r] = call]
    BY <2>1
  <2>4. call \in Api!Call
    BY DEF Api!Call, Api!CallStep
  <2>5. call.token = t /\ call.scope = calls[r].scope /\ call.closed = calls[r].closed
    BY DEF Api!Call
  <2> HIDE DEF call
  <2> QED
    BY <1>1, <2>2, <2>3, <2>4, <2>5 DEF CallsHonest, Api!Closed, Api!Revoked
<1> QED
  BY <1>3, <1>4, <1>5

LEMMA ApiNextKeeps == ApiInv /\ [Api!Next]_Api!tokenVars => ApiInv'
<1> SUFFICES ASSUME ApiInv, [Api!Next]_Api!tokenVars PROVE ApiInv'
  OBVIOUS
<1>1. ASSUME NEW t \in Token, NEW scope \in Scope, NEW owned \in BOOLEAN,
             Api!IssueFromPanel(t, scope) \/ Api!IssueFromCli(t, scope, owned)
      PROVE  ApiInv'
  <2>1. PICK o \in BOOLEAN : Api!CreateToken(t, o, {scope})
    BY <1>1 DEF Api!IssueFromPanel, Api!IssueFromCli
  <2>2. UNCHANGED <<owner, calls, apiSmoke>>
    BY <1>1 DEF Api!IssueFromPanel, Api!IssueFromCli
  <2> QED
    BY <2>1, <2>2, CreateKeeps DEF ApiInv, Api!TypeOK, SmokeHasToken
<1>2. ASSUME NEW t \in Token, NEW next \in Token, Api!Rotate(t, next)
      PROVE  ApiInv'
  BY <1>2, RotateKeeps
<1>3. ASSUME NEW t \in Token, Api!RevokeFromPanel(t) \/ Api!RevokeFromCli(t)
      PROVE  ApiInv'
  <2>1. tokens' = Api!CloseToken(t, "revoked") /\ UNCHANGED <<owner, calls, apiSmoke>>
    BY <1>3 DEF Api!RevokeFromPanel, Api!RevokeFromCli
  <2> QED
    BY <2>1, CloseKeeps DEF ApiInv, Api!TypeOK, SmokeHasToken
<1>4. ASSUME NEW t \in Token, Api!SmokeIssue(t)
      PROVE  ApiInv'
  <2>1. Api!CreateToken(t, FALSE, Scope) /\ UNCHANGED <<owner, calls>>
        /\ apiSmoke' = [step |-> "issued", token |-> t]
    BY <1>4 DEF Api!SmokeIssue
  <2> QED
    BY <2>1, CreateKeeps DEF ApiInv, Api!TypeOK, SmokeHasToken
<1>5. CASE Api!SmokeFinish
  <2>1. /\ tokens' = Api!CloseToken(apiSmoke.token, "smoke-complete")
        /\ apiSmoke' = [step |-> "done", token |-> NoToken] /\ UNCHANGED <<owner, calls>>
    BY <1>5 DEF Api!SmokeFinish
  <2>2. apiSmoke.token \in Token \cup {NoToken}
    BY DEF ApiInv, Api!TypeOK
  <2> QED
    BY <2>1, <2>2, CloseKeeps DEF ApiInv, Api!TypeOK, SmokeHasToken
<1>6. CASE Api!SmokeKilled
  <2>1. /\ UNCHANGED <<tokens, owner, calls>>
        /\ apiSmoke' = [step |-> "done", token |-> NoToken]
    BY <1>6 DEF Api!SmokeKilled
  <2> QED
    BY <2>1, RowsAlone
    DEF ApiInv, Api!TypeOK, SmokeHasToken, CallsHonest, Api!Closed, Api!Revoked
<1>7. ASSUME NEW r \in ApiCall,
             Api!Arrive(r) \/ Api!Authorise(r) \/ Api!MarkUsed(r) \/ Api!Answer(r)
      PROVE  ApiInv'
  BY <1>7, CallKeeps
<1>8. ASSUME NEW t \in Token, Api!Expire(t)
      PROVE  ApiInv'
  <2>1. /\ tokens[t].made /\ tokens' = [tokens EXCEPT ![t].expired = TRUE]
        /\ UNCHANGED <<owner, calls, apiSmoke>>
    BY <1>8 DEF Api!Expire
  <2>2. tokens' \in [Token -> Api!TokenRow]
    BY <2>1 DEF ApiInv, Api!TypeOK, Api!TokenRow
  <2>3. ASSUME NEW u \in Token
        PROVE  /\ tokens'[u].made = tokens[u].made
               /\ tokens'[u].from = tokens[u].from
               /\ tokens'[u].scopes = tokens[u].scopes
               /\ tokens'[u].reason = "rotated" <=> tokens[u].reason = "rotated"
               /\ Api!Closed(u) => Api!Closed(u)'
               /\ ~tokens[u].made => tokens'[u] = tokens[u]
    BY <2>1 DEF ApiInv, Api!TypeOK, Api!TokenRow, Api!Closed, Api!Revoked
  <2> QED
    BY <2>1, <2>2, <2>3, RowsAgeKeeps DEF ApiInv, Api!TypeOK, SmokeHasToken
<1>9. CASE Api!OwnerStatusChanges
  <2>1. UNCHANGED <<tokens, calls, apiSmoke>> /\ owner' \in {"active", "inactive"}
    BY <1>9 DEF Api!OwnerStatusChanges
  <2> QED
    BY <2>1, RowsAlone
    DEF ApiInv, Api!TypeOK, SmokeHasToken, CallsHonest, Api!Closed, Api!Revoked
<1>10. CASE Api!OwnerDestroyed
  <2>1. /\ tokens' = [t \in Token |-> [tokens[t] EXCEPT !.owned = FALSE]]
        /\ owner' = "gone" /\ UNCHANGED <<calls, apiSmoke>>
    BY <1>10 DEF Api!OwnerDestroyed
  <2>2. tokens' \in [Token -> Api!TokenRow]
    BY <2>1 DEF ApiInv, Api!TypeOK, Api!TokenRow
  <2>3. ASSUME NEW u \in Token
        PROVE  /\ tokens'[u].made = tokens[u].made
               /\ tokens'[u].from = tokens[u].from
               /\ tokens'[u].scopes = tokens[u].scopes
               /\ tokens'[u].reason = "rotated" <=> tokens[u].reason = "rotated"
               /\ Api!Closed(u) => Api!Closed(u)'
               /\ ~tokens[u].made => tokens'[u] = tokens[u]
    BY <2>1
    DEF ApiInv, Api!TypeOK, Api!TokenRow, Api!Closed, Api!Revoked, UnmadeIsBlank, Api!NoRow
  <2> QED
    BY <2>1, <2>2, <2>3, RowsAgeKeeps DEF ApiInv, Api!TypeOK, SmokeHasToken
<1>11. CASE UNCHANGED Api!tokenVars
  <2>1. UNCHANGED <<tokens, owner, calls, apiSmoke>>
    BY <1>11 DEF Api!tokenVars
  <2> QED
    BY <2>1, RowsAlone
    DEF ApiInv, Api!TypeOK, SmokeHasToken, CallsHonest, Api!Closed, Api!Revoked
<1> QED
  BY <1>1, <1>2, <1>3, <1>4, <1>5, <1>6, <1>7, <1>8, <1>9, <1>10, <1>11 DEF Api!Next

\* The services taken together keep the invariant while the API runs.
THEOREM ApiInvariant == Spec => [](part = "api" => ApiInv)
<1>1. Init => (part = "api" => ApiInv)
  BY ApiInit DEF Init
<1>2. ASSUME part = "api" => ApiInv, [Next]_<<part, v1, v2, v3, v4, v5, v6, v7, v8, v9, v10>>
      PROVE  (part = "api" => ApiInv)'
  <2>1. CASE ApiNext
    BY <1>2, <2>1, ApiNextKeeps DEF ApiNext
  <2>2. CASE part # "api" /\ part' = part
    BY <2>2
  <2>3. CASE part' = part /\ v1' = v1
    BY <1>2, <2>3, ApiNextKeeps DEF v1, Api!tokenVars
  <2> QED
    BY <1>2, <2>1, <2>2, <2>3
    DEF Next, MailNext, SchemaNext, BackupNext, PeersNext, RuntimeNext, DialogNext,
        CatalogNext, AccountsNext, HealthNext
<1> QED
  BY <1>1, <1>2, PTL DEF Spec

\* A line of rotations has one end, so that revoking it closes the line, and
\* a request is answered only with a token that was open when it came.
THEOREM TokensStayShut == Spec => []RevokedStaysShut
<1>1. ASSUME ApiInv PROVE Api!RevokedStaysShut
  <2>1. ASSUME NEW t \in Token
        PROVE  Api!Cardinality(Api!Successors(t)) = (IF tokens[t].reason = "rotated" THEN 1 ELSE 0)
    <3>1. CASE tokens[t].reason = "rotated"
      BY <1>1, <3>1, ApiCardinality, FS_Singleton DEF ApiInv, OneEnd
    <3>2. CASE tokens[t].reason # "rotated"
      BY <1>1, <3>2, ApiCardinality, FS_EmptySet DEF ApiInv, OneEnd
    <3> QED
      BY <3>1, <3>2
  <2>2. \A r \in ApiCall : calls[r].step = "answered" =>
           ~calls[r].closed /\ calls[r].scope \in tokens[calls[r].token].scopes
    BY <1>1 DEF ApiInv, CallsHonest
  <2> QED
    BY <2>1, <2>2 DEF Api!RevokedStaysShut
<1>2. (part = "api" => ApiInv) => RevokedStaysShut
  BY <1>1 DEF RevokedStaysShut
<1> QED
  BY <1>2, ApiInvariant, PTL

-----------------------------------------------------------------------------
(* Rows of users.                                                          *)

\* About a row that was never used nothing is decided.
UnusedIsFresh == \A i \in Id : accounts[i].row = "unused" => decided[i] = Accounts!Fresh

\* A form is about one user at most.
FormOfOne == form.users = {} \/ \E i \in Id : form.users = {i}

OneRowEach ==
    \A i, k \in Accounts!Kept :
        accounts[i].telegram = accounts[k].telegram => i = k \/ accounts[i].telegram = None

RowsSayDecided == \A i \in Accounts!Kept \ overtaken : accounts[i].says = decided[i]

AccountTypes ==
    /\ accounts \in [Id -> Accounts!User]
    /\ form \in Accounts!Form
    /\ decided \in [Id -> Accounts!Decision]
    /\ overtaken \subseteq Id

AccountInv == AccountTypes /\ FormOfOne /\ UnusedIsFresh /\ OneRowEach /\ RowsSayDecided

LEMMA BlankRows ==
    /\ Accounts!Fresh \in Accounts!Decision
    /\ Accounts!Unused \in Accounts!User
    /\ Accounts!NoForm \in Accounts!Form
    /\ Accounts!NoForm.users = {}
<1>1. Accounts!Fresh \in Accounts!Decision
  BY DEF Accounts!Fresh, Accounts!Decision, Accounts!Status
<1>2. Accounts!Unused \in Accounts!User
  BY <1>1 DEF Accounts!Unused, Accounts!User
<1> QED
  BY <1>1, <1>2 DEF Accounts!NoForm, Accounts!Form

LEMMA AccountInit == Accounts!Init => AccountInv
BY BlankRows
DEF Accounts!Init, AccountInv, AccountTypes, FormOfOne, UnusedIsFresh, OneRowEach,
    RowsSayDecided, Accounts!Kept, Accounts!Unused

\* A row of another user is kept as it was and stays unlike all others, when
\* one row is written that keeps its account, or takes one that nobody has.
LEMMA RowWritten ==
    ASSUME AccountInv, NEW i \in Id, NEW row \in Accounts!User, row.row = "kept",
           accounts' = [accounts EXCEPT ![i] = row],
           row.telegram # None => \A k \in Accounts!Kept \ {i} : accounts[k].telegram # row.telegram
    PROVE  /\ accounts' \in [Id -> Accounts!User]
           /\ OneRowEach'
           /\ Accounts!Kept' = Accounts!Kept \cup {i}
           /\ \A k \in Id \ {i} : accounts'[k] = accounts[k]
           /\ accounts'[i] = row
<1> USE DEF AccountInv, AccountTypes
<1>1. accounts' \in [Id -> Accounts!User] /\ accounts'[i] = row
      /\ \A k \in Id \ {i} : accounts'[k] = accounts[k]
  OBVIOUS
<1>2. Accounts!Kept' = Accounts!Kept \cup {i}
  BY <1>1 DEF Accounts!Kept
<1>3. OneRowEach'
  BY <1>1, <1>2 DEF OneRowEach
<1> QED
  BY <1>1, <1>2, <1>3

\* The row an upsert leaves is that of the account, says what it said, or
\* nothing yet.
LEMMA UpsertedRow ==
    ASSUME AccountInv, NEW p \in Person, NEW i \in Id, Accounts!Finds(p, i)
    PROVE  LET row == Accounts!UpsertUser(p, i) IN
              /\ row \in Accounts!User /\ row.row = "kept" /\ row.telegram = p
              /\ \A k \in Accounts!Kept \ {i} : accounts[k].telegram # p
              /\ i \in Accounts!Kept => row = accounts[i]
              /\ i \notin Accounts!Kept => row.says = Accounts!Fresh /\ decided[i] = Accounts!Fresh
<1> USE DEF AccountInv, AccountTypes
<1> DEFINE row == Accounts!UpsertUser(p, i)
<1>1. CASE i \in Accounts!RowsOf(p)
  <2>1. row = accounts[i] /\ i \in Accounts!Kept /\ accounts[i].telegram = p
    BY <1>1 DEF Accounts!UpsertUser, Accounts!RowsOf
  <2>2. accounts[i] \in Accounts!User /\ accounts[i].row = "kept"
    BY <2>1 DEF Accounts!Kept
  <2>3. \A k \in Accounts!Kept \ {i} : accounts[k].telegram = p => p = None
    BY <2>1 DEF OneRowEach
  <2> QED
    BY <2>1, <2>2, <2>3, ServicesAssumption
<1>2. CASE i \notin Accounts!RowsOf(p)
  <2>1. Accounts!RowsOf(p) = {} /\ accounts[i].row = "unused"
    BY <1>2 DEF Accounts!Finds
  <2>2. row = [Accounts!Unused EXCEPT !.row = "kept", !.telegram = p]
    BY <1>2 DEF Accounts!UpsertUser
  <2>3. row \in Accounts!User /\ row.row = "kept" /\ row.telegram = p
        /\ row.says = Accounts!Fresh
    BY <2>2, BlankRows DEF Accounts!Unused, Accounts!User
  <2>4. i \notin Accounts!Kept /\ decided[i] = Accounts!Fresh
    BY <2>1 DEF Accounts!Kept, UnusedIsFresh
  <2> QED
    BY <2>1, <2>3, <2>4 DEF Accounts!RowsOf
<1> QED
  BY <1>1, <1>2

\* A row that is written says what was decided, unless it is overtaken or
\* was neither before.
LEMMA DecisionKept ==
    ASSUME AccountInv, NEW i \in Id, NEW row \in Accounts!User, NEW what \in Accounts!Decision,
           row.row = "kept",
           accounts' = [accounts EXCEPT ![i] = row],
           row.telegram # None => \A k \in Accounts!Kept \ {i} : accounts[k].telegram # row.telegram,
           decided' = [decided EXCEPT ![i] = what],
           overtaken' \in SUBSET Id, \A k \in Id \ {i} : k \in overtaken <=> k \in overtaken',
           i \notin overtaken' => row.says = what,
           form' \in Accounts!Form, FormOfOne'
    PROVE  AccountInv'
<1> USE DEF AccountInv, AccountTypes
<1>1. /\ accounts' \in [Id -> Accounts!User]
      /\ OneRowEach'
      /\ Accounts!Kept' = Accounts!Kept \cup {i}
      /\ \A k \in Id \ {i} : accounts'[k] = accounts[k]
      /\ accounts'[i] = row
  BY RowWritten
<1>2. decided' \in [Id -> Accounts!Decision] /\ decided'[i] = what
      /\ \A k \in Id \ {i} : decided'[k] = decided[k]
  OBVIOUS
<1>3. UnusedIsFresh'
  BY <1>1, <1>2 DEF UnusedIsFresh
<1>4. Accounts!Kept \subseteq Id
  BY DEF Accounts!Kept
<1>5. RowsSayDecided'
  BY <1>1, <1>2, <1>4 DEF RowsSayDecided
<1> QED
  BY <1>1, <1>2, <1>3, <1>5

\* A row is upserted, and what is said of it anew is decided of it.
LEMMA UpsertDecides ==
    ASSUME AccountInv, NEW p \in Person, NEW i \in Id, Accounts!Finds(p, i),
           NEW new \in Accounts!Decision, NEW what \in Accounts!Decision,
           Accounts!UpsertUser(p, i).says = decided[i] => new = what,
           accounts' = [accounts EXCEPT ![i] = [Accounts!UpsertUser(p, i) EXCEPT !.says = new]],
           decided' = [decided EXCEPT ![i] = what],
           UNCHANGED overtaken,
           form' \in Accounts!Form, FormOfOne'
    PROVE  AccountInv'
<1> DEFINE old == Accounts!UpsertUser(p, i)
           row == [old EXCEPT !.says = new]
<1>1. /\ old \in Accounts!User /\ old.row = "kept" /\ old.telegram = p
      /\ \A k \in Accounts!Kept \ {i} : accounts[k].telegram # p
      /\ i \in Accounts!Kept => old = accounts[i]
      /\ i \notin Accounts!Kept => old.says = Accounts!Fresh /\ decided[i] = Accounts!Fresh
  BY UpsertedRow
<1>0. old.says = decided[i] => new = what
  OBVIOUS
<1> HIDE DEF old
<1>2. /\ row \in Accounts!User /\ row.row = "kept" /\ row.telegram = p
      /\ row.says = new
  BY <1>1 DEF Accounts!User
<1>3. i \notin overtaken => row.says = what
  BY <1>0, <1>1, <1>2 DEF AccountInv, RowsSayDecided
<1>4. accounts' = [accounts EXCEPT ![i] = row]
  BY DEF old
<1>5. overtaken' \in SUBSET Id /\ \A k \in Id \ {i} : k \in overtaken <=> k \in overtaken'
  BY DEF AccountInv, AccountTypes
<1>6. row.telegram # None => \A k \in Accounts!Kept \ {i} : accounts[k].telegram # row.telegram
  BY <1>1, <1>2
<1>7. i \notin overtaken' => row.says = what
  BY <1>2, <1>3
<1>8. row \in Accounts!User /\ row.row = "kept"
  BY <1>2
<1> HIDE DEF row
<1> QED
  BY <1>4, <1>5, <1>6, <1>7, <1>8, DecisionKept

\* What the operator makes of the form is a user.
LEMMA EditsAreUsers ==
    ASSUME AccountTypes, NEW e \in Accounts!Edits
    PROVE  e \in Accounts!User
<1>1. form.shows \in Accounts!User
  BY DEF AccountTypes, Accounts!Form
<1>2. form.shows.says \in Accounts!Decision
  BY <1>1 DEF Accounts!User
<1>3. ASSUME NEW s \in Accounts!Status
      PROVE  [form.shows EXCEPT !.says.status = s] \in Accounts!User
  <2>1. [form.shows.says EXCEPT !.status = s] \in Accounts!Decision
    BY <1>2 DEF Accounts!Decision
  <2> QED
    BY <1>1, <2>1 DEF Accounts!User
<1>4. ASSUME NEW b \in BOOLEAN
      PROVE  [form.shows EXCEPT !.says.admin = b] \in Accounts!User
  <2>1. [form.shows.says EXCEPT !.admin = b] \in Accounts!Decision
    BY <1>2 DEF Accounts!Decision
  <2> QED
    BY <1>1, <2>1 DEF Accounts!User
<1>5. ASSUME NEW p \in Person
      PROVE  [form.shows EXCEPT !.telegram = p] \in Accounts!User
  BY <1>1 DEF Accounts!User
<1> QED
  BY <1>1, <1>3, <1>4, <1>5 DEF Accounts!Edits

\* A decision marks the form about the user as stale, and changes it in
\* nothing else.
LEMMA DecidesKeepsForm ==
    ASSUME AccountTypes, FormOfOne, NEW i, NEW what, Accounts!Decides(i, what)
    PROVE  form' \in Accounts!Form /\ FormOfOne'
<1>1. form \in Accounts!Form
  BY DEF AccountTypes
<1>2. (form.stale \/ i \in form.users) \in BOOLEAN
  BY <1>1 DEF Accounts!Form
<1>3. form' = [form EXCEPT !.stale = (form.stale \/ i \in form.users)]
  BY DEF Accounts!Decides
<1>4. form' \in Accounts!Form /\ form'.users = form.users
  BY <1>1, <1>2, <1>3 DEF Accounts!Form
<1> QED
  BY <1>4 DEF FormOfOne

LEMMA RegisterKeeps ==
    ASSUME AccountInv, NEW p \in Person, NEW i \in Id, Accounts!RegisterUser(p, i)
    PROVE  AccountInv'
<1> DEFINE row == Accounts!UpsertUser(p, i)
<1>1. /\ row \in Accounts!User /\ row.row = "kept" /\ row.telegram = p
      /\ \A k \in Accounts!Kept \ {i} : accounts[k].telegram # p
      /\ i \in Accounts!Kept => row = accounts[i]
      /\ i \notin Accounts!Kept => row.says = Accounts!Fresh /\ decided[i] = Accounts!Fresh
  BY UpsertedRow DEF Accounts!RegisterUser
<1>2. accounts' = [accounts EXCEPT ![i] = row] /\ UNCHANGED <<form, decided, overtaken>>
  BY DEF Accounts!RegisterUser
<1> HIDE DEF row
<1>3. decided' = [decided EXCEPT ![i] = decided[i]] /\ decided[i] \in Accounts!Decision
  BY <1>2 DEF AccountInv, AccountTypes
<1>4. i \notin overtaken => row.says = decided[i]
  BY <1>1 DEF AccountInv, RowsSayDecided
<1>5. form' \in Accounts!Form /\ FormOfOne' /\ overtaken' \in SUBSET Id
  BY <1>2 DEF AccountInv, AccountTypes, FormOfOne
<1> QED
  BY <1>1, <1>2, <1>3, <1>4, <1>5, DecisionKept

LEMMA LanguageKeeps ==
    ASSUME AccountInv, NEW p \in Person, NEW i \in Id, NEW locale \in {"ru", "en"},
           Accounts!ChooseLanguage(p, i, locale)
    PROVE  AccountInv'
<1> DEFINE row == Accounts!UpsertUser(p, i)
           new == [row.says EXCEPT !.locale = locale]
           what == [decided[i] EXCEPT !.locale = locale]
<1>0. Accounts!Finds(p, i)
  BY DEF Accounts!ChooseLanguage
<1>1. row \in Accounts!User
  BY <1>0, UpsertedRow
<1>2. row.says \in Accounts!Decision /\ decided[i] \in Accounts!Decision
  BY <1>1 DEF Accounts!User, AccountInv, AccountTypes
<1>3. new \in Accounts!Decision /\ what \in Accounts!Decision
  BY <1>2 DEF Accounts!Decision
<1>4. accounts' = [accounts EXCEPT ![i] = [row EXCEPT !.says = new]]
  BY <1>1 DEF Accounts!User, Accounts!ChooseLanguage
<1>5. decided' = [decided EXCEPT ![i] = what]
  BY DEF Accounts!ChooseLanguage
<1>6. form' \in Accounts!Form /\ FormOfOne' /\ UNCHANGED overtaken
  BY DEF AccountInv, AccountTypes, FormOfOne, Accounts!ChooseLanguage
<1>7. row.says = decided[i] => new = what
  OBVIOUS
<1> HIDE DEF row, new, what
<1> QED
  BY <1>0, <1>3, <1>4, <1>5, <1>6, <1>7, UpsertDecides DEF row

LEMMA AdminGrantKeeps ==
    ASSUME AccountInv, NEW a \in Person, NEW p \in Person, NEW i \in Id,
           Accounts!AdminGrant(a, p, i)
    PROVE  AccountInv'
<1> DEFINE row == Accounts!UpsertUser(p, i)
           new == [row.says EXCEPT !.admin = TRUE]
           what == [decided[i] EXCEPT !.admin = TRUE]
<1>0. Accounts!Finds(p, i)
  BY DEF Accounts!AdminGrant
<1>1. row \in Accounts!User
  BY <1>0, UpsertedRow
<1>2. row.says \in Accounts!Decision /\ decided[i] \in Accounts!Decision
  BY <1>1 DEF Accounts!User, AccountInv, AccountTypes
<1>3. new \in Accounts!Decision /\ what \in Accounts!Decision
  BY <1>2 DEF Accounts!Decision
<1>4. accounts' = [accounts EXCEPT ![i] = [row EXCEPT !.says = new]]
  BY <1>1 DEF Accounts!User, Accounts!AdminGrant
<1>5. decided' = [decided EXCEPT ![i] = what]
  BY DEF Accounts!Decides, Accounts!AdminGrant
<1>6. form' \in Accounts!Form /\ FormOfOne' /\ UNCHANGED overtaken
  BY DecidesKeepsForm DEF AccountInv, Accounts!AdminGrant
<1>7. row.says = decided[i] => new = what
  OBVIOUS
<1> HIDE DEF row, new, what
<1> QED
  BY <1>0, <1>3, <1>4, <1>5, <1>6, <1>7, UpsertDecides DEF row

LEMMA CreateUserKeeps ==
    ASSUME AccountInv, NEW p \in Person, NEW i \in Id, NEW s \in Accounts!Status,
           NEW b \in BOOLEAN, Accounts!CreateUser(p, i, s, b)
    PROVE  AccountInv'
<1> DEFINE new == [Accounts!Fresh EXCEPT !.status = s, !.admin = b]
<1>1. new \in Accounts!Decision
  BY BlankRows DEF Accounts!Decision
<1>2. Accounts!Finds(p, i)
  BY DEF Accounts!Finds, Accounts!CreateUser
<1>3. accounts' = [accounts EXCEPT ![i] = [Accounts!UpsertUser(p, i) EXCEPT !.says = new]]
  BY DEF Accounts!CreateUser
<1>4. decided' = [decided EXCEPT ![i] = new]
  BY DEF Accounts!CreateUser, Accounts!Decides
<1>5. form' \in Accounts!Form /\ FormOfOne' /\ UNCHANGED overtaken
  BY DecidesKeepsForm DEF AccountInv, Accounts!CreateUser
<1> QED
  BY <1>1, <1>2, <1>3, <1>4, <1>5, UpsertDecides

LEMMA RecipientKeeps ==
    ASSUME AccountInv, NEW l \in Label, NEW i \in Id, Accounts!CreateOperatorRecipient(l, i)
    PROVE  AccountInv'
<1> USE DEF Accounts!CreateOperatorRecipient
<1> DEFINE row == [Accounts!Unused EXCEPT !.row = "kept", !.label = l]
<1>1. row \in Accounts!User /\ row.row = "kept" /\ row.telegram = None
      /\ row.says = Accounts!Fresh
  BY BlankRows DEF Accounts!Unused, Accounts!User
<1>2. decided[i] = Accounts!Fresh
  BY DEF AccountInv, UnusedIsFresh
<1>3. accounts' = [accounts EXCEPT ![i] = row] /\ decided' = [decided EXCEPT ![i] = Accounts!Fresh]
  BY <1>2 DEF AccountInv, AccountTypes
<1>4. form' \in Accounts!Form /\ FormOfOne' /\ overtaken' \in SUBSET Id /\ UNCHANGED overtaken
  BY DEF AccountInv, AccountTypes, FormOfOne
<1> HIDE DEF row
<1> QED
  BY <1>1, <1>3, <1>4, BlankRows, DecisionKept

LEMMA FormKeeps ==
    ASSUME AccountInv, NEW i \in Id, Accounts!EditUserForm(i)
    PROVE  AccountInv'
<1> USE DEF Accounts!EditUserForm, AccountInv, AccountTypes
<1>1. accounts[i].says \in Accounts!Decision
  BY DEF Accounts!User
<1>2. [accounts[i].says EXCEPT !.locale = "ru"] \in Accounts!Decision
  BY <1>1 DEF Accounts!Decision
<1>3. [accounts[i] EXCEPT !.says.locale = "ru"] \in Accounts!User
  BY <1>2 DEF Accounts!User
<1>4. form' \in Accounts!Form /\ FormOfOne'
  BY <1>3 DEF Accounts!Form, FormOfOne
<1> QED
  BY <1>4 DEF UnusedIsFresh, OneRowEach, RowsSayDecided, Accounts!Kept

LEMMA UpdateKeeps ==
    ASSUME AccountInv, NEW i \in Id, NEW e \in Accounts!Edits, Accounts!UpdateUser(i, e)
    PROVE  AccountInv'
<1> USE DEF Accounts!UpdateUser
<1> DEFINE says == [e.says EXCEPT !.locale = accounts[i].says.locale]
           row == [accounts[i] EXCEPT !.telegram = e.telegram, !.says = says]
           what == IF form.stale THEN decided[i] ELSE says
<1>1. e \in Accounts!User /\ accounts[i] \in Accounts!User /\ i \in Accounts!Kept
      /\ e.telegram \in Person \cup {None} /\ decided[i] \in Accounts!Decision
      /\ accounts[i].row = "kept"
  BY EditsAreUsers DEF AccountInv, AccountTypes, Accounts!User, Accounts!Kept
<1>2. e.says \in Accounts!Decision /\ accounts[i].says \in Accounts!Decision
  BY <1>1 DEF Accounts!User
<1>3. says \in Accounts!Decision
  BY <1>2 DEF Accounts!Decision
<1>4. accounts' = [accounts EXCEPT ![i] = row]
  BY <1>1 DEF Accounts!User, AccountInv, AccountTypes
<1>5. decided' = [decided EXCEPT ![i] = what]
  BY DEF AccountInv, AccountTypes
<1>6. /\ overtaken' \in SUBSET Id
      /\ \A k \in Id \ {i} : k \in overtaken <=> k \in overtaken'
      /\ i \notin overtaken' => ~form.stale
  BY DEF AccountInv, AccountTypes
<1>7. form' \in Accounts!Form /\ FormOfOne'
  BY BlankRows DEF FormOfOne
<1>8. \A k \in Accounts!Kept \ {i} : accounts[k].telegram # e.telegram
  BY DEF Accounts!RowsOf
<1> HIDE DEF says
<1>9. row \in Accounts!User /\ row.row = "kept" /\ row.telegram = e.telegram /\ row.says = says
  BY <1>1, <1>3 DEF Accounts!User
<1>10. what \in Accounts!Decision /\ (i \notin overtaken' => row.says = what)
  BY <1>1, <1>3, <1>6, <1>9
<1> HIDE DEF row, what
<1> QED
  BY <1>4, <1>5, <1>6, <1>7, <1>8, <1>9, <1>10, DecisionKept

LEMMA StatusKeeps ==
    ASSUME AccountInv, NEW i \in Id, NEW s \in Accounts!Status, Accounts!SetUserStatus(i, s)
    PROVE  AccountInv'
<1> USE DEF Accounts!SetUserStatus
<1> DEFINE says == [accounts[i].says EXCEPT !.status = s]
           row == [accounts[i] EXCEPT !.says = says]
           what == [decided[i] EXCEPT !.status = s]
<1>1. accounts[i] \in Accounts!User /\ i \in Accounts!Kept /\ decided[i] \in Accounts!Decision
      /\ accounts[i].row = "kept"
  BY DEF AccountInv, AccountTypes, Accounts!Kept
<1>2. accounts[i].says \in Accounts!Decision
  BY <1>1 DEF Accounts!User
<1>3. says \in Accounts!Decision /\ what \in Accounts!Decision
  BY <1>1, <1>2 DEF Accounts!Decision
<1>4. accounts' = [accounts EXCEPT ![i] = row]
  BY <1>1 DEF Accounts!User, AccountInv, AccountTypes
<1>5. decided' = [decided EXCEPT ![i] = what]
  BY DEF Accounts!Decides
<1>6. form' \in Accounts!Form /\ FormOfOne'
  BY DecidesKeepsForm DEF AccountInv
<1>7. i \notin overtaken => says = what
  BY <1>1 DEF AccountInv, RowsSayDecided
<1>8. row.telegram # None => \A k \in Accounts!Kept \ {i} : accounts[k].telegram # row.telegram
  BY <1>1 DEF AccountInv, OneRowEach, Accounts!User
<1> HIDE DEF says, what
<1>9. row \in Accounts!User /\ row.row = "kept" /\ row.says = says
  BY <1>1, <1>3 DEF Accounts!User
<1> HIDE DEF row
<1>10. overtaken' \in SUBSET Id /\ UNCHANGED overtaken
  BY DEF AccountInv, AccountTypes
<1> QED
  BY <1>3, <1>4, <1>5, <1>6, <1>7, <1>8, <1>9, <1>10, DecisionKept

LEMMA DestroyKeeps ==
    ASSUME AccountInv, NEW i \in Id, Accounts!DestroyUser(i)
    PROVE  AccountInv'
<1> USE DEF Accounts!DestroyUser, AccountInv, AccountTypes
<1> DEFINE row == [Accounts!Unused EXCEPT !.row = "gone"]
<1>1. row \in Accounts!User /\ row.row = "gone"
  BY BlankRows DEF Accounts!Unused, Accounts!User
<1>2. accounts' = [accounts EXCEPT ![i] = row]
  OBVIOUS
<1> HIDE DEF row
<1>3. /\ accounts' \in [Id -> Accounts!User]
      /\ accounts'[i].row = "gone"
      /\ \A k \in Id \ {i} : accounts'[k] = accounts[k]
  BY <1>1, <1>2
<1>4. Accounts!Kept' = Accounts!Kept \ {i}
  BY <1>3 DEF Accounts!Kept
<1>5. form' \in Accounts!Form /\ FormOfOne'
  BY BlankRows DEF FormOfOne
<1>6. decided' \in [Id -> Accounts!Decision] /\ overtaken' \subseteq Id
  BY BlankRows
<1>7. UnusedIsFresh'
  BY <1>3 DEF UnusedIsFresh
<1>8. OneRowEach'
  BY <1>3, <1>4 DEF OneRowEach
<1>9. RowsSayDecided'
  BY <1>3, <1>4 DEF RowsSayDecided, Accounts!Kept
<1> QED
  BY <1>3, <1>5, <1>6, <1>7, <1>8, <1>9

LEMMA AccountNextKeeps ==
    ASSUME AccountInv, [Accounts!Next]_v9
    PROVE  AccountInv'
<1>1. CASE UNCHANGED v9
  BY <1>1
  DEF v9, AccountInv, AccountTypes, FormOfOne, UnusedIsFresh, OneRowEach, RowsSayDecided,
      Accounts!Kept
<1>2. CASE Accounts!Next
  <2>1. CASE \E p \in Person, i \in Id : Accounts!RegisterUser(p, i)
    BY <2>1, RegisterKeeps
  <2>2. CASE \E p \in Person, i \in Id, l \in {"ru", "en"} : Accounts!ChooseLanguage(p, i, l)
    BY <2>2, LanguageKeeps
  <2>3. CASE \E a, p \in Person, i \in Id : Accounts!AdminAddUser(a, p, i)
    BY <2>3, RegisterKeeps DEF Accounts!AdminAddUser
  <2>4. CASE \E a, p \in Person, i \in Id : Accounts!AdminGrant(a, p, i)
    BY <2>4, AdminGrantKeeps
  <2>5. CASE \E l \in Label, i \in Id : Accounts!CreateOperatorRecipient(l, i)
    BY <2>5, RecipientKeeps
  <2>6. CASE \E p \in Person, i \in Id, s \in Accounts!Status, b \in BOOLEAN :
                Accounts!CreateUser(p, i, s, b)
    BY <2>6, CreateUserKeeps
  <2>7. CASE \E i \in Id : Accounts!EditUserForm(i)
    BY <2>7, FormKeeps
  <2>8. CASE \E i \in Id, e \in Accounts!Edits : Accounts!UpdateUser(i, e)
    BY <2>8, UpdateKeeps
  <2>9. CASE \E i \in Id : \/ Accounts!BlockUser(i)
                           \/ Accounts!DeleteUser(i)
                           \/ Accounts!EnableUser(i)
    BY <2>9, StatusKeeps
    DEF Accounts!BlockUser, Accounts!DeleteUser, Accounts!EnableUser, Accounts!Status
  <2>10. CASE \E i \in Id : Accounts!DestroyUser(i)
    BY <2>10, DestroyKeeps
  <2> QED
    BY <1>2, <2>1, <2>2, <2>3, <2>4, <2>5, <2>6, <2>7, <2>8, <2>9, <2>10 DEF Accounts!Next
<1> QED
  BY <1>1, <1>2

\* The table of users is as the code leaves it, whoever the users are.
THEOREM AccountInvariant == Spec => [](part = "accounts" => AccountInv)
<1>1. Init => (part = "accounts" => AccountInv)
  BY AccountInit DEF Init
<1>2. ASSUME part = "accounts" => AccountInv, [Next]_<<part, v1, v2, v3, v4, v5, v6, v7, v8, v9, v10>>
      PROVE  (part = "accounts" => AccountInv)'
  <2>1. CASE AccountsNext
    BY <1>2, <2>1, AccountNextKeeps DEF AccountsNext
  <2>2. CASE part # "accounts" /\ part' = part
    BY <2>2
  <2>3. CASE part' = part /\ v9' = v9
    BY <1>2, <2>3, AccountNextKeeps
  <2> QED
    BY <1>2, <2>1, <2>2, <2>3
    DEF Next, ApiNext, MailNext, SchemaNext, BackupNext, PeersNext, RuntimeNext, DialogNext,
        CatalogNext, HealthNext
<1> QED
  BY <1>1, <1>2, PTL DEF Spec

\* An account has one row, and the row says what was last decided about its
\* user, unless a form shown before the decision was saved after it.
THEOREM DecisionsKept == Spec => []DecisionsStand
<1>1. (part = "accounts" => AccountInv) => DecisionsStand
  BY DEF DecisionsStand, Accounts!DecisionsStand, AccountInv, OneRowEach, RowsSayDecided
<1> QED
  BY <1>1, AccountInvariant, PTL

-----------------------------------------------------------------------------
(* One user's e-mail address.                                              *)

MailTypes ==
    /\ email \in Address \cup {NoAddress}
    /\ verified \in BOOLEAN
    /\ codes \in [Code -> Mail!CodeRow \cup {[made |-> FALSE]}]
    /\ served \in BOOLEAN
    /\ sending = Mail!Nobody \/ sending \in [code : Code, address : Address]
    /\ mailbox \subseteq Mail!Mail

\* Somebody read a code of the address, and brought it back.
AddressProven ==
    verified => \E c \in Code :
        /\ codes[c].made
        /\ codes[c].purpose = "verify_email"
        /\ codes[c].used
        /\ codes[c].address = email
        /\ [kind |-> "code", address |-> email, code |-> c] \in mailbox

\* Code c, issued for the address, is spent.
Spent(c, address) == codes[c].made /\ codes[c].used /\ codes[c].address = address

\* The mail that is due goes to the verified address, and its code is spent.
DueIsProven ==
    sending # Mail!Nobody =>
        verified /\ email = sending.address /\ Spent(sending.code, sending.address)

MailsHonest ==
    \A m \in mailbox : m.kind = "config" =>
        /\ m.proven
        /\ m.code \in Code => Spent(m.code, m.address) /\ sending.code # m.code

\* The letter that carries a code went to the address the code is for.
LettersReachAddress ==
    \A m \in mailbox : m.kind = "code" /\ codes[m.code].made => m.address = codes[m.code].address

MailInv == MailTypes /\ AddressProven /\ DueIsProven /\ MailsHonest /\ LettersReachAddress

LEMMA MailInit == Mail!Init => MailInv
BY DEF Mail!Init, MailInv, MailTypes, AddressProven, DueIsProven, MailsHonest,
       LettersReachAddress

LEMMA LetterIsRecord ==
    ASSUME MailTypes, NEW m \in mailbox, m.kind = "code"
    PROVE  m.code \in Code /\ m = [kind |-> "code", address |-> m.address, code |-> m.code]
<1>1. m \in Mail!Mail
  BY DEF MailTypes
<1>2. m \in [kind : {"code"}, address : Address, code : Code]
  BY <1>1 DEF Mail!Mail
<1> QED
  BY <1>2

\* A row of codes that was made is a row of the table.
LEMMA MadeIsRow ==
    ASSUME MailTypes, NEW c \in Code
    PROVE  /\ codes[c].made \in BOOLEAN
           /\ codes[c].made => codes[c] \in Mail!CodeRow
<1>1. codes[c] \in Mail!CodeRow \cup {[made |-> FALSE]}
  BY DEF MailTypes
<1>2. CASE codes[c] \in Mail!CodeRow
  BY <1>2 DEF Mail!CodeRow
<1>3. CASE codes[c] = [made |-> FALSE]
  BY <1>3
<1> QED
  BY <1>1, <1>2, <1>3

LEMMA EditKeeps ==
    ASSUME MailInv, NEW a \in Address \cup {NoAddress}, Mail!EditUser(a)
    PROVE  MailInv'
<1> USE DEF Mail!EditUser, MailInv
<1>1. MailTypes'
  BY DEF MailTypes
<1>2. AddressProven'
  BY DEF AddressProven
<1>3. DueIsProven' /\ MailsHonest' /\ LettersReachAddress'
  BY DEF DueIsProven, MailsHonest, LettersReachAddress, Spent
<1> QED
  BY <1>1, <1>2, <1>3

\* Rows that were made stay as they were when one is made or not.
LEMMA MailCodeKeeps ==
    ASSUME MailInv, NEW c \in Code, NEW purpose \in Mail!Purpose, Mail!MailCode(c, purpose)
    PROVE  MailInv'
<1> DEFINE row == [made |-> TRUE, purpose |-> purpose, address |-> email,
                   used |-> FALSE, expired |-> FALSE]
           mail == [kind |-> "code", address |-> email, code |-> c]
<1>1. /\ sending = Mail!Nobody /\ email # NoAddress /\ ~codes[c].made
      /\ mailbox' = mailbox \cup {mail}
      /\ codes' = codes \/ codes' = [codes EXCEPT ![c] = row]
      /\ UNCHANGED <<email, verified, served, sending>>
  BY DEF Mail!MailCode
<1>2. email \in Address
  BY <1>1 DEF MailInv, MailTypes
<1>3. row \in Mail!CodeRow /\ mail \in Mail!Mail /\ mail.kind = "code"
  BY <1>2 DEF Mail!CodeRow, Mail!Mail
<1> HIDE DEF row, mail
<1>4. codes \in [Code -> Mail!CodeRow \cup {[made |-> FALSE]}]
  BY DEF MailInv, MailTypes
<1>5. codes' \in [Code -> Mail!CodeRow \cup {[made |-> FALSE]}]
  BY <1>1, <1>3, <1>4
<1>6. \A k \in Code : codes[k].made => codes'[k] = codes[k]
  BY <1>1, <1>4
<1>7. MailTypes'
  BY <1>1, <1>3, <1>5 DEF MailInv, MailTypes
<1>8. AddressProven'
  BY <1>1, <1>6 DEF MailInv, AddressProven
<1>9. DueIsProven'
  BY <1>1 DEF DueIsProven, Mail!Nobody
<1>10. MailsHonest'
  BY <1>1, <1>3, <1>6 DEF MailInv, MailsHonest, Spent
<1>11. LettersReachAddress'
  <2>1. mail.code = c /\ mail.address = email /\ row.address = email
    BY DEF mail, row
  <2>2. \A m \in mailbox : m.kind = "code" => m.code \in Code \ {c}
    BY LetterIsRecord DEF MailInv, Mail!MailCode, Mail!Typed
  <2>3. \A k \in Code \ {c} : codes'[k] = codes[k]
    BY <1>1, <1>4
  <2>4. codes'[c].made => codes'[c] = row
    BY <1>1, <1>4
  <2> QED
    BY <1>1, <2>1, <2>2, <2>3, <2>4 DEF MailInv, LettersReachAddress
<1> QED
  BY <1>7, <1>8, <1>9, <1>10, <1>11 DEF MailInv

LEMMA VerifyKeeps ==
    ASSUME MailInv, NEW c \in Code, Mail!Verify(c)
    PROVE  MailInv'
<1> DEFINE row == [codes[c] EXCEPT !.used = TRUE]
<1>1. /\ sending = Mail!Nobody /\ Mail!Typed(c)
      /\ codes[c].made /\ codes[c].purpose = "verify_email" /\ codes[c].address = email
      /\ verified' = TRUE /\ codes' = [codes EXCEPT ![c] = row]
      /\ UNCHANGED <<email, served, sending, mailbox>>
  BY DEF Mail!Verify, Mail!ValidCode
<1>2. codes[c] \in Mail!CodeRow
  BY <1>1, MadeIsRow DEF MailInv
<1>3. /\ row \in Mail!CodeRow /\ row.made /\ row.used
      /\ row.purpose = codes[c].purpose /\ row.address = codes[c].address
  BY <1>1, <1>2 DEF Mail!CodeRow
<1> HIDE DEF row
<1>4. /\ codes' \in [Code -> Mail!CodeRow \cup {[made |-> FALSE]}] /\ codes'[c] = row
      /\ \A k \in Code \ {c} : codes'[k] = codes[k]
  BY <1>1, <1>3 DEF MailInv, MailTypes
<1>5. MailTypes'
  BY <1>1, <1>4 DEF MailInv, MailTypes
<1>6. [kind |-> "code", address |-> email, code |-> c] \in mailbox
  <2>1. PICK m \in mailbox : m.kind = "code" /\ m.code = c
    BY <1>1 DEF Mail!Typed
  <2>2. m = [kind |-> "code", address |-> m.address, code |-> m.code]
    BY <2>1, LetterIsRecord DEF MailInv
  <2>3. m.address = email
    BY <1>1, <2>1 DEF MailInv, LettersReachAddress
  <2> QED
    BY <2>1, <2>2, <2>3
<1>7. AddressProven'
  BY <1>1, <1>3, <1>4, <1>6 DEF AddressProven
<1>8. DueIsProven'
  BY <1>1 DEF DueIsProven, Mail!Nobody
<1>9. MailsHonest'
  BY <1>1, <1>3, <1>4 DEF MailInv, MailsHonest, Spent
<1>10. LettersReachAddress'
  BY <1>1, <1>3, <1>4, LetterIsRecord DEF MailInv, LettersReachAddress
<1> QED
  BY <1>5, <1>7, <1>8, <1>9, <1>10 DEF MailInv

LEMMA RedeemKeeps ==
    ASSUME MailInv, NEW c \in Code, Mail!Redeem(c)
    PROVE  MailInv'
<1> DEFINE row == [codes[c] EXCEPT !.used = TRUE]
<1>1. /\ codes[c].made /\ ~codes[c].used /\ codes[c].address = email /\ verified
      /\ codes' = [codes EXCEPT ![c] = row]
      /\ sending' = [code |-> c, address |-> codes[c].address]
      /\ UNCHANGED <<email, verified, served, mailbox>>
  BY DEF Mail!Redeem, Mail!ValidCode
<1>2. codes[c] \in Mail!CodeRow
  BY <1>1, MadeIsRow DEF MailInv
<1>3. /\ row \in Mail!CodeRow /\ row.made /\ row.used
      /\ row.purpose = codes[c].purpose /\ row.address = codes[c].address
  BY <1>1, <1>2 DEF Mail!CodeRow
<1> HIDE DEF row
<1>4. /\ codes' \in [Code -> Mail!CodeRow \cup {[made |-> FALSE]}] /\ codes'[c] = row
      /\ \A k \in Code \ {c} : codes'[k] = codes[k]
  BY <1>1, <1>3 DEF MailInv, MailTypes
<1>5. sending' \in [code : Code, address : Address]
      /\ sending'.code = c /\ sending'.address = codes[c].address
  BY <1>1, <1>2 DEF Mail!CodeRow
<1>6. MailTypes'
  BY <1>1, <1>4, <1>5 DEF MailInv, MailTypes
<1>7. AddressProven'
  BY <1>1, <1>3, <1>4 DEF MailInv, AddressProven
<1>8. DueIsProven'
  BY <1>1, <1>3, <1>4, <1>5 DEF DueIsProven, Spent
<1>9. MailsHonest'
  BY <1>1, <1>3, <1>4, <1>5 DEF MailInv, MailsHonest, Spent
<1>10. LettersReachAddress'
  BY <1>1, <1>3, <1>4, LetterIsRecord DEF MailInv, LettersReachAddress
<1> QED
  BY <1>6, <1>7, <1>8, <1>9, <1>10 DEF MailInv

LEMMA SendRecoveredKeeps ==
    ASSUME MailInv, Mail!SendRecovered
    PROVE  MailInv'
<1> DEFINE mail == [kind |-> "config", address |-> sending.address, code |-> sending.code,
                    proven |-> verified /\ email = sending.address]
<1>1. /\ sending # Mail!Nobody /\ mailbox' = mailbox \cup {mail} /\ sending' = Mail!Nobody
      /\ UNCHANGED <<email, verified, codes, served>>
  BY DEF Mail!SendRecovered
<1>2. sending \in [code : Code, address : Address]
  BY <1>1 DEF MailInv, MailTypes
<1>3. verified /\ email = sending.address /\ Spent(sending.code, sending.address)
  BY <1>1 DEF MailInv, DueIsProven
<1>4. mail = [kind |-> "config", address |-> sending.address, code |-> sending.code,
              proven |-> TRUE]
  BY <1>3
<1>5. /\ mail \in Mail!Mail /\ mail.kind = "config" /\ mail.proven
      /\ mail.code = sending.code /\ mail.address = sending.address
  BY <1>2, <1>4 DEF Mail!Mail
<1> HIDE DEF mail
<1>6. MailTypes'
  BY <1>1, <1>5 DEF MailInv, MailTypes
<1>7. AddressProven' /\ DueIsProven'
  BY <1>1 DEF MailInv, AddressProven, DueIsProven
<1>8. MailsHonest'
  BY <1>1, <1>3, <1>5, ServicesAssumption DEF MailInv, MailsHonest, Spent, Mail!Nobody
<1>9. LettersReachAddress'
  BY <1>1, <1>5 DEF MailInv, LettersReachAddress
<1> QED
  BY <1>6, <1>7, <1>8, <1>9 DEF MailInv

LEMMA SendConfigKeeps ==
    ASSUME MailInv, Mail!SendConfig
    PROVE  MailInv'
<1> DEFINE mail == [kind |-> "config", address |-> email, code |-> "admin", proven |-> TRUE]
<1>1. /\ email # NoAddress /\ mailbox' = mailbox \cup {mail}
      /\ UNCHANGED <<email, verified, codes, served, sending>>
  BY DEF Mail!SendConfig
<1>2. email \in Address
  BY <1>1 DEF MailInv, MailTypes
<1>3. mail \in Mail!Mail /\ mail.kind = "config" /\ mail.proven /\ mail.code \notin Code
  BY <1>2, ServicesAssumption DEF Mail!Mail
<1> HIDE DEF mail
<1>4. MailTypes'
  BY <1>1, <1>3 DEF MailInv, MailTypes
<1>5. AddressProven' /\ DueIsProven'
  BY <1>1 DEF MailInv, AddressProven, DueIsProven, Spent
<1>6. MailsHonest' /\ LettersReachAddress'
  BY <1>1, <1>3 DEF MailInv, MailsHonest, LettersReachAddress, Spent
<1> QED
  BY <1>4, <1>5, <1>6 DEF MailInv

LEMMA ExpireKeeps ==
    ASSUME MailInv, NEW c \in Code, Mail!ExpireCode(c)
    PROVE  MailInv'
<1> DEFINE row == [codes[c] EXCEPT !.expired = TRUE]
<1>1. /\ codes[c].made /\ codes' = [codes EXCEPT ![c] = row]
      /\ UNCHANGED <<email, verified, served, sending, mailbox>>
  BY DEF Mail!ExpireCode
<1>2. codes[c] \in Mail!CodeRow
  BY <1>1, MadeIsRow DEF MailInv
<1>3. /\ row \in Mail!CodeRow /\ row.made = codes[c].made /\ row.used = codes[c].used
      /\ row.purpose = codes[c].purpose /\ row.address = codes[c].address
  BY <1>1, <1>2 DEF Mail!CodeRow
<1> HIDE DEF row
<1>4. codes' \in [Code -> Mail!CodeRow \cup {[made |-> FALSE]}]
  BY <1>1, <1>3 DEF MailInv, MailTypes
<1>5. \A k \in Code : /\ codes'[k].made = codes[k].made /\ codes'[k].used = codes[k].used
                       /\ codes'[k].purpose = codes[k].purpose
                       /\ codes'[k].address = codes[k].address
  BY <1>1, <1>3 DEF MailInv, MailTypes
<1>6. MailTypes'
  BY <1>1, <1>4 DEF MailInv, MailTypes
<1>7. AddressProven'
  BY <1>1, <1>5 DEF MailInv, AddressProven
<1>8. DueIsProven'
  <2>1. sending # Mail!Nobody => sending.code \in Code
    BY DEF MailInv, MailTypes
  <2> QED
    BY <1>1, <1>5, <2>1 DEF MailInv, DueIsProven, Spent
<1>9. MailsHonest'
  BY <1>1, <1>5 DEF MailInv, MailsHonest, Spent
<1>10. LettersReachAddress'
  BY <1>1, <1>5, LetterIsRecord DEF MailInv, LettersReachAddress
<1> QED
  BY <1>6, <1>7, <1>8, <1>9, <1>10 DEF MailInv

LEMMA MailNextKeeps ==
    ASSUME MailInv, [Mail!Next]_v2
    PROVE  MailInv'
<1> USE DEF MailInv, MailTypes, AddressProven, DueIsProven, MailsHonest, LettersReachAddress,
            Spent
<1>1. CASE UNCHANGED v2
  BY <1>1 DEF v2
<1>2. CASE Mail!LoseRecovered
  BY <1>2, ServicesAssumption DEF Mail!LoseRecovered, Mail!Nobody
<1>3. CASE Mail!RevokeDevice
  BY <1>3 DEF Mail!RevokeDevice
<1> USE DEF Mail!Next
<1> HIDE DEF MailInv
<1>4. CASE \E a \in Address \cup {NoAddress} : Mail!EditUser(a)
  BY <1>4, EditKeeps
<1>5. CASE \E c \in Code : Mail!StartVerification(c) \/ Mail!StartRecovery(c)
  BY <1>5, MailCodeKeeps DEF Mail!StartVerification, Mail!StartRecovery, Mail!Purpose
<1>6. CASE \E c \in Code : Mail!Verify(c)
  BY <1>6, VerifyKeeps
<1>7. CASE \E c \in Code : Mail!Redeem(c)
  BY <1>7, RedeemKeeps
<1>8. CASE Mail!SendRecovered \/ Mail!SendConfig
  BY <1>8, SendRecoveredKeeps, SendConfigKeeps
<1>9. CASE \E c \in Code : Mail!ExpireCode(c)
  BY <1>9, ExpireKeeps
<1> QED
  BY <1>1, <1>2, <1>3, <1>4, <1>5, <1>6, <1>7, <1>8, <1>9

\* Codes and mails are as the panel leaves them, whatever the addresses are.
THEOREM MailInvariant == Spec => [](part = "mail" => MailInv)
<1>1. Init => (part = "mail" => MailInv)
  BY MailInit DEF Init
<1>2. ASSUME part = "mail" => MailInv, [Next]_<<part, v1, v2, v3, v4, v5, v6, v7, v8, v9, v10>>
      PROVE  (part = "mail" => MailInv)'
  <2>1. CASE MailNext
    BY <1>2, <2>1, MailNextKeeps DEF MailNext
  <2>2. CASE part # "mail" /\ part' = part
    BY <2>2
  <2>3. CASE part' = part /\ v2' = v2
    BY <1>2, <2>3, MailNextKeeps
  <2> QED
    BY <1>2, <2>1, <2>2, <2>3
    DEF Next, ApiNext, SchemaNext, BackupNext, PeersNext, RuntimeNext, DialogNext,
        CatalogNext, AccountsNext, HealthNext
<1> QED
  BY <1>1, <1>2, PTL DEF Spec

\* A verified address was proven by a code read in its mailbox; a
\* configuration goes to the verified address alone, once per code.
THEOREM MailsProven == Spec => []ProvenMailOnce
<1>1. (part = "mail" => MailInv) => ProvenMailOnce
  BY DEF ProvenMailOnce, Mail!ProvenMailOnce, MailInv, AddressProven, MailsHonest, Spent
<1> QED
  BY <1>1, MailInvariant, PTL

-----------------------------------------------------------------------------
(* The handlers behind the bot's commands and buttons.                     *)

\* Who may have the configuration of the device.
MayHave(u, d) == devices[d].owner = u \/ (devices[d].issued /\ u \in Configured)

\* Nothing was sent of a device that was not asked for, and its row is blank.
UnaskedIsBlank ==
    \A d \in ChatDevice : devices[d].status = "none" =>
        /\ devices[d] = Dialog!NoDeviceRow
        /\ \A u \in ChatUser : d \notin inbox[u]
        /\ \A m \in outgoing : m.device # d

RequestedByUser ==
    \A d \in ChatDevice : devices[d].status = "requested" => devices[d].owner \in ChatUser

SentToHolders ==
    /\ \A m \in outgoing : MayHave(m.to, m.device)
    /\ \A u \in ChatUser : \A d \in inbox[u] : MayHave(u, d)

RevokedByOwner == \A d \in ChatDevice : devices[d].by \in {NoUser, devices[d].owner}

DialogInv == Dialog!TypeOK /\ UnaskedIsBlank /\ RequestedByUser /\ SentToHolders /\ RevokedByOwner

LEMMA DialogInit == Dialog!Init => DialogInv
<1>1. Dialog!NoDeviceRow \in Dialog!DeviceRow
  BY DEF Dialog!NoDeviceRow, Dialog!DeviceRow, Dialog!Status
<1>2. [kind : {"admin_resend"}, device : ChatDevice] \subseteq Dialog!Button
  BY DEF Dialog!Button, Dialog!Kind
<1>3. ASSUME Dialog!Init PROVE Dialog!TypeOK
  <2>1. devices \in [ChatDevice -> Dialog!DeviceRow]
    BY <1>1, <1>3 DEF Dialog!Init
  <2>2. buttons \subseteq Dialog!Button
    BY <1>2, <1>3 DEF Dialog!Init
  <2> QED
    BY <1>3, <2>1, <2>2 DEF Dialog!Init, Dialog!TypeOK
<1>4. ASSUME Dialog!Init PROVE UnaskedIsBlank /\ RequestedByUser /\ SentToHolders /\ RevokedByOwner
  BY <1>4
  DEF Dialog!Init, UnaskedIsBlank, RequestedByUser, SentToHolders, RevokedByOwner,
      Dialog!NoDeviceRow
<1> QED
  BY <1>3, <1>4 DEF DialogInv

\* The rows stay; messages are added for those who may have them, delivered,
\* or dropped.
LEMMA MessagesKeep ==
    ASSUME DialogInv, UNCHANGED devices,
           admins' \subseteq ChatUser, buttons' \subseteq Dialog!Button,
           outgoing' \subseteq [device : ChatDevice, to : ChatUser],
           inbox' \in [ChatUser -> SUBSET ChatDevice],
           \A m \in outgoing' : devices[m.device].status # "none" /\ MayHave(m.to, m.device),
           \A u \in ChatUser : \A d \in inbox'[u] :
               devices[d].status # "none" /\ MayHave(u, d)
    PROVE  DialogInv'
<1>1. Dialog!TypeOK'
  BY DEF DialogInv, Dialog!TypeOK
<1>2. UnaskedIsBlank'
  BY DEF DialogInv, UnaskedIsBlank
<1>3. RequestedByUser' /\ RevokedByOwner'
  BY DEF DialogInv, RequestedByUser, RevokedByOwner
<1>4. SentToHolders'
  BY DEF SentToHolders, MayHave
<1> QED
  BY <1>1, <1>2, <1>3, <1>4 DEF DialogInv

\* What is on its way or has arrived is of a device that was asked for, and
\* with somebody who may have it.
LEMMA SentBefore ==
    ASSUME DialogInv
    PROVE  /\ \A m \in outgoing : /\ m.device \in ChatDevice /\ m.to \in ChatUser
                                  /\ devices[m.device].status # "none"
                                  /\ MayHave(m.to, m.device)
           /\ \A u \in ChatUser : \A d \in inbox[u] :
                 d \in ChatDevice /\ devices[d].status # "none" /\ MayHave(u, d)
<1>1. ASSUME NEW m \in outgoing
      PROVE  m.device \in ChatDevice /\ m.to \in ChatUser
  <2>1. m \in [device : ChatDevice, to : ChatUser]
    BY DEF DialogInv, Dialog!TypeOK
  <2> QED
    BY <2>1
<1>2. \A u \in ChatUser : inbox[u] \subseteq ChatDevice
  BY DEF DialogInv, Dialog!TypeOK
<1> QED
  BY <1>1, <1>2 DEF DialogInv, UnaskedIsBlank, SentToHolders

\* A configuration is sent to one who may have it.
LEMMA SendToKeeps ==
    ASSUME DialogInv, NEW d \in ChatDevice, NEW u \in ChatUser,
           devices[d].status # "none", MayHave(u, d), Dialog!SendTo(d, u),
           UNCHANGED <<admins, devices, buttons, inbox>>
    PROVE  DialogInv'
<1>1. \A m \in [device : {d}, to : {u}] :
          m \in [device : ChatDevice, to : ChatUser] /\ m.device = d /\ m.to = u
  OBVIOUS
<1>2. outgoing' \subseteq [device : ChatDevice, to : ChatUser]
  BY <1>1 DEF Dialog!SendTo, DialogInv, Dialog!TypeOK
<1>3. \A m \in outgoing' : devices[m.device].status # "none" /\ MayHave(m.to, m.device)
  BY <1>1, SentBefore DEF Dialog!SendTo
<1>4. admins' \subseteq ChatUser /\ buttons' \subseteq Dialog!Button
      /\ inbox' \in [ChatUser -> SUBSET ChatDevice]
  BY DEF DialogInv, Dialog!TypeOK
<1> QED
  BY <1>2, <1>3, <1>4, SentBefore, MessagesKeep

\* Buttons are shown and administrators named without a row being touched.
LEMMA ChatKeeps ==
    ASSUME DialogInv, UNCHANGED <<devices, outgoing, inbox>>,
           admins' \subseteq ChatUser, buttons' \subseteq Dialog!Button
    PROVE  DialogInv'
BY DEF DialogInv, Dialog!TypeOK, UnaskedIsBlank, RequestedByUser, SentToHolders,
       RevokedByOwner, MayHave

\* One row is written that keeps its owner and who issued it, or is the row
\* of a device that nobody asked for before.
LEMMA RowKeeps ==
    ASSUME DialogInv, NEW d \in ChatDevice, NEW row \in Dialog!DeviceRow,
           devices' = [devices EXCEPT ![d] = row],
           row.status # "none",
           row.status = "requested" => row.owner \in ChatUser,
           row.by = devices[d].by,
           \/ devices[d].status = "none"
           \/ row.owner = devices[d].owner /\ row.issued = devices[d].issued,
           UNCHANGED <<admins, buttons, outgoing, inbox>>
    PROVE  DialogInv'
<1>1. /\ devices' \in [ChatDevice -> Dialog!DeviceRow] /\ devices'[d] = row
      /\ \A e \in ChatDevice \ {d} : devices'[e] = devices[e]
  BY DEF DialogInv, Dialog!TypeOK
<1>2. Dialog!TypeOK'
  BY <1>1 DEF DialogInv, Dialog!TypeOK
<1>3. UnaskedIsBlank'
  BY <1>1 DEF DialogInv, UnaskedIsBlank
<1>4. RequestedByUser'
  BY <1>1 DEF DialogInv, RequestedByUser
<1>5. RevokedByOwner'
  <2>1. devices[d].by = NoUser \/ devices[d].by = row.owner
    <3>1. CASE devices[d].status = "none"
      BY <3>1 DEF DialogInv, UnaskedIsBlank, Dialog!NoDeviceRow
    <3>2. CASE row.owner = devices[d].owner
      BY <3>2 DEF DialogInv, RevokedByOwner
    <3> QED
      BY <3>1, <3>2
  <2> QED
    BY <1>1, <2>1 DEF DialogInv, RevokedByOwner
<1>6. SentToHolders'
  BY <1>1, SentBefore DEF SentToHolders, MayHave
<1> QED
  BY <1>2, <1>3, <1>4, <1>5, <1>6 DEF DialogInv

LEMMA RequestKeeps ==
    ASSUME DialogInv, NEW u \in ChatUser, NEW d \in ChatDevice, Dialog!PlanRequest(u, d)
    PROVE  DialogInv'
<1> DEFINE row == [devices[d] EXCEPT !.status = "requested", !.owner = u]
<1>1. devices[d] \in Dialog!DeviceRow
  BY DEF DialogInv, Dialog!TypeOK
<1>2. /\ row \in Dialog!DeviceRow /\ row.status = "requested" /\ row.owner = u
      /\ row.by = devices[d].by
  BY <1>1 DEF Dialog!DeviceRow, Dialog!Status
<1>3. devices' = [devices EXCEPT ![d] = row] /\ devices[d].status = "none"
      /\ UNCHANGED <<admins, buttons, outgoing, inbox>>
  BY DEF Dialog!PlanRequest, DialogInv, Dialog!TypeOK
<1> HIDE DEF row
<1> QED
  BY <1>2, <1>3, RowKeeps

\* The rows of some devices of the user are revoked.
LEMMA RevokeAllKeeps ==
    ASSUME DialogInv, NEW u \in ChatUser, NEW on \in SUBSET Dialog!Owned(u),
           Dialog!RevokeAll(u, on), UNCHANGED <<admins, buttons, outgoing, inbox>>
    PROVE  DialogInv'
<1>1. \A d \in ChatDevice : devices[d] \in Dialog!DeviceRow
  BY DEF DialogInv, Dialog!TypeOK
<1>2. ASSUME NEW d \in ChatDevice
      PROVE  /\ devices'[d] \in Dialog!DeviceRow
             /\ devices'[d].owner = devices[d].owner /\ devices'[d].issued = devices[d].issued
             /\ \/ devices'[d] = devices[d]
                \/ devices'[d].status = "revoked" /\ devices[d].status # "none"
                   /\ devices'[d].by = devices[d].owner
  <2>1. CASE d \in on /\ devices[d].status # "revoked"
    <3>1. devices'[d] = [devices[d] EXCEPT !.status = "revoked", !.by = u]
      BY <2>1 DEF Dialog!RevokeAll
    <3>2. devices[d].owner = u /\ devices[d].status # "none"
      BY <2>1 DEF Dialog!Owned
    <3> QED
      BY <1>1, <3>1, <3>2 DEF Dialog!DeviceRow, Dialog!Status
  <2>2. CASE ~(d \in on /\ devices[d].status # "revoked")
    BY <1>1, <2>2 DEF Dialog!RevokeAll
  <2> QED
    BY <2>1, <2>2
<1>3. Dialog!TypeOK'
  BY <1>2 DEF DialogInv, Dialog!TypeOK, Dialog!RevokeAll
<1>4. UnaskedIsBlank' /\ RequestedByUser'
  BY <1>2 DEF DialogInv, UnaskedIsBlank, RequestedByUser
<1>5. RevokedByOwner'
  BY <1>2 DEF DialogInv, RevokedByOwner
<1>6. SentToHolders'
  BY <1>2, SentBefore DEF SentToHolders, MayHave
<1> QED
  BY <1>3, <1>4, <1>5, <1>6 DEF DialogInv

\* The grant commits, and the owner is sent the configuration.
LEMMA ApproveKeeps ==
    ASSUME DialogInv, NEW u \in ChatUser, NEW d \in ChatDevice, Dialog!AdminApprove(u, d)
    PROVE  DialogInv'
<1> DEFINE row == [devices[d] EXCEPT !.status = "active"]
           messages == [device : {d}, to : {devices[d].owner}]
<1>1. /\ devices[d].status = "requested"
      /\ devices' = [devices EXCEPT ![d] = row]
      /\ outgoing' = outgoing \cup messages
      /\ UNCHANGED <<admins, buttons, inbox>>
  BY DEF Dialog!AdminApprove, Dialog!ApproveOrder, Dialog!SendTo
<1>2. devices[d] \in Dialog!DeviceRow /\ devices[d].owner \in ChatUser
  BY <1>1 DEF DialogInv, Dialog!TypeOK, RequestedByUser
<1>3. /\ row \in Dialog!DeviceRow /\ row.status = "active" /\ row.owner = devices[d].owner
      /\ row.by = devices[d].by /\ row.issued = devices[d].issued
  BY <1>2 DEF Dialog!DeviceRow, Dialog!Status
<1>4. \A m \in messages : /\ m \in [device : ChatDevice, to : ChatUser]
                         /\ m.device = d /\ m.to = row.owner
  BY <1>2, <1>3
<1> HIDE DEF row, messages
<1>5. /\ devices' \in [ChatDevice -> Dialog!DeviceRow] /\ devices'[d] = row
      /\ \A e \in ChatDevice \ {d} : devices'[e] = devices[e]
  BY <1>1, <1>3 DEF DialogInv, Dialog!TypeOK
<1>6. Dialog!TypeOK'
  BY <1>1, <1>4, <1>5 DEF DialogInv, Dialog!TypeOK
<1>7. UnaskedIsBlank' /\ RequestedByUser' /\ RevokedByOwner'
  BY <1>1, <1>3, <1>4, <1>5
  DEF DialogInv, UnaskedIsBlank, RequestedByUser, RevokedByOwner
<1>8. SentToHolders'
  BY <1>1, <1>3, <1>4, <1>5, SentBefore DEF SentToHolders, MayHave
<1> QED
  BY <1>6, <1>7, <1>8 DEF DialogInv

LEMMA IssueKeeps ==
    ASSUME DialogInv, NEW u \in ChatUser, NEW d \in ChatDevice, Dialog!AdminIssueConfig(u, d)
    PROVE  DialogInv'
<1>1. PICK completed \in BOOLEAN :
         /\ Dialog!IssueAdminConfig(u, d, completed)
         /\ IF completed THEN Dialog!SendTo(d, u) ELSE UNCHANGED outgoing
  BY DEF Dialog!AdminIssueConfig
<1> DEFINE row == [devices[d] EXCEPT !.status = "active", !.issued = completed]
           messages == IF completed THEN [device : {d}, to : {u}] ELSE {}
<1>2. /\ u \in Configured /\ devices[d].status = "none"
      /\ devices' = [devices EXCEPT ![d] = row]
      /\ UNCHANGED <<admins, buttons, inbox>>
  BY <1>1 DEF Dialog!IssueAdminConfig, Dialog!AdminIssueConfig, DialogInv, Dialog!TypeOK
<1>3. outgoing' = outgoing \cup messages
  BY <1>1 DEF Dialog!SendTo
<1>4. devices[d] \in Dialog!DeviceRow
  BY DEF DialogInv, Dialog!TypeOK
<1>5. /\ row \in Dialog!DeviceRow /\ row.status = "active" /\ row.owner = devices[d].owner
      /\ row.by = devices[d].by /\ row.issued = completed
  BY <1>4 DEF Dialog!DeviceRow, Dialog!Status
<1>6. \A m \in messages : /\ m \in [device : ChatDevice, to : ChatUser]
                         /\ m.device = d /\ m.to = u /\ row.issued
  BY <1>5
<1> HIDE DEF row, messages
<1>7. /\ devices' \in [ChatDevice -> Dialog!DeviceRow] /\ devices'[d] = row
      /\ \A e \in ChatDevice \ {d} : devices'[e] = devices[e]
  BY <1>2, <1>5 DEF DialogInv, Dialog!TypeOK
<1>8. Dialog!TypeOK'
  BY <1>2, <1>3, <1>6, <1>7 DEF DialogInv, Dialog!TypeOK
<1>9. UnaskedIsBlank' /\ RequestedByUser' /\ RevokedByOwner'
  BY <1>2, <1>3, <1>5, <1>6, <1>7
  DEF DialogInv, UnaskedIsBlank, RequestedByUser, RevokedByOwner
<1>10. SentToHolders'
  BY <1>2, <1>3, <1>5, <1>6, <1>7, SentBefore DEF SentToHolders, MayHave
<1> QED
  BY <1>8, <1>9, <1>10 DEF DialogInv

\* The panel sets the status of a device that was granted.
LEMMA SetsStatusKeeps ==
    ASSUME DialogInv, NEW d \in ChatDevice, Dialog!PanelSetsStatus(d)
    PROVE  DialogInv'
<1>1. PICK s \in {"active", "disabled", "revoked"} :
         devices' = [devices EXCEPT ![d].status = s]
  BY DEF Dialog!PanelSetsStatus
<1> DEFINE row == [devices[d] EXCEPT !.status = s]
<1>2. devices[d] \in Dialog!DeviceRow
  BY DEF DialogInv, Dialog!TypeOK
<1>3. /\ row \in Dialog!DeviceRow /\ row.status = s /\ row.owner = devices[d].owner
      /\ row.by = devices[d].by /\ row.issued = devices[d].issued
  BY <1>2 DEF Dialog!DeviceRow, Dialog!Status
<1>4. devices' = [devices EXCEPT ![d] = row] /\ UNCHANGED <<admins, buttons, outgoing, inbox>>
  BY <1>1 DEF Dialog!PanelSetsStatus
<1> HIDE DEF row
<1> QED
  BY <1>3, <1>4, RowKeeps

LEMMA DeliveryKeeps ==
    ASSUME DialogInv, NEW m \in outgoing, Dialog!SendDelivery(m) \/ Dialog!DeliveryFails(m)
    PROVE  DialogInv'
<1>1. m.device \in ChatDevice /\ m.to \in ChatUser /\ devices[m.device].status # "none"
      /\ MayHave(m.to, m.device)
  BY SentBefore
<1>2. /\ UNCHANGED <<admins, devices, buttons>> /\ outgoing' \subseteq outgoing
      /\ inbox' = inbox \/ inbox' = [inbox EXCEPT ![m.to] = inbox[m.to] \cup {m.device}]
  BY DEF Dialog!SendDelivery, Dialog!DeliveryFails
<1>3. /\ inbox' \in [ChatUser -> SUBSET ChatDevice]
      /\ \A u \in ChatUser : \A d \in inbox'[u] : d \in inbox[u] \/ (u = m.to /\ d = m.device)
  BY <1>1, <1>2 DEF DialogInv, Dialog!TypeOK
<1>4. /\ admins' \subseteq ChatUser /\ buttons' \subseteq Dialog!Button
      /\ outgoing' \subseteq [device : ChatDevice, to : ChatUser]
  BY <1>2 DEF DialogInv, Dialog!TypeOK
<1>5. \A n \in outgoing' : devices[n.device].status # "none" /\ MayHave(n.to, n.device)
  BY <1>2, SentBefore
<1>6. \A u \in ChatUser : \A d \in inbox'[u] : devices[d].status # "none" /\ MayHave(u, d)
  BY <1>1, <1>3, SentBefore
<1> QED
  BY <1>2, <1>3, <1>4, <1>5, <1>6, MessagesKeep

LEMMA ButtonsShown ==
    ASSUME DialogInv, NEW on \in SUBSET ChatDevice, NEW kinds \in SUBSET Dialog!Kind,
           buttons' = buttons \cup [kind : kinds, device : on]
    PROVE  buttons' \subseteq Dialog!Button
<1>1. [kind : kinds, device : on] \subseteq Dialog!Button
  BY DEF Dialog!Button
<1> QED
  BY <1>1 DEF DialogInv, Dialog!TypeOK

LEMMA DialogNextKeeps ==
    ASSUME DialogInv, [Dialog!Next]_v7
    PROVE  DialogInv'
<1>0. admins \subseteq ChatUser /\ buttons \subseteq Dialog!Button
  BY DEF DialogInv, Dialog!TypeOK
<1>1. CASE UNCHANGED v7
  BY <1>0, <1>1, ChatKeeps DEF v7
<1>2. CASE Dialog!Next
  <2>1. CASE \E u \in ChatUser, d \in ChatDevice : Dialog!PlanRequest(u, d)
    BY <2>1, RequestKeeps
  <2>2. CASE \E u \in ChatUser : Dialog!MyDevices(u)
    <3>1. PICK u \in ChatUser : Dialog!MyDevices(u)
      BY <2>2
    <3>2. Dialog!Owned(u) \in SUBSET ChatDevice /\ {"resend", "delete"} \in SUBSET Dialog!Kind
      BY DEF Dialog!Owned, Dialog!Kind
    <3>3. buttons' \subseteq Dialog!Button
      BY <3>1, <3>2, ButtonsShown DEF Dialog!MyDevices
    <3> QED
      BY <1>0, <3>1, <3>3, ChatKeeps DEF Dialog!MyDevices
  <2>3. CASE \E u \in ChatUser, d \in ChatDevice : Dialog!UserResendConfig(u, d)
    BY <2>3, SendToKeeps DEF Dialog!UserResendConfig, Dialog!Owned, MayHave
  <2>4. CASE \E d \in ChatDevice : Dialog!UserRevokeDevice(d)
    <3>1. PICK d \in ChatDevice : Dialog!UserRevokeDevice(d)
      BY <2>4
    <3>2. {d} \in SUBSET ChatDevice /\ {"confirm"} \in SUBSET Dialog!Kind
      BY DEF Dialog!Kind
    <3>3. buttons' \subseteq Dialog!Button
      BY <3>1, <3>2, ButtonsShown DEF Dialog!UserRevokeDevice, Dialog!Show
    <3> QED
      BY <1>0, <3>1, <3>3, ChatKeeps DEF Dialog!UserRevokeDevice
  <2>5. CASE \E u \in ChatUser, d \in ChatDevice : Dialog!UserRevokeDeviceConfirm(u, d)
    <3>1. PICK u \in ChatUser, d \in ChatDevice : Dialog!UserRevokeDeviceConfirm(u, d)
      BY <2>5
    <3>2. {d} \cap Dialog!Owned(u) \in SUBSET Dialog!Owned(u)
      OBVIOUS
    <3> QED
      BY <3>1, <3>2, RevokeAllKeeps DEF Dialog!UserRevokeDeviceConfirm
  <2>6. CASE \E u \in ChatUser : Dialog!UserResetDevicesConfirm(u)
    <3>1. PICK u \in ChatUser : Dialog!UserResetDevicesConfirm(u)
      BY <2>6
    <3>2. PICK on \in SUBSET Dialog!Owned(u) : Dialog!RevokeAll(u, on)
      BY <3>1 DEF Dialog!UserResetDevicesConfirm
    <3> QED
      BY <3>1, <3>2, RevokeAllKeeps DEF Dialog!UserResetDevicesConfirm
  <2>7. CASE \E u \in ChatUser : Dialog!AdminPending(u)
    <3>1. {d \in ChatDevice : devices[d].status = "requested"} \in SUBSET ChatDevice
          /\ {"approve"} \in SUBSET Dialog!Kind
      BY DEF Dialog!Kind
    <3>2. buttons' \subseteq Dialog!Button
      BY <2>7, <3>1, ButtonsShown DEF Dialog!AdminPending, Dialog!Show
    <3> QED
      BY <1>0, <2>7, <3>2, ChatKeeps DEF Dialog!AdminPending
  <2>8. CASE \E u \in ChatUser, d \in ChatDevice : Dialog!AdminApprove(u, d)
    BY <2>8, ApproveKeeps
  <2>9. CASE \E u \in ChatUser, d \in ChatDevice : Dialog!AdminResendConfig(u, d)
    <3>1. PICK u \in ChatUser, d \in ChatDevice : Dialog!AdminResendConfig(u, d)
      BY <2>9
    <3>2. devices[d] \in Dialog!DeviceRow
      BY DEF DialogInv, Dialog!TypeOK
    <3>3. devices[d].owner \in ChatUser
      BY <3>1, <3>2 DEF Dialog!AdminResendConfig, Dialog!DeviceRow
    <3> QED
      BY <3>1, <3>3, SendToKeeps DEF Dialog!AdminResendConfig, Dialog!Sendable, MayHave
  <2>10. CASE \E u, target \in ChatUser : Dialog!AdminGrant(u, target)
    BY <1>0, <2>10, ChatKeeps DEF Dialog!AdminGrant
  <2>11. CASE \E u, target \in ChatUser, d \in ChatDevice : Dialog!AdminCreateOrder(u, target, d)
    BY <2>11, RequestKeeps DEF Dialog!AdminCreateOrder
  <2>12. CASE \E u \in ChatUser, d \in ChatDevice : Dialog!AdminIssueConfig(u, d)
    BY <2>12, IssueKeeps
  <2>13. CASE \E u \in ChatUser, d \in ChatDevice : Dialog!AdminResendIssuedConfig(u, d)
    BY <2>13, SendToKeeps
    DEF Dialog!AdminResendIssuedConfig, Dialog!Handoff, Dialog!Sendable, MayHave
  <2>14. CASE \E m \in outgoing : Dialog!SendDelivery(m) \/ Dialog!DeliveryFails(m)
    BY <2>14, DeliveryKeeps
  <2>15. CASE \E u \in ChatUser : Dialog!PanelTakesAdmin(u)
    BY <1>0, <2>15, ChatKeeps DEF Dialog!PanelTakesAdmin
  <2>16. CASE \E d \in ChatDevice : Dialog!PanelSetsStatus(d)
    BY <2>16, SetsStatusKeeps
  <2> QED
    BY <1>2, <2>1, <2>2, <2>3, <2>4, <2>5, <2>6, <2>7, <2>8, <2>9, <2>10, <2>11, <2>12, <2>13,
       <2>14, <2>15, <2>16
    DEF Dialog!Next
<1> QED
  BY <1>1, <1>2

\* Rows, buttons and messages are as the handlers leave them, whoever speaks
\* to the bot.
THEOREM DialogInvariant == Spec => [](part = "dialog" => DialogInv)
<1>1. Init => (part = "dialog" => DialogInv)
  BY DialogInit DEF Init
<1>2. ASSUME part = "dialog" => DialogInv, [Next]_<<part, v1, v2, v3, v4, v5, v6, v7, v8, v9, v10>>
      PROVE  (part = "dialog" => DialogInv)'
  <2>1. CASE DialogNext
    BY <1>2, <2>1, DialogNextKeeps DEF DialogNext
  <2>2. CASE part # "dialog" /\ part' = part
    BY <2>2
  <2>3. CASE part' = part /\ v7' = v7
    BY <1>2, <2>3, DialogNextKeeps
  <2> QED
    BY <1>2, <2>1, <2>2, <2>3
    DEF Next, ApiNext, MailNext, SchemaNext, BackupNext, PeersNext, RuntimeNext,
        CatalogNext, AccountsNext, HealthNext
<1> QED
  BY <1>1, <1>2, PTL DEF Spec

\* A configuration reaches the owner of its device alone, or a configured
\* administrator when it was issued by one; the bot revokes for the owner.
THEOREM OwnersServed == Spec => []BotActsForOwner
<1>1. ASSUME DialogInv PROVE Dialog!BotActsForOwner
  BY <1>1, SentBefore DEF Dialog!BotActsForOwner, DialogInv, RevokedByOwner, MayHave
<1>2. (part = "dialog" => DialogInv) => BotActsForOwner
  BY <1>1 DEF BotActsForOwner
<1> QED
  BY <1>2, DialogInvariant, PTL
=============================================================================
