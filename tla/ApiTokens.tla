------------------------------ MODULE ApiTokens ------------------------------
(***************************************************************************)
(* Bearer tokens of the read API.  The web panel issues, rotates and       *)
(* revokes them, the command line issues, revokes and runs a smoke cycle   *)
(* with a token of its own, the API server checks them.  The three are     *)
(* processes with connections of their own: a repository transaction is    *)
(* one step here, since a SQLite transaction that has read cannot commit   *)
(* over a later commit, and what a process does between two transactions   *)
(* interleaves with the others.                                            *)
(***************************************************************************)
EXTENDS FiniteSets

CONSTANTS
    Token,      \* rows of api_tokens; the random id and secret are the row's name
    ApiCall,    \* HTTP requests in flight at the API server
    Scope,      \* API_TOKEN_ALLOWED_SCOPES
    NoToken     \* rotated_from_token_id IS NULL

VARIABLES
    tokens,     \* tokens[t]: the row of token t
    owner,      \* users.status of the user tokens may belong to
    calls,      \* calls[r]: what request r carries and how far it got
    smoke       \* the command line's smoke cycle: where it is, its token

tokenVars == <<tokens, owner, calls, smoke>>

Reason == {"none", "rotated", "revoked", "smoke-complete"}

TokenRow == [made : BOOLEAN, owned : BOOLEAN, scopes : SUBSET Scope,
             reason : Reason, expired : BOOLEAN, from : Token \cup {NoToken}]

CallStep == {"idle", "arrived", "authorised", "marked", "answered", "refused"}

\* closed is history: the token was revoked or expired when the request came.
Call == [step : CallStep, token : Token, scope : Scope, closed : BOOLEAN]

NoRow == [made |-> FALSE, owned |-> FALSE, scopes |-> {}, reason |-> "none",
          expired |-> FALSE, from |-> NoToken]

TypeOK ==
    /\ tokens \in [Token -> TokenRow]
    /\ owner \in {"active", "inactive", "gone"}
    /\ calls \in [ApiCall -> Call]
    /\ smoke \in [step : {"idle", "issued", "done"}, token : Token \cup {NoToken}]

Init ==
    /\ tokens = [t \in Token |-> NoRow]
    /\ owner = "active"
    /\ calls \in [ApiCall -> [step : {"idle"}, token : Token, scope : Scope, closed : {FALSE}]]
    /\ smoke = [step |-> "idle", token |-> NoToken]

Revoked(t) == tokens[t].reason # "none"

Closed(t) == Revoked(t) \/ tokens[t].expired

(* The row the WHERE clause returns: not revoked, not expired. *)
ValidRow(t) == tokens[t].made /\ ~Revoked(t) /\ ~tokens[t].expired

(* The checks on the row in their order; an owner may have been blocked. *)
Authenticates(t, scope) ==
    /\ ~Revoked(t)
    /\ ~tokens[t].expired
    /\ tokens[t].owned => owner = "active"
    /\ scope \in tokens[t].scopes

NewRow(owned, scopes, from) ==
    [made |-> TRUE, owned |-> owned, scopes |-> scopes, reason |-> "none",
     expired |-> FALSE, from |-> from]

------------------------------------------------------------------------------
(* The row of a new token; its id is new. *)
CreateToken(t, owned, scopes) ==
    /\ ~tokens[t].made
    /\ tokens' = [tokens EXCEPT ![t] = NewRow(owned, scopes, NoToken)]

(* Issue a token: the panel never names an owner, the command line may.     *)
(* Bound: a token is issued for one scope here, the smoke's for all.        *)
IssueFromPanel(t, scope) ==
    /\ CreateToken(t, FALSE, {scope})
    /\ UNCHANGED <<owner, calls, smoke>>

IssueFromCli(t, scope, owned) ==
    /\ owned => owner # "gone"
    /\ CreateToken(t, owned, {scope})
    /\ UNCHANGED <<owner, calls, smoke>>

(* The successor has the owner and the scopes; the old row is revoked. *)
Rotated(t, next) ==
    [tokens EXCEPT ![t].reason = "rotated",
                   ![next] = NewRow(tokens[t].owned, tokens[t].scopes, t)]

(* Mutant: a row that was revoked after the page was shown is rotated too. *)
Rotate_AnyRow(t, next) ==
    /\ tokens[t].made
    /\ ~tokens[next].made
    /\ tokens' = Rotated(t, next)
    /\ UNCHANGED <<owner, calls, smoke>>

(* Rotation in one transaction: the row is read and must not be revoked,    *)
(* its successor is inserted, the row is revoked.  An expired token may be  *)
(* rotated, and so may the token of a blocked owner.                        *)
Rotate(t, next) ==
    /\ tokens[t].made
    /\ ~Revoked(t)
    /\ ~tokens[next].made
    /\ tokens' = Rotated(t, next)
    /\ UNCHANGED <<owner, calls, smoke>>

(* The UPDATE touches the row only WHERE revoked_at IS NULL, so the first   *)
(* reason stays.                                                            *)
CloseToken(t, reason) ==
    [tokens EXCEPT ![t].reason = IF tokens[t].made /\ ~Revoked(t) THEN reason ELSE @]

RevokeFromPanel(t) ==
    /\ tokens' = CloseToken(t, "revoked")
    /\ UNCHANGED <<owner, calls, smoke>>

RevokeFromCli(t) ==
    /\ tokens' = CloseToken(t, "revoked")
    /\ UNCHANGED <<owner, calls, smoke>>

------------------------------------------------------------------------------
(* The smoke cycle: issue, call the API, revoke in a finally clause.        *)
SmokeIssue(t) ==
    /\ smoke.step = "idle"
    /\ CreateToken(t, FALSE, Scope)
    /\ smoke' = [step |-> "issued", token |-> t]
    /\ UNCHANGED <<owner, calls>>

SmokeFinish ==
    /\ smoke.step = "issued"
    /\ tokens' = CloseToken(smoke.token, "smoke-complete")
    /\ smoke' = [step |-> "done", token |-> NoToken]
    /\ UNCHANGED <<owner, calls>>

(* The command is killed before its finally clause: the token stays open. *)
SmokeKilled ==
    /\ smoke.step = "issued"
    /\ smoke' = [step |-> "done", token |-> NoToken]
    /\ UNCHANGED <<tokens, owner, calls>>

------------------------------------------------------------------------------
(* A request arrives with the secret of token t for a route of some scope.  *)
Arrive(r) ==
    /\ calls[r].step = "idle"
    /\ calls' = [calls EXCEPT ![r].step = "arrived",
                              ![r].closed = Closed(calls[r].token)]
    /\ UNCHANGED <<tokens, owner, smoke>>

(* The dependency of the route: read the row, check it. *)
Authorise(r) ==
    LET t == calls[r].token IN
    /\ calls[r].step = "arrived"
    /\ calls' = [calls EXCEPT ![r].step =
                    IF ValidRow(t) /\ Authenticates(t, calls[r].scope)
                    THEN "authorised" ELSE "refused"]
    /\ UNCHANGED <<tokens, owner, smoke>>

(* last_used_at is written for the id alone, whatever became of the token;  *)
(* a locked database fails the request instead.                             *)
MarkUsed(r) ==
    /\ calls[r].step = "authorised"
    /\ \E s \in {"marked", "refused"} : calls' = [calls EXCEPT ![r].step = s]
    /\ UNCHANGED <<tokens, owner, smoke>>

(* The route reads its aggregates, records the read in the audit and        *)
(* answers; the record may fail, and the request with it.                   *)
Answer(r) ==
    /\ calls[r].step = "marked"
    /\ \E s \in {"answered", "refused"} : calls' = [calls EXCEPT ![r].step = s]
    /\ UNCHANGED <<tokens, owner, smoke>>

------------------------------------------------------------------------------
(* expires_at passes; the owner is blocked or unblocked elsewhere. *)
Expire(t) ==
    /\ tokens[t].made
    /\ tokens' = [tokens EXCEPT ![t].expired = TRUE]
    /\ UNCHANGED <<owner, calls, smoke>>

OwnerStatusChanges ==
    /\ owner # "gone"
    /\ owner' \in {"active", "inactive"}
    /\ UNCHANGED <<tokens, calls, smoke>>

(* The panel deletes the owner for good: ON DELETE SET NULL leaves the      *)
(* tokens, as tokens of nobody.                                             *)
OwnerDestroyed ==
    /\ owner # "gone"
    /\ owner' = "gone"
    /\ tokens' = [t \in Token |-> [tokens[t] EXCEPT !.owned = FALSE]]
    /\ UNCHANGED <<calls, smoke>>

Next ==
    \/ \E t \in Token, scope \in Scope : IssueFromPanel(t, scope)
    \/ \E t \in Token, scope \in Scope, owned \in BOOLEAN : IssueFromCli(t, scope, owned)
    \/ \E t, next \in Token : Rotate(t, next)
    \/ \E t \in Token : RevokeFromPanel(t)
    \/ \E t \in Token : RevokeFromCli(t)
    \/ \E t \in Token : SmokeIssue(t)
    \/ SmokeFinish
    \/ SmokeKilled
    \/ \E r \in ApiCall : Arrive(r)
    \/ \E r \in ApiCall : Authorise(r)
    \/ \E r \in ApiCall : MarkUsed(r)
    \/ \E r \in ApiCall : Answer(r)
    \/ \E t \in Token : Expire(t)
    \/ OwnerStatusChanges
    \/ OwnerDestroyed

Spec == Init /\ [][Next]_tokenVars

------------------------------------------------------------------------------
Successors(t) == {u \in Token : tokens[u].from = t}

(* A line of rotations has one end: a token that was rotated has exactly    *)
(* one successor, and one that was revoked for any other reason has none,   *)
(* so that revoking the last token closes the whole line.  A request that   *)
(* is answered carried a token that nobody had closed when the request      *)
(* arrived, for a scope the token was issued with.                          *)
RevokedStaysShut ==
    /\ \A t \in Token :
          Cardinality(Successors(t)) = (IF tokens[t].reason = "rotated" THEN 1 ELSE 0)
    /\ \A r \in ApiCall : calls[r].step = "answered" =>
          /\ ~calls[r].closed
          /\ calls[r].scope \in tokens[calls[r].token].scopes
==============================================================================
