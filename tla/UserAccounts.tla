------------------------------ MODULE UserAccounts ------------------------------
(***************************************************************************)
(* Rows of users and what decides about them: the bot registers whoever    *)
(* speaks to it, and whomever an administrator names, time and again; the  *)
(* panel blocks, deletes and edits, by a form that is saved as it was      *)
(* shown.                                                                   *)
(***************************************************************************)
EXTENDS Naturals, FiniteSets

CONSTANTS
    Id,         \* users.id, AUTOINCREMENT: not used twice
    Person,     \* Telegram accounts
    Configured, \* ADMIN_IDS of the bot's settings
    Label,      \* labels of recipients without Telegram
    None

VARIABLES
    users,      \* users[i]: the row
    form,       \* the edit form of the panel in the operator's browser
    decided,    \* history: what was last decided about the user of the row
    overtaken   \* history: users whose form was saved over a later decision

accountVars == <<users, form, decided, overtaken>>

Status == {"active", "blocked", "deleted"}
Decision == [status : Status, admin : BOOLEAN, locale : {"ru", "en"}]
User == [row : {"unused", "kept", "gone"}, telegram : Person \cup {None},
         label : Label \cup {None}, says : Decision]
Fresh == [status |-> "active", admin |-> FALSE, locale |-> "ru"]
Unused == [row |-> "unused", telegram |-> None, label |-> None, says |-> Fresh]

(* stale is history: a decision was taken since the form was shown. *)
Form == [users : SUBSET Id, shows : User, stale : BOOLEAN]
NoForm == [users |-> {}, shows |-> Unused, stale |-> FALSE]

TypeOK ==
    /\ users \in [Id -> User]
    /\ form \in Form /\ Cardinality(form.users) <= 1
    /\ decided \in [Id -> Decision]
    /\ overtaken \subseteq Id

Init ==
    /\ users = [i \in Id |-> Unused]
    /\ form = NoForm
    /\ decided = [i \in Id |-> Fresh]
    /\ overtaken = {}

Kept == {i \in Id : users[i].row = "kept"}
RowsOf(p) == {i \in Kept : users[i].telegram = p}

(* The administrators of the settings, and those of the rows. *)
IsAdmin(p) == p \in Configured \/ \E i \in RowsOf(p) : users[i].says.admin

Decides(i, what) ==
    /\ decided' = [decided EXCEPT ![i] = what]
    /\ form' = [form EXCEPT !.stale = @ \/ i \in form.users]

------------------------------------------------------------------------------
(* INSERT INTO users ... ON CONFLICT(telegram_id) DO UPDATE SET the names.  *)
Finds(p, i) == IF RowsOf(p) = {} THEN users[i].row = "unused" ELSE i \in RowsOf(p)

(* Mutant: who speaks to the bot again is active again. *)
UpsertUser_Active(p, i) ==
    IF i \in RowsOf(p) THEN [users[i] EXCEPT !.says.status = "active"]
    ELSE [Unused EXCEPT !.row = "kept", !.telegram = p]

UpsertUser(p, i) ==
    IF i \in RowsOf(p) THEN users[i]
    ELSE [Unused EXCEPT !.row = "kept", !.telegram = p]

(* /start and a request for access, whatever the status of the user. *)
RegisterUser(p, i) ==
    /\ Finds(p, i)
    /\ users' = [users EXCEPT ![i] = UpsertUser(p, i)]
    /\ UNCHANGED <<form, decided, overtaken>>

ChooseLanguage(p, i, locale) ==
    /\ Finds(p, i)
    /\ users' = [users EXCEPT ![i] = [UpsertUser(p, i) EXCEPT !.says.locale = locale]]
    /\ decided' = [decided EXCEPT ![i].locale = locale]
    /\ UNCHANGED <<form, overtaken>>

(* /admin_add_user and /admin_request name somebody who may never have come. *)
AdminAddUser(a, p, i) == IsAdmin(a) /\ RegisterUser(p, i)

AdminGrant(a, p, i) ==
    /\ IsAdmin(a)
    /\ Finds(p, i)
    /\ users' = [users EXCEPT ![i] = [UpsertUser(p, i) EXCEPT !.says.admin = TRUE]]
    /\ Decides(i, [decided[i] EXCEPT !.admin = TRUE])
    /\ UNCHANGED overtaken

(* A recipient of an issuance manifest, known by a label alone. *)
CreateOperatorRecipient(l, i) ==
    /\ \A k \in Kept : users[k].label # l
    /\ users[i].row = "unused"
    /\ users' = [users EXCEPT ![i] = [Unused EXCEPT !.row = "kept", !.label = l]]
    /\ UNCHANGED <<form, decided, overtaken>>

------------------------------------------------------------------------------
(* The panel. *)
CreateUser(p, i, status, admin) ==
    /\ RowsOf(p) = {} /\ users[i].row = "unused"
    /\ LET says == [Fresh EXCEPT !.status = status, !.admin = admin] IN
       /\ users' = [users EXCEPT ![i] = [UpsertUser(p, i) EXCEPT !.says = says]]
       /\ Decides(i, says)
    /\ UNCHANGED overtaken

EditUserForm(i) ==
    /\ i \in Kept
    /\ form' = [users |-> {i}, shows |-> [users[i] EXCEPT !.says.locale = "ru"], stale |-> FALSE]
    /\ UNCHANGED <<users, decided, overtaken>>

(* What the operator makes of the form, which does not have the language:   *)
(* one field, or nothing, is changed.                                       *)
Edits ==
    LET u == form.shows IN
    {u} \cup {[u EXCEPT !.says.status = s] : s \in Status}
        \cup {[u EXCEPT !.says.admin = b] : b \in BOOLEAN}
        \cup {[u EXCEPT !.telegram = p] : p \in Person}

(* Every field is written as the form has it; an account of another row, or *)
(* none, is refused.                                                        *)
UpdateUser(i, edit) ==
    LET says == [edit.says EXCEPT !.locale = users[i].says.locale] IN
    /\ i \in form.users \cap Kept
    /\ edit.telegram # None /\ RowsOf(edit.telegram) \subseteq {i}
    /\ users' = [users EXCEPT ![i].telegram = edit.telegram, ![i].says = says]
    /\ form' = NoForm
    /\ decided' = IF form.stale THEN decided ELSE [decided EXCEPT ![i] = says]
    /\ overtaken' = IF form.stale THEN overtaken \cup {i} ELSE overtaken \ {i}

SetUserStatus(i, status) ==
    /\ i \in Kept
    /\ users' = [users EXCEPT ![i].says.status = status]
    /\ Decides(i, [decided[i] EXCEPT !.status = status])
    /\ UNCHANGED overtaken

BlockUser(i) == SetUserStatus(i, "blocked")
DeleteUser(i) == SetUserStatus(i, "deleted")
EnableUser(i) == SetUserStatus(i, "active")

(* Delete permanently (PanelPeers has its steps): a form of the user finds  *)
(* no row any more, the account may come back as a new one.                 *)
DestroyUser(i) ==
    /\ i \in Kept
    /\ users' = [users EXCEPT ![i] = [Unused EXCEPT !.row = "gone"]]
    /\ form' = IF i \in form.users THEN NoForm ELSE form
    /\ decided' = [decided EXCEPT ![i] = Fresh]
    /\ overtaken' = overtaken \ {i}

Next ==
    \/ \E p \in Person, i \in Id : RegisterUser(p, i)
    \/ \E p \in Person, i \in Id, l \in {"ru", "en"} : ChooseLanguage(p, i, l)
    \/ \E a, p \in Person, i \in Id : AdminAddUser(a, p, i)
    \/ \E a, p \in Person, i \in Id : AdminGrant(a, p, i)
    \/ \E l \in Label, i \in Id : CreateOperatorRecipient(l, i)
    \/ \E p \in Person, i \in Id, s \in Status, b \in BOOLEAN : CreateUser(p, i, s, b)
    \/ \E i \in Id : EditUserForm(i)
    \/ \E i \in Id, e \in Edits : UpdateUser(i, e)
    \/ \E i \in Id : BlockUser(i)
    \/ \E i \in Id : DeleteUser(i)
    \/ \E i \in Id : EnableUser(i)
    \/ \E i \in Id : DestroyUser(i)

Spec == Init /\ [][Next]_accountVars

------------------------------------------------------------------------------
(* An account has one row, and the row says what was last decided about its *)
(* user: nothing the user or an administrator of the bot does unblocks or   *)
(* demotes anybody, nor promotes but by a grant of an administrator.  The   *)
(* one exception is a form of the panel that was shown before a decision    *)
(* and saved after it.                                                      *)
DecisionsStand ==
    /\ \A i, k \in Kept : users[i].telegram = users[k].telegram
          => i = k \/ users[i].telegram = None
    /\ \A i \in Kept \ overtaken : users[i].says = decided[i]
==============================================================================
