------------------------------ MODULE MCServices ------------------------------
(***************************************************************************)
(* The services beside the grant and revoke core, each on its own state:   *)
(* they share no variable, so that one state graph per service says all    *)
(* there is to say.  part names the service that runs; the variables of    *)
(* the others are Off.                                                     *)
(***************************************************************************)
EXTENDS Naturals, TLC

CONSTANTS
    Off,
    Token, ApiCall, Scope, NoToken,             \* ApiTokens
    Address, Code, NoAddress,                   \* EmailRecovery
    Opener, OldDevice, Rows0,                   \* SchemaMigration
    Pages, MaxCommit, Unrestorable,             \* BackupRestore
    PeerDevice, Foreign, NoDevice,              \* PanelPeers
    Proc, NoProc, MaxUpdate,                    \* BotRuntime
    ChatUser, Configured, ChatDevice, NoUser,   \* BotDialog
    Name, Node, ServerId, ServedDevice,         \* ServerCatalog
    Process, Bot, BotServer, Quota, None,
    Id, Person, AdminIds, Label,                \* UserAccounts
    MaxFaults                                   \* ServerHealth

\* A value that stands for none of a set is no member of it; the peers made
\* with the app are of no device, the bot is a process, the old installation
\* has devices, the database file is not empty.
ASSUME ServicesAssumption ==
    /\ NoToken \notin Token
    /\ None \notin Person
    /\ "admin" \notin Code /\ "none" \notin Code
    /\ NoDevice \notin PeerDevice /\ Foreign \cap PeerDevice = {}
    /\ None \notin Name /\ Bot \in Process
    /\ Rows0 \subseteq OldDevice
    /\ Pages \in Nat \ {0} /\ MaxCommit \in Nat
    /\ NoProc \notin Proc /\ MaxUpdate \in Nat

VARIABLES
    part,
    tokens, owner, calls, apiSmoke,
    email, verified, codes, served, sending, mailbox,
    users, table, spare, indexed, step, seen, granted, clash, interrupted,
    file, journal, commit, first, second, moments, archive, restored,
    rows, peers, marked, request, peerBot, disturbed,
    lock, bot, batch, ready, sent, pending, webhook, starts, handled, dropped, smoke,
    admins, devices, buttons, outgoing, inbox,
    yaml, servers, process, placed, nodes, quota, asked, spoiled, astray,
    accounts, form, decided, overtaken,
    entry, wrong, check, health, run

Api == INSTANCE ApiTokens WITH smoke <- apiSmoke
Mail == INSTANCE EmailRecovery
Schema == INSTANCE SchemaMigration WITH Proc <- Opener, Device <- OldDevice, devices <- table
Backup == INSTANCE BackupRestore
Peers == INSTANCE PanelPeers WITH Device <- PeerDevice, bot <- peerBot
Runtime == INSTANCE BotRuntime
Dialog == INSTANCE BotDialog WITH Device <- ChatDevice, User <- ChatUser, Nobody <- NoUser
Catalog == INSTANCE ServerCatalog WITH Device <- ServedDevice, Row <- ServerId,
    file <- yaml, rows <- servers, devices <- placed, served <- nodes
Accounts == INSTANCE UserAccounts WITH users <- accounts, Configured <- AdminIds
Health == INSTANCE ServerHealth WITH sent <- run

ApiOff == tokens = Off /\ owner = Off /\ calls = Off /\ apiSmoke = Off
MailOff == /\ email = Off /\ verified = Off /\ codes = Off
           /\ served = Off /\ sending = Off /\ mailbox = Off
SchemaOff == /\ users = Off /\ table = Off /\ spare = Off /\ indexed = Off /\ step = Off
             /\ seen = Off /\ granted = Off /\ clash = Off /\ interrupted = Off
BackupOff == /\ file = Off /\ journal = Off /\ commit = Off /\ first = Off
             /\ second = Off /\ moments = Off /\ archive = Off /\ restored = Off
PeersOff == /\ rows = Off /\ peers = Off /\ marked = Off
            /\ request = Off /\ peerBot = Off /\ disturbed = Off
RuntimeOff == /\ lock = Off /\ bot = Off /\ batch = Off /\ ready = Off /\ sent = Off
              /\ pending = Off /\ webhook = Off /\ starts = Off /\ handled = Off
              /\ dropped = Off /\ smoke = Off
DialogOff == /\ admins = Off /\ devices = Off /\ buttons = Off
             /\ outgoing = Off /\ inbox = Off
CatalogOff == /\ yaml = Off /\ servers = Off /\ process = Off /\ placed = Off
              /\ nodes = Off /\ quota = Off /\ asked = Off /\ spoiled = Off /\ astray = Off
AccountsOff == /\ accounts = Off /\ form = Off /\ decided = Off
               /\ overtaken = Off
HealthOff == entry = Off /\ wrong = Off /\ check = Off /\ health = Off /\ run = Off

Init ==
    /\ part \in {"api", "mail", "schema", "backup", "peers", "runtime", "dialog",
                "catalog", "accounts", "health"}
    /\ IF part = "api" THEN Api!Init ELSE ApiOff
    /\ IF part = "mail" THEN Mail!Init ELSE MailOff
    /\ IF part = "schema" THEN Schema!Init ELSE SchemaOff
    /\ IF part = "backup" THEN Backup!Init ELSE BackupOff
    /\ IF part = "peers" THEN Peers!Init ELSE PeersOff
    /\ IF part = "runtime" THEN Runtime!Init ELSE RuntimeOff
    /\ IF part = "dialog" THEN Dialog!Init ELSE DialogOff
    /\ IF part = "catalog" THEN Catalog!Init ELSE CatalogOff
    /\ IF part = "accounts" THEN Accounts!Init ELSE AccountsOff
    /\ IF part = "health" THEN Health!Init ELSE HealthOff

v1 == <<tokens, owner, calls, apiSmoke>>
v2 == <<email, verified, codes, served, sending, mailbox>>
v3 == <<users, table, spare, indexed, step, seen, granted, clash, interrupted>>
v4 == <<file, journal, commit, first, second, moments, archive, restored>>
v5 == <<rows, peers, marked, request, peerBot, disturbed>>
v6 == <<lock, bot, batch, ready, sent, pending, webhook, starts, handled, dropped, smoke>>
v7 == <<admins, devices, buttons, outgoing, inbox>>
v8 == <<yaml, servers, process, placed, nodes, quota, asked, spoiled, astray>>
v9 == <<accounts, form, decided, overtaken>>
v10 == <<entry, wrong, check, health, run>>

ApiNext == part = "api" /\ Api!Next
    /\ UNCHANGED <<part, v2, v3, v4, v5, v6, v7, v8, v9, v10>>
MailNext == part = "mail" /\ Mail!Next
    /\ UNCHANGED <<part, v1, v3, v4, v5, v6, v7, v8, v9, v10>>
SchemaNext == part = "schema" /\ Schema!Next
    /\ UNCHANGED <<part, v1, v2, v4, v5, v6, v7, v8, v9, v10>>
BackupNext == part = "backup" /\ Backup!Next
    /\ UNCHANGED <<part, v1, v2, v3, v5, v6, v7, v8, v9, v10>>
PeersNext == part = "peers" /\ Peers!Next
    /\ UNCHANGED <<part, v1, v2, v3, v4, v6, v7, v8, v9, v10>>
RuntimeNext == part = "runtime" /\ Runtime!Next
    /\ UNCHANGED <<part, v1, v2, v3, v4, v5, v7, v8, v9, v10>>
DialogNext == part = "dialog" /\ Dialog!Next
    /\ UNCHANGED <<part, v1, v2, v3, v4, v5, v6, v8, v9, v10>>
CatalogNext == part = "catalog" /\ Catalog!Next
    /\ UNCHANGED <<part, v1, v2, v3, v4, v5, v6, v7, v9, v10>>
AccountsNext == part = "accounts" /\ Accounts!Next
    /\ UNCHANGED <<part, v1, v2, v3, v4, v5, v6, v7, v8, v10>>
HealthNext == part = "health" /\ Health!Next
    /\ UNCHANGED <<part, v1, v2, v3, v4, v5, v6, v7, v8, v9>>

Next ==
    \/ ApiNext
    \/ MailNext
    \/ SchemaNext
    \/ BackupNext
    \/ PeersNext
    \/ RuntimeNext
    \/ DialogNext
    \/ CatalogNext
    \/ AccountsNext
    \/ HealthNext

Spec == Init /\ [][Next]_<<part, v1, v2, v3, v4, v5, v6, v7, v8, v9, v10>>

(* Sound: every property is a state formula that names no single value of   *)
(* these sets.  The services use the same model values, which keeps the     *)
(* permutations few.                                                        *)
Symmetry == Permutations(Token) \cup Permutations(PeerDevice)

(* Every service's state has the type its module declares. *)
TypeOK ==
    /\ part = "api" => Api!TypeOK
    /\ part = "mail" => Mail!TypeOK
    /\ part = "schema" => Schema!TypeOK
    /\ part = "backup" => Backup!TypeOK
    /\ part = "peers" => Peers!TypeOK
    /\ part = "runtime" => Runtime!TypeOK
    /\ part = "dialog" => Dialog!TypeOK
    /\ part = "catalog" => Catalog!TypeOK
    /\ part = "accounts" => Accounts!TypeOK
    /\ part = "health" => Health!TypeOK

(* ApiTokens: a revoked or rotated token, and its line, stays shut. *)
RevokedStaysShut == part = "api" => Api!RevokedStaysShut

(* EmailRecovery: a configuration goes once to a proven address. *)
ProvenMailOnce == part = "mail" => Mail!ProvenMailOnce

(* SchemaMigration: no device row is lost by a start that is cut short. *)
RowsSurviveMigration == part = "schema" => Schema!RowsSurviveMigration

(* BackupRestore: an archive that verifies is what the file once was. *)
BackupIsSnapshot == part = "backup" => Backup!BackupIsSnapshot

(* PanelPeers: lists and statuses read before, posted keys and the bot beside *)
(* leave the node serving the active, but in the cases that are named.       *)
NodeServesActive == part = "peers" => Peers!NodeServesActive

(* BotRuntime: every update is handled once, across restarts. *)
UpdateHandledOnce == part = "runtime" => Runtime!UpdateHandledOnce

(* BotDialog: old and foreign buttons act for the owner alone. *)
BotActsForOwner == part = "dialog" => Dialog!BotActsForOwner

(* ServerCatalog: file, row and running processes part no device from its  *)
(* node.                                                                    *)
ServedWhereNamed == part = "catalog" => Catalog!ServedWhereNamed

(* UserAccounts: what was decided about a user stands. *)
DecisionsStand == part = "accounts" => Accounts!DecisionsStand

(* ServerHealth: a fault that lasted is in the verdict. *)
VerdictHolds == part = "health" => Health!VerdictHolds
==============================================================================
