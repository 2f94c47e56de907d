------------------------------ MODULE ServerCatalog ------------------------------
(***************************************************************************)
(* Three records of a VPN server: its entry in servers.yml, its row in the *)
(* database, from which every client configuration is made, and the entry  *)
(* a process read when it started, which says where its peers go.  The bot *)
(* keeps that entry as long as it lives, a command for one call; the panel *)
(* opens the file anew for each request, at the name the row has.  The     *)
(* operator edits the file, and the rows by the forms of the panel.        *)
(***************************************************************************)

CONSTANTS
    Name,       \* names of servers
    Node,       \* endpoints, with their public key and network
    Row,        \* ids in the servers table
    Device,
    Quota,      \* device quotas the operator may give a plan
    Process,    \* the bot and the command line
    Bot,        \* the one of them that runs on
    BotServer,  \* SERVER_NAME of the bot's settings
    None

VARIABLES
    file,       \* file[name]: the node of the entry in servers.yml
    rows,       \* rows[r]: name and node of the server
    process,    \* process[p]: the entry it read, and the row it synced
    devices,    \* devices[d]: status, server row and the node its configuration names
    served,     \* served[node]: the devices with a peer there
    quota,      \* plans.max_devices of a plan that every start of the bot seeds
    asked,      \* history: the quota the operator last asked for
    spoiled,    \* history: rows not synced since their entry or they were changed
    astray      \* history: devices left behind by such a change

catalogVars == <<file, rows, process, devices, served, quota, asked, spoiled, astray>>

ServerRow == [name : Name \cup {None}, node : Node \cup {None}]
Entry == [step : {"down", "loaded", "synced"}, name : Name \cup {None},
          node : Node \cup {None}, row : Row \cup {None}]
DeviceRow == [status : {"none", "active", "disabled", "revoked"},
              row : Row \cup {None}, config : Node \cup {None}]

NoRow == [name |-> None, node |-> None]
Down == [step |-> "down", name |-> None, node |-> None, row |-> None]

TypeOK ==
    /\ file \in [Name -> Node \cup {None}]
    /\ rows \in [Row -> ServerRow]
    /\ process \in [Process -> Entry]
    /\ devices \in [Device -> DeviceRow]
    /\ served \in [Node -> SUBSET Device]
    /\ quota \in Quota \cup {None} /\ asked \in Quota \cup {None}
    /\ spoiled \subseteq Row
    /\ astray \subseteq Device

(* No two entries share a node. *)
Distinct(f) == \A m, n \in Name : f[m] = f[n] /\ f[m] # None => m = n

Init ==
    /\ file \in {f \in [Name -> Node \cup {None}] : Distinct(f)}
    /\ rows = [r \in Row |-> NoRow]
    /\ process = [p \in Process |-> Down]
    /\ devices = [d \in Device |-> [status |-> "none", row |-> None, config |-> None]]
    /\ served = [n \in Node |-> {}]
    /\ quota = None /\ asked = None
    /\ spoiled = {}
    /\ astray = {}

Named(name) == {r \in Row : rows[r].name = name}
Unused == Named(None)

(* The devices a server still has to serve, or may be asked to. *)
DevicesOf(rs) == {d \in Device : devices[d].row \in rs /\ devices[d].status # "revoked"}

(* The process has the entry as it is, and so has its row. *)
Current(p) ==
    /\ process[p].node = file[process[p].name]
    /\ rows[process[p].row].name = process[p].name
    /\ process[p].row \notin spoiled

ServerIs(r, row) == rows' = [rows EXCEPT ![r] = row]
StatusIs(d, s) == devices' = [devices EXCEPT ![d].status = s]
Apply(node, d) == served' = [served EXCEPT ![node] = @ \cup {d}]
Remove(node, d) == served' = [served EXCEPT ![node] = @ \ {d}]

------------------------------------------------------------------------------
(* The operator edits an entry of servers.yml, or takes it out. *)
EditFile(name, node) ==
    /\ node # file[name]
    /\ file' = [file EXCEPT ![name] = node]
    /\ Distinct(file')
    /\ spoiled' = spoiled \cup Named(name)
    /\ astray' = astray \cup DevicesOf(Named(name))
    /\ UNCHANGED <<rows, process, devices, served, quota, asked>>

(* A process reads the file: the bot for its server, a command for the one  *)
(* it is given.  A missing entry is an error.                               *)
LoadServer(p, name) ==
    /\ process[p].step = "down"
    /\ p = Bot => name = BotServer
    /\ file[name] # None
    /\ process' = [process EXCEPT ![p] = [step |-> "loaded", name |-> name,
                                          node |-> file[name], row |-> None]]
    /\ UNCHANGED <<file, rows, devices, served, quota, asked, spoiled, astray>>

(* Mutant: a row that is there already is left as it is. *)
Upsert_DoNothing(r, name, node) ==
    \/ rows[r].name = name /\ UNCHANGED rows
    \/ /\ Named(name) = {} /\ rows[r].name = None
       /\ ServerIs(r, [name |-> name, node |-> node])

(* ON CONFLICT(name) DO UPDATE *)
Upsert(r, name, node) ==
    \/ rows[r].name = name /\ ServerIs(r, [rows[r] EXCEPT !.node = node])
    \/ /\ Named(name) = {} /\ rows[r].name = None
       /\ ServerIs(r, [name |-> name, node |-> node])

SyncServerRow(p, r) ==
    LET e == process[p] IN
    /\ e.step = "loaded"
    /\ Upsert(r, e.name, e.node)
    /\ process' = [process EXCEPT ![p].step = "synced", ![p].row = r]
    /\ spoiled' = IF e.node = file[e.name] THEN spoiled \ {r} ELSE spoiled \cup {r}
    /\ UNCHANGED <<file, devices, served, asked, astray>>

(* COALESCE(excluded.max_devices, plans.max_devices) *)
UpsertPlan(given) == IF given = None THEN quota ELSE given

(* The bot seeds the plans, which give no quota, and its server. *)
CreateWorkflow(r) ==
    /\ SyncServerRow(Bot, r)
    /\ quota' = UpsertPlan(None)

OperatorCommand(p, r) ==
    /\ p # Bot
    /\ SyncServerRow(p, r)
    /\ UNCHANGED quota

Ends(p) ==
    /\ process[p].step # "down"
    /\ process' = [process EXCEPT ![p] = Down]
    /\ UNCHANGED <<file, rows, devices, served, quota, asked, spoiled, astray>>

(* An import names its server without knowing where it is. *)
EnsureServer(name, r) ==
    /\ Named(name) = {} /\ r \in Unused
    /\ ServerIs(r, [name |-> name, node |-> None])
    /\ spoiled' = spoiled \cup {r}
    /\ UNCHANGED <<file, process, devices, served, quota, asked, astray>>

------------------------------------------------------------------------------
(* A grant, whole: the configuration is made of the row, whatever its       *)
(* status, and the peer goes to the node of the entry.                      *)
Grant(p, d) ==
    LET e == process[p] IN
    /\ e.step = "synced"
    /\ devices[d].status = "none"
    /\ devices' = [devices EXCEPT ![d] = [status |-> "active", row |-> e.row,
                                          config |-> rows[e.row].node]]
    /\ Apply(e.node, d)
    /\ astray' = IF Current(p) THEN astray ELSE astray \cup {d}
    /\ UNCHANGED <<file, rows, process, quota, asked, spoiled>>

(* A user gives a device back: the bot removes the peer from its own node,  *)
(* whatever the server of the device.                                       *)
Revoke(d) ==
    LET e == process[Bot] IN
    /\ e.step = "synced"
    /\ devices[d].status = "active"
    /\ StatusIs(d, "revoked")
    /\ Remove(e.node, d)
    /\ astray' = IF Current(Bot) /\ devices[d].row = e.row THEN astray ELSE astray \cup {d}
    /\ UNCHANGED <<file, rows, process, quota, asked, spoiled>>

(* The configuration is made anew, from the row as it is now. *)
Resend(d) ==
    /\ devices[d].status = "active"
    /\ devices' = [devices EXCEPT ![d].config = rows[devices[d].row].node]
    /\ astray' = IF devices[d].row \in spoiled THEN astray \cup {d} ELSE astray
    /\ UNCHANGED <<file, rows, process, served, quota, asked, spoiled>>

(* The panel finds the entry by the name the row has now; without one the   *)
(* request ends in an error before anything is changed.                     *)
NodeOf(d) == file[rows[devices[d].row].name]

DisableDevice(d) ==
    /\ devices[d].status = "active"
    /\ NodeOf(d) # None
    /\ Remove(NodeOf(d), d)
    /\ StatusIs(d, "disabled")
    /\ UNCHANGED <<file, rows, process, quota, asked, spoiled, astray>>

EnableDevice(d) ==
    /\ devices[d].status = "disabled"
    /\ NodeOf(d) # None
    /\ Apply(NodeOf(d), d)
    /\ StatusIs(d, "active")
    /\ UNCHANGED <<file, rows, process, quota, asked, spoiled, astray>>

------------------------------------------------------------------------------
(* The forms of the panel.  A name of another row is refused. *)
Saved(r, name, node) ==
    /\ Named(name) \subseteq {r}
    /\ ServerIs(r, [name |-> name, node |-> node])
    /\ spoiled' = IF node = file[name] THEN spoiled \ {r} ELSE spoiled \cup {r}

CreateServer(r, name, node) ==
    /\ r \in Unused
    /\ Saved(r, name, node)
    /\ UNCHANGED <<file, process, devices, served, quota, asked, astray>>

UpdateServer(r, name, node) ==
    /\ r \notin Unused
    /\ Saved(r, name, node)
    /\ astray' = IF name # rows[r].name THEN astray \cup DevicesOf({r}) ELSE astray
    /\ UNCHANGED <<file, process, devices, served, quota, asked>>

UpdatePlanDeviceQuota(q) ==
    /\ quota' = q
    /\ asked' = q
    /\ UNCHANGED <<file, rows, process, devices, served, spoiled, astray>>

Next ==
    \/ \E m \in Name, n \in Node \cup {None} : EditFile(m, n)
    \/ \E p \in Process, m \in Name : LoadServer(p, m)
    \/ \E r \in Row : CreateWorkflow(r)
    \/ \E p \in Process, r \in Row : OperatorCommand(p, r)
    \/ \E p \in Process : Ends(p)
    \/ \E m \in Name, r \in Row : EnsureServer(m, r)
    \/ \E p \in Process, d \in Device : Grant(p, d)
    \/ \E d \in Device : Revoke(d)
    \/ \E d \in Device : Resend(d)
    \/ \E d \in Device : DisableDevice(d)
    \/ \E d \in Device : EnableDevice(d)
    \/ \E r \in Row, m \in Name, n \in Node : CreateServer(r, m, n)
    \/ \E r \in Row, m \in Name, n \in Node : UpdateServer(r, m, n)
    \/ \E q \in Quota \cup {None} : UpdatePlanDeviceQuota(q)

Spec == Init /\ [][Next]_catalogVars

------------------------------------------------------------------------------
(* A device whose server entry and row were left alone since it was         *)
(* granted, by processes that had read them as they are, is served at the   *)
(* node its configuration names and nowhere else, and at none once it is    *)
(* disabled or revoked: restarts, commands for other servers, imports,      *)
(* resends and the panel's own look at the file do not part them.  And no   *)
(* start takes a quota away that the operator gave a plan.                  *)
ServedWhereNamed ==
    /\ \A d \in Device \ astray, n \in Node :
          d \in served[n] <=> devices[d].status = "active" /\ n = devices[d].config
    /\ quota = asked
==============================================================================
