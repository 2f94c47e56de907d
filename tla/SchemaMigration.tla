--------------------------- MODULE SchemaMigration ---------------------------
(***************************************************************************)
(* initialize_schema on one database file.  The bot runs it when it        *)
(* starts, the panel and the API for every request, the command line for   *)
(* every command, each on a connection of its own.  Statements outside an  *)
(* explicit transaction commit one by one (the driver opens none for DDL), *)
(* so the rebuild of an old devices table is five commits; the rebuilds of *)
(* users and of the access slot contract are a transaction each, decided   *)
(* on what was read before it began.                                       *)
(***************************************************************************)
CONSTANTS
    Proc,       \* processes that open the database
    Device,     \* rows of devices
    Rows0       \* the devices of the old installation

VARIABLES
    users,      \* schema of users: "legacy" (telegram_id NOT NULL) or "current"
    devices,    \* the table devices: its schema and its rows
    spare,      \* the table devices_new
    indexed,    \* idx_devices_reserved_ip_unique exists
    step,       \* step[p]: the statement process p executes next
    seen,       \* seen[p]: the schemas p read before it decided to migrate
    granted,    \* history: every device row ever committed
    clash,      \* history: a process ran a statement inside another's rebuild
    interrupted \* history: a process died inside its rebuild

schemaVars == <<users, devices, spare, indexed, step, seen, granted, clash, interrupted>>

Schema == {"absent", "legacy", "rebuilt", "current"}
Table == [schema : Schema, rows : SUBSET Device]
NoTable == [schema |-> "absent", rows |-> {}]

Step == {"down", "tables", "read_users", "users", "read_devices", "drop_index",
         "create_new", "copy", "drop_old", "rename", "create_index", "contract",
         "running"}

TypeOK ==
    /\ users \in {"legacy", "current"}
    /\ devices \in Table /\ spare \in Table
    /\ indexed \in BOOLEAN
    /\ step \in [Proc -> Step]
    /\ seen \in [Proc -> [users : {"legacy", "current"}, devices : Schema]]
    /\ granted \subseteq Device
    /\ clash \in BOOLEAN /\ interrupted \in BOOLEAN

(* A fresh file, or one left by an older release. *)
Init ==
    /\ \/ users = "current" /\ devices = NoTable
       \/ /\ users \in {"legacy", "current"}
          /\ devices \in [schema : {"legacy", "rebuilt"}, rows : {Rows0}]
    /\ spare = NoTable
    /\ indexed = (devices # NoTable)
    /\ step = [p \in Proc |-> "down"]
    /\ seen = [p \in Proc |-> [users |-> "current", devices |-> "current"]]
    /\ granted = devices.rows
    /\ clash = FALSE
    /\ interrupted = FALSE

(* p is between the reading of an old devices table and its replacement. *)
Rebuilding(p) ==
    /\ seen[p].devices = "legacy"
    /\ step[p] \in {"drop_index", "create_new", "copy", "drop_old", "rename"}

Goes(p, s) ==
    /\ step' = [step EXCEPT ![p] = s]
    /\ clash' = (clash \/ \E q \in Proc \ {p} : Rebuilding(q))

(* The statement raises: initialize_schema ends and the process with it. *)
Fails(p) ==
    /\ Goes(p, "down")
    /\ interrupted' = (interrupted \/ Rebuilding(p))
    /\ UNCHANGED <<users, devices, spare, indexed, seen, granted>>

------------------------------------------------------------------------------
(* A process starts, or serves a request that opens the repository. *)
Open(p) ==
    /\ step[p] \in {"down", "running"}
    /\ Goes(p, "tables")
    /\ UNCHANGED <<users, devices, spare, indexed, seen, granted, interrupted>>

(* CREATE TABLE and CREATE INDEX, all IF NOT EXISTS; a new table has the    *)
(* current schema.                                                          *)
CreateTables(p) ==
    /\ step[p] = "tables"
    /\ devices' = IF devices = NoTable THEN [schema |-> "current", rows |-> {}] ELSE devices
    /\ indexed' = TRUE
    /\ Goes(p, "read_users")
    /\ UNCHANGED <<users, spare, seen, granted, interrupted>>

ReadUsers(p) ==
    /\ step[p] = "read_users"
    /\ seen' = [seen EXCEPT ![p].users = users]
    /\ Goes(p, "users")
    /\ UNCHANGED <<users, devices, spare, indexed, granted, interrupted>>

(* One transaction.  Run a second time on what was read before the first,   *)
(* it copies the same rows without their operator labels, which a user that *)
(* has nothing else is not allowed to lose: it then fails.                  *)
MigrateUsers(p) ==
    /\ step[p] = "users"
    /\ \/ /\ users' = IF seen[p].users = "legacy" THEN "current" ELSE users
          /\ Goes(p, "read_devices")
          /\ UNCHANGED <<devices, spare, indexed, seen, granted, interrupted>>
       \/ seen[p].users = "legacy" /\ users = "current" /\ Fails(p)

ReadDevices(p) ==
    /\ step[p] = "read_devices"
    /\ devices # NoTable
    /\ seen' = [seen EXCEPT ![p].devices = devices.schema]
    /\ Goes(p, "drop_index")
    /\ UNCHANGED <<users, devices, spare, indexed, granted, interrupted>>

(* Mutant: the rebuild drops the old table before it has copied its rows. *)
DropIndex_DropFirst(p) ==
    /\ step[p] = "drop_index"
    /\ indexed' = FALSE
    /\ Goes(p, IF seen[p].devices = "legacy" THEN "drop_old" ELSE "create_index")
    /\ UNCHANGED <<users, devices, spare, seen, granted, interrupted>>

(* The index is dropped every time, and created again at the end. *)
DropIndex(p) ==
    /\ step[p] = "drop_index"
    /\ indexed' = FALSE
    /\ Goes(p, IF seen[p].devices = "legacy" THEN "create_new" ELSE "create_index")
    /\ UNCHANGED <<users, devices, spare, seen, granted, interrupted>>

(* The rebuild, a commit per statement. *)
CreateNew(p) ==
    /\ step[p] = "create_new"
    /\ spare = NoTable
    /\ spare' = [schema |-> "rebuilt", rows |-> {}]
    /\ Goes(p, "copy")
    /\ UNCHANGED <<users, devices, indexed, seen, granted, interrupted>>

Copy(p) ==
    /\ step[p] = "copy"
    /\ devices # NoTable /\ spare # NoTable
    /\ devices.rows \cap spare.rows = {}
    /\ spare' = [spare EXCEPT !.rows = @ \cup devices.rows]
    /\ Goes(p, "drop_old")
    /\ UNCHANGED <<users, devices, indexed, seen, granted, interrupted>>

DropOld(p) ==
    /\ step[p] = "drop_old"
    /\ devices # NoTable
    /\ devices' = NoTable
    /\ indexed' = FALSE
    /\ Goes(p, "rename")
    /\ UNCHANGED <<users, spare, seen, granted, interrupted>>

RenameNew(p) ==
    /\ step[p] = "rename"
    /\ devices = NoTable /\ spare # NoTable
    /\ devices' = spare
    /\ spare' = NoTable
    /\ Goes(p, "create_index")
    /\ UNCHANGED <<users, indexed, seen, granted, interrupted>>

CreateIndex(p) ==
    /\ step[p] = "create_index"
    /\ devices # NoTable
    /\ indexed' = TRUE
    /\ Goes(p, "contract")
    /\ UNCHANGED <<users, devices, spare, seen, granted, interrupted>>

(* One transaction, which creates devices_new as well. *)
MigrateContract(p) ==
    /\ step[p] = "contract"
    /\ devices # NoTable
    /\ devices.schema # "current" => spare = NoTable
    /\ devices' = [devices EXCEPT !.schema = "current"]
    /\ Goes(p, "running")
    /\ UNCHANGED <<users, spare, indexed, seen, granted, interrupted>>

(* A statement finds a table missing, or already there, or its rows already *)
(* copied; or the database is locked; or the process is killed.             *)
Die(p) ==
    /\ step[p] \notin {"down", "running"}
    /\ Fails(p)

(* A process that is up grants a device. *)
Grant(p, d) ==
    /\ step[p] = "running"
    /\ d \notin granted
    /\ devices.schema = "current"
    /\ devices' = [devices EXCEPT !.rows = @ \cup {d}]
    /\ granted' = granted \cup {d}
    /\ Goes(p, "running")
    /\ UNCHANGED <<users, spare, indexed, seen, interrupted>>

Next ==
    \E p \in Proc :
        \/ Open(p)
        \/ CreateTables(p)
        \/ ReadUsers(p)
        \/ MigrateUsers(p)
        \/ ReadDevices(p)
        \/ DropIndex(p)
        \/ CreateNew(p)
        \/ Copy(p)
        \/ DropOld(p)
        \/ RenameNew(p)
        \/ CreateIndex(p)
        \/ MigrateContract(p)
        \/ Die(p)
        \/ \E d \in Device : Grant(p, d)

Spec == Init /\ [][Next]_schemaVars

------------------------------------------------------------------------------
(* No device row is lost by a start, whenever it is interrupted, unless two *)
(* processes rebuilt the table at once: each row is in devices or, after a  *)
(* rebuild that was cut short, in devices_new.  And while nobody was cut    *)
(* short either, a process that is up finds every row in a current table.   *)
RowsSurviveMigration ==
    ~clash =>
        /\ granted \subseteq devices.rows \cup spare.rows
        /\ (~interrupted /\ \E p \in Proc : step[p] = "running") =>
              devices.schema = "current" /\ granted \subseteq devices.rows
==============================================================================
