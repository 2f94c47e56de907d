# A verification of the AmneziaWG access manager

The program gives people access to a VPN. A Telegram bot takes requests and an
administrator approves them; a web panel and a command line manage the same
users, devices and servers. Who has access is kept in two places that no
transaction spans: the rows of a SQLite database and the peers configured on the
VPN node, which are changed over SSH. This directory models that core in TLA+,
and the services around it: enrollment of devices, issuance of configurations,
recovery by e-mail, API tokens, the bot itself, the panel's peer sync, backups,
migrations, the server file, health checks. TLC checks them on small instances;
TLAPS proves their safety properties for instances of every size.

`PROJECT.json` holds the same information for tools: components, runs, the
source lines each definition stands for, a mutant for each property, hazards,
findings, theorems.

## Inventory

| Component | State | Operations | What is hard | What makes it correct |
|---|---|---|---|---|
| Device registry (`db/repositories.py`, `db/schema.py`) | rows of users, orders, devices, passports, audit | INSERTs and guarded UPDATEs, `transaction()` | COMMIT that fails, nested transactions, two processes | a revoked device stays revoked, an order's link is sound |
| Access services (`services/access.py`, `device_revoke.py`, `access_slot_lifecycle.py`, `bot/workflows.py`, user routes of `web/app.py`) | none of their own | approve, create slot, revoke, reset, disable, enable, block | registry and node change separately; failures and crashes in between; stale lists | peers are those of active devices, one device per order, quota |
| Node (`server/peer_apply.py`, `server/ssh.py`) | peers of the interface, or the config file of a container | apply, revoke, list addresses | a command that fails after its effect; read-modify-write of the file; a write that stops within a block | no peer is lost or left behind |
| IP allocation (`access.py`, `vpn/ipam.py`) | addresses in the registry and on the node | allocate | two processes, exhaustion | no address twice |
| Config issuance (`admin_config_issuance.py`, `private_config_artifact.py`, `config_identity.py`) | requests, receipts, files | issue a manifest, repeat it | crashes, repeats, two runs at once | each item once, in order, accounted for |
| Slot assignment (`access_slot_assignment.py`) | assignment requests, passports | assign | revocation in between | final, never a live passport of a revoked device |
| Enrollment, lifecycle, passports | tickets, claims, stage events, passports | issue, claim, replay, revoke, attach | replays, races, cascade | a ticket enrolls one device, a revoked passport is final |
| Peer sync and deletion (panel) | marks; the report is only shown | sync, ignore, remove, add missing, delete for good | repairs take any key that is posted, lists go stale, requests are cut short between peers and rows | the node serves the active devices |
| User accounts | rows of users, an edit form | register, name, promote, edit, block, delete | a form saved after a decision, registrations that repeat | what was decided about a user stands |
| Schema and migration (`db/schema.py`) | tables of the file | `initialize_schema` | DDL commits statement by statement, two processes at once | no row is lost |
| Servers and plans (`servers.yml`, rows, `server_config/`) | entry, row, entry kept by the bot | edit, sync, rename, import, grant, resend | three records of one node, read at different times | a device is served where its configuration points |
| Server health check (`server/checks.py`, `operation_runner.py`) | latest verdict | run | a node that changes, commands without an answer | no verdict is better than the node |
| E-mail recovery | address, codes, mails | verify, start, redeem, send | lost mail, mail of a transaction rolled back, double use | a configuration goes once, to a proven address |
| API tokens, read API | tokens, scopes, requests | create, rotate, revoke, authenticate, smoke cycle | rotation beside revocation | a revoked token stays shut, and its line with it |
| Bot runtime (`bot/persistent_runtime.py`, `main.py`) | lock, readiness, offset | start, admit, poll, exit, smoke | restarts, second instance, unacknowledged updates | each update is handled once |
| Bot handlers | buttons in chats | commands, buttons | old buttons, foreign fingers, deliveries in flight | acts for the owner alone |
| Backup and restore | archive, files | create, restore | reads without a lock, journal | an archive is what the file once was |
| Traffic, status reports, wizard, templates, policy tables, agent | snapshots or none | reports | – | not modelled: read-only, pure or append-only |

Interaction: bot, panel and command line are separate processes on one database
file (rollback journal, busy timeout of 5 s) and one node. They share nothing
else. The bot keeps one connection for life, so a transaction that it fails to
end survives the request; panel and command line open a connection per request
and closing it rolls back.

## Modules

### DeviceRegistry

A registry is a record of three functions: device rows, order rows, user
states. Every statement of `repositories.py` that changes access is an operator
from one registry to the next (`CreateDevice`, `CascadeRevoke`,
`EnableUserDevices`, ...), every condition a service puts before it is a
predicate (`Approvable`, `SlotCreatable`, `DevicesToEnable`). `LedgerStep` is
their combination into atomic steps. Devices are identified with their key
pairs. `External` devices are the ones that were imported from the node, for
which no secrets are stored.

Abstractions: `pending` is treated like `active` by every query modelled and is
created by no code path; `expired` and `failed` are never assigned. Names,
addresses, expiry dates, configs and traffic are left out. `Mode` keeps what the
quota tells apart: `dedicated` stands for the two modes that are counted before
a grant, `exempt` for `owner_shared`.

### DeviceLedger

The abstract specification: a registry that changes by `LedgerStep`, atomically.

### AccessProvisioning

The detailed specification. Variables and what they are in the program:

| Variable | Program |
|---|---|
| `db` | committed content of the database |
| `image`, `holder` | what the connection with SQLite's RESERVED lock has written and not committed, and whose it is |
| `readers` | open transactions that have only read: SHARED locks, which make any COMMIT busy |
| `remote` | peers on the node |
| `minted` | key pairs generated so far |
| `pc`, `job` | where a process is in its request, and the local variables it needs |
| `outcome` | how the last attempt at the peer of a device ended, as seen by its caller; read by no action |

A grant (`approve_order`, `create_operator_device`) is one transaction around an
SSH call: `StartApprove`/`StartCreate` (BEGIN, checks, listing of addresses),
`InsertRow`, `ApplyGrantedPeer`/`FailGrantedPeer`, `FinishGrant`/`FailAfterApply`,
`Commit`/`CommitBusy`, and `RecordPartialFailure` for the audit row. All other
operations are remote first: `Start...` reads what to do, `ChangeNextPeer` and
`FailNextPeer` work on the node, `Write...` and `Commit` record it. `Crash`
ends a process anywhere. `FlushOpenTransaction` is any later write of the bot on
a connection whose transaction was left open.

`Resident` is the set of processes that keep one connection (the bot). `Serial`
makes requests follow one another; it separates what failures alone can break
from what needs two processes.

### ConfigIssuance

`issue_manifest` step by step: admission (`Submit`, `CreateRequest`), and for
each item `ReadReceipt`, `CreateReceipt`, `CreateSlot`, `WriteArtifact`,
`CompleteReceipt` or `FailReceipt`; `Die` between any two of them. `AssignSlot`
and `RevokeDevice` act on the devices meanwhile. A grant is one step here, since
AccessProvisioning has its inside; it may fail and still leave the row, as shown
there. File names are modelled by what tells them apart: recipient and label,
and for a dedicated device its id. All runs write to one directory. A request id
has one manifest; a second manifest under the same id is refused by its
fingerprint before anything changes.

### DeviceEnrollment

Tickets, their claims, passports and lifecycle stages. A claim is two steps:
`StartClaim` reads the clock, makes a device id and looks whether this is a
replay; `ClaimTicket` or `ReplayClaim` is the transaction, whose UPDATE decides
who has the ticket. `AbandonClaim` is every way a claim ends without effect. An
answer that is lost is a client that begins again with its key. `RecordStage` is
any caller of `record_device_lifecycle_stage`, with or without the ticket;
`RecordAcceptance`, `AttachPassport` and `CascadeRevoke` are the services of
those names. `fresh` counts the answers that were no replay and is read by no
action. Two behaviours of the code that no document settles are in the model: a
claim that read the clock before the ticket expired may take it afterwards, and
the holder of the key gets the passport again after a revocation.

### DockerPeerConfig

The node when the VPN runs in a container. `file` is the config file: its
`[Interface]` section and the `[Peer]` blocks in order, one for each key at most.
`live` are the peers the interface serves, `up` whether the last start brought it
up, `copy` the text a process has read. A request is `ReadDockerConfig`,
`WriteDockerConfig`, `RestartDockerContainer`, then `WriteLocal`. `FailRestart` may
have restarted; `FailEarly` and `FailLocal` are errors and crashes without an
effect of their own. `StartGrant` is where a grant lists both sides and picks its
address (`FreeAddresses`, `AllocateVpnIp`), and `InsertRow` where it gets the write
lock it holds to the end. `StartAddMissing` and `StartRemoveUnknown` are the repairs
of the panel; the latter takes any key that is posted.

`FailWrite` is a `cat >` that breaks off at any byte (`CutOff`): nothing is left, a
part of `[Interface]`, some of the blocks, or some and the remains of one more
(`Remains`). A block is kept as what the code and the VPN tools read in it. A torn
one may have

* no key, which no edit ever takes out again, since none names it;
* its key without `AllowedIPs`, or with a text there that is no address: the next
  grant is then refused, as `_docker_config_peer_allowed_ips` raises;
* its key with the beginning of its address, which may be the address of another
  host (`Truncated` says which): 10.8.1.23 cut after 10.8.1.2. The allocator counts
  it, and the interface gives the address to the last block that names it;
* the beginning of the next block's header as its last line (`sound` is false).

A text cut inside the mask names the same address and is taken as the whole block.
`awg-quick` refuses a file with a block that is not sound, and `docker restart`
succeeds all the same: `Loads`, `Serves`, `Routed` are what the code takes for granted
of both and are marked external in the map. `doubt` collects the peers whose last
request failed, those whose block or address a broken-off write took, and the
active ones that were removed by hand; no action reads it.

What this means for the program: after a torn write the next restart may bring
nothing up, nobody is served, and requests go on to report success, since all that
is looked at is the exit status of three commands. `ActivationServed` and
`ServedUntilTold` therefore speak of the file always and of the interface when it
is up.

The registry is kept to the status of a device's row. Processes open one
connection per request, as panel and command line do; a resident connection is
in AccessProvisioning. Four behaviours of the code are in the model that no
document rules out: an address is never given out again while the node has a
higher one; a repair removes the peer of an active device if its key is posted; a
disabled device is revoked without a look at the node; and two requests that
overlap may undo each other's changes of the file.

### ApiTokens

The rows of `api_tokens` and the processes that use them. A transaction of the
repository is one step; between two transactions of one process the others run.
Panel: `IssueFromPanel`, `Rotate` (one transaction that checks the revocation
again), `RevokeFromPanel`. Command line: `IssueFromCli`, `RevokeFromCli`, and the
smoke cycle `SmokeIssue`, `SmokeFinish`, which a kill leaves with its token open.
API server: `Arrive`, `Authorise`, `MarkUsed`, `Answer` are separate commits, so a
token may be revoked while a request it admitted is on its way; `closed` is
therefore what was true when the request came. `OwnerDestroyed` is what the hard
delete of the owner leaves of the tokens. A secret is its row.

### EmailRecovery

One user's address, the codes sent to it and the mails that carry a
configuration. A request of the panel is one step, since its handlers run to
the end without awaiting, except where a transaction ends inside: `Redeem` spends the code,
`SendRecovered` or `LoseRecovered` comes after the commit. The mail server may
have accepted a mail whose transaction is rolled back afterwards (`MailCode`).
`EditUser` is the form that changes the address and withdraws its proof.

### SchemaMigration

`initialize_schema`, run by every process that opens the file. Each
autocommitted statement of the rebuild of `devices` is an action (`DropIndex`,
`CreateNew`, `Copy`, `DropOld`, `RenameNew`, `CreateIndex`); `Die` is a process that is killed
or whose statement fails. `clash` and `interrupted` are history: a statement of
one process inside the rebuild of another, a rebuild that was cut short. In both
cases rows may be missing from `devices`, which the property states as the
exception it is.

### BackupRestore

The file is a sequence of pages, of which a commit writes one after the other
under a journal (`BeginCommit`, `WritePage`, `EndCommit`; `RollBack` plays a journal
back). `ReadForChecksum` and `ReadForArchive` read it page by page meanwhile.
`Verified` compares the checksum, `Restore` writes the archive over the file and
leaves a journal that lies beside it. `Unrestorable` are databases with an
active device that never expires: restore refuses them, though the program
creates them.

### PanelPeers

The panel's sync and the repairs posted after it, the permanent deletion of users
and devices, disable and enable, while the bot grants (`GrantPeer`, `GrantCommit`,
`GrantRollback`) and revokes (`RevokePeer`, `RevokeCommit`, `RevokeCut`). The panel
serves one request at a time; the steps of a request are its separate
transactions and SSH calls. The report of a sync is shown in one browser session
and read by no route, so it is no variable: `RemoveUnknownRemotePeer`,
`IgnoreRemotePeer` and `UnignoreRemotePeer` take any key at any time, also the key of
an active device, and `CheckMissing` looks at the status of the row alone.

`disturbed` is history: devices whose peer and row a known event has parted. The
events are an operation cut short; the removal by hand of the peer of an active
device or of a grant under way; a missing peer added, or a device enabled, while
the bot revokes it; a grant while its user is deleted. A sync that reports nothing
about a device the bot left alone takes it out again, and so does adding its missing
peer. The property says that nothing else parts the two: no sync, no mark, no disable
or deletion of a device beside the bot's work, no repair beside another.

### BotRuntime

Processes that want the updates of one bot. Start: `AcquireLock`, `CheckState`,
`ProbeOwnership`, `CreateWorkflow`, `Recheck`, `StartPolling`, `NotifyReady`. `Poll`
acknowledges the last batch by its offset, fetches the next and handles it. An
update that was fetched and not acknowledged stays with Telegram: the probe of
the next start sees it and refuses. The controlled smoke takes one `/start` of
the selected administrator; `SetWebhook` and `DropBacklog` are the operator.

### BotDialog

Handlers by what they hand out or change: plan requests, approval, resends,
deletion of one device or all. A button carries a kind and a device, and can be pressed
by anybody at any time after it was shown. `outgoing` are deliveries that a
handler awaits: they end in the chat or fail (`DeliveryFails`), while others run.
`IsAdmin` is the row's flag or `ADMIN_IDS`; a hand-off of an issued configuration
asks for the latter.

### ServerCatalog

An entry of `servers.yml` (`file`), the row of the database (`rows`), and the entry
and row id a process read when it started (`process`): the bot keeps them, a
command reads them for one call, the panel opens the file at the name its row
has. A device has the node its configuration names, and `served` says where it
has peers. `spoiled` and `astray` are history: rows that were not synced since the
entry or they were changed, and devices granted or moved in that time.
`quota` and `asked` follow the seeding of plans at every start of the bot.

### UserAccounts

Rows of users, found by account or label, and the panel's edit form, which saves
every field as it was shown. `decided` is what was last decided about the user,
`overtaken` the users whose form was saved over a later decision.

### ServerHealth

The health check: `RunHealth`, one `RunStep` for each command, `Finish`. `Unreachable`
is a command without an answer, `StepRaises` an exception that drops what was
known, `StepBlocked` a command the allowlist refuses. The node changes between the
commands (`NodeChanges`), and the operator edits the entry. The verdict of the last check
stands until the one under way has its own. `lasting` is history: what was wrong all
through the check.

### MCAccess, MCIssuance, MCEnrollment, MCDocker

Instances for TLC: the owner of the orders, symmetry sets, and a `VIEW`.
Key pairs are interchangeable (no action tells two apart that are not
`External`), so `KeySymmetry` is sound for invariants and for the action
properties used with it. `WithoutOutcome` drops the variable `outcome`, which no
guard and no other variable depends on; it is used in the run none of whose
properties mentions it. No run with a liveness property uses either.
Runs, idempotency keys, passports and clients are interchangeable in the same
way in the other instances; tickets, requests, items and the peer that was on the
node before are not permuted.

### MCServices

The ten services from `ApiTokens` to `ServerHealth` in one instance. They share no variable (what
they do share, the devices, is in each module the part it needs), so a behaviour
of the composition is a behaviour of one of them: `part` says which, and the
variables of the others are `Off`. Model values are shared to keep the symmetry
group small: `x1..x3` are tokens, codes and server ids, `y1`, `y2` scopes, addresses,
devices, nodes, processes and row ids. No module orders or names a value of these
sets, and all properties are state formulas, so both permutations are sound.

## Runs

| Run | Bounds | Shows |
|---|---|---|
| `serial` | bot and panel, one request at a time; 1 user, 1 order, 2 new devices, 1 imported, quota 1 | `TypeOK`; `PeersMatchRegistry`: after each request the peers on the node are those of the active devices, except where the caller was told or the failure could not be told; `OrderGrantedOnce` |
| `bot_web` | bot and panel at once; 1 user, 2 orders, 2 devices, quota 1 | the registry implements the ledger (`ImplementsLedger`), `ProtocolInvariant` (the inductive invariant of the proofs), `GrantWithinQuota`, `RevokedIsFinal`, `OrderLinkSound`, `GrantImpliesPeer` |
| `fair` | bot and panel at once; 1 order, 1 device | `JobsEnd`, `LockReleased` |
| `issuance` | two runs, two manifests of two items each, quota 2, 4 devices, 2 assignments | receipts, files, quota and assignments stay consistent with the devices |
| `enrollment` | 1 ticket, 2 clients, 2 keys, 3 passports, 2 devices | a ticket is claimed once and answered as new once, whatever races, expires, repeats or fails: `TicketClaimedOnce`, `FreshAnswerOnce`, `ClaimComplete`; and `RevokedPassportFinal`, a revoked passport stays revoked |
| `docker` | one process; 2 key pairs and a foreign peer, 4 addresses, 1 torn block | whatever command fails, also a write in the middle of a block: `AddressUnique`, no address twice among the node's peers and the registry's devices; `OnlyOwnPeerChanges`, also of torn blocks; `ActivationServed`, a device becomes active only when its peer is in the file, and served if the interface is up; `ServedUntilTold`, file and interface follow the registry but for what a failure was about |
| `services` | each service on its own, bounds below | the services' type invariants and one property each: `RevokedStaysShut`, `ProvenMailOnce`, `RowsSurviveMigration`, `BackupIsSnapshot`, `NodeServesActive`, `UpdateHandledOnce`, `BotActsForOwner`, `ServedWhereNamed`, `DecisionsStand`, `VerdictHolds` |
| `ip_race` | two processes, 2 key pairs, 3 addresses | `AddressUnique` fails, a finding below |
| `enable_imported`, `disable_race`, `over_quota`, `commit_busy` | minimal | the other findings below |

Two processes are enough for every interleaving of a reader and a writer, and a
third would only wait for the same lock. Two devices and a quota of one let
requests compete for the last place, and let one device be disabled while
another is granted. Two orders make a second approval of the same user possible.
`docker` has one process because its
properties are about failures; what overlap does to one of them is `ip_race`. Two
key pairs beside a foreign peer are enough for an orphan to stand in the way of
an allocation, for a cut to lose a neighbour, for a torn block to name a
neighbour's address (`Truncated` has every lower host but the server, as if the
addresses ended in 2, 23, 231), and for the network to be exhausted. `MaxTorn` bounds
the torn blocks in the file; one stays through every later edit already. Three passports let an operator's passport meet the one of a
claim and one of a claim that loses. Deadlock is checked in the access runs. It
is not in `issuance`, `enrollment` and `services`, where all work may be done and
nothing is left to do.

The bounds of `services`, and what they make possible:

| Service | Bounds | Enough for |
|---|---|---|
| ApiTokens | 3 tokens, 2 scopes, 1 request | a line of two rotations, a rotation that loses, a smoke token beside them, a request overtaken by each |
| EmailRecovery | 3 codes, 2 addresses | a changed address, a verification and two recoveries |
| SchemaMigration | 2 processes, 2 devices | every clash of two starts; a row copied and one granted meanwhile |
| BackupRestore | 2 pages, 2 commits | an archive that mixes two commits, or the inside of one; a restore under a journal |
| PanelPeers | 2 devices, 1 foreign peer | any key posted about one device while another is granted or deleted |
| BotRuntime | 2 processes, 3 updates | a second instance, a crash with a backlog, a smoke beside both |
| BotDialog | 3 users (1 configured administrator), 2 devices | a foreign button, an old one, an administrator's order for somebody else |
| ServerCatalog | 2 names, 2 nodes, 3 rows, 1 device, 1 quota | renamed and duplicate rows, an entry moved to another node, an older command |
| UserAccounts | 2 ids, 2 accounts, 1 label | two rows competing for an account; a user destroyed and registered again |
| ServerHealth | 1 fault at a time, 5 or 7 commands | a fault that comes and goes around each command |

Further bounded values only repeat these cases: the properties relate one device,
token, code, user or update to one other at most.

The bounds on devices (`Devices`, `MaxTotal`, `Passports`) bound the number of grants that
are attempted; everything else repeats without limit.

Fairness: `FairSpec` has weak fairness of `Continue(p)` only, the steps of a
request that has begun. Each of them is a statement or an SSH command with a
timeout, or the alternative that it failed. Nothing is assumed about starting
requests, about crashes, or about the success of anything. The services have
safety properties only: what would have to happen there waits for an operator,
a user or Telegram, whom nothing obliges.

## Findings

* `enable_imported`: *Enable VPN* activates imported devices whose peer it does
  not restore, since the list of peers and the UPDATE have different conditions.
* `disable_race`: *Disable VPN* disables devices granted after it listed the
  peers to remove; their peers stay.
* `over_quota`: disabled devices free their place in the quota and *Enable VPN*
  does not count, so a user may end with more devices than the limit.
* `commit_busy`: when COMMIT is refused because another process is reading,
  `transaction()` leaves the transaction open. On the operator's path
  (`create_operator_device`) the audit row of the failure commits the grant that it
  reports as not applied locally; after an approval, which records none, the bot's
  next write does.
* `ip_race`: a grant picks its address before it waits for the write lock. The
  grant it waits for may fail and leave a peer with that address on the node;
  then two peers of the node share it.

Other behaviours that the models have, that no document settles, and that a
maintainer may want to know (none is a finding):

* a bot that dies with an update unacknowledged refuses admission at every restart
  until the backlog is drained (`BotRuntime`, `ProbeOwnership`);
* deleting a token's owner for good sets `owner_user_id` to NULL, so a token that
  was refused while the owner was blocked authenticates again as nobody's, although
  `docs/API_TOKEN_POLICY.ru.md:94` refuses the tokens of an owner whose status is
  `blocked` or `deleted`; what becomes of a row that is gone it does not say
  (`ApiTokens`, `OwnerDestroyed`);
* the controlled smoke may fail its last check after its `/start` is acknowledged;
* two processes that open an old database at once may interleave their rebuilds of
  `devices`, and a rebuild that dies leaves rows in `devices_new` (`SchemaMigration`,
  `clash`, `interrupted`);
* a restore refuses a database with an active device that never expires, and a
  journal left beside the target is played over what was restored (`BackupRestore`);
* the panel removes whatever peer is posted, an active device's too, without looking
  anything up, and a hard delete stopped by a foreign key has removed the peers
  already (`PanelPeers`);
* a config file that a broken-off write has torn within a block may not load at the
  next restart: nobody is served, and requests report success; a torn block without
  its whole key is on no list by which the program would take it out
  (`DockerPeerConfig`, `Loads`, `RestartDockerContainer`);
* renaming a server makes the next sync insert a second row for the same node, and
  an older command writes an older entry over the row (`ServerCatalog`);
* the user form saves status and rights as they were shown (`UserAccounts`).

## Proofs

TLAPS proves every safety property that a passing run checks, invariants and
action properties alike, for all values of the constants that the modules'
assumptions allow. Some need a hypothesis: `PeersMatchRegistry` is proved
for requests that follow one another (`Serial`), the properties of the Docker
node for a single process (`Solo`). Without it they do not hold: `disable_race`
shows how the first breaks, `ip_race` how `AddressUnique` does, and with two processes
TLC refutes the other three of the Docker node as quickly. Each proof has the same shape: an
inductive invariant that TLC has checked on the instance of the run, one lemma
for each action or group of actions that preserves it, and the property as a
consequence.

The assumptions are `RegistryAssumption` and `ProcAssumption` (access),
`IssuanceAssumption`, `EnrollmentAssumption`, `DockerAssumption`,
`ServicesAssumption`. They say that a null value is none of the values, that
a number is a natural number and a manifest a sequence, that there are finitely
many key pairs, and that the peers that were on the node before have different
addresses. TLC evaluates them in every run.

### Access

`DeviceRegistry_proofs` has the lemmas about registries: what each ledger step
preserves, by cases of `LedgerStep`; that a grant leaves its user within the
quota, from cardinality of finite sets; and the safety of `DeviceLedger`.
`AccessProvisioning_proofs` builds on them:

| Theorem | Property |
|---|---|
| `TypeCorrect`, `Protocol` | `TypeOK`, `ProtocolInvariant` |
| `Refinement` | `ImplementsLedger` |
| `RevokedFinal`, `GrantedOnce`, `QuotaAtGrant` | `RevokedIsFinal`, `OrderGrantedOnce`, `GrantWithinQuota` |
| `LinkSoundness` | `OrderLinkSound` |
| `GrantsServed` | `GrantImpliesPeer` |
| `PeersFollowRegistry` | `PeersMatchRegistry`, of requests that follow one another |

`OrderLinkSound` and the refinement are not inductive. A commit publishes an
`image` that was written several steps before, after checks made earlier still,
so the invariant must say that those checks still hold when it is published.
`ProtocolInvariant` does, in five parts:

* `LockInv`: who holds which lock at which point of a request, and that without a
  holder `image = db`;
* `CheckedInv`: what a grant has checked is still true of `db` until it commits.
  A reader is in `readers`, so nobody commits past it; once it writes, it holds
  the lock. This is where `CommitImage`'s guard is needed;
* `FreshInv`: a key pair not generated yet has no row, so the INSERT of a grant
  adds a device instead of changing one;
* `ImageInv`: what the holder has written is either the half-finished row of a
  grant or exactly one ledger step away from `db`;
* `TargetInv`: what a job will write exists in the registry. Its exception is a
  resident process that starts a request while its own transaction is still
  open and so sees rows that may yet be rolled back: it holds the lock itself,
  and cannot write before that transaction has ended.

Each action of `Next` preserves `TypeOK /\ ProtocolInvariant`; actions are
grouped by what they do to the database (`QuietStep`, `WriteStep`, `CommitStep`,
`RollbackStep`, `AutocommitStep`), one lemma each. A commit is then a
`LedgerStep` by `ImageInv`, any other action leaves `db` unchanged, and the
action properties follow from the lemmas about ledger steps.

`GrantImpliesPeer` relates a commit to a peer applied two steps before, while
other requests remove peers. `ServedInv` adds to `ProtocolInvariant` why none
of them removes this one: what a request is about to change it has read in the
registry, where the row of a grant that has not committed is not. Its other
parts are that what is written and will be committed is served, and that a
transaction left open belongs to a resident, which is the property's exception.

`PeersMatchRegistry` says something only of peers nobody is working on. `PeersInv`
says what is true of the others: for each kind of request, that the devices it
has touched and those it has still to touch are the ones its UPDATE will change
(`AimAt`), that the touched peers are there, or gone (`TouchedAt`), and that the
registry about to be committed differs in exactly the devices whose `outcome` the
commit clears (`WrittenAt`). A transaction that a resident left open has not
changed a device (`OpenInv`): under `Serial` a COMMIT meets a reader only if it is one
of the bot's writes between requests, and those do not touch devices.

### Issuance and enrollment

`ConfigIssuance_proofs`, for every number of runs, requests, items, recipients
and devices:

| Theorem | Property |
|---|---|
| `TypeCorrect`, `IssuanceInvariant` | `TypeOK`, the inductive invariant `IInv` |
| `ItemsGrantedOnce`, `GrantsHaveReceipts` | `ItemGrantedOnce`, `GrantHasReceipt` |
| `ItemsTakenInOrder` | `ItemsInOrder` |
| `CompletedIsDelivered` | `CompletedDelivered` |
| `QuotaKept` | `RecipientWithinQuota` |
| `PassportsRevoked`, `AssignmentsFinal` | `PassportRevokedWithDevice`, `AssignmentFinal` |

The argument is the receipt. Between its INSERT and its completion one run at
most holds it (`HeldAlone`), before that run creates the device the item has none
(`NoneYet`), afterwards the run knows device and file (`KnowsDevice`, `KnowsFile`).
So a run that dies leaves a receipt that nobody takes up, and one that repeats
finds it. `RunsInOrder` carries the order of the items from the loop to the
receipts, `AssignedTaken` the finality of assignments.

`DeviceEnrollment_proofs`, for every number of tickets, clients, keys and
passports: `TypeCorrect` (`TypeOK`), `EnrollmentInvariant` (`IInv`), `FreshOnce`
(`FreshAnswerOnce`), `ClaimsComplete` (`ClaimComplete`), `TicketsClaimedOnce`
(`TicketClaimedOnce`), `RevokedPassportsFinal` (`RevokedPassportFinal`). A claim
brings a passport id of its own that has no row before its transaction commits
(`ClaimsPending`); a ticket that has this passport was therefore taken by this
claim, and every other answer is a replay.

### The Docker node

`DockerPeerConfig_proofs`: `TypeCorrect` (`TypeOK`) for any number of processes;
for a single one, with any number of key pairs, addresses and foreign peers,
`FileInvariant` (`IInv`), `AddressesUnique` (`AddressUnique`), `ServedUnlessTold`
(`ServedUntilTold`), `ActivationsServed` (`ActivationServed`), `OwnPeerOnly`
(`OnlyOwnPeerChanges`).

`RequestInv` follows a request through read, write, restart and the registry:
the text it edits is the file as it still is (`CopyIsFile`), the row is as it
was found (`RowAsFound`), and what was written has landed (`EditLanded`): an added peer
is in the file, and on the interface if that came up. A file without the address of
its `[Interface]` has no blocks (`EmptyWithoutInterface`), an interface that is down
serves nobody (`DownServesNobody`).

`AddressInv` has what uniqueness needs beside itself: whatever is known, to the registry,
to the interface or by a block of the file, torn or whole, has an address
(`KnownHasAddress`); no block names an address above that of its peer (`NoneIsHigher`), so
that what is torn off a torn block never makes it a peer's whole one again; and a granted key pair and its address are nowhere until the file is written
(`GrantIsFresh`).

`ServiceInv` is `ServedUntilTold` for every moment, with the peer in hand taken out, and
stronger in one point: an active device is not just in the file but the last block that
names its address is its own (`Routed` in `Agrees`). Torn blocks may name the same address
before it, and the next restart still serves it.

That a file is a sequence of blocks makes most of the lemmas: removing a block keeps
the others and their order; what a write that breaks off leaves is a part of the text
(`CutOffIsPart`): whole blocks, and at most one whose key is the same and whose address
is the same, lower or none.

### The services

The theorems are about `MCServices!Spec`: if the service `part` runs, its invariant
holds. Each module has several services, for the state they share in the instance.

| Module | Theorem | Property |
|---|---|---|
| `AccountServices_proofs` | `ApiInvariant`, `TokensStayShut` | `RevokedStaysShut` |
| | `AccountInvariant`, `DecisionsKept` | `DecisionsStand` |
| | `MailInvariant`, `MailsProven` | `ProvenMailOnce` |
| | `DialogInvariant`, `OwnersServed` | `BotActsForOwner` |
| `NodeServices_proofs` | `HealthInvariant`, `VerdictsHold` | `VerdictHolds` |
| | `PeersInvariant`, `NodesServeActive` | `NodeServesActive` |
| | `CatalogInvariant`, `DevicesServedWhereNamed` | `ServedWhereNamed` |
| `RuntimeServices_proofs` | `RuntimeInvariant`, `UpdatesHandledOnce` | `UpdateHandledOnce` |
| | `SchemaInvariant`, `RowsSurvive` | `RowsSurviveMigration` |
| | `BackupInvariant`, `BackupsAreSnapshots` | `BackupIsSnapshot` |
| | `TypeCorrect` | `TypeOK` of all ten |

What each invariant adds to the property:

* ApiTokens: a line of rotations has one end (`OneEnd`), for the token that is rotated
  gets one successor and any other none; what a request saw closed is closed, what
  it was authorised for is a scope of its token (`CallsHonest`);
* UserAccounts: a form is of one user (`FormOfOne`), one row stands for a person
  (`OneRowEach`), about a row never used nothing is decided;
* EmailRecovery: who proved the address (`AddressProven`), for which spent code a mail
  is due (`DueIsProven`), and that the letter with a code went to the address the
  code is for (`LettersReachAddress`);
* BotDialog: whatever is on its way or in a chat was sent to somebody who may have it
  (`SentToHolders`), and of a device nobody asked for there is nothing;
* ServerHealth: what was sent and failed so far (`CheckHonest`), for both lists of
  commands;
* PanelPeers: for each device that is not disturbed, what is true of it while bot or
  panel are at it (`InOrder`), and that a device the bot is at is in no request of the
  panel (`BotMarked`);
* ServerCatalog: a row that is not spoiled says what its entry says (`RowsAsFiled`), a
  device that is not astray is at home (`AtHome`);
* BotRuntime: who holds the lock is alone awake (`OneAwake`); it is admitted with an
  empty backlog only, so what it finds later was never handled, and what it fetched
  was (`BatchesHandled`); the smoke's update is the first there is (`SmokeFirst`);
* SchemaMigration: without a clash a rebuild is alone, its old table has every row until it
  has copied them, and the table is not the current one meanwhile (`RebuildAlone`);
  without an interruption `devices_new` is empty outside a rebuild (`RebuildWhole`);
* BackupRestore: what was read so far can still turn out to be a whole file, whether the commit
  under way ends or is rolled back behind any page, only if the file once was that
  (`FirstWhole` for the checksum, `SecondWhole` for the archive). The property itself
  speaks of finished archives only; the invariant has to foresee them.

### Only model-checked

`JobsEnd` and `LockReleased`: liveness under fairness, and ENABLED, are out of the
prover's reach. The properties of the violation runs are refuted, not proved.

## Not modelled, and why

`PROJECT.json` lists the reason for each component. The surface policy and its
bindings are static tables, the install wizard, the status, boundary and
integration reports print plans and read rows, settings and templates are pure
conversions: there is no state to get wrong. Traffic collection appends one
snapshot after the other, each in a commit of its own, and no decision about access reads them.

The access model has one node with changes enabled
(`VPS_APPLY_ENABLED=true`) and the host runtime, where a peer is one command;
DockerPeerConfig has the other runtime, ServerCatalog several nodes. Expiry dates
are left out, which no code enforces on the node; so are message templates, media
and menus of the bot, the encryption of backups, the text of mails, the answers of
the read API, and the status of a server's row, which no operation reads.

## Plan

1. Done: `DeviceRegistry`, `DeviceLedger`, `AccessProvisioning`; `ConfigIssuance`,
   `DeviceEnrollment`, `DockerPeerConfig`; the ten services and their composition.
2. Done: the proofs of their type invariants, safety invariants and action
   properties, and of the refinement of the ledger.
3. Next: what remains true of the Docker node, and of the peers of the host runtime,
   when requests overlap, and for which pairs of requests; the quota between two
   grants (`over_quota` shows how *Enable VPN* breaks it).
4. Later, if wanted: traffic collection, with collectors that overlap.
