------------------------- MODULE AccessProvisioning -------------------------
(***************************************************************************)
(* Access to the VPN is kept in two places that no transaction spans: the  *)
(* SQLite registry and the peers configured on the VPN server.  The bot,   *)
(* the web panel and the command line are separate processes that change   *)
(* both.                                                                   *)
(*                                                                         *)
(*   - A grant (approve_order, create_operator_device) runs inside one     *)
(*     SQLite transaction: read and check, INSERT, apply the peer over     *)
(*     SSH, finish the rows, COMMIT.                                       *)
(*   - The other operations are remote first: read the registry, change    *)
(*     the peers, then record the result in a transaction of its own.      *)
(*                                                                         *)
(* db is the committed registry and image what the holder of the write     *)
(* lock (RESERVED) has written but not committed; readers are the open     *)
(* transactions that hold a SHARED lock and so keep everybody from         *)
(* committing (rollback journal, 5 s busy timeout).  A process in Resident *)
(* keeps one connection for life (the bot); the others open one per        *)
(* request, and closing it rolls back.                                     *)
(*                                                                         *)
(* One server, VPS_APPLY_ENABLED set.  The key pairs are the Devices, so   *)
(* the number of grants attempted is bounded by the size of Devices.       *)
(***************************************************************************)
EXTENDS DeviceRegistry

CONSTANTS
    Procs, Resident,
    Serial,          \* no request begins while another runs
    NoProc, NoOrder

ASSUME ProcAssumption ==
    /\ Serial \in BOOLEAN
    /\ Resident \subseteq Procs
    /\ NoProc \notin Procs
    /\ NoOrder \notin Orders

VARIABLES
    db,       \* committed registry
    image,    \* registry as the lock holder sees it
    holder,   \* process that holds the write lock, or NoProc
    readers,  \* processes whose open transaction only read so far
    remote,   \* devices that are peers of the server
    minted,   \* key pairs generated so far
    pc, job,  \* control state of each process and what it works on
    outcome   \* how the last attempt to change a peer ended, for each device

store == <<db, image, holder>>
vars  == <<store, readers, remote, minted, pc, job, outcome>>

-----------------------------------------------------------------------------
GrantKind == {"approve", "create"}
JobKind   == GrantKind \cup
    {"revoke", "reset", "disable_slot", "disable_vpn", "enable_vpn", "block", "none"}

Job == [kind    : JobKind,
        order   : Orders \cup {NoOrder},
        user    : Users \cup {NoUser},
        mode    : Mode,
        dev     : Devices \cup {NoDevice},  \* device the open transaction is about
        todo    : SUBSET Devices,           \* peers still to be changed
        touched : SUBSET Devices,           \* peers this job has changed
        left    : SUBSET Devices]           \* devices still to be revoked locally

NoJob == [kind |-> "none", order |-> NoOrder, user |-> NoUser,
          mode |-> "dedicated", dev |-> NoDevice,
          todo |-> {}, touched |-> {}, left |-> {}]

PC == {"idle",      \* between two requests
       "reading",   \* grant: checks done, server listed, nothing written
       "inserted",  \* grant: row inserted, peer not applied
       "applied",   \* grant: peer applied
       "audit",     \* grant: COMMIT failed, the partial-failure record is due
       "remote",    \* remote-first job: peers left to change
       "local",     \* remote-first job: registry left to change
       "commit"}    \* COMMIT is due

(* clean: nothing outstanding.  applied_reported, removed_reported: the     *)
(* caller was told by RemoteOperationPartialFailure that the peer changed   *)
(* and the registry did not.  unreported: a crash, an SSH command that      *)
(* failed after its effect, or an operation that raised something else.     *)
Outcome == {"clean", "applied_reported", "removed_reported", "unreported"}

TypeOK ==
    /\ db \in Registry
    /\ image \in Registry
    /\ holder \in Procs \cup {NoProc}
    /\ readers \subseteq Procs
    /\ remote \subseteq Devices
    /\ minted \subseteq Devices \ External
    /\ pc \in [Procs -> PC]
    /\ job \in [Procs -> Job]
    /\ outcome \in [Devices -> Outcome]

Init ==
    /\ db = EmptyRegistry
    /\ image = EmptyRegistry
    /\ holder = NoProc
    /\ readers = {}
    /\ remote = External
    /\ minted = {}
    /\ pc = [p \in Procs |-> "idle"]
    /\ job = [p \in Procs |-> NoJob]
    /\ outcome = [d \in Devices |-> "clean"]

-----------------------------------------------------------------------------
(* The database.                                                           *)

\* A connection sees its own uncommitted writes.
View(p) == IF holder = p THEN image ELSE db

\* A failed COMMIT leaves a PENDING lock, which keeps new readers out.
Readable(p) ==
    holder \in Procs \ {p} => pc[holder] \in {"inserted", "applied", "commit"}

Write(p, r) == image' = r /\ holder' = p /\ db' = db

\* Mutant: readers do not keep a writer from committing.
CommitImage_PastReaders == db' = image /\ image' = image /\ holder' = NoProc

\* commit() succeeds only when no other transaction holds a SHARED lock.
CommitImage == readers = {} /\ db' = image /\ image' = image /\ holder' = NoProc

Rollback(p) ==
    IF holder = p THEN db' = db /\ image' = db /\ holder' = NoProc
                  ELSE UNCHANGED store

Goto(p, label) == pc' = [pc EXCEPT ![p] = label]
Stop(p) == Goto(p, "idle") /\ job' = [job EXCEPT ![p] = NoJob]
Begin(p, label, j) ==
    /\ IF Serial THEN \A q \in Procs : pc[q] = "idle" ELSE pc[p] = "idle"
    /\ Goto(p, label)
    /\ job' = [job EXCEPT ![p] = j]

Mark(S, o) == outcome' = [d \in Devices |-> IF d \in S THEN o ELSE outcome[d]]

-----------------------------------------------------------------------------
(* Writes outside transaction(): a connection commits each at once,         *)
(* together with whatever its open transaction still holds.                *)

Autocommit(p, r) ==
    /\ pc[p] = "idle" /\ holder = NoProc
    /\ \/ readers = {} /\ db' = r /\ image' = r /\ holder' = NoProc
       \/ readers # {} /\ p \in Resident /\ Write(p, r)  \* COMMIT fails

\* upsert_user, or any other write the bot makes between requests: it commits
\* the transaction a failed COMMIT left open.
FlushOpenTransaction(p) ==
    /\ pc[p] = "idle" /\ holder = p
    /\ CommitImage
    /\ UNCHANGED <<readers, remote, minted, pc, job, outcome>>

\* The upsert_user before create_order is a write of its own; only when its
\* COMMIT fails does it matter here.
RequestAccess(p, o) ==
    /\ p \in Resident
    /\ db.ord[o].status = "none"
    /\ Autocommit(p, CreateOrder(db, o)) \/ Autocommit(p, db)
    /\ UNCHANGED <<readers, remote, minted, pc, job, outcome>>

ImportExternal(p, d, u) ==
    /\ p \notin Resident
    /\ d \in External /\ db.dev[d].status = "absent"
    /\ Autocommit(p, CreateExternalDevice(db, d, u))
    /\ UNCHANGED <<readers, remote, minted, pc, job, outcome>>

-----------------------------------------------------------------------------
(* Grants.                                                                 *)

\* Mutant: the checks are made before BEGIN.
StartApprove_Unlocked(p, o) ==
    /\ p \in Resident /\ holder # p /\ Readable(p)
    /\ Approvable(db, o)
    /\ Begin(p, "reading", [NoJob EXCEPT !.kind = "approve", !.order = o,
                                         !.user = Owner[o]])
    /\ UNCHANGED <<store, readers, remote, minted, outcome>>

\* BEGIN, the checks, and the listing of the server's allocated addresses.
\* BEGIN fails on a connection whose last COMMIT failed.
StartApprove(p, o) ==
    /\ p \in Resident /\ holder # p /\ Readable(p)
    /\ Approvable(db, o)
    /\ Begin(p, "reading", [NoJob EXCEPT !.kind = "approve", !.order = o,
                                         !.user = Owner[o]])
    /\ readers' = readers \cup {p}
    /\ UNCHANGED <<store, remote, minted, outcome>>

StartCreate(p, u, m) ==
    /\ holder # p /\ Readable(p)
    /\ SlotCreatable(db, u, m)
    /\ Begin(p, "reading", [NoJob EXCEPT !.kind = "create", !.user = u, !.mode = m])
    /\ readers' = readers \cup {p}
    /\ UNCHANGED <<store, remote, minted, outcome>>

\* Mutant: the INSERT is committed at once.
InsertRow_OwnCommit(p) ==
    /\ pc[p] = "reading" /\ holder = NoProc
    /\ \E d \in Devices \ (External \cup minted) :
        /\ db' = CreateDevice(db, d, job[p].user, job[p].mode)
        /\ image' = db' /\ holder' = p
        /\ minted' = minted \cup {d}
        /\ job' = [job EXCEPT ![p].dev = d]
    /\ readers' = readers \ {p}
    /\ Goto(p, "inserted")
    /\ UNCHANGED <<remote, outcome>>

\* The INSERT takes the write lock.
InsertRow(p) ==
    /\ pc[p] = "reading" /\ holder = NoProc
    /\ \E d \in Devices \ (External \cup minted) :
        /\ Write(p, CreateDevice(db, d, job[p].user, job[p].mode))
        /\ minted' = minted \cup {d}
        /\ job' = [job EXCEPT ![p].dev = d]
    /\ readers' = readers \ {p}
    /\ Goto(p, "inserted")
    /\ UNCHANGED <<remote, outcome>>

\* Mutant: the wait for the write lock has no timeout.
AbortGrant_NoTimeout(p) ==
    /\ pc[p] = "reading" /\ holder = NoProc
    /\ readers' = readers \ {p}
    /\ Stop(p)
    /\ UNCHANGED <<store, remote, minted, outcome>>

\* No free address, or the write lock was not obtained.
AbortGrant(p) ==
    /\ pc[p] = "reading"
    /\ readers' = readers \ {p}
    /\ Stop(p)
    /\ UNCHANGED <<store, remote, minted, outcome>>

ApplyGrantedPeer(p) ==
    /\ pc[p] = "inserted"
    /\ remote' = remote \cup {job[p].dev}
    /\ job' = [job EXCEPT ![p].touched = {job[p].dev}]
    /\ Goto(p, "applied")
    /\ UNCHANGED <<store, readers, minted, outcome>>

\* Mutant: the error of apply_peer is swallowed.
FailGrantedPeer_Swallowed(p) ==
    /\ pc[p] = "inserted"
    /\ Goto(p, "applied")
    /\ UNCHANGED <<store, readers, remote, minted, job, outcome>>

\* apply_peer raises; if it had an effect on the server nobody is told.
FailGrantedPeer(p) ==
    /\ pc[p] = "inserted"
    /\ \/ UNCHANGED <<remote, outcome>>
       \/ remote' = remote \cup {job[p].dev} /\ Mark({job[p].dev}, "unreported")
    /\ Rollback(p) /\ Stop(p)
    /\ UNCHANGED <<readers, minted>>

FinishGrant(p) ==
    /\ pc[p] = "applied"
    /\ Write(p, IF job[p].kind = "approve"
                THEN MarkOrderFulfilled(image, job[p].order, job[p].dev)
                ELSE image)
    /\ Goto(p, "commit")
    /\ UNCHANGED <<readers, remote, minted, job, outcome>>

\* The audit row, the passport or the private artifact cannot be written.
FailAfterApply(p) ==
    /\ pc[p] = "applied"
    /\ Mark({job[p].dev}, "applied_reported")
    /\ Rollback(p) /\ Stop(p)
    /\ UNCHANGED <<readers, remote, minted>>

\* create_operator_device: the partial failure is recorded on the connection
\* whose COMMIT just failed, and that record's own commit may succeed.
RecordPartialFailure(p) ==
    /\ pc[p] = "audit"
    /\ \/ CommitImage
       \/ readers # {} /\ IF p \in Resident THEN UNCHANGED store ELSE Rollback(p)
    /\ Mark({job[p].dev}, "applied_reported")
    /\ Stop(p)
    /\ UNCHANGED <<readers, remote, minted>>

-----------------------------------------------------------------------------
(* Remote-first jobs: what they read, and what they intend.                *)

StartRevoke(p, d) ==
    /\ Readable(p) /\ View(p).dev[d].status # "absent"
    /\ LET live == {d} \cap {e \in Devices : View(p).dev[e].status = "active"} IN
       Begin(p, IF live = {} THEN "local" ELSE "remote",
             [NoJob EXCEPT !.kind = "revoke", !.todo = live, !.left = {d}])
    /\ UNCHANGED <<store, readers, remote, minted, outcome>>

\* Only the bot resets all devices of a user.
StartReset(p, u) ==
    /\ p \in Resident /\ Readable(p)
    /\ LET live == ActiveDevices(View(p), u) IN
       /\ live # {}
       /\ Begin(p, "remote", [NoJob EXCEPT !.kind = "reset", !.user = u,
                                           !.todo = live, !.left = live])
    /\ UNCHANGED <<store, readers, remote, minted, outcome>>

StartDisableSlot(p, d) ==
    /\ p \notin Resident /\ Readable(p)
    /\ db.dev[d].status = "active"
    /\ Begin(p, "remote", [NoJob EXCEPT !.kind = "disable_slot", !.todo = {d},
                                        !.left = {d}])
    /\ UNCHANGED <<store, readers, remote, minted, outcome>>

StartDisableVpn(p, u) ==
    /\ p \notin Resident /\ Readable(p)
    /\ LET live == ActiveDevices(db, u) IN
       Begin(p, IF live = {} THEN "local" ELSE "remote",
             [NoJob EXCEPT !.kind = "disable_vpn", !.user = u, !.todo = live])
    /\ UNCHANGED <<store, readers, remote, minted, outcome>>

StartEnableVpn(p, u) ==
    /\ p \notin Resident /\ Readable(p)
    /\ LET off == DevicesToEnable(db, u) IN
       Begin(p, IF off = {} THEN "local" ELSE "remote",
             [NoJob EXCEPT !.kind = "enable_vpn", !.user = u, !.todo = off])
    /\ UNCHANGED <<store, readers, remote, minted, outcome>>

StartBlock(p, u) ==
    /\ p \notin Resident /\ Readable(p)
    /\ Begin(p, "local", [NoJob EXCEPT !.kind = "block", !.user = u])
    /\ UNCHANGED <<store, readers, remote, minted, outcome>>

-----------------------------------------------------------------------------
(* Remote-first jobs: the server.                                          *)

ChangePeer(p, d) ==
    remote' = IF job[p].kind = "enable_vpn" THEN remote \cup {d} ELSE remote \ {d}

ChangeNextPeer(p) ==
    /\ pc[p] = "remote"
    /\ \E d \in job[p].todo :
        /\ ChangePeer(p, d)
        /\ job' = [job EXCEPT ![p].todo = @ \ {d}, ![p].touched = @ \cup {d}]
        /\ Goto(p, IF job[p].todo = {d} THEN "local" ELSE "remote")
    /\ UNCHANGED <<store, readers, minted, outcome>>

\* A peer change fails, with or without effect.  Only reset_user_devices
\* reports the peers it had already removed.
FailNextPeer(p) ==
    /\ pc[p] = "remote"
    /\ \E d \in job[p].todo, effect \in BOOLEAN :
        /\ IF effect THEN ChangePeer(p, d) ELSE UNCHANGED remote
        /\ outcome' = [e \in Devices |->
             IF effect /\ e = d THEN "unreported"
             ELSE IF e \in job[p].touched
                  THEN IF job[p].kind = "reset" THEN "removed_reported" ELSE "unreported"
             ELSE outcome[e]]
    /\ Stop(p)
    /\ UNCHANGED <<store, readers, minted>>

-----------------------------------------------------------------------------
(* Remote-first jobs: the registry.                                        *)

WriteLocal(p) == pc[p] = "local" /\ holder = NoProc /\ Goto(p, "commit")

WriteRevoke(p) ==
    /\ WriteLocal(p) /\ job[p].kind \in {"revoke", "reset"}
    /\ \E d \in job[p].left :
        /\ Write(p, CascadeRevoke(db, d))
        /\ job' = [job EXCEPT ![p].dev = d]
    /\ UNCHANGED <<readers, remote, minted, outcome>>

\* Mutant: UPDATE devices ... WHERE id = ? without the status.
WriteDisableSlot_Unguarded(p) ==
    /\ WriteLocal(p) /\ job[p].kind = "disable_slot"
    /\ \E d \in job[p].left :
        /\ Write(p, DisableDevice(db, d))
        /\ job' = [job EXCEPT ![p].dev = d]
    /\ UNCHANGED <<readers, remote, minted, outcome>>

\* disable_device is guarded by the status: a slot that is no longer active
\* is left alone and the job fails.
WriteDisableSlot(p) ==
    /\ WriteLocal(p) /\ job[p].kind = "disable_slot"
    /\ \E d \in job[p].left :
        /\ db.dev[d].status = "active"
        /\ Write(p, DisableDevice(db, d))
        /\ job' = [job EXCEPT ![p].dev = d]
    /\ UNCHANGED <<readers, remote, minted, outcome>>

WriteUser(p) ==
    /\ WriteLocal(p)
    /\ LET u == job[p].user IN
       \/ job[p].kind = "disable_vpn" /\ Write(p, DisableVpn(db, u))
       \/ job[p].kind = "enable_vpn"  /\ Write(p, EnableVpn(db, u))
       \/ job[p].kind = "block"       /\ Write(p, SetUserStatus(db, u, "blocked"))
    /\ UNCHANGED <<readers, remote, minted, job, outcome>>

\* What the caller is told when the registry could not be changed.
MarkLocalFailure(p) ==
    CASE job[p].kind \in {"revoke", "disable_slot"} ->
             Mark(job[p].touched, "removed_reported")
      [] job[p].kind = "reset" ->
             \E d \in job[p].left :
                 outcome' = [e \in Devices |->
                     IF e = d /\ View(p).dev[d].status = "active" THEN "removed_reported"
                     ELSE IF e \in job[p].left THEN "unreported"
                     ELSE outcome[e]]
      [] OTHER -> Mark(job[p].touched, "unreported")

\* BEGIN, a statement or the wait for the write lock fails.
FailLocal(p) ==
    /\ pc[p] = "local"
    /\ MarkLocalFailure(p)
    /\ Stop(p)
    /\ UNCHANGED <<store, readers, remote, minted>>

-----------------------------------------------------------------------------
(* COMMIT.                                                                 *)

Commit(p) ==
    /\ pc[p] = "commit"
    /\ CommitImage
    /\ LET rest == job[p].left \ {job[p].dev}
           done == IF job[p].kind = "reset" THEN {job[p].dev} ELSE job[p].touched
       IN /\ Mark(done, "clean")
          /\ IF rest = {} THEN Stop(p)
             ELSE /\ Goto(p, "local")
                  /\ job' = [job EXCEPT ![p].left = rest, ![p].dev = NoDevice,
                                         ![p].touched = @ \ done]
    /\ UNCHANGED <<readers, remote, minted>>

\* Mutant: the connection of a failed request is not closed.
CommitBusy_NotClosed(p) ==
    /\ pc[p] = "commit" /\ readers # {}
    /\ IF job[p].kind = "create"
       THEN Goto(p, "audit") /\ UNCHANGED <<job, outcome>>
       ELSE Mark({job[p].dev} \cap Devices, "unreported") /\ Stop(p)
    /\ UNCHANGED <<store, readers, remote, minted>>

\* commit() raises in the else branch of transaction(): nothing is rolled
\* back until the connection is closed.
CommitBusy(p) ==
    /\ pc[p] = "commit" /\ readers # {}
    /\ IF job[p].kind = "create"
       THEN Goto(p, "audit") /\ UNCHANGED <<store, job, outcome>>
       ELSE /\ IF p \in Resident THEN UNCHANGED store ELSE Rollback(p)
            /\ IF job[p].kind = "approve"
               THEN Mark({job[p].dev}, "applied_reported")
               ELSE MarkLocalFailure(p)
            /\ Stop(p)
    /\ UNCHANGED <<readers, remote, minted>>

\* The process dies and is started again.
Crash(p) ==
    /\ pc[p] # "idle" \/ holder = p
    /\ Rollback(p)
    /\ readers' = readers \ {p}
    /\ Mark(job[p].touched, "unreported")
    /\ Stop(p)
    /\ UNCHANGED <<remote, minted>>

-----------------------------------------------------------------------------
Start(p) ==
    \/ FlushOpenTransaction(p)
    \/ \E o \in Orders : RequestAccess(p, o) \/ StartApprove(p, o)
    \/ \E u \in Users :
        \/ \E m \in Mode : StartCreate(p, u, m)
        \/ \E d \in External : ImportExternal(p, d, u)
        \/ StartReset(p, u)
        \/ StartDisableVpn(p, u)
        \/ StartEnableVpn(p, u)
        \/ StartBlock(p, u)
    \/ \E d \in Devices : StartRevoke(p, d) \/ StartDisableSlot(p, d)

Continue(p) ==
    \/ InsertRow(p) \/ AbortGrant(p)
    \/ ApplyGrantedPeer(p) \/ FailGrantedPeer(p)
    \/ FinishGrant(p) \/ FailAfterApply(p) \/ RecordPartialFailure(p)
    \/ ChangeNextPeer(p) \/ FailNextPeer(p)
    \/ WriteRevoke(p) \/ WriteDisableSlot(p) \/ WriteUser(p) \/ FailLocal(p)
    \/ Commit(p) \/ CommitBusy(p)

Next == \E p \in Procs : Start(p) \/ Continue(p) \/ Crash(p)

Spec == Init /\ [][Next]_vars

(* Every call returns or times out (SSH and SQLite both have timeouts), so *)
(* a process that has begun a request does not stop in the middle of it.   *)
FairSpec == Spec /\ \A p \in Procs : WF_vars(Continue(p))

-----------------------------------------------------------------------------
(* Why the ledger is implemented: an invariant that is inductive.          *)

\* What a grant checked before it began to write.
GrantPermitted(r, j) ==
    \/ /\ j.kind = "approve" /\ j.mode = "dedicated"
       /\ j.order \in Orders /\ j.user = Owner[j.order]
       /\ Approvable(r, j.order)
    \/ /\ j.kind = "create" /\ j.user \in Users
       /\ SlotCreatable(r, j.user, j.mode)

\* Who holds which lock.
LockInv ==
    /\ holder = NoProc => image = db
    /\ readers = {p \in Procs : pc[p] = "reading"}
    /\ \A p \in Procs :
        /\ pc[p] \in {"inserted", "applied", "commit", "audit"} => holder = p
        /\ pc[p] = "reading" => holder # p

\* The checks of a grant hold until it commits: a reader keeps everybody from
\* committing, and the lock keeps everybody else from writing.
CheckedInv ==
    \A p \in Procs : pc[p] \in {"reading", "inserted", "applied"} =>
        GrantPermitted(db, job[p])

\* A key pair that was not generated yet has no row.
FreshInv ==
    \A d \in Devices \ (External \cup minted) :
        db.dev[d].status = "absent" /\ image.dev[d].status = "absent"

\* What the lock holder has written is a row of a grant, or one whole step.
ImageInv ==
    \A p \in Procs : holder = p =>
        IF pc[p] \in {"inserted", "applied"}
        THEN /\ job[p].dev \in Devices \ External
             /\ db.dev[job[p].dev].status = "absent"
             /\ image = CreateDevice(db, job[p].dev, job[p].user, job[p].mode)
        ELSE image = db \/ LedgerStep(db, image)

\* What a job will write to the registry exists there.
TargetInv ==
    \A p \in Procs :
        /\ job[p].kind \in {"disable_vpn", "enable_vpn", "block"} => job[p].user \in Users
        /\ pc[p] \notin {"remote", "local"} \/ holder # p =>
              \A d \in job[p].left : db.dev[d].status # "absent"

\* The locks, the checks made under them and the uncommitted rows fit together.
ProtocolInvariant ==
    LockInv /\ CheckedInv /\ FreshInv /\ ImageInv /\ TargetInv

-----------------------------------------------------------------------------
Ledger == INSTANCE DeviceLedger WITH reg <- db

\* Seen from outside, every change of the registry is one step of the ledger.
ImplementsLedger == Ledger!Spec

\* An order's link is only ever to a device of its owner that is not revoked.
OrderLinkSound == LinkSound(db)

\* No interleaving of revoke, disable, enable and open transactions brings a
\* revoked device back.
RevokedIsFinal == [][StaysRevoked(db, db')]_vars

\* approve_order raises OrderAlreadyFulfilled for good: also after the device
\* was revoked and the order's link to it cleared.
OrderGrantedOnce == [][NeverRegranted(db, db')]_vars

\* Two grants that run at the same time do not both take the last place.
GrantWithinQuota == [][GrantsWithinQuota(db, db')]_vars

\* A created device becomes visible only while its peer is on the server,
\* unless it is a later write of the bot that commits what a failed COMMIT left.
GrantImpliesPeer ==
    [][\A d \in Devices \ External :
        db.dev[d].status = "absent" /\ db'.dev[d].status = "active" =>
            d \in remote \/ (holder \in Resident /\ pc[holder] = "idle")]_vars

\* Of requests that do not overlap: between them the peers of the server are
\* those of the active devices, unless the operation that touched a device
\* ended without completing both sides.  Imported devices are left out:
\* EnableVpn activates them without their peer (EnableRestoresPeer).
Busy(d) == \E p \in Procs : d \in {job[p].dev} \cup job[p].touched \cup job[p].todo
PeersMatchRegistry ==
    \A d \in Devices \ External :
        outcome[d] = "clean" /\ ~Busy(d) => (d \in remote <=> db.dev[d].status = "active")

\* A request that was begun comes to an end.
JobsEnd == \A p \in Procs : (pc[p] # "idle") ~> (pc[p] = "idle")

\* The write lock does not stay taken, except by a resident process whose
\* COMMIT failed (that one keeps it until its next write).
LockReleased == \A p \in Procs \ Resident : (holder = p) ~> (holder # p)

-----------------------------------------------------------------------------
(* What the documentation says and the code does not do: each is refuted   *)
(* by a run of its own.                                                    *)

\* Enabling a device puts its peer back on the server first.
EnableRestoresPeer ==
    [][\A d \in Devices :
        db.dev[d].status = "disabled" /\ db'.dev[d].status = "active" => d \in remote]_vars

\* Disabling a device takes its peer off the server first.
DisableRemovesPeer ==
    [][\A d \in Devices :
        db.dev[d].status = "active" /\ db'.dev[d].status = "disabled" => d \notin remote]_vars

\* A user never has more than the allowed number of quota-bound devices.
QuotaHolds ==
    \A u \in Users :
        Cardinality({d \in ActiveDevices(db, u) \ External :
                        db.dev[d].mode = "dedicated"}) <= MaxDevices

\* A grant reported as remote-changed-local-failed did not change the registry.
ReportedGrantNotRegistered ==
    \A d \in Devices : outcome[d] = "applied_reported" => db.dev[d].status # "active"

=============================================================================
