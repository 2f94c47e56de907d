---------------------- MODULE AccessProvisioning_proofs ----------------------
(***************************************************************************)
(* Proofs about AccessProvisioning, for every set of processes, users,     *)
(* orders and devices: its type, its inductive invariant, and that it      *)
(* implements the ledger, with what follows from that.                     *)
(***************************************************************************)
EXTENDS AccessProvisioning, DeviceRegistry_proofs

-----------------------------------------------------------------------------
(* Types.                                                                  *)

LEMMA NoJobType == NoJob \in Job
  BY DEF NoJob, Job, JobKind, GrantKind, Mode

LEMMA TypeInit == Init => TypeOK
  BY EmptyRegistryType, NoJobType, RegistryAssumption
  DEF Init, TypeOK, PC, Outcome

\* The control variables of a step that stops a process, or moves it on.
LEMMA ControlType ==
  ASSUME TypeOK, NEW p \in Procs
  PROVE  /\ Stop(p) => pc' \in [Procs -> PC] /\ job' \in [Procs -> Job]
         /\ \A l \in PC : Goto(p, l) => pc' \in [Procs -> PC]
         /\ \A l \in PC, j \in Job : Begin(p, l, j) => pc' \in [Procs -> PC] /\ job' \in [Procs -> Job]
  BY NoJobType DEF TypeOK, Stop, Goto, Begin, PC

LEMMA MarkType ==
  ASSUME TypeOK, NEW S, NEW o \in Outcome, Mark(S, o)
  PROVE  outcome' \in [Devices -> Outcome]
  BY DEF TypeOK, Mark

LEMMA RollbackType ==
  ASSUME TypeOK, NEW p \in Procs, Rollback(p)
  PROVE  db' \in Registry /\ image' \in Registry /\ holder' \in Procs \cup {NoProc}
  BY DEF TypeOK, Rollback, store

LEMMA MarkLocalFailureType ==
  ASSUME TypeOK, NEW p \in Procs, MarkLocalFailure(p)
  PROVE  outcome' \in [Devices -> Outcome]
<1> USE DEF TypeOK, Outcome
<1>1. CASE job[p].kind \in {"revoke", "disable_slot"}
  BY <1>1, MarkType DEF MarkLocalFailure
<1>2. CASE job[p].kind = "reset"
  BY <1>2 DEF MarkLocalFailure
<1>3. CASE job[p].kind \notin {"revoke", "disable_slot", "reset"}
  BY <1>3, MarkType DEF MarkLocalFailure
<1> QED BY <1>1, <1>2, <1>3

\* Writing a well-formed registry under the lock.
LEMMA WriteType ==
  ASSUME TypeOK, NEW p \in Procs, NEW r \in Registry, Write(p, r)
  PROVE  db' \in Registry /\ image' \in Registry /\ holder' \in Procs \cup {NoProc}
  BY DEF TypeOK, Write

LEMMA StartType == ASSUME TypeOK, NEW p \in Procs, Start(p) PROVE TypeOK'
<1> USE DEF TypeOK
<1>1. CASE FlushOpenTransaction(p)
  BY <1>1 DEF FlushOpenTransaction, CommitImage
<1>2. ASSUME NEW o \in Orders, RequestAccess(p, o) PROVE TypeOK'
  BY <1>2, CreateOrderType DEF RequestAccess, Autocommit, Write
<1>3. ASSUME NEW o \in Orders, StartApprove(p, o) PROVE TypeOK'
  <2>1. [NoJob EXCEPT !.kind = "approve", !.order = o, !.user = Owner[o]] \in Job
    BY RegistryAssumption, NoJobType DEF Job, JobKind, GrantKind
  <2> QED BY <1>3, <2>1, ControlType DEF StartApprove, PC, store
<1>4. ASSUME NEW u \in Users, NEW m \in Mode, StartCreate(p, u, m) PROVE TypeOK'
  <2>1. [NoJob EXCEPT !.kind = "create", !.user = u, !.mode = m] \in Job
    BY NoJobType DEF Job, JobKind, GrantKind
  <2> QED BY <1>4, <2>1, ControlType DEF StartCreate, PC, store
<1>5. ASSUME NEW u \in Users, NEW d \in External, ImportExternal(p, d, u) PROVE TypeOK'
  BY <1>5, CreateExternalDeviceType DEF ImportExternal, Autocommit, Write
<1>6. ASSUME NEW u \in Users, StartReset(p, u) PROVE TypeOK'
  <2> DEFINE live == ActiveDevices(View(p), u)
  <2>1. [NoJob EXCEPT !.kind = "reset", !.user = u, !.todo = live, !.left = live] \in Job
    BY NoJobType DEF Job, JobKind, ActiveDevices
  <2> QED BY <1>6, <2>1, ControlType DEF StartReset, PC, store
<1>7. ASSUME NEW u \in Users, StartDisableVpn(p, u) PROVE TypeOK'
  <2> DEFINE live == ActiveDevices(db, u)
  <2>1. [NoJob EXCEPT !.kind = "disable_vpn", !.user = u, !.todo = live] \in Job
    BY NoJobType DEF Job, JobKind, ActiveDevices
  <2> QED BY <1>7, <2>1, ControlType DEF StartDisableVpn, PC, store
<1>8. ASSUME NEW u \in Users, StartEnableVpn(p, u) PROVE TypeOK'
  <2> DEFINE off == DevicesToEnable(db, u)
  <2>1. [NoJob EXCEPT !.kind = "enable_vpn", !.user = u, !.todo = off] \in Job
    BY NoJobType DEF Job, JobKind, DevicesToEnable
  <2> QED BY <1>8, <2>1, ControlType DEF StartEnableVpn, PC, store
<1>9. ASSUME NEW u \in Users, StartBlock(p, u) PROVE TypeOK'
  <2>1. [NoJob EXCEPT !.kind = "block", !.user = u] \in Job
    BY NoJobType DEF Job, JobKind
  <2> QED BY <1>9, <2>1, ControlType DEF StartBlock, PC, store
<1>10. ASSUME NEW d \in Devices, StartRevoke(p, d) PROVE TypeOK'
  <2> DEFINE live == {d} \cap {e \in Devices : View(p).dev[e].status = "active"}
  <2>1. [NoJob EXCEPT !.kind = "revoke", !.todo = live, !.left = {d}] \in Job
    BY NoJobType DEF Job, JobKind
  <2> QED BY <1>10, <2>1, ControlType DEF StartRevoke, PC, store
<1>11. ASSUME NEW d \in Devices, StartDisableSlot(p, d) PROVE TypeOK'
  <2>1. [NoJob EXCEPT !.kind = "disable_slot", !.todo = {d}, !.left = {d}] \in Job
    BY NoJobType DEF Job, JobKind
  <2> QED BY <1>11, <2>1, ControlType DEF StartDisableSlot, PC, store
<1> QED
  BY <1>1, <1>2, <1>3, <1>4, <1>5, <1>6, <1>7, <1>8, <1>9, <1>10, <1>11 DEF Start

LEMMA ContinueType ==
  ASSUME TypeOK, LockInv, ImageInv, NEW p \in Procs, Continue(p)
  PROVE  TypeOK'
<1> USE DEF TypeOK
<1> job[p] \in Job
  OBVIOUS
<1>1. CASE InsertRow(p)
  <2>1. PICK d \in Devices \ (External \cup minted) :
             /\ Write(p, CreateDevice(db, d, job[p].user, job[p].mode))
             /\ minted' = minted \cup {d}
             /\ job' = [job EXCEPT ![p].dev = d]
    BY <1>1 DEF InsertRow
  <2>2. CreateDevice(db, d, job[p].user, job[p].mode) \in Registry
    BY DEF CreateDevice, Registry, DeviceRow, DeviceStatus, Job
  <2>3. job' \in [Procs -> Job]
    BY <2>1 DEF Job
  <2> QED BY <1>1, <2>1, <2>2, <2>3, WriteType, ControlType DEF InsertRow, PC
<1>2. CASE AbortGrant(p)
  BY <1>2, ControlType DEF AbortGrant, store
<1>3. CASE ApplyGrantedPeer(p)
  <2>1. job[p].dev \in Devices
    BY <1>3 DEF ApplyGrantedPeer, LockInv, ImageInv
  <2>2. job' \in [Procs -> Job] /\ remote' \in SUBSET Devices
    BY <1>3, <2>1 DEF ApplyGrantedPeer, Job
  <2> QED BY <1>3, <2>2, ControlType DEF ApplyGrantedPeer, PC, store
<1>4. CASE FailGrantedPeer(p)
  <2>1. job[p].dev \in Devices
    BY <1>4 DEF FailGrantedPeer, LockInv, ImageInv
  <2>2. remote' \in SUBSET Devices /\ outcome' \in [Devices -> Outcome]
    BY <1>4, <2>1, MarkType DEF FailGrantedPeer, Outcome
  <2> QED BY <1>4, <2>2, RollbackType, ControlType DEF FailGrantedPeer
<1>5. CASE FinishGrant(p)
  <2>1. job[p].dev \in Devices
    BY <1>5 DEF FinishGrant, LockInv, ImageInv
  <2>2. ASSUME job[p].kind = "approve"
        PROVE  MarkOrderFulfilled(image, job[p].order, job[p].dev) \in Registry
    BY <2>1 DEF MarkOrderFulfilled, Registry, OrderRow
  <2> QED BY <1>5, <2>2, WriteType, ControlType DEF FinishGrant, PC
<1>6. CASE FailAfterApply(p)
  BY <1>6, MarkType, RollbackType, ControlType DEF FailAfterApply, Outcome
<1>7. CASE RecordPartialFailure(p)
  <2>1. db' \in Registry /\ image' \in Registry /\ holder' \in Procs \cup {NoProc}
    BY <1>7, RollbackType DEF RecordPartialFailure, CommitImage, store
  <2> QED BY <1>7, <2>1, MarkType, ControlType DEF RecordPartialFailure, Outcome
<1>8. CASE ChangeNextPeer(p)
  <2>1. PICK d \in job[p].todo :
             /\ ChangePeer(p, d)
             /\ job' = [job EXCEPT ![p].todo = @ \ {d}, ![p].touched = @ \cup {d}]
             /\ Goto(p, IF job[p].todo = {d} THEN "local" ELSE "remote")
    BY <1>8 DEF ChangeNextPeer
  <2>2. d \in Devices
    BY DEF Job
  <2>3. job' \in [Procs -> Job]
    BY <2>1, <2>2 DEF Job
  <2>4. remote' \in SUBSET Devices
    BY <2>1, <2>2 DEF ChangePeer
  <2>5. pc' \in [Procs -> PC]
    BY <2>1, ControlType DEF PC
  <2> QED BY <1>8, <2>3, <2>4, <2>5 DEF ChangeNextPeer, store
<1>9. CASE FailNextPeer(p)
  <2>1. remote' \in SUBSET Devices /\ outcome' \in [Devices -> Outcome]
    BY <1>9 DEF FailNextPeer, ChangePeer, Job, Outcome
  <2> QED BY <1>9, <2>1, ControlType DEF FailNextPeer, store
<1>10. CASE WriteRevoke(p)
  <2>1. PICK d \in job[p].left :
             Write(p, CascadeRevoke(db, d)) /\ job' = [job EXCEPT ![p].dev = d]
    BY <1>10 DEF WriteRevoke
  <2>2. d \in Devices
    BY DEF Job
  <2>3. job' \in [Procs -> Job]
    BY <2>1, <2>2 DEF Job
  <2> QED BY <1>10, <2>1, <2>2, <2>3, CascadeRevokeType, WriteType, ControlType
          DEF WriteRevoke, WriteLocal, PC
<1>11. CASE WriteDisableSlot(p)
  <2>1. PICK d \in job[p].left :
             Write(p, DisableDevice(db, d)) /\ job' = [job EXCEPT ![p].dev = d]
    BY <1>11 DEF WriteDisableSlot
  <2>2. d \in Devices
    BY DEF Job
  <2>3. job' \in [Procs -> Job]
    BY <2>1, <2>2 DEF Job
  <2> QED BY <1>11, <2>1, <2>2, <2>3, DisableDeviceType, WriteType, ControlType
          DEF WriteDisableSlot, WriteLocal, PC
<1>12. CASE WriteUser(p)
  <2>1. PICK r \in Registry : Write(p, r)
    BY <1>12, DisableVpnType, EnableVpnType, SetUserStatusType DEF WriteUser, UserStatus
  <2> QED BY <1>12, <2>1, WriteType, ControlType DEF WriteUser, WriteLocal, PC
<1>13. CASE FailLocal(p)
  BY <1>13, MarkLocalFailureType, ControlType DEF FailLocal, store
<1>14. CASE Commit(p)
  <2>1. db' \in Registry /\ image' \in Registry /\ holder' \in Procs \cup {NoProc}
    BY <1>14 DEF Commit, CommitImage
  <2>2. outcome' \in [Devices -> Outcome]
    BY <1>14, MarkType DEF Commit, Outcome
  <2>3. pc' \in [Procs -> PC] /\ job' \in [Procs -> Job]
    <3> DEFINE rest == job[p].left \ {job[p].dev}
               done == IF job[p].kind = "reset" THEN {job[p].dev} ELSE job[p].touched
    <3>1. CASE rest = {}
      BY <1>14, <3>1, ControlType DEF Commit
    <3>2. CASE rest # {}
      <4> DEFINE j == [job[p] EXCEPT !.left = rest, !.dev = NoDevice, !.touched = @ \ done]
      <4>1. job' = [job EXCEPT ![p] = j]
        BY <1>14, <3>2 DEF Commit
      <4>3. j \in Job
        BY DEF Job
      <4>2. job' \in [Procs -> Job]
        BY <4>1, <4>3
      <4> QED BY <1>14, <3>2, <4>2, ControlType DEF Commit, PC
    <3> QED BY <3>1, <3>2
  <2> QED BY <1>14, <2>1, <2>2, <2>3 DEF Commit
<1>15. CASE CommitBusy(p)
  <2>1. CASE job[p].kind = "create"
    BY <1>15, <2>1, ControlType DEF CommitBusy, PC, store
  <2>2. CASE job[p].kind # "create"
    <3>1. db' \in Registry /\ image' \in Registry /\ holder' \in Procs \cup {NoProc}
      BY <1>15, <2>2, RollbackType DEF CommitBusy, store
    <3>2. outcome' \in [Devices -> Outcome]
      BY <1>15, <2>2, MarkType, MarkLocalFailureType DEF CommitBusy, Outcome
    <3> QED BY <1>15, <2>2, <3>1, <3>2, ControlType DEF CommitBusy
  <2> QED BY <2>1, <2>2
<1> QED
  BY <1>1, <1>2, <1>3, <1>4, <1>5, <1>6, <1>7, <1>8, <1>9, <1>10, <1>11, <1>12,
     <1>13, <1>14, <1>15 DEF Continue

LEMMA CrashType == ASSUME TypeOK, NEW p \in Procs, Crash(p) PROVE TypeOK'
  BY RollbackType, MarkType, ControlType DEF TypeOK, Crash, Outcome

LEMMA TypeNext ==
  ASSUME TypeOK, LockInv, ImageInv, [Next]_vars
  PROVE  TypeOK'
<1>1. CASE UNCHANGED vars
  BY <1>1 DEF vars, store, TypeOK
<1>2. CASE Next
  BY <1>2, StartType, ContinueType, CrashType DEF Next
<1> QED BY <1>1, <1>2

-----------------------------------------------------------------------------
(* The protocol invariant.  Its preservation is proved once for each way a *)
(* step can treat the store, and the actions are instances of those.       *)

\* Only p moves.
Moves(p) ==
    /\ \A q \in Procs \ {p} : pc'[q] = pc[q] /\ job'[q] = job[q]
    /\ readers' = {q \in Procs : pc'[q] = "reading"}

UserTarget(j) ==
    j.kind \in {"disable_vpn", "enable_vpn", "block"} => j.user \in Users

LEMMA InvInit == ASSUME Init PROVE ProtocolInvariant
<1> USE ProcAssumption DEF Init
<1>1. LockInv
  BY DEF LockInv
<1>2. CheckedInv
  BY DEF CheckedInv
<1>3. FreshInv
  BY DEF FreshInv, EmptyRegistry, AbsentRow
<1>4. ImageInv
  BY DEF ImageInv
<1>5. TargetInv
  BY DEF TargetInv, NoJob
<1> QED BY <1>1, <1>2, <1>3, <1>4, <1>5 DEF ProtocolInvariant

\* A step that leaves the store alone, of a process that is not in a grant
\* that has written.
LEMMA QuietStep ==
  ASSUME TypeOK, ProtocolInvariant, NEW p \in Procs, Moves(p),
         UNCHANGED <<store, minted>>,
         pc[p] \notin {"inserted", "applied"},
         pc'[p] \in {"idle", "remote", "local"},
         UserTarget(job'[p]),
         pc'[p] = "idle" \/ holder # p =>
             \A d \in job'[p].left : db.dev[d].status # "absent"
  PROVE  ProtocolInvariant'
<1> USE DEF ProtocolInvariant, store
<1>1. LockInv'
  BY ProcAssumption DEF LockInv, Moves
<1>2. CheckedInv'
  BY DEF CheckedInv, Moves
<1>3. FreshInv'
  BY DEF FreshInv
<1>4. ImageInv'
  BY DEF ImageInv, Moves
<1>5. TargetInv'
  BY DEF TargetInv, Moves, UserTarget
<1> QED BY <1>1, <1>2, <1>3, <1>4, <1>5

\* A step that rolls back and stops.
LEMMA RollbackStep ==
  ASSUME TypeOK, ProtocolInvariant, NEW p \in Procs, Moves(p),
         Rollback(p), minted' = minted,
         pc'[p] = "idle", job'[p] = NoJob
  PROVE  ProtocolInvariant'
<1> USE DEF ProtocolInvariant, store, Rollback
<1>1. LockInv'
  BY ProcAssumption DEF LockInv, Moves
<1>2. CheckedInv'
  BY DEF CheckedInv, Moves
<1>3. FreshInv'
  BY DEF FreshInv
<1>4. ImageInv'
  BY ProcAssumption DEF ImageInv, LockInv, Moves
<1>5. TargetInv'
  BY DEF TargetInv, Moves, NoJob
<1> QED BY <1>1, <1>2, <1>3, <1>4, <1>5

\* A step that commits what the process has written.
LEMMA CommitStep ==
  ASSUME TypeOK, ProtocolInvariant, NEW p \in Procs, Moves(p),
         CommitImage, holder = p, minted' = minted,
         pc[p] \in {"idle", "commit", "audit"},
         pc'[p] = "idle" \/ (pc[p] = "commit" /\ pc'[p] = "local"),
         UserTarget(job'[p]),
         job'[p].left \subseteq job[p].left
  PROVE  ProtocolInvariant' /\ (db' = db \/ LedgerStep(db, db'))
<1> USE DEF ProtocolInvariant, CommitImage
<1>0. image = db \/ LedgerStep(db, image)
  BY DEF ImageInv
<1>1. \A d \in Devices : db.dev[d].status # "absent" => db'.dev[d].status # "absent"
  BY <1>0, LedgerStaysPresent DEF TypeOK, StaysPresent
<1>2. LockInv'
  BY ProcAssumption DEF LockInv, Moves
<1>3. CheckedInv'
  BY DEF CheckedInv, LockInv, Moves
<1>4. FreshInv'
  BY DEF FreshInv
<1>5. ImageInv'
  BY ProcAssumption DEF ImageInv
<1>6. TargetInv'
  BY <1>1 DEF TargetInv, LockInv, Moves, UserTarget, TypeOK, Job
<1> QED BY <1>0, <1>2, <1>3, <1>4, <1>5, <1>6

\* A step that takes the free write lock and writes a whole step.
LEMMA WriteStep ==
  ASSUME TypeOK, ProtocolInvariant, NEW p \in Procs, Moves(p),
         holder = NoProc, NEW r, Write(p, r), minted' = minted,
         r = db \/ LedgerStep(db, r),
         KeepsAbsent(db, r, External \cup minted),
         \/ pc[p] = "idle" /\ pc'[p] = "idle"
         \/ pc[p] = "local" /\ pc'[p] = "commit",
         UserTarget(job'[p]),
         job'[p].left = job[p].left
  PROVE  ProtocolInvariant'
<1> USE DEF ProtocolInvariant, Write
<1>2. LockInv'
  BY ProcAssumption DEF LockInv, Moves
<1>3. CheckedInv'
  BY DEF CheckedInv, LockInv, Moves
<1>4. FreshInv'
  BY DEF FreshInv, KeepsAbsent
<1>5. ImageInv'
  BY DEF ImageInv, Moves
<1>6. TargetInv'
  BY ProcAssumption DEF TargetInv, Moves, UserTarget
<1> QED BY <1>2, <1>3, <1>4, <1>5, <1>6

\* A write that commits at once.
LEMMA AutocommitStep ==
  ASSUME TypeOK, ProtocolInvariant, NEW p \in Procs,
         UNCHANGED <<readers, minted, pc, job>>,
         readers = {}, holder = NoProc, holder' = NoProc,
         NEW r, db' = r, image' = r,
         r = db \/ LedgerStep(db, r),
         KeepsAbsent(db, r, External \cup minted)
  PROVE  ProtocolInvariant' /\ (db' = db \/ LedgerStep(db, db'))
<1> USE DEF ProtocolInvariant
<1>1. \A d \in Devices : db.dev[d].status # "absent" => db'.dev[d].status # "absent"
  BY LedgerStaysPresent DEF TypeOK, StaysPresent
<1>2. LockInv'
  BY DEF LockInv
<1>3. CheckedInv'
  BY ProcAssumption DEF CheckedInv, LockInv
<1>4. FreshInv'
  BY DEF FreshInv, KeepsAbsent
<1>5. ImageInv'
  BY ProcAssumption DEF ImageInv
<1>6. TargetInv'
  BY <1>1, ProcAssumption DEF TargetInv, TypeOK, Job
<1> QED BY <1>2, <1>3, <1>4, <1>5, <1>6

\* What one action has to be shown to do.
Safe == ProtocolInvariant' /\ (db' = db \/ LedgerStep(db, db'))

LEMMA StopMoves ==
  ASSUME TypeOK, LockInv, NEW p \in Procs, Stop(p),
         readers' = readers \/ readers' = readers \ {p},
         pc[p] = "reading" => readers' = readers \ {p}
  PROVE  Moves(p) /\ pc'[p] = "idle" /\ job'[p] = NoJob
  BY DEF TypeOK, LockInv, Stop, Goto, Moves

LEMMA BeginMoves ==
  ASSUME TypeOK, LockInv, NEW p \in Procs, NEW l, NEW j, Begin(p, l, j),
         l \in {"remote", "local"}, readers' = readers
  PROVE  Moves(p) /\ pc[p] = "idle" /\ pc'[p] = l /\ job'[p] = j
  BY DEF TypeOK, LockInv, Begin, Goto, Moves

\* Starting a remote-first job.
LEMMA BeginSafe ==
  ASSUME TypeOK, ProtocolInvariant, NEW p \in Procs, NEW l \in {"remote", "local"},
         NEW j, Begin(p, l, j), UNCHANGED <<store, readers, minted>>,
         UserTarget(j),
         holder # p => \A d \in j.left : db.dev[d].status # "absent"
  PROVE  Safe
<1>1. Moves(p) /\ pc[p] = "idle" /\ pc'[p] = l /\ job'[p] = j
  BY BeginMoves DEF ProtocolInvariant
<1>2. ProtocolInvariant'
  BY <1>1, QuietStep
<1> QED BY <1>2 DEF Safe, store

\* Ending a job without touching the store.
LEMMA StopSafe ==
  ASSUME TypeOK, ProtocolInvariant, NEW p \in Procs, Stop(p),
         UNCHANGED <<store, minted>>,
         readers' = readers \/ readers' = readers \ {p},
         pc[p] = "reading" => readers' = readers \ {p},
         pc[p] \notin {"inserted", "applied"}
  PROVE  Safe
<1>1. Moves(p) /\ pc'[p] = "idle" /\ job'[p] = NoJob
  BY StopMoves DEF ProtocolInvariant
<1>2. UserTarget(NoJob) /\ NoJob.left = {}
  BY DEF UserTarget, NoJob
<1>3. ProtocolInvariant'
  BY <1>1, <1>2, QuietStep
<1> QED BY <1>3 DEF Safe, store

\* Ending a job with a rollback.
LEMMA RollbackSafe ==
  ASSUME TypeOK, ProtocolInvariant, NEW p \in Procs, Stop(p), Rollback(p),
         minted' = minted,
         readers' = readers \/ readers' = readers \ {p},
         pc[p] = "reading" => readers' = readers \ {p}
  PROVE  Safe
<1>1. Moves(p) /\ pc'[p] = "idle" /\ job'[p] = NoJob
  BY StopMoves DEF ProtocolInvariant
<1>2. ProtocolInvariant'
  BY <1>1, RollbackStep
<1> QED BY <1>2 DEF Safe, Rollback, store

-----------------------------------------------------------------------------
(* The actions that begin a request.                                       *)

\* A grant that has passed its checks becomes a reader.
LEMMA ReadingSafe ==
  ASSUME TypeOK, ProtocolInvariant, NEW p \in Procs, NEW j,
         Begin(p, "reading", j), readers' = readers \cup {p}, holder # p,
         UNCHANGED <<store, minted>>,
         GrantPermitted(db, j), UserTarget(j), j.left = {}
  PROVE  Safe
<1> USE DEF ProtocolInvariant, Begin, Goto, store, TypeOK
<1>1. LockInv'
  BY DEF LockInv
<1>2. CheckedInv'
  BY DEF CheckedInv
<1>3. FreshInv'
  BY DEF FreshInv
<1>4. ImageInv'
  BY DEF ImageInv
<1>5. TargetInv'
  BY DEF TargetInv, UserTarget
<1> QED BY <1>1, <1>2, <1>3, <1>4, <1>5 DEF Safe

LEMMA StartSafe == ASSUME TypeOK, ProtocolInvariant, NEW p \in Procs, Start(p) PROVE Safe
<1> db \in Registry /\ image \in Registry
  BY DEF TypeOK
<1>1. CASE FlushOpenTransaction(p)
  <2>1. Moves(p) /\ UserTarget(job'[p])
    BY <1>1 DEF FlushOpenTransaction, Moves, ProtocolInvariant, LockInv, TargetInv, UserTarget
  <2> QED BY <1>1, <2>1, CommitStep DEF FlushOpenTransaction, Safe
<1>2. ASSUME NEW o \in Orders, RequestAccess(p, o) PROVE Safe
  <2>1. PICK r \in {CreateOrder(db, o), db} : Autocommit(p, r)
    BY <1>2 DEF RequestAccess
  <2>2. r = db \/ LedgerStep(db, r)
    BY <1>2, <2>1 DEF RequestAccess, LedgerStep, Request
  <2>3. KeepsAbsent(db, r, External \cup minted)
    BY <2>1, StatementsKeepAbsent DEF KeepsAbsent
  <2>4. UNCHANGED <<readers, minted, pc, job>>
    BY <1>2 DEF RequestAccess
  <2>5. CASE holder' = NoProc /\ readers = {} /\ db' = r /\ image' = r
    BY <2>1, <2>2, <2>3, <2>4, <2>5, AutocommitStep DEF Autocommit, Safe
  <2>6. CASE Write(p, r)
    <3>1. Moves(p) /\ UserTarget(job'[p])
      BY <2>4 DEF Moves, ProtocolInvariant, LockInv, TargetInv, UserTarget
    <3>2. ProtocolInvariant'
      BY <2>1, <2>2, <2>3, <2>4, <2>6, <3>1, WriteStep DEF Autocommit
    <3> QED BY <2>6, <3>2 DEF Safe, Write
  <2> QED BY <2>1, <2>5, <2>6 DEF Autocommit
<1>3. ASSUME NEW o \in Orders, StartApprove(p, o) PROVE Safe
  <2> DEFINE j == [NoJob EXCEPT !.kind = "approve", !.order = o, !.user = Owner[o]]
  <2>1. GrantPermitted(db, j) /\ UserTarget(j) /\ j.left = {}
    BY <1>3 DEF StartApprove, GrantPermitted, UserTarget, NoJob
  <2> QED BY <1>3, <2>1, ReadingSafe DEF StartApprove
<1>4. ASSUME NEW u \in Users, NEW m \in Mode, StartCreate(p, u, m) PROVE Safe
  <2> DEFINE j == [NoJob EXCEPT !.kind = "create", !.user = u, !.mode = m]
  <2>1. GrantPermitted(db, j) /\ UserTarget(j) /\ j.left = {}
    BY <1>4 DEF StartCreate, GrantPermitted, UserTarget, NoJob
  <2> QED BY <1>4, <2>1, ReadingSafe DEF StartCreate
<1>5. ASSUME NEW u \in Users, NEW d \in External, ImportExternal(p, d, u) PROVE Safe
  <2> DEFINE r == CreateExternalDevice(db, d, u)
  <2>1. Autocommit(p, r) /\ p \notin Resident /\ UNCHANGED <<readers, minted, pc, job>>
    BY <1>5 DEF ImportExternal
  <2>2. LedgerStep(db, r)
    BY <1>5 DEF ImportExternal, LedgerStep, Import
  <2>3. KeepsAbsent(db, r, External \cup minted)
    BY StatementsKeepAbsent, RegistryAssumption DEF KeepsAbsent
  <2> QED BY <2>1, <2>2, <2>3, AutocommitStep DEF Autocommit, Safe
<1>6. ASSUME NEW u \in Users, StartReset(p, u) PROVE Safe
  <2> DEFINE live == ActiveDevices(View(p), u)
             j == [NoJob EXCEPT !.kind = "reset", !.user = u, !.todo = live, !.left = live]
  <2>1. Begin(p, "remote", j) /\ UNCHANGED <<store, readers, minted>>
    BY <1>6 DEF StartReset
  <2>2. UserTarget(j) /\ j.left = live
    BY DEF UserTarget, NoJob
  <2>3. holder # p => \A d \in live : db.dev[d].status # "absent"
    BY DEF ActiveDevices, View
  <2> QED BY <2>1, <2>2, <2>3, BeginSafe
<1>7. ASSUME NEW u \in Users, StartDisableVpn(p, u) PROVE Safe
  <2> DEFINE live == ActiveDevices(db, u)
             j == [NoJob EXCEPT !.kind = "disable_vpn", !.user = u, !.todo = live]
  <2>1. Begin(p, IF live = {} THEN "local" ELSE "remote", j) /\ UNCHANGED <<store, readers, minted>>
    BY <1>7 DEF StartDisableVpn
  <2>2. UserTarget(j) /\ j.left = {}
    BY DEF UserTarget, NoJob
  <2> QED BY <2>1, <2>2, BeginSafe
<1>8. ASSUME NEW u \in Users, StartEnableVpn(p, u) PROVE Safe
  <2> DEFINE off == DevicesToEnable(db, u)
             j == [NoJob EXCEPT !.kind = "enable_vpn", !.user = u, !.todo = off]
  <2>1. Begin(p, IF off = {} THEN "local" ELSE "remote", j) /\ UNCHANGED <<store, readers, minted>>
    BY <1>8 DEF StartEnableVpn
  <2>2. UserTarget(j) /\ j.left = {}
    BY DEF UserTarget, NoJob
  <2> QED BY <2>1, <2>2, BeginSafe
<1>9. ASSUME NEW u \in Users, StartBlock(p, u) PROVE Safe
  <2> DEFINE j == [NoJob EXCEPT !.kind = "block", !.user = u]
  <2>1. UserTarget(j) /\ j.left = {}
    BY DEF UserTarget, NoJob
  <2> QED BY <1>9, <2>1, BeginSafe DEF StartBlock
<1>10. ASSUME NEW d \in Devices, StartRevoke(p, d) PROVE Safe
  <2> DEFINE live == {d} \cap {e \in Devices : View(p).dev[e].status = "active"}
             j == [NoJob EXCEPT !.kind = "revoke", !.todo = live, !.left = {d}]
  <2>1. /\ Begin(p, IF live = {} THEN "local" ELSE "remote", j)
        /\ UNCHANGED <<store, readers, minted>> /\ View(p).dev[d].status # "absent"
    BY <1>10 DEF StartRevoke
  <2>2. UserTarget(j) /\ j.left = {d}
    BY DEF UserTarget, NoJob
  <2>3. holder # p => db.dev[d].status # "absent"
    BY <2>1 DEF View
  <2> QED BY <2>1, <2>2, <2>3, BeginSafe
<1>11. ASSUME NEW d \in Devices, StartDisableSlot(p, d) PROVE Safe
  <2> DEFINE j == [NoJob EXCEPT !.kind = "disable_slot", !.todo = {d}, !.left = {d}]
  <2>1. UserTarget(j) /\ j.left = {d}
    BY DEF UserTarget, NoJob
  <2> QED BY <1>11, <2>1, BeginSafe DEF StartDisableSlot
<1> QED
  BY <1>1, <1>2, <1>3, <1>4, <1>5, <1>6, <1>7, <1>8, <1>9, <1>10, <1>11 DEF Start

-----------------------------------------------------------------------------
(* The actions that go on with a request.                                  *)

\* The row of a grant: the key pair is fresh, and the checks are untouched.
LEMMA InsertRowSafe ==
  ASSUME TypeOK, ProtocolInvariant, NEW p \in Procs, InsertRow(p)
  PROVE  Safe
<1> USE DEF ProtocolInvariant
<1>1. PICK d \in Devices \ (External \cup minted) :
           /\ Write(p, CreateDevice(db, d, job[p].user, job[p].mode))
           /\ minted' = minted \cup {d}
           /\ job' = [job EXCEPT ![p].dev = d]
  BY DEF InsertRow
<1> DEFINE j == [job[p] EXCEPT !.dev = d]
<1>2. /\ pc[p] = "reading" /\ holder = NoProc /\ readers' = readers \ {p}
      /\ pc' = [pc EXCEPT ![p] = "inserted"]
  BY DEF InsertRow, Goto
<1>3. job' = [job EXCEPT ![p] = j] /\ job[p] \in Job /\ db \in Registry
  BY <1>1 DEF TypeOK
<1>4. db.dev[d].status = "absent" /\ image = db
  BY <1>1, <1>2 DEF FreshInv, LockInv
<1>5. LockInv'
  BY <1>1, <1>2, ProcAssumption DEF LockInv, Write, TypeOK
<1>6. CheckedInv'
  <2>1. GrantPermitted(db, job[p])
    BY <1>2 DEF CheckedInv
  <2>2. GrantPermitted(db, j)
    BY <2>1, <1>3 DEF GrantPermitted, Job
  <2>3. \A q \in Procs \ {p} : pc'[q] = pc[q] /\ job'[q] = job[q]
    BY <1>2, <1>3 DEF TypeOK
  <2>4. job'[p] = j /\ db' = db
    BY <1>1, <1>3 DEF TypeOK, Write
  <2> QED BY <2>2, <2>3, <2>4 DEF CheckedInv
<1>7. FreshInv'
  <2>1. KeepsAbsent(db, image', {d}) /\ db' = db
    BY <1>1, <1>3, StatementsKeepAbsent DEF Write
  <2> QED BY <1>1, <2>1 DEF FreshInv, KeepsAbsent
<1>8. ImageInv'
  <2>1. /\ job'[p].dev = d /\ job'[p].user = job[p].user /\ job'[p].mode = job[p].mode
    BY <1>3 DEF TypeOK, Job
  <2>2. /\ holder' = p /\ db' = db /\ pc'[p] = "inserted"
        /\ image' = CreateDevice(db', job'[p].dev, job'[p].user, job'[p].mode)
    BY <1>1, <1>2, <2>1 DEF Write, TypeOK
  <2> QED BY <1>1, <1>4, <2>1, <2>2 DEF ImageInv
<1>9. TargetInv'
  <2>1. job[p].kind \in GrantKind
    BY <1>2 DEF CheckedInv, GrantPermitted, GrantKind
  <2>2. j.kind = job[p].kind
    BY <1>3 DEF Job
  <2> QED BY <1>1, <1>2, <1>3, <2>1, <2>2, ProcAssumption DEF TargetInv, Write, TypeOK, GrantKind
<1> QED BY <1>1, <1>5, <1>6, <1>7, <1>8, <1>9 DEF Safe, Write

LEMMA ApplyGrantedPeerSafe ==
  ASSUME TypeOK, ProtocolInvariant, NEW p \in Procs, ApplyGrantedPeer(p)
  PROVE  Safe
<1> USE DEF ProtocolInvariant, ApplyGrantedPeer, Goto, store
<1> DEFINE j == [job[p] EXCEPT !.touched = {job[p].dev}]
<1>1. job' = [job EXCEPT ![p] = j] /\ job[p] \in Job
  BY DEF TypeOK
<1>2. /\ \A q \in Procs \ {p} : job'[q] = job[q] /\ pc'[q] = pc[q]
      /\ pc[p] = "inserted" /\ pc'[p] = "applied"
      /\ job'[p].kind = job[p].kind /\ job'[p].order = job[p].order
      /\ job'[p].user = job[p].user /\ job'[p].mode = job[p].mode
      /\ job'[p].dev = job[p].dev /\ job'[p].left = job[p].left
  BY <1>1 DEF TypeOK, Job
<1>3. LockInv'
  BY <1>2 DEF LockInv
<1>4. CheckedInv'
  <2>1. GrantPermitted(db, job'[p])
    BY <1>2 DEF CheckedInv, GrantPermitted
  <2> QED BY <1>2, <2>1 DEF CheckedInv
<1>5. FreshInv'
  BY DEF FreshInv
<1>6. ImageInv'
  BY <1>2 DEF ImageInv
<1>7. TargetInv'
  BY <1>2 DEF TargetInv, LockInv
<1> QED BY <1>3, <1>4, <1>5, <1>6, <1>7 DEF Safe

\* What a grant is about to commit is one step of the ledger.
LEMMA FinishGrantSafe ==
  ASSUME TypeOK, ProtocolInvariant, NEW p \in Procs, FinishGrant(p)
  PROVE  Safe
<1> USE DEF ProtocolInvariant
<1>1. /\ pc[p] = "applied" /\ holder = p /\ holder' = p /\ db' = db
      /\ pc' = [pc EXCEPT ![p] = "commit"] /\ job' = job /\ readers' = readers
      /\ minted' = minted
  BY DEF FinishGrant, Write, Goto, LockInv
<1>2. /\ GrantPermitted(db, job[p])
      /\ job[p].dev \in Devices \ External /\ db.dev[job[p].dev].status = "absent"
      /\ image = CreateDevice(db, job[p].dev, job[p].user, job[p].mode)
  BY <1>1 DEF CheckedInv, ImageInv
<1>3. LedgerStep(db, image')
  <2>1. CASE job[p].kind = "approve"
    <3>1. image' = MarkOrderFulfilled(image, job[p].order, job[p].dev)
      BY <2>1 DEF FinishGrant, Write
    <3>2. /\ job[p].mode = "dedicated" /\ job[p].order \in Orders
          /\ job[p].user = Owner[job[p].order] /\ Approvable(db, job[p].order)
      BY <1>2, <2>1 DEF GrantPermitted
    <3>3. GrantOrder(db, image')
      BY <1>2, <3>1, <3>2 DEF GrantOrder
    <3> QED BY <3>3 DEF LedgerStep
  <2>2. CASE job[p].kind # "approve"
    <3>1. image' = image
      BY <2>2 DEF FinishGrant, Write
    <3>2. job[p].user \in Users /\ SlotCreatable(db, job[p].user, job[p].mode)
      BY <1>2, <2>2 DEF GrantPermitted
    <3>3. job[p].mode \in Mode
      BY DEF TypeOK, Job
    <3>4. GrantSlot(db, image')
      BY <1>2, <3>1, <3>2, <3>3 DEF GrantSlot
    <3> QED BY <3>4 DEF LedgerStep
  <2> QED BY <2>1, <2>2
<1>4. LockInv'
  BY <1>1, ProcAssumption DEF LockInv, TypeOK
<1>5. CheckedInv'
  BY <1>1 DEF CheckedInv, TypeOK
<1>6. FreshInv'
  <2>1. \A d \in Devices : image'.dev[d] = image.dev[d]
    BY DEF FinishGrant, Write, MarkOrderFulfilled, TypeOK, Registry
  <2> QED BY <1>1, <2>1 DEF FreshInv
<1>7. ImageInv'
  BY <1>1, <1>3 DEF ImageInv, TypeOK
<1>8. TargetInv'
  BY <1>1 DEF TargetInv, TypeOK
<1> QED BY <1>1, <1>4, <1>5, <1>6, <1>7, <1>8 DEF Safe

\* COMMIT fails, or the record of the failure ends the job.
LEMMA RecordPartialFailureSafe ==
  ASSUME TypeOK, ProtocolInvariant, NEW p \in Procs, RecordPartialFailure(p)
  PROVE  Safe
<1>1. pc[p] = "audit" /\ holder = p /\ Stop(p) /\ readers' = readers /\ minted' = minted
  BY DEF RecordPartialFailure, ProtocolInvariant, LockInv
<1>2. CASE CommitImage
  <2>1. Moves(p) /\ pc'[p] = "idle" /\ job'[p] = NoJob
    BY <1>1, StopMoves DEF ProtocolInvariant
  <2>2. UserTarget(NoJob) /\ NoJob.left = {}
    BY DEF UserTarget, NoJob
  <2> QED BY <1>1, <1>2, <2>1, <2>2, CommitStep DEF Safe
<1>3. CASE UNCHANGED store
  BY <1>1, <1>3, StopSafe
<1>4. CASE Rollback(p)
  BY <1>1, <1>4, RollbackSafe
<1> QED BY <1>2, <1>3, <1>4 DEF RecordPartialFailure

LEMMA CommitBusySafe ==
  ASSUME TypeOK, ProtocolInvariant, NEW p \in Procs, CommitBusy(p)
  PROVE  Safe
<1>1. pc[p] = "commit" /\ readers' = readers /\ minted' = minted
  BY DEF CommitBusy
<1>2. CASE job[p].kind = "create"
  <2>1. UNCHANGED <<store, job>> /\ pc' = [pc EXCEPT ![p] = "audit"]
    BY <1>2 DEF CommitBusy, Goto
  <2> USE <1>1, <2>1 DEF ProtocolInvariant, store, TypeOK
  <2>2. LockInv'
    BY DEF LockInv
  <2>3. CheckedInv'
    BY DEF CheckedInv
  <2>4. FreshInv'
    BY DEF FreshInv
  <2>5. ImageInv'
    BY DEF ImageInv
  <2>6. TargetInv'
    BY DEF TargetInv
  <2> QED BY <2>2, <2>3, <2>4, <2>5, <2>6 DEF Safe
<1>3. CASE job[p].kind # "create"
  <2>1. Stop(p) /\ (UNCHANGED store \/ Rollback(p))
    BY <1>3 DEF CommitBusy
  <2> QED BY <1>1, <2>1, StopSafe, RollbackSafe
<1> QED BY <1>2, <1>3

LEMMA ChangeNextPeerSafe ==
  ASSUME TypeOK, ProtocolInvariant, NEW p \in Procs, ChangeNextPeer(p)
  PROVE  Safe
<1>1. PICK d \in job[p].todo :
           /\ job' = [job EXCEPT ![p].todo = @ \ {d}, ![p].touched = @ \cup {d}]
           /\ Goto(p, IF job[p].todo = {d} THEN "local" ELSE "remote")
  BY DEF ChangeNextPeer
<1> DEFINE j == [job[p] EXCEPT !.todo = @ \ {d}, !.touched = @ \cup {d}]
<1>2. UNCHANGED <<store, readers, minted>> /\ pc[p] = "remote"
  BY DEF ChangeNextPeer
<1>3. job' = [job EXCEPT ![p] = j]
  BY <1>1
<1>4. /\ job'[p].left = job[p].left /\ job'[p].kind = job[p].kind
      /\ job'[p].user = job[p].user
  BY <1>3 DEF TypeOK, Job
<1>5. Moves(p) /\ pc'[p] \in {"remote", "local"}
  BY <1>1, <1>2, <1>3 DEF Moves, Goto, TypeOK, ProtocolInvariant, LockInv
<1>6. UserTarget(job'[p])
  BY <1>4 DEF UserTarget, ProtocolInvariant, TargetInv
<1>7. holder # p => \A e \in job'[p].left : db.dev[e].status # "absent"
  BY <1>4 DEF ProtocolInvariant, TargetInv
<1>8. ProtocolInvariant'
  BY <1>2, <1>5, <1>6, <1>7, QuietStep
<1> QED BY <1>2, <1>8 DEF Safe, store

\* Taking the write lock for the local half of a remote-first job.
LEMMA LocalSafe ==
  ASSUME TypeOK, ProtocolInvariant, NEW p \in Procs, WriteLocal(p),
         UNCHANGED <<readers, minted>>, NEW r, Write(p, r),
         LedgerStep(db, r), KeepsAbsent(db, r, External \cup minted),
         NEW d, job' = [job EXCEPT ![p].dev = d] \/ job' = job
  PROVE  Safe
<1>1. pc[p] = "local" /\ holder = NoProc /\ pc' = [pc EXCEPT ![p] = "commit"]
  BY DEF WriteLocal, Goto
<1>2. /\ job'[p].left = job[p].left /\ job'[p].kind = job[p].kind
      /\ job'[p].user = job[p].user /\ \A q \in Procs \ {p} : job'[q] = job[q]
  <2>1. CASE job' = job
    BY <2>1
  <2>2. CASE job' = [job EXCEPT ![p].dev = d]
    BY <2>2 DEF TypeOK, Job
  <2> QED BY <2>1, <2>2
<1>3. Moves(p) /\ pc'[p] = "commit"
  BY <1>1, <1>2 DEF Moves, TypeOK, ProtocolInvariant, LockInv
<1>4. UserTarget(job'[p])
  BY <1>2 DEF UserTarget, ProtocolInvariant, TargetInv
<1>5. ProtocolInvariant'
  BY <1>1, <1>2, <1>3, <1>4, WriteStep
<1> QED BY <1>5 DEF Safe, Write

\* A device that is present is not a key pair that was never generated.
LEMMA PresentKnown ==
  ASSUME TypeOK, ProtocolInvariant, NEW d \in Devices, db.dev[d].status # "absent"
  PROVE  d \in External \cup minted
  BY DEF ProtocolInvariant, FreshInv

LEMMA WriteRevokeSafe ==
  ASSUME TypeOK, ProtocolInvariant, NEW p \in Procs, WriteRevoke(p)
  PROVE  Safe
<1>1. PICK d \in job[p].left :
           Write(p, CascadeRevoke(db, d)) /\ job' = [job EXCEPT ![p].dev = d]
  BY DEF WriteRevoke
<1>2. WriteLocal(p) /\ UNCHANGED <<readers, minted>>
  BY DEF WriteRevoke
<1>3. d \in Devices /\ db \in Registry
  BY DEF TypeOK, Job
<1>4. db.dev[d].status # "absent"
  BY <1>2, ProcAssumption DEF WriteLocal, ProtocolInvariant, TargetInv
<1>5. LedgerStep(db, CascadeRevoke(db, d))
  BY <1>3, <1>4 DEF LedgerStep, Revoke
<1>6. KeepsAbsent(db, CascadeRevoke(db, d), External \cup minted)
  BY <1>3, <1>4, StatementsKeepAbsent, PresentKnown DEF KeepsAbsent
<1> QED BY <1>1, <1>2, <1>5, <1>6, LocalSafe

LEMMA WriteDisableSlotSafe ==
  ASSUME TypeOK, ProtocolInvariant, NEW p \in Procs, WriteDisableSlot(p)
  PROVE  Safe
<1>1. PICK d \in job[p].left :
           /\ db.dev[d].status = "active"
           /\ Write(p, DisableDevice(db, d)) /\ job' = [job EXCEPT ![p].dev = d]
  BY DEF WriteDisableSlot
<1>2. WriteLocal(p) /\ UNCHANGED <<readers, minted>>
  BY DEF WriteDisableSlot
<1>3. d \in Devices /\ db \in Registry
  BY DEF TypeOK, Job
<1>4. LedgerStep(db, DisableDevice(db, d))
  BY <1>1, <1>3 DEF LedgerStep, SuspendDevice
<1>5. KeepsAbsent(db, DisableDevice(db, d), External \cup minted)
  BY <1>1, <1>3, StatementsKeepAbsent, PresentKnown DEF KeepsAbsent
<1> QED BY <1>1, <1>2, <1>4, <1>5, LocalSafe

LEMMA WriteUserSafe ==
  ASSUME TypeOK, ProtocolInvariant, NEW p \in Procs, WriteUser(p)
  PROVE  Safe
<1> DEFINE u == job[p].user
<1>1. WriteLocal(p) /\ UNCHANGED <<readers, minted, job>>
  BY DEF WriteUser
<1>2. job[p].kind \in {"disable_vpn", "enable_vpn", "block"} => u \in Users
  BY DEF ProtocolInvariant, TargetInv
<1>3. db \in Registry
  BY DEF TypeOK
<1>4. PICK r : Write(p, r) /\ LedgerStep(db, r) /\ KeepsAbsent(db, r, {})
  <2>1. CASE job[p].kind = "disable_vpn" /\ Write(p, DisableVpn(db, u))
    BY <1>2, <1>3, <2>1, StatementsKeepAbsent DEF LedgerStep, SuspendUser
  <2>2. CASE job[p].kind = "enable_vpn" /\ Write(p, EnableVpn(db, u))
    BY <1>2, <1>3, <2>2, StatementsKeepAbsent DEF LedgerStep, ResumeUser
  <2>3. CASE job[p].kind = "block" /\ Write(p, SetUserStatus(db, u, "blocked"))
    BY <1>2, <1>3, <2>3, StatementsKeepAbsent DEF LedgerStep, Block
  <2> QED BY <2>1, <2>2, <2>3 DEF WriteUser
<1>5. KeepsAbsent(db, r, External \cup minted)
  BY <1>4 DEF KeepsAbsent
<1> QED BY <1>1, <1>4, <1>5, LocalSafe

LEMMA CommitSafe ==
  ASSUME TypeOK, ProtocolInvariant, NEW p \in Procs, Commit(p)
  PROVE  Safe
<1> DEFINE rest == job[p].left \ {job[p].dev}
           done == IF job[p].kind = "reset" THEN {job[p].dev} ELSE job[p].touched
           j == [job[p] EXCEPT !.left = rest, !.dev = NoDevice, !.touched = @ \ done]
<1>1. pc[p] = "commit" /\ holder = p /\ CommitImage /\ UNCHANGED <<readers, minted>>
  BY DEF Commit, ProtocolInvariant, LockInv
<1>2. CASE rest = {}
  <2>1. Moves(p) /\ pc'[p] = "idle" /\ job'[p] = NoJob
    BY <1>1, <1>2, StopMoves DEF Commit, ProtocolInvariant
  <2>2. UserTarget(NoJob) /\ NoJob.left = {}
    BY DEF UserTarget, NoJob
  <2> QED BY <1>1, <2>1, <2>2, CommitStep DEF Safe
<1>3. CASE rest # {}
  <2>1. job' = [job EXCEPT ![p] = j] /\ pc' = [pc EXCEPT ![p] = "local"]
    BY <1>3 DEF Commit, Goto
  <2>2. /\ job'[p].left = rest /\ job'[p].kind = job[p].kind
        /\ job'[p].user = job[p].user
    BY <2>1 DEF TypeOK, Job
  <2>3. Moves(p) /\ pc'[p] = "local"
    BY <1>1, <2>1 DEF Moves, TypeOK, ProtocolInvariant, LockInv
  <2>4. UserTarget(job'[p])
    BY <2>2 DEF UserTarget, ProtocolInvariant, TargetInv
  <2> QED BY <1>1, <2>2, <2>3, <2>4, CommitStep DEF Safe
<1> QED BY <1>2, <1>3

LEMMA ContinueSafe ==
  ASSUME TypeOK, ProtocolInvariant, NEW p \in Procs, Continue(p)
  PROVE  Safe
<1>1. CASE AbortGrant(p)
  BY <1>1, StopSafe DEF AbortGrant
<1>2. CASE FailGrantedPeer(p)
  BY <1>2, RollbackSafe DEF FailGrantedPeer, ProtocolInvariant, LockInv
<1>3. CASE FailAfterApply(p)
  BY <1>3, RollbackSafe DEF FailAfterApply
<1>4. CASE FailNextPeer(p)
  BY <1>4, StopSafe DEF FailNextPeer
<1>5. CASE FailLocal(p)
  BY <1>5, StopSafe DEF FailLocal
<1> QED
  BY <1>1, <1>2, <1>3, <1>4, <1>5, InsertRowSafe, ApplyGrantedPeerSafe, FinishGrantSafe,
     RecordPartialFailureSafe, ChangeNextPeerSafe, WriteRevokeSafe, WriteDisableSlotSafe,
     WriteUserSafe, CommitSafe, CommitBusySafe DEF Continue

LEMMA CrashSafe == ASSUME TypeOK, ProtocolInvariant, NEW p \in Procs, Crash(p) PROVE Safe
  BY RollbackSafe DEF Crash

LEMMA NextSafe ==
  ASSUME TypeOK, ProtocolInvariant, [Next]_vars
  PROVE  Safe
<1>1. CASE Next
  BY <1>1, StartSafe, ContinueSafe, CrashSafe DEF Next
<1>2. CASE UNCHANGED vars
  BY <1>2 DEF Safe, vars, store, ProtocolInvariant, LockInv, CheckedInv, FreshInv,
              ImageInv, TargetInv
<1> QED BY <1>1, <1>2

-----------------------------------------------------------------------------
(* The theorems.                                                           *)

\* The registry, the locks and the jobs are always well formed, and they fit
\* together as ProtocolInvariant says, for any number of processes and devices.
THEOREM Invariance == Spec => [](TypeOK /\ ProtocolInvariant)
<1>1. Init => TypeOK /\ ProtocolInvariant
  BY TypeInit, InvInit
<1>2. TypeOK /\ ProtocolInvariant /\ [Next]_vars => (TypeOK /\ ProtocolInvariant)'
  BY TypeNext, NextSafe DEF Safe, ProtocolInvariant
<1> QED BY <1>1, <1>2, PTL DEF Spec

\* Every value of every variable is well formed.
THEOREM TypeCorrect == Spec => []TypeOK
  BY Invariance, PTL

\* No grant commits on checks that were overtaken, and nobody else writes while
\* one does: ProtocolInvariant holds in every state.
THEOREM Protocol == Spec => []ProtocolInvariant
  BY Invariance, PTL

\* What the other processes see of the registry changes in steps of the ledger
\* only, although a grant is several statements with an SSH call among them.
LEMMA RegistryStep ==
  ASSUME TypeOK, ProtocolInvariant, [Next]_vars
  PROVE  db' = db \/ LedgerStep(db, db')
  BY NextSafe DEF Safe

\* The ledger's steps are those of the registry module it extends.
LEMMA SameLedger == LedgerStep(db, db') => Ledger!LedgerStep(db, db')
<1>1. Request(db, db') => Ledger!Request(db, db')
  BY DEF Request, Ledger!Request, CreateOrder, Ledger!CreateOrder
<1>0. ASSUME NEW u PROVE QuotaFree(db, u) <=> Ledger!QuotaFree(db, u)
  <2>1. ActiveDevices(db, u) = Ledger!ActiveDevices(db, u)
    BY DEF ActiveDevices, Ledger!ActiveDevices
  <2>2. Cardinality(ActiveDevices(db, u)) = Ledger!Cardinality(Ledger!ActiveDevices(db, u))
    BY <2>1 DEF Cardinality, Ledger!Cardinality
  <2> QED BY <2>2 DEF QuotaFree, Ledger!QuotaFree
<1>2. GrantOrder(db, db') => Ledger!GrantOrder(db, db')
  <2>1. \A o : Approvable(db, o) => Ledger!Approvable(db, o)
    BY <1>0 DEF Approvable, Ledger!Approvable
  <2> QED BY <2>1 DEF GrantOrder, Ledger!GrantOrder, CreateDevice, Ledger!CreateDevice,
                      MarkOrderFulfilled, Ledger!MarkOrderFulfilled
<1>3. GrantSlot(db, db') => Ledger!GrantSlot(db, db')
  <2>1. \A u, m : SlotCreatable(db, u, m) => Ledger!SlotCreatable(db, u, m)
    BY <1>0 DEF SlotCreatable, Ledger!SlotCreatable
  <2> QED BY <2>1 DEF GrantSlot, Ledger!GrantSlot, CreateDevice, Ledger!CreateDevice,
                      Mode, Ledger!Mode
<1>4. Import(db, db') => Ledger!Import(db, db')
  BY DEF Import, Ledger!Import, CreateExternalDevice, Ledger!CreateExternalDevice,
         CreateDevice, Ledger!CreateDevice
<1>5. SuspendDevice(db, db') => Ledger!SuspendDevice(db, db')
  BY DEF SuspendDevice, Ledger!SuspendDevice, DisableDevice, Ledger!DisableDevice
<1>6. SuspendUser(db, db') => Ledger!SuspendUser(db, db')
  BY DEF SuspendUser, Ledger!SuspendUser, DisableVpn, Ledger!DisableVpn,
         DisableUserDevices, Ledger!DisableUserDevices, ActiveDevices,
         Ledger!ActiveDevices, SetUserStatus, Ledger!SetUserStatus
<1>7. ResumeUser(db, db') => Ledger!ResumeUser(db, db')
  BY DEF ResumeUser, Ledger!ResumeUser, EnableVpn, Ledger!EnableVpn,
         EnableUserDevices, Ledger!EnableUserDevices, SetUserStatus,
         Ledger!SetUserStatus
<1>8. Block(db, db') => Ledger!Block(db, db')
  BY DEF Block, Ledger!Block, SetUserStatus, Ledger!SetUserStatus
<1>9. Revoke(db, db') => Ledger!Revoke(db, db')
  BY DEF Revoke, Ledger!Revoke, CascadeRevoke, Ledger!CascadeRevoke
<1> QED BY <1>1, <1>2, <1>3, <1>4, <1>5, <1>6, <1>7, <1>8, <1>9 DEF LedgerStep, Ledger!LedgerStep

\* AccessProvisioning implements DeviceLedger.
THEOREM Refinement == Spec => ImplementsLedger
<1>1. Init => Ledger!Init
  BY DEF Init, Ledger!Init, EmptyRegistry, Ledger!EmptyRegistry, AbsentRow, Ledger!AbsentRow
<1>2. TypeOK /\ ProtocolInvariant /\ [Next]_vars => [Ledger!Next]_db
  BY RegistryStep, SameLedger DEF Ledger!Next
<1> QED BY <1>1, <1>2, Invariance, PTL DEF Spec, ImplementsLedger, Ledger!Spec

\* A revoked device stays revoked whatever the processes do.
THEOREM RevokedFinal == Spec => RevokedIsFinal
<1>1. TypeOK /\ ProtocolInvariant /\ [Next]_vars => StaysRevoked(db, db')
  BY RegistryStep, LedgerStaysRevoked DEF TypeOK, StaysRevoked
<1> QED BY <1>1, Invariance, PTL DEF Spec, RevokedIsFinal

\* An order is granted at most once, also after its device was revoked.
THEOREM GrantedOnce == Spec => OrderGrantedOnce
<1>1. TypeOK /\ ProtocolInvariant /\ [Next]_vars => NeverRegranted(db, db')
  BY RegistryStep, LedgerNeverRegranted DEF TypeOK, NeverRegranted
<1> QED BY <1>1, Invariance, PTL DEF Spec, OrderGrantedOnce

\* Grants that run at the same time do not exceed the quota.
THEOREM QuotaAtGrant == Spec => GrantWithinQuota
<1>1. TypeOK /\ ProtocolInvariant /\ [Next]_vars => GrantsWithinQuota(db, db')
  <2>1. ASSUME db' = db PROVE GrantsWithinQuota(db, db')
    BY <2>1 DEF GrantsWithinQuota
  <2> QED BY <2>1, RegistryStep, LedgerGrantsWithinQuota DEF TypeOK
<1> QED BY <1>1, Invariance, PTL DEF Spec, GrantWithinQuota

\* The link of an order is only ever to a device of its owner that was not revoked.
THEOREM LinkSoundness == Spec => []OrderLinkSound
<1>1. Init => OrderLinkSound
  BY EmptyRegistryType DEF Init, OrderLinkSound
<1>2. TypeOK /\ ProtocolInvariant /\ OrderLinkSound /\ [Next]_vars => OrderLinkSound'
  BY RegistryStep, LedgerLinkSound DEF TypeOK, OrderLinkSound
<1> QED BY <1>1, <1>2, Invariance, PTL DEF Spec

-----------------------------------------------------------------------------
(* A grant becomes visible only while its peer is on the server.           *)

\* What p has written and will commit is served, if it is a device that the
\* others cannot see yet; what p is about to change on the server, they can
\* see; and a transaction that p has left open is a resident's.
ServedAt(p) ==
    /\ holder = p /\ pc[p] \in {"idle", "remote", "local"} => p \in Resident
    /\ holder # p /\ pc[p] = "remote" =>
          \A d \in job[p].todo : db.dev[d].status # "absent"
    /\ holder = p /\ pc[p] \in {"applied", "commit", "audit"} =>
          \A d \in Devices \ External :
              db.dev[d].status = "absent" /\ image.dev[d].status = "active" => d \in remote

ServedInv == \A p \in Procs : ServedAt(p)

\* What an action of p has to be shown to do: it keeps p's part of the
\* invariant, leaves the store to its holder, takes no uncommitted device off
\* the server, and commits none whose peer is missing.
ServedStep(p) ==
    /\ \A q \in Procs \ {p} : pc'[q] = pc[q] /\ job'[q] = job[q]
    /\ \/ UNCHANGED store
       \/ {holder, holder'} \subseteq {p, NoProc}
    /\ \A d \in remote \ remote' : holder # p => db.dev[d].status # "absent"
    /\ ServedAt(p)'

GrantServed ==
    \A d \in Devices \ External :
        db.dev[d].status = "absent" /\ db'.dev[d].status = "active" =>
            d \in remote \/ (holder \in Resident /\ pc[holder] = "idle")

LEMMA ServedInit == Init => ServedInv
  BY ProcAssumption DEF Init, ServedInv, ServedAt

LEMMA ServedByStep ==
  ASSUME TypeOK, ProtocolInvariant, ServedInv, [Next]_vars, NEW p \in Procs, ServedStep(p)
  PROVE  ServedInv'
<1>1. \A d \in Devices : db.dev[d].status # "absent" => db'.dev[d].status # "absent"
  BY NextSafe, LedgerStaysPresent DEF Safe, TypeOK, StaysPresent
<1>2. ASSUME NEW q \in Procs \ {p} PROVE ServedAt(q)'
  <2>1. job[q].todo \subseteq Devices
    BY DEF TypeOK, Job
  <2> QED
    BY <1>1, <1>2, <2>1, ProcAssumption DEF ServedInv, ServedAt, ServedStep, store
<1> QED
  BY <1>2 DEF ServedInv, ServedStep

LEMMA SameRegistryServed == ASSUME db' = db PROVE GrantServed
  BY DEF GrantServed

\* The key pairs that have a row are in the registry everybody sees, or they
\* are the row of the one grant that is being written.
LEMMA StartServed ==
  ASSUME TypeOK, ProtocolInvariant, ServedInv, NEW p \in Procs, Start(p)
  PROVE  ServedStep(p) /\ GrantServed
<1> USE DEF TypeOK, store
<1>0. ServedAt(p) /\ LockInv
  BY DEF ServedInv, ProtocolInvariant
<1>1. CASE FlushOpenTransaction(p)
  <2>1. p \in Resident /\ holder = p /\ pc[p] = "idle" /\ holder' = NoProc
    BY <1>0, <1>1 DEF FlushOpenTransaction, CommitImage, ServedAt
  <2>2. ServedStep(p)
    BY <1>0, <1>1, <2>1, ProcAssumption
    DEF FlushOpenTransaction, ServedStep, ServedAt
  <2> QED BY <2>1, <2>2 DEF GrantServed
<1>2. ASSUME NEW o \in Orders, RequestAccess(p, o) PROVE ServedStep(p) /\ GrantServed
  <2>1. PICK r \in {CreateOrder(db, o), db} : Autocommit(p, r)
    BY <1>2 DEF RequestAccess
  <2>2. r.dev = db.dev
    BY <2>1 DEF CreateOrder, Registry
  <2>3. db'.dev = db.dev
    BY <2>1, <2>2 DEF Autocommit, Write
  <2>4. ServedStep(p)
    BY <1>0, <1>2, <2>1 DEF RequestAccess, Autocommit, Write, ServedStep, ServedAt
  <2> QED BY <2>3, <2>4 DEF GrantServed
<1>3. ASSUME NEW o \in Orders, StartApprove(p, o) PROVE ServedStep(p) /\ GrantServed
  <2>1. db' = db
    BY <1>3 DEF StartApprove
  <2>2. ServedStep(p)
    BY <1>3 DEF StartApprove, Begin, Goto, ServedStep, ServedAt
  <2> QED BY <2>1, <2>2, SameRegistryServed
<1>4. ASSUME NEW u \in Users, NEW m \in Mode, StartCreate(p, u, m)
      PROVE  ServedStep(p) /\ GrantServed
  <2>1. db' = db
    BY <1>4 DEF StartCreate
  <2>2. ServedStep(p)
    BY <1>4 DEF StartCreate, Begin, Goto, ServedStep, ServedAt
  <2> QED BY <2>1, <2>2, SameRegistryServed
<1>5. ASSUME NEW u \in Users, NEW d \in External, ImportExternal(p, d, u)
      PROVE  ServedStep(p) /\ GrantServed
  <2>1. /\ db' = CreateExternalDevice(db, d, u) /\ holder = NoProc /\ holder' = NoProc
        /\ UNCHANGED <<remote, pc, job>>
    BY <1>5 DEF ImportExternal, Autocommit
  <2>2. \A e \in Devices \ External : db'.dev[e] = db.dev[e]
    BY <2>1 DEF CreateExternalDevice, CreateDevice, Registry
  <2>3. ServedStep(p)
    BY <1>5, <2>1, <1>0, ProcAssumption DEF ImportExternal, Autocommit, ServedStep, ServedAt
  <2> QED BY <2>2, <2>3 DEF GrantServed
<1>6. ASSUME NEW l \in {"remote", "local"}, NEW j \in Job, Begin(p, l, j),
             UNCHANGED <<store, readers, remote, minted, outcome>>,
             holder # p => \A d \in j.todo : db.dev[d].status # "absent"
      PROVE  ServedStep(p) /\ GrantServed
  <2>1. ServedStep(p)
    BY <1>0, <1>6 DEF Begin, Goto, ServedStep, ServedAt
  <2> QED BY <1>6, <2>1, SameRegistryServed
<1>7. ASSUME NEW u \in Users, StartReset(p, u) PROVE ServedStep(p) /\ GrantServed
  <2> DEFINE live == ActiveDevices(View(p), u)
             j == [NoJob EXCEPT !.kind = "reset", !.user = u, !.todo = live, !.left = live]
  <2>1. j \in Job /\ j.todo = live
    BY NoJobType DEF Job, JobKind, ActiveDevices, NoJob
  <2>2. holder # p => \A d \in live : db.dev[d].status # "absent"
    BY DEF ActiveDevices, View
  <2> QED BY <1>6, <1>7, <2>1, <2>2 DEF StartReset
<1>8. ASSUME NEW u \in Users, StartDisableVpn(p, u) PROVE ServedStep(p) /\ GrantServed
  <2> DEFINE live == ActiveDevices(db, u)
             j == [NoJob EXCEPT !.kind = "disable_vpn", !.user = u, !.todo = live]
  <2>1. j \in Job /\ j.todo = live
    BY NoJobType DEF Job, JobKind, ActiveDevices, NoJob
  <2>2. \A d \in live : db.dev[d].status # "absent"
    BY DEF ActiveDevices
  <2> QED BY <1>6, <1>8, <2>1, <2>2 DEF StartDisableVpn
<1>9. ASSUME NEW u \in Users, StartEnableVpn(p, u) PROVE ServedStep(p) /\ GrantServed
  <2> DEFINE off == DevicesToEnable(db, u)
             j == [NoJob EXCEPT !.kind = "enable_vpn", !.user = u, !.todo = off]
  <2>1. j \in Job /\ j.todo = off
    BY NoJobType DEF Job, JobKind, DevicesToEnable, NoJob
  <2>2. \A d \in off : db.dev[d].status # "absent"
    BY DEF DevicesToEnable
  <2> QED BY <1>6, <1>9, <2>1, <2>2 DEF StartEnableVpn
<1>10. ASSUME NEW u \in Users, StartBlock(p, u) PROVE ServedStep(p) /\ GrantServed
  <2> DEFINE j == [NoJob EXCEPT !.kind = "block", !.user = u]
  <2>1. j \in Job /\ j.todo = {}
    BY NoJobType DEF Job, JobKind, NoJob
  <2> QED BY <1>6, <1>10, <2>1 DEF StartBlock
<1>11. ASSUME NEW d \in Devices, StartRevoke(p, d) PROVE ServedStep(p) /\ GrantServed
  <2> DEFINE live == {d} \cap {e \in Devices : View(p).dev[e].status = "active"}
             j == [NoJob EXCEPT !.kind = "revoke", !.todo = live, !.left = {d}]
  <2>1. j \in Job /\ j.todo = live
    BY NoJobType DEF Job, JobKind, NoJob
  <2>2. holder # p => \A e \in live : db.dev[e].status # "absent"
    BY DEF View
  <2> QED BY <1>6, <1>11, <2>1, <2>2 DEF StartRevoke
<1>12. ASSUME NEW d \in Devices, StartDisableSlot(p, d) PROVE ServedStep(p) /\ GrantServed
  <2> DEFINE j == [NoJob EXCEPT !.kind = "disable_slot", !.todo = {d}, !.left = {d}]
  <2>1. j \in Job /\ j.todo = {d}
    BY NoJobType DEF Job, JobKind, NoJob
  <2>2. db.dev[d].status # "absent"
    BY <1>12 DEF StartDisableSlot
  <2> QED BY <1>6, <1>12, <2>1, <2>2 DEF StartDisableSlot
<1> QED
  BY <1>1, <1>2, <1>3, <1>4, <1>5, <1>7, <1>8, <1>9, <1>10, <1>11, <1>12 DEF Start

\* A job that ends, whether it rolls back or not: what it leaves open is a
\* resident's.
LEMMA StopServed ==
  ASSUME TypeOK, ProtocolInvariant, ServedInv, NEW p \in Procs, Stop(p),
         \/ Rollback(p)
         \/ UNCHANGED store /\ (holder = p => p \in Resident),
         \A d \in remote \ remote' : holder # p => db.dev[d].status # "absent"
  PROVE  ServedStep(p) /\ GrantServed
<1>1. db' = db /\ (UNCHANGED store \/ {holder, holder'} \subseteq {p, NoProc})
  BY DEF Rollback, store
<1>2. holder' = p => p \in Resident
  BY ProcAssumption DEF Rollback, store
<1>3. ServedStep(p)
  BY <1>1, <1>2 DEF TypeOK, Stop, Goto, ServedStep, ServedAt
<1> QED BY <1>1, <1>3, SameRegistryServed

\* Committing under the lock what is served.
LEMMA CommitServed ==
  ASSUME TypeOK, ProtocolInvariant, ServedInv, NEW p \in Procs, CommitImage,
         pc[p] \in {"commit", "audit"}, remote' = remote,
         \A q \in Procs \ {p} : pc'[q] = pc[q] /\ job'[q] = job[q],
         pc'[p] \in {"idle", "local"}
  PROVE  ServedStep(p) /\ GrantServed
<1>1. holder = p /\ holder' = NoProc /\ db' = image
  BY DEF CommitImage, ProtocolInvariant, LockInv
<1>2. GrantServed
  BY <1>1 DEF ServedInv, ServedAt, GrantServed
<1>3. ServedStep(p)
  BY <1>1, ProcAssumption DEF ServedStep, ServedAt
<1> QED BY <1>2, <1>3

\* Writing, under the lock, a registry that has no new device.
LEMMA LocalServed ==
  ASSUME TypeOK, ProtocolInvariant, ServedInv, NEW p \in Procs, WriteLocal(p),
         NEW r, Write(p, r), remote' = remote,
         \A q \in Procs \ {p} : job'[q] = job[q],
         \A d \in Devices : db.dev[d].status = "absent" => r.dev[d].status # "active"
  PROVE  ServedStep(p) /\ GrantServed
<1>1. holder = NoProc /\ holder' = p /\ db' = db /\ image' = r /\ pc' = [pc EXCEPT ![p] = "commit"]
  BY DEF WriteLocal, Write, Goto
<1>2. ServedStep(p)
  BY <1>1 DEF TypeOK, ServedStep, ServedAt
<1> QED BY <1>1, <1>2, SameRegistryServed

LEMMA ContinueServed ==
  ASSUME TypeOK, ProtocolInvariant, ServedInv, NEW p \in Procs, Continue(p)
  PROVE  ServedStep(p) /\ GrantServed
<1> USE DEF TypeOK, store
<1>0. ServedAt(p) /\ LockInv /\ ImageInv /\ job[p] \in Job
  BY DEF ServedInv, ProtocolInvariant
<1>1. CASE InsertRow(p)
  <2>1. db' = db /\ holder = NoProc /\ holder' = p /\ pc' = [pc EXCEPT ![p] = "inserted"]
    BY <1>1 DEF InsertRow, Write, Goto
  <2>2. ServedStep(p)
    BY <1>1, <2>1 DEF InsertRow, ServedStep, ServedAt
  <2> QED BY <2>1, <2>2, SameRegistryServed
<1>2. CASE AbortGrant(p)
  BY <1>0, <1>2, StopServed DEF AbortGrant, LockInv
<1>3. CASE ApplyGrantedPeer(p)
  <2>1. /\ pc[p] = "inserted" /\ UNCHANGED store /\ pc' = [pc EXCEPT ![p] = "applied"]
        /\ remote' = remote \cup {job[p].dev} /\ holder = p
    BY <1>0, <1>3 DEF ApplyGrantedPeer, Goto, LockInv
  <2>2. image = CreateDevice(db, job[p].dev, job[p].user, job[p].mode)
    BY <1>0, <2>1 DEF ImageInv
  <2>3. \A d \in Devices : d # job[p].dev => image.dev[d] = db.dev[d]
    BY <2>2 DEF CreateDevice, Registry
  <2>4. ServedStep(p)
    BY <1>3, <2>1, <2>3 DEF ApplyGrantedPeer, ServedStep, ServedAt
  <2> QED BY <2>1, <2>4, SameRegistryServed
<1>4. CASE FailGrantedPeer(p)
  <2>1. remote \subseteq remote'
    BY <1>4 DEF FailGrantedPeer
  <2> QED BY <1>4, <2>1, StopServed DEF FailGrantedPeer
<1>5. CASE FinishGrant(p)
  <2>1. /\ pc[p] = "applied" /\ holder = p /\ holder' = p /\ db' = db /\ remote' = remote
        /\ job' = job /\ pc' = [pc EXCEPT ![p] = "commit"]
    BY <1>0, <1>5 DEF FinishGrant, Write, Goto, LockInv
  <2>2. image'.dev = image.dev
    BY <1>5 DEF FinishGrant, Write, MarkOrderFulfilled, Registry
  <2>3. ServedStep(p)
    BY <1>0, <2>1, <2>2 DEF ServedStep, ServedAt
  <2> QED BY <2>1, <2>3, SameRegistryServed
<1>6. CASE FailAfterApply(p)
  BY <1>6, StopServed DEF FailAfterApply
<1>7. CASE RecordPartialFailure(p)
  <2>1. CASE CommitImage
    BY <1>7, <2>1, CommitServed DEF RecordPartialFailure, Stop, Goto
  <2>2. CASE ~CommitImage
    BY <1>7, <2>2, StopServed DEF RecordPartialFailure
  <2> QED BY <2>1, <2>2
<1>8. CASE ChangeNextPeer(p)
  <2>1. PICK d \in job[p].todo :
             /\ ChangePeer(p, d)
             /\ job' = [job EXCEPT ![p].todo = @ \ {d}, ![p].touched = @ \cup {d}]
             /\ Goto(p, IF job[p].todo = {d} THEN "local" ELSE "remote")
    BY <1>8 DEF ChangeNextPeer
  <2>2. UNCHANGED store /\ pc[p] = "remote"
    BY <1>8 DEF ChangeNextPeer
  <2>3. remote \ remote' \subseteq {d} /\ (holder # p => db.dev[d].status # "absent")
    BY <1>0, <2>1, <2>2 DEF ChangePeer, ServedAt
  <2>4. job'[p].todo \subseteq job[p].todo /\ \A q \in Procs \ {p} : job'[q] = job[q]
    BY <1>0, <2>1 DEF Job
  <2>5. ServedStep(p)
    BY <1>0, <2>1, <2>2, <2>3, <2>4 DEF Goto, ServedStep, ServedAt
  <2> QED BY <2>2, <2>5, SameRegistryServed
<1>9. CASE FailNextPeer(p)
  <2>1. \A d \in remote \ remote' : holder # p => db.dev[d].status # "absent"
    BY <1>0, <1>9 DEF FailNextPeer, ChangePeer, ServedAt
  <2>2. holder = p => p \in Resident
    BY <1>0, <1>9 DEF FailNextPeer, ServedAt
  <2> QED BY <1>9, <2>1, <2>2, StopServed DEF FailNextPeer
<1>10. CASE WriteRevoke(p)
  <2>1. PICK d \in job[p].left :
             Write(p, CascadeRevoke(db, d)) /\ job' = [job EXCEPT ![p].dev = d]
    BY <1>10 DEF WriteRevoke
  <2>2. \A e \in Devices : db.dev[e].status = "absent" =>
                               CascadeRevoke(db, d).dev[e].status # "active"
    BY DEF CascadeRevoke, Registry, DeviceRow
  <2> QED BY <1>10, <2>1, <2>2, LocalServed DEF WriteRevoke
<1>11. CASE WriteDisableSlot(p)
  <2>1. PICK d \in job[p].left :
             Write(p, DisableDevice(db, d)) /\ job' = [job EXCEPT ![p].dev = d]
    BY <1>11 DEF WriteDisableSlot
  <2>2. \A e \in Devices : db.dev[e].status = "absent" =>
                               DisableDevice(db, d).dev[e].status # "active"
    BY DEF DisableDevice, Registry, DeviceRow
  <2> QED BY <1>11, <2>1, <2>2, LocalServed DEF WriteDisableSlot
<1>12. CASE WriteUser(p)
  <2>1. PICK r : Write(p, r) /\ KeepsAbsent(db, r, {})
    BY <1>12, StatementsKeepAbsent DEF WriteUser
  <2>2. \A e \in Devices : db.dev[e].status = "absent" => r.dev[e].status # "active"
    BY <2>1 DEF KeepsAbsent
  <2> QED BY <1>12, <2>1, <2>2, LocalServed DEF WriteUser
<1>13. CASE FailLocal(p)
  BY <1>0, <1>13, StopServed DEF FailLocal, ServedAt
<1>14. CASE Commit(p)
  <2>1. pc'[p] \in {"idle", "local"} /\ \A q \in Procs \ {p} : pc'[q] = pc[q] /\ job'[q] = job[q]
    BY <1>14 DEF Commit, Stop, Goto
  <2> QED BY <1>14, <2>1, CommitServed DEF Commit
<1>15. CASE CommitBusy(p)
  <2>1. CASE job[p].kind = "create"
    <3>1. ServedStep(p)
      BY <1>0, <1>15, <2>1 DEF CommitBusy, Goto, ServedStep, ServedAt
    <3> QED BY <1>15, <2>1, <3>1, SameRegistryServed DEF CommitBusy
  <2>2. CASE job[p].kind # "create"
    BY <1>15, <2>2, StopServed DEF CommitBusy
  <2> QED BY <2>1, <2>2
<1> QED
  BY <1>1, <1>2, <1>3, <1>4, <1>5, <1>6, <1>7, <1>8, <1>9, <1>10, <1>11, <1>12,
     <1>13, <1>14, <1>15 DEF Continue

LEMMA ServedNext ==
  ASSUME TypeOK, ProtocolInvariant, ServedInv, [Next]_vars
  PROVE  ServedInv' /\ GrantServed
<1>1. CASE UNCHANGED vars
  BY <1>1, SameRegistryServed DEF vars, store, ServedInv, ServedAt
<1>2. CASE Next
  <2>1. PICK p \in Procs : Start(p) \/ Continue(p) \/ Crash(p)
    BY <1>2 DEF Next
  <2>2. ASSUME Crash(p) PROVE ServedStep(p) /\ GrantServed
    BY <2>2, StopServed DEF Crash
  <2>3. ServedStep(p) /\ GrantServed
    BY <2>1, <2>2, StartServed, ContinueServed
  <2> QED BY <2>3, ServedByStep
<1> QED BY <1>1, <1>2

\* A created device becomes visible to the others only while its peer is on the
\* server, unless a resident process commits what its failed COMMIT left.
THEOREM GrantsServed == Spec => GrantImpliesPeer
<1>1. Init => ServedInv
  BY ServedInit
<1>2. TypeOK /\ ProtocolInvariant /\ ServedInv /\ [Next]_vars => ServedInv' /\ GrantServed
  BY ServedNext
<1> QED BY <1>1, <1>2, Invariance, PTL DEF Spec, GrantImpliesPeer, GrantServed

-----------------------------------------------------------------------------
(* Between two requests the peers are those of the active devices, when    *)
(* one request follows another.                                            *)

\* One request at a time, and nothing is remembered of an earlier one.
AloneInv ==
    /\ \A p, q \in Procs : pc[p] # "idle" /\ pc[q] # "idle" => p = q
    /\ \A p \in Procs : pc[p] = "idle" => job[p] = NoJob

\* A transaction that was left open has not changed a device.
OpenAt(p) ==
    holder = p /\ pc[p] \in {"idle", "remote", "local"} => image.dev = db.dev

OpenInv == \A p \in Procs : OpenAt(p)

\* A peer that was not changed by the job under way, and of which nobody was
\* told or left untold that its change is incomplete, is as the registry says.
Matches(d) == d \in remote <=> db.dev[d].status = "active"

MatchInv ==
    \A d \in Devices \ External :
        outcome[d] = "clean" /\ (\A p \in Procs : d \notin job[p].touched) => Matches(d)

\* The jobs that put peers on the server, and the devices whose change the
\* next commit completes.
Adds(j) == j.kind \in GrantKind \cup {"enable_vpn"}
Done(j) == IF j.kind = "reset" THEN {j.dev} ELSE j.touched

\* A grant has changed the peer of the device it has inserted, and no other.
GrantAt(p) ==
    \/ pc[p] \in {"reading", "inserted", "applied"}
    \/ pc[p] = "commit" /\ job[p].kind \in GrantKind
    => /\ job[p].kind \in GrantKind /\ job[p].todo = {} /\ job[p].left = {}
       /\ job[p].touched = IF pc[p] \in {"applied", "commit"} THEN {job[p].dev} ELSE {}

\* What a remote-first job has changed on the server and what it has still to
\* change are what it will record.
AimAt(p) ==
    LET j   == job[p]
        aim == j.todo \cup j.touched
        own == {d \in Devices \ External : db.dev[d].user = j.user}
    IN
    pc[p] \in {"remote", "local"} \/ (pc[p] = "commit" /\ j.kind \notin GrantKind) =>
        /\ j.kind \notin GrantKind \cup {"none"}
        /\ pc[p] # "remote" => j.todo = {}
        /\ j.kind \in {"reset", "disable_slot"} => aim = j.left
        /\ j.kind = "revoke" =>
              /\ aim \subseteq j.left
              /\ \A d \in j.left \ External : db.dev[d].status = "active" => d \in aim
        /\ j.kind \in {"revoke", "disable_slot"} => \E d \in Devices : j.left = {d}
        /\ j.kind = "disable_vpn" => aim \ External = {d \in own : db.dev[d].status = "active"}
        /\ j.kind = "enable_vpn" => aim = {d \in own : db.dev[d].status = "disabled"}
        /\ j.kind = "block" => aim = {}
        /\ j.kind \in {"disable_vpn", "enable_vpn", "block"} => j.left = {}

\* The peers a job has changed are there, or not there, until it ends.
TouchedAt(p) ==
    IF Adds(job[p]) THEN job[p].touched \subseteq remote
                    ELSE job[p].touched \cap remote = {}

\* The registry about to be committed differs in the devices that are done.
WrittenAt(p) ==
    pc[p] = "commit" =>
        /\ job[p].kind \in {"revoke", "reset", "disable_slot"} => job[p].dev \in job[p].left
        /\ \A d \in Devices \ External :
              image.dev[d].status = "active" <=>
                  IF Adds(job[p]) THEN db.dev[d].status = "active" \/ d \in Done(job[p])
                                  ELSE db.dev[d].status = "active" /\ d \notin Done(job[p])

JobAt(p) == pc[p] # "audit" /\ GrantAt(p) /\ AimAt(p) /\ TouchedAt(p) /\ WrittenAt(p)

PeersInv == AloneInv /\ OpenInv /\ MatchInv /\ (\A p \in Procs : JobAt(p))

LEMMA PeersInit == Init => PeersInv
<1> SUFFICES ASSUME Init PROVE PeersInv
  OBVIOUS
<1> USE ProcAssumption, RegistryAssumption DEF Init
<1>1. AloneInv /\ OpenInv
  BY DEF AloneInv, OpenInv, OpenAt
<1>2. MatchInv
  BY DEF MatchInv, Matches, EmptyRegistry, AbsentRow
<1>3. ASSUME NEW p \in Procs PROVE JobAt(p)
  BY DEF JobAt, GrantAt, AimAt, TouchedAt, WrittenAt, NoJob
<1> QED BY <1>1, <1>2, <1>3 DEF PeersInv

\* Nothing is asked of a process that is idle.
LEMMA IdleAt ==
  ASSUME NEW p \in Procs, pc[p] = "idle", job[p] = NoJob
  PROVE  JobAt(p)
  BY DEF JobAt, GrantAt, AimAt, TouchedAt, WrittenAt, NoJob

\* A write between requests: it changes no device but imported ones, and the
\* job of another process sees no difference.
LEMMA BetweenStep ==
  ASSUME TypeOK, ProtocolInvariant, PeersInv, TypeOK', NEW p \in Procs, pc[p] = "idle",
         UNCHANGED <<remote, pc, job, outcome>>,
         holder \in {p, NoProc}, holder' \in {p, NoProc},
         image'.dev = db'.dev,
         \A d \in Devices \ External : db'.dev[d] = db.dev[d]
  PROVE  PeersInv'
<1> USE DEF PeersInv
<1>1. AloneInv' /\ OpenInv'
  BY DEF AloneInv, OpenInv, OpenAt
<1>2. MatchInv'
  BY DEF MatchInv, Matches
<1>3. ASSUME NEW q \in Procs PROVE JobAt(q)'
  <2>1. pc[q] # "commit" /\ pc[q] # "audit"
    BY ProcAssumption DEF ProtocolInvariant, LockInv
  <2>2. JobAt(q)
    OBVIOUS
  <2>3. GrantAt(q)' /\ TouchedAt(q)' /\ WrittenAt(q)'
    BY <2>1, <2>2 DEF JobAt, GrantAt, TouchedAt, WrittenAt, Adds
  <2>4. AimAt(q)'
    <3>1. \A d \in Devices \ External : db'.dev[d].user = db.dev[d].user
                                        /\ db'.dev[d].status = db.dev[d].status
      OBVIOUS
    <3>2. job[q].left \subseteq Devices
      BY DEF TypeOK, Job
    <3> QED BY <2>1, <2>2, <3>1, <3>2 DEF JobAt, AimAt
  <2> QED BY <2>1, <2>3, <2>4 DEF JobAt
<1> QED BY <1>1, <1>2, <1>3

\* What an action of the process at work has to be shown to do.
WorkStep(p) ==
    /\ \A q \in Procs \ {p} : /\ pc[q] = "idle" /\ pc'[q] = "idle"
                              /\ job[q] = NoJob /\ job'[q] = NoJob
    /\ pc'[p] = "idle" => job'[p] = NoJob
    /\ UNCHANGED store \/ holder' \in {p, NoProc}
    /\ OpenAt(p)'
    /\ \A d \in Devices \ External :
          outcome'[d] = "clean" /\ d \notin job'[p].touched => Matches(d)'
    /\ JobAt(p)'

LEMMA PeersByStep ==
  ASSUME TypeOK, PeersInv, NEW p \in Procs, WorkStep(p)
  PROVE  PeersInv'
<1> USE DEF PeersInv, WorkStep
<1>1. AloneInv'
  BY DEF AloneInv
<1>2. OpenInv'
  BY ProcAssumption DEF OpenInv, OpenAt, store
<1>3. MatchInv'
  BY DEF MatchInv, Matches
<1>4. ASSUME NEW q \in Procs PROVE JobAt(q)'
  <2>1. CASE q = p
    BY <2>1
  <2>2. CASE q # p
    BY <2>2 DEF JobAt, GrantAt, AimAt, TouchedAt, WrittenAt, NoJob
  <2> QED BY <2>1, <2>2
<1> QED BY <1>1, <1>2, <1>3, <1>4

\* While p works everybody else is idle, and only the peers p has touched may
\* differ from the registry.
LEMMA OthersIdle ==
  ASSUME PeersInv, NEW p \in Procs,
         pc[p] # "idle" \/ \A q \in Procs : pc[q] = "idle"
  PROVE  /\ \A q \in Procs \ {p} : pc[q] = "idle" /\ job[q] = NoJob
         /\ \A d \in Devices \ External :
               outcome[d] = "clean" /\ d \notin job[p].touched => Matches(d)
<1>1. \A q \in Procs \ {p} : pc[q] = "idle" /\ job[q] = NoJob
  BY DEF PeersInv, AloneInv
<1>2. NoJob.touched = {}
  BY DEF NoJob
<1> QED BY <1>1, <1>2 DEF PeersInv, MatchInv

\* The start of a request, when no other is under way.
LEMMA BeginWork ==
  ASSUME TypeOK, PeersInv, Serial, NEW p \in Procs, NEW l, NEW j, Begin(p, l, j),
         l # "idle", j.touched = {},
         UNCHANGED <<store, remote, outcome>>,
         pc'[p] = l /\ job'[p] = j => GrantAt(p)' /\ AimAt(p)',
         l \in {"reading", "remote", "local"}
  PROVE  WorkStep(p)
<1>1. /\ \A q \in Procs : pc[q] = "idle"
      /\ pc'[p] = l /\ job'[p] = j
      /\ \A q \in Procs \ {p} : pc'[q] = pc[q] /\ job'[q] = job[q]
  BY DEF Begin, Goto, TypeOK
<1>2. job[p].touched = {}
  BY <1>1 DEF PeersInv, AloneInv, NoJob
<1>3. JobAt(p)'
  BY <1>1 DEF JobAt, TouchedAt, WrittenAt
<1>4. OpenAt(p)'
  BY <1>1 DEF PeersInv, OpenInv, OpenAt, store
<1>5. \A d \in Devices \ External :
          outcome'[d] = "clean" /\ d \notin job'[p].touched => Matches(d)'
  BY <1>1, <1>2, OthersIdle DEF Matches, store
<1> QED BY <1>1, <1>3, <1>4, <1>5, OthersIdle DEF WorkStep

\* The end of a request without a commit: whatever it touched is accounted for.
LEMMA StopWork ==
  ASSUME TypeOK, PeersInv, NEW p \in Procs, pc[p] # "idle", Stop(p),
         \/ Rollback(p)
         \/ UNCHANGED store /\ pc[p] \in {"reading", "remote", "local"} /\
            (pc[p] = "reading" => holder # p),
         \A d \in Devices \ External : outcome'[d] = "clean" =>
             /\ outcome[d] = "clean" /\ d \notin job[p].touched
             /\ d \in remote' <=> d \in remote
  PROVE  WorkStep(p)
<1>1. /\ pc'[p] = "idle" /\ job'[p] = NoJob /\ db' = db
      /\ \A q \in Procs \ {p} : pc'[q] = pc[q] /\ job'[q] = job[q]
  BY DEF Stop, Goto, TypeOK, Rollback, store
<1>2. OpenAt(p)' /\ (UNCHANGED store \/ holder' \in {p, NoProc})
  BY <1>1, ProcAssumption DEF Rollback, store, PeersInv, OpenInv, OpenAt
<1>3. JobAt(p)'
  BY <1>1 DEF JobAt, GrantAt, AimAt, TouchedAt, WrittenAt, NoJob
<1>4. \A d \in Devices \ External : outcome'[d] = "clean" => Matches(d)'
  BY <1>1, OthersIdle DEF Matches
<1> QED BY <1>1, <1>2, <1>3, <1>4, OthersIdle DEF WorkStep

\* What p sees of the devices when it begins a request is what is committed.
LEMMA SeesDevices ==
  ASSUME PeersInv, NEW p \in Procs, pc[p] = "idle"
  PROVE  View(p).dev = db.dev
  BY DEF PeersInv, OpenInv, OpenAt, View

LEMMA StartPeers ==
  ASSUME TypeOK, ProtocolInvariant, PeersInv, Serial, TypeOK', NEW p \in Procs, Start(p)
  PROVE  PeersInv'
<1> USE DEF TypeOK
<1>0. LockInv /\ pc[p] = "idle"
  BY DEF ProtocolInvariant, Start, FlushOpenTransaction, RequestAccess, Autocommit,
         StartApprove, StartCreate, ImportExternal, StartReset, StartDisableVpn,
         StartEnableVpn, StartBlock, StartRevoke, StartDisableSlot, Begin
<1>1. CASE FlushOpenTransaction(p)
  <2>1. image.dev = db.dev
    BY <1>0, <1>1 DEF FlushOpenTransaction, PeersInv, OpenInv, OpenAt
  <2> QED BY <1>0, <1>1, <2>1, BetweenStep DEF FlushOpenTransaction, CommitImage
<1>2. ASSUME NEW o \in Orders, RequestAccess(p, o) PROVE PeersInv'
  <2>1. PICK r \in {CreateOrder(db, o), db} : Autocommit(p, r)
    BY <1>2 DEF RequestAccess
  <2>2. r.dev = db.dev
    BY <2>1 DEF CreateOrder, Registry
  <2>3. db'.dev = db.dev /\ image'.dev = db.dev /\ holder = NoProc /\ holder' \in {p, NoProc}
    BY <2>1, <2>2 DEF Autocommit, Write
  <2> QED BY <1>0, <1>2, <2>3, BetweenStep DEF RequestAccess
<1>3. ASSUME NEW o \in Orders, StartApprove(p, o) PROVE PeersInv'
  <2> DEFINE j == [NoJob EXCEPT !.kind = "approve", !.order = o, !.user = Owner[o]]
  <2>1. /\ j.kind = "approve" /\ j.touched = {} /\ j.todo = {} /\ j.left = {}
    BY DEF NoJob
  <2>2. WorkStep(p)
    BY <1>3, <2>1, BeginWork DEF StartApprove, store, GrantAt, AimAt, GrantKind
  <2> QED BY <2>2, PeersByStep
<1>4. ASSUME NEW u \in Users, NEW m \in Mode, StartCreate(p, u, m) PROVE PeersInv'
  <2> DEFINE j == [NoJob EXCEPT !.kind = "create", !.user = u, !.mode = m]
  <2>1. /\ j.kind = "create" /\ j.touched = {} /\ j.todo = {} /\ j.left = {}
    BY DEF NoJob
  <2>2. WorkStep(p)
    BY <1>4, <2>1, BeginWork DEF StartCreate, store, GrantAt, AimAt, GrantKind
  <2> QED BY <2>2, PeersByStep
<1>5. ASSUME NEW u \in Users, NEW d \in External, ImportExternal(p, d, u) PROVE PeersInv'
  <2>1. /\ db' = CreateExternalDevice(db, d, u) /\ image' = db' /\ holder = NoProc
        /\ holder' = NoProc
    BY <1>5 DEF ImportExternal, Autocommit
  <2>2. \A e \in Devices \ External : db'.dev[e] = db.dev[e]
    BY <2>1 DEF CreateExternalDevice, CreateDevice, Registry
  <2> QED BY <1>0, <1>5, <2>1, <2>2, BetweenStep DEF ImportExternal
<1>6. ASSUME NEW u \in Users, StartReset(p, u) PROVE PeersInv'
  <2> DEFINE live == ActiveDevices(View(p), u)
             j == [NoJob EXCEPT !.kind = "reset", !.user = u, !.todo = live, !.left = live]
  <2>1. /\ j.kind = "reset" /\ j.touched = {} /\ j.todo = live /\ j.left = live
    BY DEF NoJob
  <2>2. Begin(p, "remote", j) /\ UNCHANGED <<store, remote, outcome>>
    BY <1>6 DEF StartReset
  <2>3. WorkStep(p)
    BY <2>1, <2>2, BeginWork DEF GrantAt, AimAt, GrantKind
  <2> QED BY <2>3, PeersByStep
<1>7. ASSUME NEW u \in Users, StartDisableVpn(p, u) PROVE PeersInv'
  <2> DEFINE live == ActiveDevices(db, u)
             l == IF live = {} THEN "local" ELSE "remote"
             j == [NoJob EXCEPT !.kind = "disable_vpn", !.user = u, !.todo = live]
  <2>1. /\ j.kind = "disable_vpn" /\ j.touched = {} /\ j.todo = live /\ j.left = {}
        /\ j.user = u
    BY DEF NoJob
  <2>2. Begin(p, l, j) /\ UNCHANGED <<store, remote, outcome>>
    BY <1>7 DEF StartDisableVpn
  <2>3. ASSUME pc'[p] = l, job'[p] = j PROVE GrantAt(p)' /\ AimAt(p)'
    <3>1. live \ External = {d \in {e \in Devices \ External : db.dev[e].user = u} :
                                db.dev[d].status = "active"}
      BY DEF ActiveDevices
    <3>2. db' = db
      BY <2>2 DEF store
    <3> QED BY <2>1, <2>3, <3>1, <3>2 DEF GrantAt, AimAt, GrantKind
  <2>4. WorkStep(p)
    BY <2>1, <2>2, <2>3, BeginWork
  <2> QED BY <2>4, PeersByStep
<1>8. ASSUME NEW u \in Users, StartEnableVpn(p, u) PROVE PeersInv'
  <2> DEFINE off == DevicesToEnable(db, u)
             l == IF off = {} THEN "local" ELSE "remote"
             j == [NoJob EXCEPT !.kind = "enable_vpn", !.user = u, !.todo = off]
  <2>1. /\ j.kind = "enable_vpn" /\ j.touched = {} /\ j.todo = off /\ j.left = {}
        /\ j.user = u
    BY DEF NoJob
  <2>2. Begin(p, l, j) /\ UNCHANGED <<store, remote, outcome>>
    BY <1>8 DEF StartEnableVpn
  <2>3. ASSUME pc'[p] = l, job'[p] = j PROVE GrantAt(p)' /\ AimAt(p)'
    <3>1. off = {d \in {e \in Devices \ External : db.dev[e].user = u} :
                    db.dev[d].status = "disabled"}
      BY DEF DevicesToEnable
    <3>2. db' = db
      BY <2>2 DEF store
    <3> QED BY <2>1, <2>3, <3>1, <3>2 DEF GrantAt, AimAt, GrantKind
  <2>4. WorkStep(p)
    BY <2>1, <2>2, <2>3, BeginWork
  <2> QED BY <2>4, PeersByStep
<1>9. ASSUME NEW u \in Users, StartBlock(p, u) PROVE PeersInv'
  <2> DEFINE j == [NoJob EXCEPT !.kind = "block", !.user = u]
  <2>1. /\ j.kind = "block" /\ j.touched = {} /\ j.todo = {} /\ j.left = {}
    BY DEF NoJob
  <2>2. WorkStep(p)
    BY <1>9, <2>1, BeginWork DEF StartBlock, GrantAt, AimAt, GrantKind
  <2> QED BY <2>2, PeersByStep
<1>10. ASSUME NEW d \in Devices, StartRevoke(p, d) PROVE PeersInv'
  <2> DEFINE live == {d} \cap {e \in Devices : View(p).dev[e].status = "active"}
             l == IF live = {} THEN "local" ELSE "remote"
             j == [NoJob EXCEPT !.kind = "revoke", !.todo = live, !.left = {d}]
  <2>1. /\ j.kind = "revoke" /\ j.touched = {} /\ j.todo = live /\ j.left = {d}
    BY DEF NoJob
  <2>2. Begin(p, l, j) /\ UNCHANGED <<store, remote, outcome>>
    BY <1>10 DEF StartRevoke
  <2>3. ASSUME pc'[p] = l, job'[p] = j PROVE GrantAt(p)' /\ AimAt(p)'
    <3>1. db.dev[d].status = "active" => d \in live
      BY <1>0, SeesDevices
    <3>2. db' = db
      BY <2>2 DEF store
    <3> QED BY <2>1, <2>3, <3>1, <3>2 DEF GrantAt, AimAt, GrantKind
  <2>4. WorkStep(p)
    BY <2>1, <2>2, <2>3, BeginWork
  <2> QED BY <2>4, PeersByStep
<1>11. ASSUME NEW d \in Devices, StartDisableSlot(p, d) PROVE PeersInv'
  <2> DEFINE j == [NoJob EXCEPT !.kind = "disable_slot", !.todo = {d}, !.left = {d}]
  <2>1. /\ j.kind = "disable_slot" /\ j.touched = {} /\ j.todo = {d} /\ j.left = {d}
    BY DEF NoJob
  <2>2. WorkStep(p)
    BY <1>11, <2>1, BeginWork DEF StartDisableSlot, GrantAt, AimAt, GrantKind
  <2> QED BY <2>2, PeersByStep
<1> QED
  BY <1>1, <1>2, <1>3, <1>4, <1>5, <1>6, <1>7, <1>8, <1>9, <1>10, <1>11 DEF Start

\* The grant: its device is inserted, gets its peer, and is finished.
LEMMA GrantPeers ==
  ASSUME TypeOK, ProtocolInvariant, PeersInv, NEW p \in Procs,
         InsertRow(p) \/ ApplyGrantedPeer(p) \/ FinishGrant(p)
  PROVE  WorkStep(p)
<1> USE DEF TypeOK, store
<1>0. /\ LockInv /\ ImageInv /\ JobAt(p) /\ pc[p] # "idle" /\ job[p] \in Job
      /\ db \in Registry /\ image \in Registry
  BY DEF ProtocolInvariant, PeersInv, InsertRow, ApplyGrantedPeer, FinishGrant
<1>1. CASE InsertRow(p)
  <2>1. PICK d \in Devices : job' = [job EXCEPT ![p].dev = d]
    BY <1>1 DEF InsertRow
  <2>2. /\ pc[p] = "reading" /\ pc' = [pc EXCEPT ![p] = "inserted"] /\ holder' = p
        /\ db' = db /\ remote' = remote /\ outcome' = outcome
    BY <1>1 DEF InsertRow, Write, Goto
  <2>3. /\ job'[p].kind = job[p].kind /\ job'[p].touched = job[p].touched
        /\ job'[p].todo = job[p].todo /\ job'[p].left = job[p].left
    BY <1>0, <2>1 DEF Job
  <2>4. JobAt(p)'
    BY <1>0, <2>2, <2>3 DEF JobAt, GrantAt, AimAt, TouchedAt, WrittenAt, Adds
  <2> QED BY <1>0, <2>1, <2>2, <2>3, <2>4, OthersIdle DEF WorkStep, OpenAt, Matches
<1>2. CASE ApplyGrantedPeer(p)
  <2>1. /\ pc[p] = "inserted" /\ pc' = [pc EXCEPT ![p] = "applied"]
        /\ UNCHANGED <<store, outcome>> /\ remote' = remote \cup {job[p].dev}
        /\ job' = [job EXCEPT ![p].touched = {job[p].dev}]
    BY <1>2 DEF ApplyGrantedPeer, Goto
  <2>2. /\ job'[p].kind = job[p].kind /\ job'[p].touched = {job[p].dev}
        /\ job'[p].todo = job[p].todo /\ job'[p].left = job[p].left
        /\ job'[p].dev = job[p].dev
    BY <1>0, <2>1 DEF Job
  <2>3. JobAt(p)'
    BY <1>0, <2>1, <2>2 DEF JobAt, GrantAt, AimAt, TouchedAt, WrittenAt, Adds
  <2>4. job[p].touched = {}
    BY <1>0, <2>1 DEF JobAt, GrantAt
  <2> QED BY <1>0, <2>1, <2>2, <2>3, <2>4, OthersIdle DEF WorkStep, OpenAt, Matches
<1>3. CASE FinishGrant(p)
  <2>1. /\ pc[p] = "applied" /\ pc' = [pc EXCEPT ![p] = "commit"] /\ holder' = p
        /\ db' = db /\ UNCHANGED <<remote, job, outcome>>
    BY <1>3 DEF FinishGrant, Write, Goto
  <2>2. image'.dev = image.dev
    BY <1>3 DEF FinishGrant, Write, MarkOrderFulfilled, Registry
  <2>3. /\ holder = p /\ job[p].dev \in Devices
        /\ image = CreateDevice(db, job[p].dev, job[p].user, job[p].mode)
    BY <1>0, <2>1 DEF LockInv, ImageInv
  <2>4. /\ job[p].kind \in GrantKind /\ job[p].touched = {job[p].dev}
    BY <1>0, <2>1 DEF JobAt, GrantAt
  <2>5. \A d \in Devices : image'.dev[d].status = "active" <=>
                               db.dev[d].status = "active" \/ d \in job[p].touched
    BY <1>0, <2>2, <2>3, <2>4 DEF CreateDevice, Registry
  <2>6. WrittenAt(p)'
    BY <2>1, <2>4, <2>5 DEF WrittenAt, Adds, Done, GrantKind
  <2>7. JobAt(p)'
    BY <1>0, <2>1, <2>4, <2>6 DEF JobAt, GrantAt, AimAt, TouchedAt, Adds
  <2> QED BY <1>0, <2>1, <2>7, OthersIdle DEF WorkStep, OpenAt, Matches
<1> QED BY <1>1, <1>2, <1>3

\* Working on the peers, one after the other.
LEMMA ChangePeers ==
  ASSUME TypeOK, ProtocolInvariant, PeersInv, NEW p \in Procs, ChangeNextPeer(p)
  PROVE  WorkStep(p)
<1> USE DEF TypeOK, store
<1>1. PICK d \in job[p].todo :
           /\ ChangePeer(p, d)
           /\ job' = [job EXCEPT ![p].todo = @ \ {d}, ![p].touched = @ \cup {d}]
           /\ Goto(p, IF job[p].todo = {d} THEN "local" ELSE "remote")
  BY DEF ChangeNextPeer
<1> DEFINE j == job[p]
           k == job'[p]
<1>2. /\ pc[p] = "remote" /\ UNCHANGED <<store, outcome>> /\ JobAt(p) /\ OpenAt(p)
      /\ pc'[p] \in {"remote", "local"} /\ (pc'[p] = "local" => j.todo = {d})
      /\ \A q \in Procs \ {p} : pc'[q] = pc[q] /\ job'[q] = job[q]
  BY <1>1 DEF ChangeNextPeer, Goto, PeersInv, OpenInv
<1>3. /\ k.kind = j.kind /\ k.user = j.user /\ k.left = j.left
      /\ k.todo = j.todo \ {d} /\ k.touched = j.touched \cup {d}
      /\ k.todo \cup k.touched = j.todo \cup j.touched
  BY <1>1 DEF Job
<1>4. /\ j.kind \notin GrantKind /\ Adds(k) = Adds(j)
      /\ remote' = IF Adds(j) THEN remote \cup {d} ELSE remote \ {d}
  BY <1>1, <1>2, <1>3 DEF JobAt, AimAt, ChangePeer, Adds
<1>5. AimAt(p)'
  BY <1>2, <1>3 DEF JobAt, AimAt
<1>6. TouchedAt(p)'
  BY <1>2, <1>3, <1>4 DEF JobAt, TouchedAt
<1>7. JobAt(p)'
  BY <1>2, <1>5, <1>6 DEF JobAt, GrantAt, WrittenAt
<1>8. OpenAt(p)'
  BY <1>2 DEF OpenAt
<1>9. \A e \in Devices \ External :
          outcome'[e] = "clean" /\ e \notin k.touched => Matches(e)'
  BY <1>2, <1>3, <1>4, OthersIdle DEF Matches
<1> QED BY <1>2, <1>7, <1>8, <1>9, OthersIdle DEF WorkStep

\* The failures account for all they have touched.
LEMMA FailurePeers ==
  ASSUME TypeOK, ProtocolInvariant, PeersInv, NEW p \in Procs, pc[p] # "idle",
         \/ AbortGrant(p) \/ FailGrantedPeer(p) \/ FailAfterApply(p)
         \/ FailNextPeer(p) \/ FailLocal(p) \/ Crash(p)
  PROVE  WorkStep(p)
<1> USE DEF TypeOK, store
<1>0. LockInv /\ ImageInv /\ JobAt(p) /\ job[p] \in Job
  BY DEF ProtocolInvariant, PeersInv
<1>1. CASE AbortGrant(p)
  BY <1>0, <1>1, StopWork DEF AbortGrant, LockInv, JobAt, GrantAt
<1>2. CASE FailGrantedPeer(p)
  <2>1. pc[p] = "inserted" /\ Rollback(p) /\ Stop(p)
    BY <1>2 DEF FailGrantedPeer
  <2>2. job[p].touched = {}
    BY <1>0, <2>1 DEF JobAt, GrantAt
  <2>3. \/ UNCHANGED <<remote, outcome>>
        \/ remote' = remote \cup {job[p].dev} /\ Mark({job[p].dev}, "unreported")
    BY <1>2 DEF FailGrantedPeer
  <2>4. \A d \in Devices \ External : outcome'[d] = "clean" =>
             outcome[d] = "clean" /\ (d \in remote' <=> d \in remote)
    BY <2>3 DEF Mark
  <2> QED BY <2>1, <2>2, <2>4, StopWork
<1>3. CASE FailAfterApply(p)
  <2>1. job[p].touched = {job[p].dev}
    BY <1>0, <1>3 DEF FailAfterApply, JobAt, GrantAt
  <2> QED BY <1>3, <2>1, StopWork DEF FailAfterApply, Mark
<1>4. CASE FailNextPeer(p)
  <2>1. PICK d \in job[p].todo, effect \in BOOLEAN :
            /\ IF effect THEN ChangePeer(p, d) ELSE UNCHANGED remote
            /\ outcome' = [e \in Devices |->
                 IF effect /\ e = d THEN "unreported"
                 ELSE IF e \in job[p].touched
                      THEN IF job[p].kind = "reset" THEN "removed_reported" ELSE "unreported"
                 ELSE outcome[e]]
    BY <1>4 DEF FailNextPeer
  <2>2. \A e \in Devices : outcome'[e] = "clean" =>
            outcome[e] = "clean" /\ e \notin job[p].touched /\ (e \in remote' <=> e \in remote)
    BY <2>1 DEF ChangePeer
  <2> QED BY <1>4, <2>2, StopWork DEF FailNextPeer
<1>5. CASE FailLocal(p)
  <2>0. pc[p] = "local" /\ MarkLocalFailure(p) /\ Stop(p) /\ UNCHANGED <<store, remote>>
    BY <1>5 DEF FailLocal
  <2>1. CASE job[p].kind = "reset"
    <3>1. PICK d \in job[p].left :
              outcome' = [e \in Devices |->
                  IF e = d /\ View(p).dev[d].status = "active" THEN "removed_reported"
                  ELSE IF e \in job[p].left THEN "unreported"
                  ELSE outcome[e]]
      BY <2>0, <2>1 DEF MarkLocalFailure
    <3>2. job[p].touched = job[p].left
      BY <1>0, <2>0, <2>1 DEF JobAt, AimAt
    <3> QED BY <2>0, <3>1, <3>2, StopWork
  <2>2. CASE job[p].kind # "reset"
    <3>1. Mark(job[p].touched, "removed_reported") \/ Mark(job[p].touched, "unreported")
      BY <2>0, <2>2 DEF MarkLocalFailure
    <3> QED BY <2>0, <3>1, StopWork DEF Mark
  <2> QED BY <2>1, <2>2
<1>6. CASE Crash(p)
  BY <1>6, StopWork DEF Crash, Mark
<1> QED BY <1>1, <1>2, <1>3, <1>4, <1>5, <1>6

\* The local half is written: what it changes are the devices that are done.
LEMMA LocalPeers ==
  ASSUME TypeOK, ProtocolInvariant, PeersInv, NEW p \in Procs,
         WriteRevoke(p) \/ WriteDisableSlot(p) \/ WriteUser(p)
  PROVE  WorkStep(p)
<1> USE DEF TypeOK
<1> DEFINE j == job[p]
           k == job'[p]
           own == {d \in Devices \ External : db.dev[d].user = j.user}
<1>0. JobAt(p) /\ j \in Job /\ db \in Registry
  BY DEF PeersInv
<1>1. /\ WriteLocal(p) /\ pc[p] = "local" /\ pc' = [pc EXCEPT ![p] = "commit"]
      /\ UNCHANGED <<remote, outcome>> /\ db' = db /\ holder' = p
      /\ \A q \in Procs \ {p} : job'[q] = job[q]
  BY DEF WriteRevoke, WriteDisableSlot, WriteUser, WriteLocal, Write, Goto
<1>2. /\ k.kind = j.kind /\ k.user = j.user /\ k.left = j.left
      /\ k.todo = j.todo /\ k.touched = j.touched
  BY DEF WriteRevoke, WriteDisableSlot, WriteUser, Job
<1>3. j.todo = {} /\ j.kind \notin GrantKind \cup {"none"}
  BY <1>0, <1>1 DEF JobAt, AimAt
<1>4. WrittenAt(p)'
  <2>1. CASE WriteRevoke(p)
    <3>1. PICK d \in j.left :
               Write(p, CascadeRevoke(db, d)) /\ job' = [job EXCEPT ![p].dev = d]
      BY <2>1 DEF WriteRevoke
    <3>2. k.dev = d /\ d \in Devices
      BY <3>1 DEF Job
    <3>3. \A e \in Devices : image'.dev[e].status = "active" <=>
                                 db.dev[e].status = "active" /\ e # d
      BY <1>0, <3>1, <3>2 DEF Write, CascadeRevoke, Registry, DeviceRow
    <3>4. j.kind \in {"revoke", "reset"}
      BY <2>1 DEF WriteRevoke
    <3>5. CASE j.kind = "revoke"
      <4>1. /\ j.left = {d} /\ j.touched \subseteq {d}
            /\ d \notin External /\ db.dev[d].status = "active" => d \in j.touched
        BY <1>0, <1>1, <1>3, <3>1, <3>5 DEF JobAt, AimAt
      <4> QED BY <1>1, <1>2, <3>1, <3>2, <3>3, <3>5, <4>1 DEF WrittenAt, Adds, Done, GrantKind
    <3>6. CASE j.kind = "reset"
      BY <1>1, <1>2, <3>1, <3>2, <3>3, <3>6 DEF WrittenAt, Adds, Done, GrantKind
    <3> QED BY <3>4, <3>5, <3>6
  <2>2. CASE WriteDisableSlot(p)
    <3>1. PICK d \in j.left :
               Write(p, DisableDevice(db, d)) /\ job' = [job EXCEPT ![p].dev = d]
      BY <2>2 DEF WriteDisableSlot
    <3>2. k.dev = d /\ d \in Devices /\ j.kind = "disable_slot"
      BY <2>2, <3>1 DEF WriteDisableSlot, Job
    <3>3. \A e \in Devices : image'.dev[e].status = "active" <=>
                                 db.dev[e].status = "active" /\ e # d
      BY <1>0, <3>1, <3>2 DEF Write, DisableDevice, Registry, DeviceRow
    <3>4. j.left = {d} /\ j.touched = {d}
      BY <1>0, <1>1, <1>3, <3>1, <3>2 DEF JobAt, AimAt
    <3> QED BY <1>1, <1>2, <3>1, <3>2, <3>3, <3>4 DEF WrittenAt, Adds, Done, GrantKind
  <2>3. CASE WriteUser(p)
    <3>0. k = j
      BY <2>3 DEF WriteUser
    <3>1. CASE j.kind = "disable_vpn"
      <4>1. image' = DisableVpn(db, j.user)
        BY <2>3, <3>1 DEF WriteUser, Write
      <4>2. j.touched \ External = {d \in own : db.dev[d].status = "active"}
        BY <1>0, <1>1, <1>3, <3>1 DEF JobAt, AimAt
      <4>3. \A e \in Devices \ External : image'.dev[e].status = "active" <=>
                db.dev[e].status = "active" /\ e \notin j.touched
        BY <1>0, <4>1, <4>2
        DEF DisableVpn, SetUserStatus, DisableUserDevices, ActiveDevices, Registry, DeviceRow
      <4> QED BY <1>1, <3>0, <3>1, <4>3 DEF WrittenAt, Adds, Done, GrantKind
    <3>2. CASE j.kind = "enable_vpn"
      <4>1. image' = EnableVpn(db, j.user)
        BY <2>3, <3>2 DEF WriteUser, Write
      <4>2. j.touched = {d \in own : db.dev[d].status = "disabled"}
        BY <1>0, <1>1, <1>3, <3>2 DEF JobAt, AimAt
      <4>3. \A e \in Devices \ External : image'.dev[e].status = "active" <=>
                db.dev[e].status = "active" \/ e \in j.touched
        BY <1>0, <4>1, <4>2
        DEF EnableVpn, SetUserStatus, EnableUserDevices, Registry, DeviceRow
      <4> QED BY <1>1, <3>0, <3>2, <4>3 DEF WrittenAt, Adds, Done, GrantKind
    <3>3. CASE j.kind = "block"
      <4>1. image'.dev = db.dev
        BY <1>0, <2>3, <3>3 DEF WriteUser, Write, SetUserStatus, Registry
      <4>2. j.touched = {}
        BY <1>0, <1>1, <3>3 DEF JobAt, AimAt
      <4> QED BY <1>1, <3>0, <3>3, <4>1, <4>2 DEF WrittenAt, Adds, Done, GrantKind
    <3> QED BY <2>3, <3>1, <3>2, <3>3 DEF WriteUser
  <2> QED BY <2>1, <2>2, <2>3
<1>5. AimAt(p)'
  BY <1>0, <1>1, <1>2 DEF JobAt, AimAt
<1>6. JobAt(p)'
  BY <1>0, <1>1, <1>2, <1>3, <1>4, <1>5 DEF JobAt, GrantAt, TouchedAt, Adds
<1> QED BY <1>1, <1>2, <1>6, OthersIdle DEF WorkStep, OpenAt, Matches

\* A commit: what it completes is on the server as it is in the registry now.
LEMMA CommitPeers ==
  ASSUME TypeOK, ProtocolInvariant, PeersInv, NEW p \in Procs, Commit(p)
  PROVE  WorkStep(p)
<1> USE DEF TypeOK
<1> DEFINE j == job[p]
           k == job'[p]
           rest == j.left \ {j.dev}
           done == IF j.kind = "reset" THEN {j.dev} ELSE j.touched
<1>0. JobAt(p) /\ j \in Job /\ pc[p] = "commit"
  BY DEF PeersInv, Commit
<1>1. /\ db' = image /\ image' = image /\ holder' = NoProc /\ remote' = remote
      /\ Mark(done, "clean")
      /\ \A q \in Procs \ {p} : pc'[q] = pc[q] /\ job'[q] = job[q]
  BY DEF Commit, CommitImage, Stop, Goto
<1>2. /\ done = Done(j) /\ done \subseteq j.touched
      /\ j.kind \in {"revoke", "reset", "disable_slot"} => j.dev \in j.left
      /\ \A d \in Devices \ External :
             image.dev[d].status = "active" <=>
                 IF Adds(j) THEN db.dev[d].status = "active" \/ d \in done
                            ELSE db.dev[d].status = "active" /\ d \notin done
  BY <1>0 DEF JobAt, WrittenAt, Done, AimAt, GrantKind
<1>3. \A d \in Devices \ External :
          outcome'[d] = "clean" /\ d \notin j.touched \ done => Matches(d)'
  <2> SUFFICES ASSUME NEW d \in Devices \ External, outcome'[d] = "clean",
                      d \notin j.touched \ done
               PROVE  Matches(d)'
    OBVIOUS
  <2>1. CASE d \in done
    BY <1>0, <1>1, <1>2, <2>1 DEF JobAt, TouchedAt, Matches
  <2>2. CASE d \notin done
    <3>1. outcome[d] = "clean" /\ d \notin j.touched
      BY <1>1, <2>2 DEF Mark
    <3>2. Matches(d)
      BY <1>0, <3>1, OthersIdle
    <3> QED BY <1>1, <1>2, <2>2, <3>2 DEF Matches
  <2> QED BY <2>1, <2>2
<1>4. OpenAt(p)'
  BY <1>1, ProcAssumption DEF OpenAt
<1>5. CASE rest = {}
  <2>1. pc'[p] = "idle" /\ k = NoJob
    BY <1>5 DEF Commit, Stop, Goto
  <2>2. j.touched \ done = {}
    BY <1>0, <1>2, <1>5 DEF JobAt, AimAt, GrantKind
  <2>3. JobAt(p)'
    BY <2>1 DEF JobAt, GrantAt, AimAt, TouchedAt, WrittenAt, NoJob
  <2> QED BY <1>0, <1>1, <1>3, <1>4, <2>1, <2>2, <2>3, OthersIdle DEF WorkStep
<1>6. CASE rest # {}
  <2>1. /\ pc'[p] = "local"
        /\ job' = [job EXCEPT ![p].left = rest, ![p].dev = NoDevice, ![p].touched = @ \ done]
    BY <1>6 DEF Commit, Goto
  <2>2. /\ k.kind = j.kind /\ k.user = j.user /\ k.left = rest /\ k.todo = j.todo
        /\ k.touched = j.touched \ done
    BY <1>0, <2>1 DEF Job
  <2>3. /\ j.kind = "reset" /\ j.todo = {} /\ j.touched = j.left /\ done = {j.dev}
    <3>1. j.kind \notin GrantKind
      BY <1>0, <1>6 DEF JobAt, GrantAt
    <3>2. AimAt(p)
      BY <1>0 DEF JobAt
    <3>3. j.kind \notin {"disable_vpn", "enable_vpn", "block"}
      BY <1>0, <1>6, <3>1, <3>2 DEF AimAt
    <3>4. j.kind \notin {"revoke", "disable_slot"}
      BY <1>0, <1>2, <1>6, <3>1, <3>2 DEF AimAt
    <3>5. j.kind = "reset"
      BY <1>0, <3>1, <3>2, <3>3, <3>4 DEF AimAt, Job, JobKind
    <3> QED BY <1>0, <3>1, <3>2, <3>5 DEF AimAt
  <2>4. JobAt(p)'
    BY <1>0, <1>1, <2>1, <2>2, <2>3 DEF JobAt, GrantAt, AimAt, TouchedAt, WrittenAt, Adds, GrantKind
  <2> QED BY <1>0, <1>1, <1>3, <1>4, <2>1, <2>2, <2>4, OthersIdle DEF WorkStep
<1> QED BY <1>5, <1>6

LEMMA PeersNext ==
  ASSUME Serial, TypeOK, ProtocolInvariant, PeersInv, TypeOK', [Next]_vars
  PROVE  PeersInv'
<1>1. CASE UNCHANGED vars
  BY <1>1
  DEF vars, store, PeersInv, AloneInv, OpenInv, OpenAt, MatchInv, Matches, JobAt, GrantAt,
      AimAt, TouchedAt, WrittenAt
<1>2. ASSUME NEW p \in Procs, Start(p) PROVE PeersInv'
  BY <1>2, StartPeers
<1>3. ASSUME NEW p \in Procs, Continue(p) PROVE PeersInv'
  <2>1. pc[p] \notin {"idle", "audit"}
    BY <1>3
    DEF PeersInv, JobAt, Continue, InsertRow, AbortGrant, ApplyGrantedPeer, FailGrantedPeer,
        FinishGrant, FailAfterApply, RecordPartialFailure, ChangeNextPeer, FailNextPeer,
        WriteRevoke, WriteDisableSlot, WriteUser, WriteLocal, FailLocal, Commit, CommitBusy
  <2>2. ~RecordPartialFailure(p)
    BY <2>1 DEF RecordPartialFailure
  <2>3. ~CommitBusy(p)
    BY DEF CommitBusy, ProtocolInvariant, LockInv, PeersInv, AloneInv
  <2>4. WorkStep(p)
    BY <1>3, <2>1, <2>2, <2>3, GrantPeers, ChangePeers, FailurePeers, LocalPeers, CommitPeers
    DEF Continue
  <2> QED BY <2>4, PeersByStep
<1>4. ASSUME NEW p \in Procs, Crash(p) PROVE PeersInv'
  <2>1. CASE pc[p] # "idle"
    BY <1>4, <2>1, FailurePeers, PeersByStep
  <2>2. CASE pc[p] = "idle"
    <3>1. /\ holder = p /\ db' = db /\ image' = db /\ holder' = NoProc /\ remote' = remote
          /\ job[p] = NoJob
      BY <1>4, <2>2 DEF Crash, Rollback, PeersInv, AloneInv
    <3>2. UNCHANGED <<pc, job>>
      BY <1>4, <2>2, <3>1 DEF Crash, Stop, Goto, TypeOK
    <3>3. outcome' = outcome
      BY <1>4, <3>1 DEF Crash, Mark, TypeOK, NoJob
    <3> QED BY <2>2, <3>1, <3>2, <3>3, BetweenStep
  <2> QED BY <2>1, <2>2
<1> QED BY <1>1, <1>2, <1>3, <1>4 DEF Next

\* When requests follow one another, every peer that is not being worked on is
\* there exactly if its device is active, unless the request that changed it
\* last was cut short: whatever failed, crashed or was left open in between.
THEOREM PeersFollowRegistry ==
    ASSUME Serial
    PROVE  Spec => []PeersMatchRegistry
<1>1. Init => PeersInv
  BY PeersInit
<1>2. TypeOK /\ ProtocolInvariant /\ PeersInv /\ TypeOK' /\ [Next]_vars => PeersInv'
  BY PeersNext
<1>3. PeersInv => PeersMatchRegistry
  BY DEF PeersInv, MatchInv, Matches, PeersMatchRegistry, Busy
<1> QED BY <1>1, <1>2, <1>3, Invariance, PTL DEF Spec
=============================================================================
