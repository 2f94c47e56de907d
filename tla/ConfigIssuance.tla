--------------------------- MODULE ConfigIssuance ---------------------------
(***************************************************************************)
(* Issuing configs from a manifest, and handing the slots out.             *)
(*                                                                         *)
(* AdminConfigIssuanceService.issue_manifest works through the items of a   *)
(* request in order.  Each item has a receipt that is written before the   *)
(* device is created, so that a run that is repeated, or one that starts    *)
(* while another works on the same request, does not create the device     *)
(* twice.  Between the receipt, the device, the config file and the        *)
(* completion a run may fail or die.                                       *)
(*                                                                         *)
(* A slot without a device (recipient_unassigned) is later assigned to one *)
(* by assign_access_slot, which gives it a passport; devices are revoked   *)
(* meanwhile.                                                              *)
(*                                                                         *)
(* Runs are processes of the command line, which write their files to one   *)
(* directory.  create_operator_device, which AccessProvisioning models, is  *)
(* one step here.                                                          *)
(***************************************************************************)
EXTENDS Naturals, Sequences, FiniteSets

CONSTANTS
    Runs,        \* processes that issue manifests
    Requests,    \* request ids; the manifest of each is fixed
    Items,       \* the expanded slots of each request, in order
    Recipients,
    MaxDevices,  \* max_devices_per_recipient
    Assignments, \* request ids of assign_access_slot
    MaxTotal,    \* bound: devices created in all
    NoRequest

\* A slot: whom it is for, its label ("01", "02", ... when unassigned), and
\* whether it is for a device that is known.
Slot == [to : Recipients, label : Nat, mode : {"dedicated", "unassigned"}]

ASSUME IssuanceAssumption ==
    /\ \A r \in Requests : Items[r] \in Seq(Slot)
    /\ NoRequest \notin Requests
    /\ MaxDevices \in Nat \ {0} /\ MaxTotal \in Nat

NoFile == << >>

DeviceIds == 1..MaxTotal

VARIABLES
    requests,  \* requests that were admitted
    receipt,   \* the receipt of each item
    device,    \* rows of devices, by id
    passport,  \* the passport of each device
    files,     \* the device whose config each file holds
    assigned,  \* the device each assignment request was completed for
    pc, work   \* control state of each run, and what it works on

tables == <<requests, receipt, device, passport, assigned>>
vars   == <<tables, files, pc, work>>

ItemsOf(r) == {<<r, i>> : i \in DOMAIN Items[r]}
AllItems == UNION {ItemsOf(r) : r \in Requests}
SlotOf(it) == Items[it[1]][it[2]]

\* A file is named after its slot and, when that is dedicated, its device.
File == {NoFile} \cup (Slot \X (DeviceIds \cup {0}))

Receipt == [status : {"none", "started", "completed", "partial_failure"},
            dev : DeviceIds \cup {0}, file : File]
NoReceipt == [status |-> "none", dev |-> 0, file |-> NoFile]

AbsentRow == [status |-> "absent"]
DeviceRow == {AbsentRow} \cup
             [status : {"active", "revoked"}, item : AllItems, slot : Slot]

PC == {"idle", "admitted", "next", "receipt", "create", "attach", "complete", "failing"}

\* dev, file: what the run knows of the item it works on.
WorkItem == [item : (Requests \cup {NoRequest}) \X Nat,
             dev : DeviceIds \cup {0}, file : File]
NoWork == [item |-> <<NoRequest, 0>>, dev |-> 0, file |-> NoFile]

Created == {d \in DeviceIds : device[d].status # "absent"}
Active(u) == {d \in Created : device[d].status = "active" /\ device[d].slot.to = u}

\* The file of a dedicated device has the id of the device in its name.
FileOf(s, d) == IF s.mode = "unassigned" THEN <<s, 0>> ELSE <<s, d>>

-----------------------------------------------------------------------------
TypeOK ==
    /\ requests \subseteq Requests
    /\ receipt \in [AllItems -> Receipt]
    /\ device \in [DeviceIds -> DeviceRow]
    /\ passport \in [DeviceIds -> {"none", "live", "revoked"}]
    /\ DOMAIN files \subseteq File
    /\ files \in [DOMAIN files -> DeviceIds]
    /\ assigned \in [Assignments -> DeviceIds \cup {0}]
    /\ pc \in [Runs -> PC]
    /\ work \in [Runs -> WorkItem]
    /\ \A p \in Runs :
        /\ pc[p] # "idle" => work[p].item[1] \in Requests
        /\ pc[p] \notin {"idle", "admitted", "next"} => work[p].item \in AllItems
        /\ pc[p] \in {"attach", "complete"} => work[p].dev \in DeviceIds

Init ==
    /\ requests = {}
    /\ receipt = [it \in AllItems |-> NoReceipt]
    /\ device = [d \in DeviceIds |-> AbsentRow]
    /\ passport = [d \in DeviceIds |-> "none"]
    /\ files = << >>
    /\ assigned = [a \in Assignments |-> 0]
    /\ pc = [p \in Runs |-> "idle"]
    /\ work = [p \in Runs |-> NoWork]

Goto(p, label) == pc' = [pc EXCEPT ![p] = label]
Stop(p) == Goto(p, "idle") /\ work' = [work EXCEPT ![p] = NoWork]

-----------------------------------------------------------------------------
(* Admission of a whole request.                                           *)

SlotsFor(r, u) == {i \in DOMAIN Items[r] : Items[r][i].to = u}

\* The file names of completed receipts.
DeliveredNames(u) ==
    {receipt[it].file : it \in {jt \in AllItems :
                                  receipt[jt].status = "completed" /\ SlotOf(jt).to = u}}

\* _admit_full_batch: quota, and file names already delivered to the recipient
\* (compared without the id of a dedicated device).
BatchFits(r) ==
    \A u \in Recipients :
        /\ SlotsFor(r, u) # {} =>
              Cardinality(Active(u)) + Cardinality(SlotsFor(r, u)) <= MaxDevices
        /\ \A i \in SlotsFor(r, u) : <<Items[r][i], 0>> \notin DeliveredNames(u)

\* The request is known, or its batch is checked; an unfit one is refused.
Submit(p, r) ==
    /\ pc[p] = "idle"
    /\ r \in requests \/ BatchFits(r)
    /\ Goto(p, IF r \in requests THEN "next" ELSE "admitted")
    /\ work' = [work EXCEPT ![p].item = <<r, 1>>]
    /\ UNCHANGED <<tables, files>>

\* request_id is the primary key: only one of two runs that checked inserts.
CreateRequest(p) ==
    /\ pc[p] = "admitted"
    /\ LET r == work[p].item[1] IN
       \/ r \notin requests /\ requests' = requests \cup {r} /\ Goto(p, "next")
                            /\ work' = work
       \/ r \in requests /\ requests' = requests /\ Stop(p)
    /\ UNCHANGED <<receipt, device, passport, assigned, files>>

-----------------------------------------------------------------------------
(* The items of the request.                                               *)

\* Mutant: an unfinished item is tried again.
ReadReceipt_Retry(p) ==
    /\ pc[p] = "next"
    /\ LET it == work[p].item IN
       IF it \notin AllItems THEN Stop(p)
       ELSE \/ /\ receipt[it].status = "none" /\ Goto(p, "receipt") /\ work' = work
            \/ /\ receipt[it].status \in {"started", "partial_failure"}
               /\ Goto(p, "create") /\ work' = work
            \/ /\ receipt[it].status = "completed"
               /\ work' = [work EXCEPT ![p].item = <<it[1], it[2] + 1>>]
               /\ UNCHANGED pc
    /\ UNCHANGED <<tables, files>>

\* Mutant: an unfinished item is passed over.
ReadReceipt_Skip(p) ==
    /\ pc[p] = "next"
    /\ LET it == work[p].item IN
       IF it \notin AllItems THEN Stop(p)
       ELSE \/ /\ receipt[it].status = "none" /\ Goto(p, "receipt") /\ work' = work
            \/ /\ receipt[it].status # "none"
               /\ work' = [work EXCEPT ![p].item = <<it[1], it[2] + 1>>]
               /\ UNCHANGED pc
    /\ UNCHANGED <<tables, files>>

\* A completed item is passed over; one that was started and not completed
\* ends the run, whoever started it.
ReadReceipt(p) ==
    /\ pc[p] = "next"
    /\ LET it == work[p].item IN
       IF it \notin AllItems THEN Stop(p)
       ELSE \/ /\ receipt[it].status = "none" /\ Goto(p, "receipt") /\ work' = work
            \/ /\ receipt[it].status \in {"started", "partial_failure"} /\ Stop(p)
            \/ /\ receipt[it].status = "completed"
               /\ work' = [work EXCEPT ![p].item = <<it[1], it[2] + 1>>]
               /\ UNCHANGED pc
    /\ UNCHANGED <<tables, files>>

\* Mutant: the receipt is written when the item is done.
CreateReceipt_Late(p) ==
    /\ pc[p] = "receipt"
    /\ Goto(p, "create")
    /\ UNCHANGED <<tables, files, work>>

\* UNIQUE (request_id, item_index): the run that comes second ends.
CreateReceipt(p) ==
    /\ pc[p] = "receipt"
    /\ LET it == work[p].item IN
       \/ /\ receipt[it].status = "none"
          /\ receipt' = [receipt EXCEPT ![it].status = "started"]
          /\ Goto(p, "create") /\ work' = work
       \/ /\ receipt[it].status # "none" /\ receipt' = receipt /\ Stop(p)
    /\ UNCHANGED <<requests, device, passport, assigned, files>>

NewRow(p, d) ==
    /\ device' = [device EXCEPT ![d] = [status |-> "active", item |-> work[p].item,
                                        slot |-> SlotOf(work[p].item)]]
    /\ passport' = [passport EXCEPT ![d] =
                       IF SlotOf(work[p].item).mode = "dedicated" THEN "live" ELSE "none"]

\* Mutant: the quota is only looked at when the request is admitted.
CreateSlot_AdmissionOnly(p) ==
    /\ pc[p] = "create"
    /\ \E d \in DeviceIds :
        /\ d = Cardinality(Created) + 1
        /\ NewRow(p, d)
        /\ Goto(p, "attach")
        /\ work' = [work EXCEPT ![p].dev = d, ![p].file = FileOf(SlotOf(work[p].item), d)]
    /\ UNCHANGED <<requests, receipt, assigned, files>>

\* create_operator_device.  It may fail and leave the row behind all the same
\* (see AccessProvisioning!RecordPartialFailure).
CreateSlot(p) ==
    /\ pc[p] = "create"
    /\ \/ \E d \in DeviceIds :
           /\ d = Cardinality(Created) + 1
           /\ Cardinality(Active(SlotOf(work[p].item).to)) < MaxDevices
           /\ NewRow(p, d)
           /\ \/ /\ Goto(p, "attach")
                 /\ work' = [work EXCEPT ![p].dev = d,
                                         ![p].file = FileOf(SlotOf(work[p].item), d)]
              \/ Goto(p, "failing") /\ work' = work
       \/ Goto(p, "failing") /\ UNCHANGED <<device, passport, work>>
    /\ UNCHANGED <<requests, receipt, assigned, files>>

\* The files with one more, or one replaced.
FilesWith(f, d) == [g \in DOMAIN files \cup {f} |-> IF g = f THEN d ELSE files[g]]

\* Mutant: an existing file is replaced.
WriteArtifact_Overwrite(p) ==
    /\ pc[p] = "attach"
    /\ files' = FilesWith(work[p].file, work[p].dev)
    /\ Goto(p, "complete")
    /\ UNCHANGED <<tables, work>>

\* write_private_config_artifact links the file to its name, which fails if the
\* name is taken.
WriteArtifact(p) ==
    /\ pc[p] = "attach"
    /\ \/ /\ work[p].file \notin DOMAIN files
          /\ files' = FilesWith(work[p].file, work[p].dev)
          /\ Goto(p, "complete")
       \/ Goto(p, "failing") /\ UNCHANGED files
    /\ UNCHANGED <<tables, work>>

SetReceipt(p, status) ==
    receipt' = [receipt EXCEPT ![work[p].item] =
        IF @.status = "started"
        THEN [status |-> status, dev |-> work[p].dev, file |-> work[p].file] ELSE @]

\* The audit row and the receipt are one transaction, which may fail.
CompleteReceipt(p) ==
    /\ pc[p] = "complete"
    /\ \/ /\ SetReceipt(p, "completed")
          /\ Goto(p, "next")
          /\ LET it == work[p].item IN
             work' = [work EXCEPT ![p] = [NoWork EXCEPT !.item = <<it[1], it[2] + 1>>]]
       \/ Goto(p, "failing") /\ UNCHANGED <<receipt, work>>
    /\ UNCHANGED <<requests, device, passport, assigned, files>>

FailReceipt(p) ==
    /\ pc[p] = "failing"
    /\ SetReceipt(p, "partial_failure")
    /\ Stop(p)
    /\ UNCHANGED <<requests, device, passport, assigned, files>>

\* The process dies, or an exception nobody catches ends it: everything it
\* committed stays.
Die(p) == pc[p] # "idle" /\ Stop(p) /\ UNCHANGED <<tables, files>>

-----------------------------------------------------------------------------
(* After issuance.                                                         *)

\* Mutant: the status is not part of the UPDATE.
AssignSlot_Revoked(a, d) ==
    /\ assigned[a] = 0
    /\ d \in Created /\ device[d].slot.mode = "unassigned"
    /\ device' = [device EXCEPT ![d].slot.mode = "dedicated"]
    /\ passport' = [passport EXCEPT ![d] = "live"]
    /\ assigned' = [assigned EXCEPT ![a] = d]
    /\ UNCHANGED <<requests, receipt, files, pc, work>>

\* Mutant: the mode is not part of the UPDATE.
AssignSlot_Taken(a, d) ==
    /\ assigned[a] = 0
    /\ d \in Created /\ device[d].status # "revoked"
    /\ device' = [device EXCEPT ![d].slot.mode = "dedicated"]
    /\ passport' = [passport EXCEPT ![d] = "live"]
    /\ assigned' = [assigned EXCEPT ![a] = d]
    /\ UNCHANGED <<requests, receipt, files, pc, work>>

\* The guarded UPDATE of the device and the INSERT of the request.
CompleteAssignment(a, d) ==
    /\ d \in Created
    /\ device[d].slot.mode = "unassigned" /\ device[d].status # "revoked"
    /\ device' = [device EXCEPT ![d].slot.mode = "dedicated"]
    /\ assigned' = [assigned EXCEPT ![a] = d]

\* With the passport they are one transaction; what was checked before it is
\* checked by it again.
AssignSlot(a, d) ==
    /\ assigned[a] = 0
    /\ CompleteAssignment(a, d)
    /\ passport' = [passport EXCEPT ![d] = "live"]
    /\ UNCHANGED <<requests, receipt, files, pc, work>>

\* Mutant: the status word of a user written to a device.
RevokeDevice_UserStatus(d) ==
    /\ d \in Created
    /\ device' = [device EXCEPT ![d].status = "blocked"]
    /\ passport' = [passport EXCEPT ![d] = IF @ = "none" THEN "none" ELSE "revoked"]
    /\ UNCHANGED <<requests, receipt, assigned, files, pc, work>>

\* revoke_access_slot: the device with its passport, whatever the mode.
RevokeDevice(d) ==
    /\ d \in Created
    /\ device' = [device EXCEPT ![d].status = "revoked"]
    /\ passport' = [passport EXCEPT ![d] = IF @ = "none" THEN "none" ELSE "revoked"]
    /\ UNCHANGED <<requests, receipt, assigned, files, pc, work>>

-----------------------------------------------------------------------------
Work(p) ==
    \/ CreateRequest(p) \/ ReadReceipt(p) \/ CreateReceipt(p) \/ CreateSlot(p)
    \/ WriteArtifact(p) \/ CompleteReceipt(p) \/ FailReceipt(p)

Next ==
    \/ \E p \in Runs : (\E r \in Requests : Submit(p, r)) \/ Work(p) \/ Die(p)
    \/ \E d \in DeviceIds : RevokeDevice(d) \/ \E a \in Assignments : AssignSlot(a, d)

Spec == Init /\ [][Next]_vars

-----------------------------------------------------------------------------
\* However often a request is repeated, and by however many runs, an item gets
\* at most one device.
ItemGrantedOnce ==
    \A d, e \in Created : device[d].item = device[e].item => d = e

\* Whatever happens to a run, there is a receipt for every device it created,
\* under which an operator finds it.
GrantHasReceipt == \A d \in Created : receipt[device[d].item].status # "none"

\* An item is begun only when all items before it are complete.
ItemsInOrder ==
    \A it, jt \in AllItems :
        it[1] = jt[1] /\ it[2] < jt[2] /\ receipt[jt].status # "none" =>
            receipt[it].status = "completed"

\* The file a completed receipt names holds the config of the device it names,
\* which is the one created for that item.
CompletedDelivered ==
    \A it \in AllItems : receipt[it].status = "completed" =>
        LET d == receipt[it].dev IN
        /\ d \in Created /\ device[d].item = it
        /\ receipt[it].file \in DOMAIN files /\ files[receipt[it].file] = d

\* Two requests that were admitted at the same time do not together exceed the
\* quota of a recipient.
RecipientWithinQuota == \A u \in Recipients : Cardinality(Active(u)) <= MaxDevices

\* A passport does not outlive the access it stands for.
PassportRevokedWithDevice ==
    \A d \in Created : device[d].status = "revoked" => passport[d] # "live"

KeepsAssignments ==
    \A a \in Assignments : assigned[a] # 0 =>
        /\ assigned'[a] = assigned[a]
        /\ \A b \in Assignments \ {a} : assigned'[b] # assigned[a]

\* An assignment request stays with the device it was completed for, and no
\* other request gets that device.
AssignmentFinal == [][KeepsAssignments]_vars

=============================================================================
