------------------------ MODULE ConfigIssuance_proofs ------------------------
(***************************************************************************)
(* Proofs about ConfigIssuance, for every number of runs, every set of      *)
(* requests and manifests, every quota and every bound on devices.          *)
(*                                                                         *)
(* The argument is the receipt: between its INSERT and its completion one   *)
(* run at most holds an item, and only that run creates the device of the   *)
(* item, writes its file and completes it.                                  *)
(***************************************************************************)
EXTENDS ConfigIssuance, FiniteSetTheorems, TLAPS

\* The run wrote the receipt of its item and has not left the item yet.
Holds(p) == pc[p] \in {"create", "attach", "complete", "failing"}

\* Device ids are given out in order.
IdsInOrder == \E n \in Nat : Created = 1..n

\* The receipt of an item that a run holds is open, and the item is its own.
HeldAlone ==
    /\ \A p \in Runs : Holds(p) => receipt[work[p].item].status = "started"
    /\ \A p, q \in Runs : Holds(p) /\ Holds(q) /\ work[p].item = work[q].item => p = q

\* Before it creates the device there is none for the item.
NoneYet ==
    \A p \in Runs : pc[p] = "create" => \A d \in Created : device[d].item # work[p].item

\* Afterwards it knows the device, and then the file.
KnowsDevice ==
    \A p \in Runs : pc[p] \in {"attach", "complete"} =>
        work[p].dev \in Created /\ device[work[p].dev].item = work[p].item
KnowsFile ==
    \A p \in Runs : pc[p] = "complete" =>
        work[p].file \in DOMAIN files /\ files[work[p].file] = work[p].dev

\* A run works on an item when it has seen all items before it complete.
RunsInOrder ==
    \A p \in Runs : pc[p] # "idle" =>
        \A it \in AllItems : it[1] = work[p].item[1] /\ it[2] < work[p].item[2] =>
            receipt[it].status = "completed"

\* A device that was assigned stays in use, and has one assignment.
AssignedTaken ==
    /\ \A a \in Assignments : assigned[a] # 0 =>
          assigned[a] \in Created /\ device[assigned[a]].slot.mode = "dedicated"
    /\ \A a, b \in Assignments : assigned[a] # 0 /\ assigned[a] = assigned[b] => a = b

ReceiptInv == HeldAlone /\ NoneYet /\ ItemGrantedOnce /\ GrantHasReceipt
FileInv    == KnowsDevice /\ KnowsFile /\ CompletedDelivered
OrderInv   == RunsInOrder /\ ItemsInOrder
IInv == /\ TypeOK /\ IdsInOrder /\ ReceiptInv /\ FileInv /\ OrderInv
        /\ RecipientWithinQuota /\ PassportRevokedWithDevice /\ AssignedTaken

-----------------------------------------------------------------------------
(* Items, files and rows.                                                  *)

\* An item is a request with an index into its manifest.
LEMMA ItemShape ==
  ASSUME NEW it \in AllItems
  PROVE  /\ it = <<it[1], it[2]>> /\ it[1] \in Requests /\ it[2] \in Nat
         /\ SlotOf(it) \in Slot
<1>1. PICK r \in Requests : it \in ItemsOf(r)
  BY DEF AllItems
<1>4. PICK i \in DOMAIN Items[r] : it = <<r, i>>
  BY <1>1 DEF ItemsOf
<1>2. Items[r] \in Seq(Slot)
  BY IssuanceAssumption
<1>3. i \in Nat /\ Items[r][i] \in Slot
  BY <1>2
<1> QED BY <1>4, <1>3 DEF SlotOf

LEMMA NoWorkType == NoWork \in WorkItem /\ NoReceipt \in Receipt
  BY DEF NoWork, WorkItem, File, NoReceipt, Receipt

LEMMA FileOfType ==
  ASSUME NEW s \in Slot, NEW d \in DeviceIds
  PROVE  FileOf(s, d) \in File
  BY DEF FileOf, File

\* A device that was created has a whole row.
LEMMA CreatedRow ==
  ASSUME TypeOK, NEW d \in Created
  PROVE  /\ d \in DeviceIds
         /\ device[d] \in [status : {"active", "revoked"}, item : AllItems, slot : Slot]
  BY DEF TypeOK, Created, DeviceRow, AbsentRow

-----------------------------------------------------------------------------
(* Types.                                                                  *)

LEMMA TypeInit == Init => TypeOK
<1> SUFFICES ASSUME Init PROVE TypeOK
  OBVIOUS
<1>1. files = << >> => DOMAIN files = {}
  OBVIOUS
<1> QED BY <1>1, NoWorkType DEF Init, TypeOK, DeviceRow, PC, NoFile

LEMMA StopType ==
  ASSUME TypeOK, NEW p \in Runs, Stop(p)
  PROVE  /\ pc' \in [Runs -> PC] /\ work' \in [Runs -> WorkItem]
         /\ \A q \in Runs : pc'[q] # "idle" => q # p /\ pc'[q] = pc[q] /\ work'[q] = work[q]
  BY NoWorkType DEF TypeOK, Stop, Goto, PC

LEMMA GotoType ==
  ASSUME TypeOK, NEW p \in Runs, NEW l \in PC, Goto(p, l)
  PROVE  pc' \in [Runs -> PC]
  BY DEF TypeOK, Goto

LEMMA TypeSubmit ==
  ASSUME TypeOK, NEW p \in Runs, NEW r \in Requests, Submit(p, r)
  PROVE  TypeOK'
<1>1. /\ work' \in [Runs -> WorkItem] /\ work'[p].item[1] \in Requests
      /\ \A q \in Runs \ {p} : work'[q] = work[q]
  BY DEF Submit, TypeOK, WorkItem
<1>2. \A q \in Runs \ {p} : pc'[q] = pc[q]
  BY DEF Submit, TypeOK, Goto
<1>3. pc' \in [Runs -> PC] /\ pc'[p] \in {"next", "admitted"}
  BY DEF Submit, TypeOK, PC, Goto
<1> QED BY <1>1, <1>2, <1>3 DEF Submit, TypeOK, tables

LEMMA TypeCreateRequest ==
  ASSUME TypeOK, NEW p \in Runs, CreateRequest(p)
  PROVE  TypeOK'
<1> DEFINE r == work[p].item[1]
<1>1. CASE r \notin requests /\ requests' = requests \cup {r} /\ Goto(p, "next") /\ work' = work
  <2>1. r \in Requests
    BY DEF CreateRequest, TypeOK, PC
  <2> QED BY <1>1, <2>1 DEF CreateRequest, TypeOK, PC, Goto
<1>2. CASE r \in requests /\ requests' = requests /\ Stop(p)
  BY <1>2, StopType DEF CreateRequest, TypeOK
<1> QED BY <1>1, <1>2 DEF CreateRequest

LEMMA TypeReadReceipt ==
  ASSUME TypeOK, NEW p \in Runs, ReadReceipt(p)
  PROVE  TypeOK'
<1> DEFINE it == work[p].item
<1>1. CASE Stop(p)
  BY <1>1, StopType DEF ReadReceipt, TypeOK, tables
<1>2. CASE it \in AllItems /\ Goto(p, "receipt") /\ work' = work
  BY <1>2, GotoType DEF ReadReceipt, TypeOK, tables, PC, Goto
<1>3. CASE work' = [work EXCEPT ![p].item = <<it[1], it[2] + 1>>] /\ UNCHANGED pc
  BY <1>3 DEF ReadReceipt, TypeOK, tables, WorkItem, PC
<1> QED BY <1>1, <1>2, <1>3 DEF ReadReceipt

LEMMA TypeCreateReceipt ==
  ASSUME TypeOK, NEW p \in Runs, CreateReceipt(p)
  PROVE  TypeOK'
<1>1. CASE Stop(p) /\ receipt' = receipt
  BY <1>1, StopType DEF CreateReceipt, TypeOK
<1>2. CASE receipt' = [receipt EXCEPT ![work[p].item].status = "started"]
           /\ Goto(p, "create") /\ work' = work
  <2>1. receipt' \in [AllItems -> Receipt]
    BY <1>2 DEF TypeOK, Receipt
  <2> QED BY <1>2, <2>1 DEF CreateReceipt, TypeOK, Goto, PC
<1> QED BY <1>1, <1>2 DEF CreateReceipt

\* The row of a new device, and its passport.
LEMMA NewRowType ==
  ASSUME TypeOK, NEW p \in Runs, pc[p] = "create", NEW d \in DeviceIds, NewRow(p, d)
  PROVE  device' \in [DeviceIds -> DeviceRow] /\ passport' \in [DeviceIds -> {"none", "live", "revoked"}]
<1>1. work[p].item \in AllItems
  BY DEF TypeOK
<1>2. SlotOf(work[p].item) \in Slot
  BY <1>1, ItemShape
<1>3. [status |-> "active", item |-> work[p].item, slot |-> SlotOf(work[p].item)] \in DeviceRow
  BY <1>1, <1>2 DEF DeviceRow
<1> QED BY <1>3 DEF NewRow, TypeOK

LEMMA TypeCreateSlot ==
  ASSUME TypeOK, NEW p \in Runs, CreateSlot(p)
  PROVE  TypeOK'
<1> USE DEF PC
<1>0. pc[p] = "create" /\ work[p].item \in AllItems
  BY DEF CreateSlot, TypeOK
<1>1. CASE Goto(p, "failing") /\ UNCHANGED <<device, passport, work>>
  BY <1>0, <1>1 DEF CreateSlot, TypeOK, Goto
<1>2. ASSUME NEW d \in DeviceIds, NewRow(p, d), Goto(p, "failing"), work' = work
      PROVE  TypeOK'
  BY <1>0, <1>2, NewRowType DEF CreateSlot, TypeOK, Goto
<1>3. ASSUME NEW d \in DeviceIds, NewRow(p, d), Goto(p, "attach"),
             work' = [work EXCEPT ![p].dev = d, ![p].file = FileOf(SlotOf(work[p].item), d)]
      PROVE  TypeOK'
  <2>1. FileOf(SlotOf(work[p].item), d) \in File
    BY <1>0, ItemShape, FileOfType
  <2>2. work' \in [Runs -> WorkItem] /\ work'[p].dev = d
    BY <1>3, <2>1 DEF TypeOK, WorkItem
  <2>3. \A q \in Runs : work'[q].item = work[q].item /\ (q # p => work'[q] = work[q])
    BY <1>3 DEF TypeOK, WorkItem
  <2> QED BY <1>0, <1>3, <2>2, <2>3, NewRowType DEF CreateSlot, TypeOK, Goto
<1> QED BY <1>1, <1>2, <1>3 DEF CreateSlot

LEMMA TypeWriteArtifact ==
  ASSUME TypeOK, NEW p \in Runs, WriteArtifact(p)
  PROVE  TypeOK' /\ \A f \in DOMAIN files : f \in DOMAIN files' /\ files'[f] = files[f]
<1> USE DEF PC
<1>1. CASE Goto(p, "failing") /\ UNCHANGED files
  BY <1>1 DEF WriteArtifact, TypeOK, Goto, tables
<1>2. CASE /\ work[p].file \notin DOMAIN files
           /\ files' = FilesWith(work[p].file, work[p].dev) /\ Goto(p, "complete")
  BY <1>2 DEF WriteArtifact, TypeOK, Goto, tables, FilesWith, WorkItem
<1> QED BY <1>1, <1>2 DEF WriteArtifact

LEMMA SetReceiptType ==
  ASSUME TypeOK, NEW p \in Runs, NEW st \in {"completed", "partial_failure"},
         SetReceipt(p, st)
  PROVE  receipt' \in [AllItems -> Receipt]
  BY DEF TypeOK, SetReceipt, Receipt, WorkItem

LEMMA TypeCompleteReceipt ==
  ASSUME TypeOK, NEW p \in Runs, CompleteReceipt(p)
  PROVE  TypeOK'
<1> USE DEF PC
<1>1. CASE Goto(p, "failing") /\ UNCHANGED <<receipt, work>>
  BY <1>1 DEF CompleteReceipt, TypeOK, Goto
<1>2. CASE /\ SetReceipt(p, "completed") /\ Goto(p, "next")
           /\ work' = [work EXCEPT ![p] =
                [NoWork EXCEPT !.item = <<work[p].item[1], work[p].item[2] + 1>>]]
  <2>1. [NoWork EXCEPT !.item = <<work[p].item[1], work[p].item[2] + 1>>] \in WorkItem
    BY DEF TypeOK, WorkItem, NoWork, File
  <2> QED BY <1>2, <2>1, SetReceiptType DEF CompleteReceipt, TypeOK, Goto
<1> QED BY <1>1, <1>2 DEF CompleteReceipt

LEMMA TypeFailReceipt ==
  ASSUME TypeOK, NEW p \in Runs, FailReceipt(p)
  PROVE  TypeOK'
  BY SetReceiptType, StopType DEF FailReceipt, TypeOK

LEMMA TypeDie ==
  ASSUME TypeOK, NEW p \in Runs, Die(p)
  PROVE  TypeOK'
  BY StopType DEF Die, TypeOK, tables

LEMMA TypeAssignSlot ==
  ASSUME TypeOK, NEW a \in Assignments, NEW d \in DeviceIds, AssignSlot(a, d)
  PROVE  TypeOK'
<1>1. [device[d] EXCEPT !.slot.mode = "dedicated"] \in DeviceRow
  BY CreatedRow DEF AssignSlot, CompleteAssignment, DeviceRow, Slot
<1> QED BY <1>1 DEF AssignSlot, CompleteAssignment, TypeOK

LEMMA TypeRevokeDevice ==
  ASSUME TypeOK, NEW d \in DeviceIds, RevokeDevice(d)
  PROVE  TypeOK'
<1>1. [device[d] EXCEPT !.status = "revoked"] \in DeviceRow
  BY CreatedRow DEF RevokeDevice, DeviceRow
<1> QED BY <1>1 DEF RevokeDevice, TypeOK

LEMMA TypeNext ==
  ASSUME TypeOK, [Next]_vars
  PROVE  TypeOK'
<1>1. CASE UNCHANGED vars
  BY <1>1 DEF vars, tables, TypeOK, Created
<1>2. ASSUME NEW p \in Runs, Work(p) \/ Die(p) \/ \E r \in Requests : Submit(p, r)
      PROVE  TypeOK'
  BY <1>2, TypeSubmit, TypeCreateRequest, TypeReadReceipt, TypeCreateReceipt,
     TypeCreateSlot, TypeWriteArtifact, TypeCompleteReceipt, TypeFailReceipt, TypeDie
  DEF Work
<1>3. ASSUME NEW d \in DeviceIds, RevokeDevice(d) \/ \E a \in Assignments : AssignSlot(a, d)
      PROVE  TypeOK'
  BY <1>3, TypeRevokeDevice, TypeAssignSlot
<1> QED BY <1>1, <1>2, <1>3 DEF Next

(* Every row, receipt, file and control state has its type: TypeOK of the   *)
(* issuance run.                                                            *)
THEOREM TypeCorrect == Spec => []TypeOK
  BY TypeInit, TypeNext, PTL DEF Spec

-----------------------------------------------------------------------------
(* Who moves, and what the steps do to the tables.                         *)

\* The control state of the other runs is untouched.
Alone(p) == \A q \in Runs \ {p} : pc'[q] = pc[q] /\ work'[q] = work[q]

LEMMA RunsMoveAlone ==
  ASSUME TypeOK, NEW p \in Runs, Work(p) \/ Die(p) \/ \E r \in Requests : Submit(p, r)
  PROVE  Alone(p)
  BY DEF TypeOK, Alone, Work, Submit, CreateRequest, ReadReceipt, CreateReceipt, CreateSlot,
         WriteArtifact, CompleteReceipt, FailReceipt, Die, Stop, Goto

\* Steps of a run that touch neither receipts nor devices and do not begin
\* to hold an item.
LetsGo(p) ==
    /\ Alone(p) /\ UNCHANGED <<receipt, device>>
    /\ pc'[p] \notin {"create", "attach", "complete"}
    /\ pc'[p] = "failing" => Holds(p) /\ work'[p].item = work[p].item

LEMMA StepsLetGo ==
  ASSUME TypeOK, NEW p \in Runs
  PROVE  /\ \A r \in Requests : Submit(p, r) => LetsGo(p)
         /\ CreateRequest(p) \/ ReadReceipt(p) \/ Die(p) => LetsGo(p)
<1> USE RunsMoveAlone DEF LetsGo, Holds, TypeOK, Work, Goto, Stop, tables
<1>1. \A r \in Requests : Submit(p, r) => LetsGo(p)
  BY DEF Submit
<1>2. CreateRequest(p) => LetsGo(p)
  BY DEF CreateRequest
<1>3. ReadReceipt(p) => LetsGo(p)
  BY DEF ReadReceipt
<1>4. Die(p) => LetsGo(p)
  BY DEF Die
<1> QED BY <1>1, <1>2, <1>3, <1>4

-----------------------------------------------------------------------------
(* An item is granted once.                                                *)

LEMMA ReceiptInvLetsGo ==
  ASSUME TypeOK, ReceiptInv, NEW p \in Runs, LetsGo(p)
  PROVE  ReceiptInv'
<1> USE DEF LetsGo, Alone, Holds, Created
<1>1. HeldAlone'
  BY DEF ReceiptInv, HeldAlone
<1>2. NoneYet'
  BY DEF ReceiptInv, NoneYet
<1> QED BY <1>1, <1>2 DEF ReceiptInv, ItemGrantedOnce, GrantHasReceipt

LEMMA ReceiptInvCreateReceipt ==
  ASSUME TypeOK, ReceiptInv, NEW p \in Runs, CreateReceipt(p)
  PROVE  ReceiptInv'
<1> USE RunsMoveAlone DEF Work
<1>1. CASE Stop(p) /\ receipt' = receipt
  <2>1. LetsGo(p)
    BY <1>1 DEF CreateReceipt, LetsGo, Stop, Goto, TypeOK
  <2> QED BY <2>1, ReceiptInvLetsGo
<1>2. CASE /\ receipt[work[p].item].status = "none"
           /\ receipt' = [receipt EXCEPT ![work[p].item].status = "started"]
           /\ Goto(p, "create") /\ work' = work
  <2> DEFINE it == work[p].item
  <2>1. it \in AllItems /\ pc' = [pc EXCEPT ![p] = "create"] /\ UNCHANGED <<device, work>>
    BY <1>2 DEF CreateReceipt, TypeOK, Goto
  <2>2. /\ receipt'[it].status = "started"
        /\ \A jt \in AllItems \ {it} : receipt'[jt] = receipt[jt]
    BY <1>2, <2>1 DEF TypeOK, Receipt
  <2>3. \A q \in Runs : Holds(q) => work[q].item # it
    BY <1>2 DEF ReceiptInv, HeldAlone
  <2>4. \A d \in Created : device[d].item # it
    BY <1>2 DEF ReceiptInv, GrantHasReceipt
  <2>5. \A q \in Runs : Holds(q)' <=> q = p \/ Holds(q)
    BY <2>1 DEF Holds, TypeOK
  <2>6. HeldAlone'
    BY <2>1, <2>2, <2>3, <2>5 DEF ReceiptInv, HeldAlone, Holds, TypeOK
  <2>7. NoneYet'
    BY <2>1, <2>4 DEF ReceiptInv, NoneYet, Created, TypeOK
  <2>8. GrantHasReceipt'
    BY <2>1, <2>2, CreatedRow DEF ReceiptInv, GrantHasReceipt, Created
  <2> QED BY <2>1, <2>6, <2>7, <2>8 DEF ReceiptInv, ItemGrantedOnce, Created
<1> QED BY <1>1, <1>2 DEF CreateReceipt

\* The id of the next device is not in use.
LEMMA FreshId ==
  ASSUME IdsInOrder, NEW d, d = Cardinality(Created) + 1
  PROVE  /\ d \notin Created /\ d \in Nat
         /\ \E n \in Nat : Created \cup {d} = 1..n
<1>1. PICK n \in Nat : Created = 1..n
  BY DEF IdsInOrder
<1>2. Cardinality(1..n) = n
  BY FS_Interval
<1>3. d = n + 1 /\ (1..n) \cup {d} = 1..(n + 1) /\ d \notin 1..n
  BY <1>1, <1>2
<1> QED BY <1>1, <1>3

\* What CreateSlot does: nothing but fail, or a new row for the item of p.
LEMMA CreateSlotCases ==
  ASSUME TypeOK, IdsInOrder, NEW p \in Runs, CreateSlot(p)
  PROVE  /\ pc[p] = "create" /\ work[p].item \in AllItems /\ work'[p].item = work[p].item
         /\ \/ LetsGo(p) /\ UNCHANGED <<passport, work>>
            \/ \E d \in DeviceIds \ Created :
                 /\ Cardinality(Active(SlotOf(work[p].item).to)) < MaxDevices
                 /\ NewRow(p, d) /\ Created' = Created \cup {d}
                 /\ pc'[p] = "failing" \/ (pc'[p] = "attach" /\ work'[p].dev = d)
<1>1. pc[p] = "create" /\ work[p].item \in AllItems /\ Holds(p) /\ Alone(p)
  BY RunsMoveAlone DEF CreateSlot, TypeOK, Holds, Work
<1>2. CASE Goto(p, "failing") /\ UNCHANGED <<device, passport, work>>
  BY <1>1, <1>2 DEF CreateSlot, LetsGo, Goto, TypeOK
<1>3. ASSUME NEW d \in DeviceIds, d = Cardinality(Created) + 1, NewRow(p, d)
      PROVE  d \notin Created /\ Created' = Created \cup {d}
  <2>1. d \notin Created
    BY <1>3, FreshId
  <2> QED BY <2>1, <1>3 DEF NewRow, Created, TypeOK
<1>4. CASE ~(Goto(p, "failing") /\ UNCHANGED <<device, passport, work>>)
  <2>1. PICK d \in DeviceIds :
           /\ d = Cardinality(Created) + 1
           /\ Cardinality(Active(SlotOf(work[p].item).to)) < MaxDevices
           /\ NewRow(p, d)
           /\ \/ /\ Goto(p, "attach")
                 /\ work' = [work EXCEPT ![p].dev = d,
                                         ![p].file = FileOf(SlotOf(work[p].item), d)]
              \/ Goto(p, "failing") /\ work' = work
    BY <1>4 DEF CreateSlot
  <2>2. /\ work'[p].item = work[p].item
        /\ pc'[p] = "failing" \/ (pc'[p] = "attach" /\ work'[p].dev = d)
    <3>1. \A l \in PC : Goto(p, l) => pc'[p] = l
      BY DEF TypeOK, Goto
    <3>2. CASE Goto(p, "failing") /\ work' = work
      BY <3>1, <3>2 DEF PC
    <3>3. CASE /\ Goto(p, "attach")
               /\ work' = [work EXCEPT ![p].dev = d,
                                       ![p].file = FileOf(SlotOf(work[p].item), d)]
      <4>1. work'[p].item = work[p].item /\ work'[p].dev = d
        BY <3>3 DEF TypeOK, WorkItem
      <4> QED BY <3>1, <3>3, <4>1 DEF PC
    <3> QED BY <2>1, <3>2, <3>3
  <2> QED BY <1>1, <1>3, <2>1, <2>2
<1> QED BY <1>2, <1>4

LEMMA ReceiptInvCreateSlot ==
  ASSUME TypeOK, IdsInOrder, ReceiptInv, NEW p \in Runs, CreateSlot(p)
  PROVE  ReceiptInv'
<1> USE DEF Holds
<1>1. CASE LetsGo(p)
  BY <1>1, ReceiptInvLetsGo
<1>2. ASSUME NEW d \in DeviceIds \ Created, NewRow(p, d), Created' = Created \cup {d},
             pc'[p] \in {"failing", "attach"}
      PROVE  ReceiptInv'
  <2> DEFINE it == work[p].item
  <2>1. /\ pc[p] = "create" /\ it \in AllItems /\ work'[p].item = it
        /\ Alone(p) /\ receipt' = receipt
    BY CreateSlotCases, RunsMoveAlone DEF CreateSlot, Work
  <2>2. /\ device'[d].item = it /\ receipt[it].status = "started"
        /\ \A e \in Created : device'[e] = device[e] /\ device[e].item # it
    BY <1>2, <2>1 DEF NewRow, TypeOK, ReceiptInv, HeldAlone, NoneYet, Created
  <2>3. HeldAlone'
    BY <1>2, <2>1 DEF ReceiptInv, HeldAlone, Alone
  <2>4. \A q \in Runs \ {p} : pc[q] = "create" => work[q].item # it
    BY <2>1 DEF ReceiptInv, HeldAlone
  <2>5. NoneYet'
    BY <1>2, <2>1, <2>2, <2>4 DEF ReceiptInv, NoneYet, Alone
  <2>6. ItemGrantedOnce'
    BY <1>2, <2>2 DEF ReceiptInv, ItemGrantedOnce
  <2>7. GrantHasReceipt'
    BY <1>2, <2>1, <2>2 DEF ReceiptInv, GrantHasReceipt
  <2> QED BY <2>3, <2>5, <2>6, <2>7 DEF ReceiptInv
<1> QED BY <1>1, <1>2, CreateSlotCases

LEMMA ReceiptInvWriteArtifact ==
  ASSUME TypeOK, ReceiptInv, NEW p \in Runs, WriteArtifact(p)
  PROVE  ReceiptInv'
<1>1. /\ Alone(p) /\ UNCHANGED <<receipt, device, work>>
      /\ pc[p] = "attach" /\ pc'[p] \in {"complete", "failing"}
  BY RunsMoveAlone DEF WriteArtifact, Work, tables, Goto, TypeOK
<1> QED BY <1>1 DEF ReceiptInv, HeldAlone, NoneYet, ItemGrantedOnce, GrantHasReceipt,
                    Alone, Holds, Created

\* Closing the receipt of an item that p holds.
LEMMA ReceiptInvClose ==
  ASSUME TypeOK, ReceiptInv, NEW p \in Runs, Holds(p), Alone(p), UNCHANGED device,
         pc'[p] \in {"next", "idle"}, NEW st \in {"completed", "partial_failure"},
         SetReceipt(p, st)
  PROVE  ReceiptInv'
<1> DEFINE it == work[p].item
<1>1. /\ it \in AllItems /\ receipt'[it].status = st
      /\ \A jt \in AllItems \ {it} : receipt'[jt] = receipt[jt]
  BY DEF TypeOK, Holds, SetReceipt, ReceiptInv, HeldAlone
<1>2. \A q \in Runs : Holds(q)' => q # p /\ Holds(q) /\ work'[q] = work[q] /\ work[q].item # it
  BY DEF ReceiptInv, HeldAlone, Holds, Alone
<1>3. HeldAlone'
  BY <1>1, <1>2 DEF ReceiptInv, HeldAlone, Holds, TypeOK
<1>4. NoneYet'
  BY <1>2 DEF ReceiptInv, NoneYet, Holds, Alone, Created
<1>5. GrantHasReceipt'
  BY <1>1, CreatedRow DEF ReceiptInv, GrantHasReceipt, Created
<1> QED BY <1>3, <1>4, <1>5 DEF ReceiptInv, ItemGrantedOnce, Created

LEMMA ReceiptInvCompleteReceipt ==
  ASSUME TypeOK, ReceiptInv, NEW p \in Runs, CompleteReceipt(p)
  PROVE  ReceiptInv'
<1>1. Alone(p) /\ Holds(p) /\ UNCHANGED device
  BY RunsMoveAlone DEF CompleteReceipt, Work, Holds
<1>2. CASE Goto(p, "failing") /\ UNCHANGED <<receipt, work>>
  BY <1>1, <1>2, ReceiptInvLetsGo DEF LetsGo, Goto, TypeOK
<1>3. CASE SetReceipt(p, "completed") /\ Goto(p, "next")
  BY <1>1, <1>3, ReceiptInvClose DEF Goto, TypeOK
<1> QED BY <1>2, <1>3 DEF CompleteReceipt

LEMMA ReceiptInvFailReceipt ==
  ASSUME TypeOK, ReceiptInv, NEW p \in Runs, FailReceipt(p)
  PROVE  ReceiptInv'
  BY RunsMoveAlone, ReceiptInvClose DEF FailReceipt, Work, Holds, Stop, Goto, TypeOK

\* Assignments and revocations leave the devices there, with their items.
KeepsItems ==
    /\ Created' = Created
    /\ \A d \in Created : device'[d].item = device[d].item /\ device'[d].slot.to = device[d].slot.to

LEMMA AssignSlotKeeps ==
  ASSUME TypeOK, NEW a \in Assignments, NEW d \in DeviceIds, AssignSlot(a, d)
  PROVE  KeepsItems
<1>1. \A e \in DeviceIds \ {d} : device'[e] = device[e]
  BY DEF AssignSlot, CompleteAssignment, TypeOK
<1>2. /\ device'[d].status = device[d].status
      /\ device'[d].item = device[d].item /\ device'[d].slot.to = device[d].slot.to
  BY CreatedRow DEF AssignSlot, CompleteAssignment, TypeOK, Slot
<1> QED BY <1>1, <1>2 DEF KeepsItems, Created

LEMMA RevokeDeviceKeeps ==
  ASSUME TypeOK, NEW d \in DeviceIds, RevokeDevice(d)
  PROVE  KeepsItems
<1>1. \A e \in DeviceIds \ {d} : device'[e] = device[e]
  BY DEF RevokeDevice, TypeOK
<1>2. /\ d \in Created /\ device'[d].status = "revoked"
      /\ device'[d].item = device[d].item /\ device'[d].slot = device[d].slot
  BY CreatedRow DEF RevokeDevice, TypeOK
<1> QED BY <1>1, <1>2 DEF KeepsItems, Created

LEMMA ReceiptInvKeeps ==
  ASSUME TypeOK, ReceiptInv, KeepsItems, UNCHANGED <<receipt, pc, work>>
  PROVE  ReceiptInv'
  BY DEF ReceiptInv, HeldAlone, NoneYet, ItemGrantedOnce, GrantHasReceipt, Holds, KeepsItems

\* The steps of a run that touch neither the devices' rows nor the quota.
RunOnly(p) ==
    \/ (\E r \in Requests : Submit(p, r)) \/ CreateRequest(p) \/ ReadReceipt(p)
    \/ CreateReceipt(p) \/ WriteArtifact(p) \/ CompleteReceipt(p) \/ FailReceipt(p) \/ Die(p)

LEMMA RunOnlyKeeps ==
  ASSUME NEW p \in Runs, RunOnly(p)
  PROVE  UNCHANGED <<device, passport, assigned>>
  BY DEF RunOnly, Submit, CreateRequest, ReadReceipt, CreateReceipt, WriteArtifact,
         CompleteReceipt, FailReceipt, Die, tables

\* The actions of Next, in the order the proofs below take them.
LEMMA NextCases ==
  ASSUME [Next]_vars
  PROVE  \/ UNCHANGED vars
         \/ \E p \in Runs : RunOnly(p) \/ CreateSlot(p)
         \/ \E d \in DeviceIds : RevokeDevice(d)
         \/ \E d \in DeviceIds, a \in Assignments : AssignSlot(a, d)
  BY DEF Next, Work, RunOnly

LEMMA ReceiptInvNext ==
  ASSUME TypeOK, IdsInOrder, ReceiptInv, [Next]_vars
  PROVE  ReceiptInv'
<1>1. CASE UNCHANGED vars
  BY <1>1 DEF vars, tables, ReceiptInv, HeldAlone, NoneYet, ItemGrantedOnce, GrantHasReceipt,
              Holds, Created
<1>2. ASSUME NEW p \in Runs, RunOnly(p) PROVE ReceiptInv'
  BY <1>2, StepsLetGo, ReceiptInvLetsGo, ReceiptInvCreateReceipt, ReceiptInvWriteArtifact,
     ReceiptInvCompleteReceipt, ReceiptInvFailReceipt DEF RunOnly
<1>3. ASSUME NEW d \in DeviceIds, RevokeDevice(d) PROVE ReceiptInv'
  BY <1>3, RevokeDeviceKeeps, ReceiptInvKeeps DEF RevokeDevice
<1>4. ASSUME NEW d \in DeviceIds, NEW a \in Assignments, AssignSlot(a, d) PROVE ReceiptInv'
  BY <1>4, AssignSlotKeeps, ReceiptInvKeeps DEF AssignSlot
<1> QED BY <1>1, <1>2, <1>3, <1>4, ReceiptInvCreateSlot, NextCases

LEMMA IdsInOrderNext ==
  ASSUME TypeOK, IdsInOrder, [Next]_vars
  PROVE  IdsInOrder'
<1>1. CASE Created' = Created
  BY <1>1 DEF IdsInOrder
<1>2. CASE UNCHANGED vars
  BY <1>1, <1>2 DEF vars, tables, Created
<1>3. ASSUME NEW p \in Runs, RunOnly(p) PROVE IdsInOrder'
  BY <1>1, <1>3, RunOnlyKeeps DEF Created
<1>4. ASSUME NEW p \in Runs, CreateSlot(p) PROVE IdsInOrder'
  <2>1. CASE LetsGo(p)
    BY <1>1, <2>1 DEF LetsGo, Created
  <2>2. ASSUME NEW d \in DeviceIds, d = Cardinality(Created) + 1, NewRow(p, d)
        PROVE  IdsInOrder'
    <3>1. Created' = Created \cup {d}
      BY <2>2 DEF NewRow, Created, TypeOK
    <3>2. \E n \in Nat : Created \cup {d} = 1..n
      BY <2>2, FreshId
    <3> QED BY <3>1, <3>2 DEF IdsInOrder
  <2>3. CASE UNCHANGED device
    BY <1>1, <2>3 DEF Created
  <2> QED BY <1>4, <2>2, <2>3 DEF CreateSlot
<1>5. ASSUME NEW d \in DeviceIds, RevokeDevice(d) PROVE IdsInOrder'
  BY <1>1, <1>5, RevokeDeviceKeeps DEF KeepsItems
<1>6. ASSUME NEW d \in DeviceIds, NEW a \in Assignments, AssignSlot(a, d) PROVE IdsInOrder'
  BY <1>1, <1>6, AssignSlotKeeps DEF KeepsItems
<1> QED BY <1>2, <1>3, <1>4, <1>5, <1>6, NextCases

-----------------------------------------------------------------------------
(* The file of a completed receipt.                                        *)

\* What a step keeps: devices with their items, and files.
KeepsFiles ==
    /\ \A d \in Created : d \in Created' /\ device'[d].item = device[d].item
    /\ \A f \in DOMAIN files : f \in DOMAIN files' /\ files'[f] = files[f]

LEMMA KeepsFilesNext ==
  ASSUME TypeOK, IdsInOrder, [Next]_vars
  PROVE  KeepsFiles
<1>1. CASE UNCHANGED <<device, files>>
  BY <1>1 DEF KeepsFiles, Created
<1>2. CASE UNCHANGED vars
  BY <1>1, <1>2 DEF vars, tables
<1>3. ASSUME NEW p \in Runs, RunOnly(p) PROVE KeepsFiles
  <2>1. CASE WriteArtifact(p)
    BY <1>3, <2>1, TypeWriteArtifact, RunOnlyKeeps DEF KeepsFiles, Created
  <2>2. CASE ~WriteArtifact(p)
    <3>1. UNCHANGED files
      BY <1>3, <2>2 DEF RunOnly, Submit, CreateRequest, ReadReceipt, CreateReceipt,
                        CompleteReceipt, FailReceipt, Die
    <3> QED BY <1>1, <1>3, <3>1, RunOnlyKeeps
  <2> QED BY <2>1, <2>2
<1>4. ASSUME NEW p \in Runs, CreateSlot(p) PROVE KeepsFiles
  <2>1. UNCHANGED files
    BY <1>4 DEF CreateSlot
  <2>2. CASE LetsGo(p)
    BY <1>1, <2>1, <2>2 DEF LetsGo
  <2>3. ASSUME NEW d \in DeviceIds \ Created, NewRow(p, d), Created' = Created \cup {d}
        PROVE  KeepsFiles
    BY <2>1, <2>3 DEF NewRow, KeepsFiles, TypeOK, Created
  <2> QED BY <1>4, <2>2, <2>3, CreateSlotCases
<1>5. ASSUME NEW d \in DeviceIds, RevokeDevice(d) PROVE KeepsFiles
  BY <1>5, RevokeDeviceKeeps DEF KeepsItems, KeepsFiles, RevokeDevice
<1>6. ASSUME NEW d \in DeviceIds, NEW a \in Assignments, AssignSlot(a, d) PROVE KeepsFiles
  BY <1>6, AssignSlotKeeps DEF KeepsItems, KeepsFiles, AssignSlot
<1> QED BY <1>2, <1>3, <1>4, <1>5, <1>6, NextCases

\* What stays true of the devices and files when no receipt is completed.
LEMMA FileInvKeeps ==
  ASSUME TypeOK, FileInv, KeepsFiles, NEW p \in Runs, Alone(p),
         \A it \in AllItems : receipt'[it] # receipt[it] => receipt'[it].status # "completed",
         pc'[p] \notin {"attach", "complete"}
  PROVE  FileInv'
<1> USE DEF KeepsFiles, Alone, FileInv
<1>1. KnowsDevice'
  BY DEF KnowsDevice
<1>2. KnowsFile'
  BY DEF KnowsFile
<1>3. CompletedDelivered'
  BY DEF CompletedDelivered
<1> QED BY <1>1, <1>2, <1>3

LEMMA FileInvNext ==
  ASSUME TypeOK, IdsInOrder, ReceiptInv, FileInv, [Next]_vars
  PROVE  FileInv'
<1> KeepsFiles
  BY KeepsFilesNext
<1>1. CASE UNCHANGED <<receipt, pc, work>>
  BY <1>1 DEF KeepsFiles, FileInv, KnowsDevice, KnowsFile, CompletedDelivered
<1>2. CASE UNCHANGED vars
  BY <1>1, <1>2 DEF vars, tables
<1>3. ASSUME NEW p \in Runs, LetsGo(p) PROVE FileInv'
  BY <1>3, FileInvKeeps DEF LetsGo
<1>4. ASSUME NEW p \in Runs, CreateReceipt(p) PROVE FileInv'
  <2>1. Alone(p)
    BY <1>4, RunsMoveAlone DEF Work
  <2>2. pc'[p] \in {"create", "idle"}
    BY <1>4 DEF CreateReceipt, Stop, Goto, TypeOK
  <2>3. \A it \in AllItems : receipt'[it] # receipt[it] => receipt'[it].status = "started"
    BY <1>4 DEF CreateReceipt, TypeOK, Receipt
  <2> QED BY <2>1, <2>2, <2>3, FileInvKeeps
<1>5. ASSUME NEW p \in Runs, CreateSlot(p) PROVE FileInv'
  <2>1. CASE LetsGo(p)
    BY <2>1, <1>3
  <2>2. ASSUME NEW d \in DeviceIds \ Created, NewRow(p, d), Created' = Created \cup {d},
               \/ pc'[p] = "failing"
               \/ pc'[p] = "attach" /\ work'[p].dev = d
        PROVE  FileInv'
    <3>1. Alone(p) /\ receipt' = receipt /\ work'[p].item = work[p].item
      BY <1>5, RunsMoveAlone, CreateSlotCases DEF CreateSlot, Work
    <3>2. d \in Created' /\ device'[d].item = work[p].item
      BY <2>2 DEF NewRow, TypeOK
    <3>3. KnowsDevice'
      BY <2>2, <3>1, <3>2 DEF FileInv, KnowsDevice, Alone, KeepsFiles
    <3>4. KnowsFile' /\ CompletedDelivered'
      BY <2>2, <3>1 DEF FileInv, KnowsFile, CompletedDelivered, Alone, KeepsFiles
    <3> QED BY <3>3, <3>4 DEF FileInv
  <2> QED BY <1>5, <2>1, <2>2, CreateSlotCases
<1>6. ASSUME NEW p \in Runs, WriteArtifact(p) PROVE FileInv'
  <2>1. /\ Alone(p) /\ UNCHANGED <<receipt, work>> /\ pc[p] = "attach"
        /\ pc'[p] # "attach"
        /\ pc'[p] = "complete" => files' = FilesWith(work[p].file, work[p].dev)
    BY <1>6, RunsMoveAlone DEF WriteArtifact, Work, tables, Goto, TypeOK
  <2>2. KnowsDevice'
    BY <2>1 DEF FileInv, KnowsDevice, Alone, KeepsFiles
  <2>3. KnowsFile'
    BY <2>1 DEF FileInv, KnowsFile, Alone, KeepsFiles, FilesWith
  <2>4. CompletedDelivered'
    BY <2>1 DEF FileInv, CompletedDelivered, KeepsFiles
  <2> QED BY <2>2, <2>3, <2>4 DEF FileInv
<1>7. ASSUME NEW p \in Runs, CompleteReceipt(p) PROVE FileInv'
  <2> DEFINE it == work[p].item
  <2>1. CASE LetsGo(p)
    BY <2>1, <1>3
  <2>2. CASE SetReceipt(p, "completed") /\ pc'[p] = "next"
    <3>1. Alone(p) /\ pc[p] = "complete" /\ it \in AllItems /\ files' = files
      BY <1>7, RunsMoveAlone DEF CompleteReceipt, Work, TypeOK
    <3>2. /\ receipt'[it] = [status |-> "completed", dev |-> work[p].dev, file |-> work[p].file]
          /\ \A jt \in AllItems \ {it} : receipt'[jt] = receipt[jt]
      BY <2>2, <3>1 DEF SetReceipt, ReceiptInv, HeldAlone, Holds, TypeOK
    <3>3. KnowsDevice' /\ KnowsFile'
      BY <2>2, <3>1 DEF FileInv, KnowsDevice, KnowsFile, Alone, KeepsFiles
    <3>4. CompletedDelivered'
      BY <3>1, <3>2 DEF FileInv, CompletedDelivered, KnowsDevice, KnowsFile, KeepsFiles
    <3> QED BY <3>3, <3>4 DEF FileInv
  <2>3. LetsGo(p) \/ (SetReceipt(p, "completed") /\ pc'[p] = "next")
    BY <1>7, RunsMoveAlone DEF CompleteReceipt, LetsGo, Goto, TypeOK, Work, Holds
  <2> QED BY <2>1, <2>2, <2>3
<1>8. ASSUME NEW p \in Runs, FailReceipt(p) PROVE FileInv'
  <2>1. Alone(p) /\ pc'[p] = "idle"
    BY <1>8, RunsMoveAlone DEF FailReceipt, Work, Stop, Goto, TypeOK
  <2>2. \A it \in AllItems : receipt'[it] # receipt[it] => receipt'[it].status = "partial_failure"
    BY <1>8 DEF FailReceipt, SetReceipt, TypeOK, Receipt
  <2> QED BY <2>1, <2>2, FileInvKeeps
<1>9. CASE \E d \in DeviceIds : RevokeDevice(d) \/ \E a \in Assignments : AssignSlot(a, d)
  BY <1>1, <1>9 DEF RevokeDevice, AssignSlot
<1> QED BY <1>2, <1>3, <1>4, <1>5, <1>6, <1>7, <1>8, <1>9, NextCases, StepsLetGo DEF RunOnly

-----------------------------------------------------------------------------
(* The order of the items.                                                 *)

\* A completed receipt stays, and only a run that holds nothing else begins
\* another item.
LEMMA CompletedStays ==
  ASSUME TypeOK, [Next]_vars, NEW it \in AllItems, receipt[it].status = "completed"
  PROVE  receipt'[it].status = "completed"
<1>1. CASE UNCHANGED receipt
  BY <1>1
<1>2. ASSUME NEW p \in Runs, CreateReceipt(p) PROVE receipt'[it] = receipt[it]
  BY <1>2 DEF CreateReceipt, TypeOK
<1>3. ASSUME NEW p \in Runs, CompleteReceipt(p) \/ FailReceipt(p)
      PROVE  receipt'[it] = receipt[it]
  BY <1>3 DEF CompleteReceipt, FailReceipt, SetReceipt, TypeOK
<1> QED BY <1>1, <1>2, <1>3, NextCases
    DEF RunOnly, Submit, CreateRequest, ReadReceipt, CreateSlot, WriteArtifact, Die,
        RevokeDevice, AssignSlot, vars, tables

LEMMA OrderInvNext ==
  ASSUME TypeOK, IdsInOrder, ReceiptInv, OrderInv, [Next]_vars
  PROVE  OrderInv'
<1> USE DEF OrderInv
\* A step that begins no item: the runs stay where they are, or end.
<1>0. ASSUME \A it \in AllItems : receipt'[it].status # "none" => receipt[it].status # "none",
             \A q \in Runs : pc'[q] # "idle" => pc[q] # "idle" /\ work'[q].item = work[q].item
      PROVE  OrderInv'
  <2>1. RunsInOrder'
    BY <1>0, CompletedStays DEF RunsInOrder
  <2>2. ItemsInOrder'
    BY <1>0, CompletedStays DEF ItemsInOrder
  <2> QED BY <2>1, <2>2
\* A step of p to the item after one that is complete.
<1>1. ASSUME NEW p \in Runs, Alone(p), pc[p] # "idle", work[p].item \in AllItems,
             receipt'[work[p].item].status = "completed",
             work'[p].item = <<work[p].item[1], work[p].item[2] + 1>>,
             \A it \in AllItems : receipt'[it].status # "none" => receipt[it].status # "none"
      PROVE  OrderInv'
  <2>1. \A it \in AllItems : it[1] = work[p].item[1] /\ it[2] < work[p].item[2] + 1 =>
            it = work[p].item \/ it[2] < work[p].item[2]
    BY <1>1, ItemShape
  <2>2. RunsInOrder'
    BY <1>1, <2>1, CompletedStays DEF RunsInOrder, Alone
  <2>3. ItemsInOrder'
    BY <1>1, CompletedStays DEF ItemsInOrder
  <2> QED BY <2>2, <2>3
<1>2. CASE UNCHANGED vars
  BY <1>0, <1>2 DEF vars, tables
<1>3. ASSUME NEW p \in Runs, NEW r \in Requests, Submit(p, r) PROVE OrderInv'
  <2>1. Alone(p) /\ receipt' = receipt /\ work'[p].item = <<r, 1>>
    BY <1>3, RunsMoveAlone DEF Submit, tables, TypeOK, WorkItem
  <2>2. \A it \in AllItems : ~(it[2] < 1)
    <3> SUFFICES ASSUME NEW it \in AllItems PROVE ~(it[2] < 1)
      OBVIOUS
    <3>1. PICK q \in Requests : it \in ItemsOf(q)
      BY DEF AllItems
    <3>2. Items[q] \in Seq(Slot)
      BY IssuanceAssumption
    <3>3. DOMAIN Items[q] = 1..Len(Items[q]) /\ Len(Items[q]) \in Nat
      BY <3>2
    <3> QED BY <3>1, <3>3 DEF ItemsOf
  <2>3. RunsInOrder'
    BY <2>1, <2>2 DEF RunsInOrder, Alone
  <2>4. ItemsInOrder'
    BY <2>1 DEF ItemsInOrder
  <2> QED BY <2>3, <2>4
<1>4. ASSUME NEW p \in Runs, CreateRequest(p) \/ Die(p) PROVE OrderInv'
  BY <1>4, <1>0 DEF CreateRequest, Die, Stop, Goto, TypeOK, tables
<1>5. ASSUME NEW p \in Runs, ReadReceipt(p) PROVE OrderInv'
  <2> DEFINE it == work[p].item
  <2>1. CASE /\ it \in AllItems /\ receipt[it].status = "completed"
             /\ work' = [work EXCEPT ![p].item = <<it[1], it[2] + 1>>] /\ UNCHANGED pc
    <3>1. Alone(p) /\ pc[p] # "idle" /\ receipt' = receipt
      BY <1>5, RunsMoveAlone DEF ReadReceipt, Work, tables
    <3>2. work'[p].item = <<it[1], it[2] + 1>>
      BY <2>1 DEF TypeOK, WorkItem
    <3> QED BY <2>1, <3>1, <3>2, <1>1
  <2>2. CASE Stop(p) \/ (Goto(p, "receipt") /\ work' = work)
    BY <1>5, <2>2, <1>0 DEF ReadReceipt, Stop, Goto, TypeOK, tables
  <2> QED BY <1>5, <2>1, <2>2 DEF ReadReceipt
<1>6. ASSUME NEW p \in Runs, CreateReceipt(p) PROVE OrderInv'
  <2> DEFINE it == work[p].item
  <2>1. CASE Stop(p) /\ receipt' = receipt
    BY <1>6, <2>1, <1>0 DEF CreateReceipt, Stop, Goto, TypeOK
  <2>2. CASE /\ receipt' = [receipt EXCEPT ![it].status = "started"]
             /\ Goto(p, "create") /\ work' = work
    <3>1. pc[p] = "receipt" /\ Alone(p)
      BY <1>6, RunsMoveAlone DEF CreateReceipt, Work
    <3>2. \A jt \in AllItems \ {it} : receipt'[jt] = receipt[jt]
      BY <2>2 DEF TypeOK
    <3>3. RunsInOrder'
      BY <2>2, <3>1, CompletedStays DEF RunsInOrder, Alone
    <3>4. ItemsInOrder'
      BY <2>2, <3>1, <3>2, CompletedStays DEF ItemsInOrder, RunsInOrder
    <3> QED BY <3>3, <3>4
  <2> QED BY <1>6, <2>1, <2>2 DEF CreateReceipt
<1>7. ASSUME NEW p \in Runs, CreateSlot(p) \/ WriteArtifact(p) PROVE OrderInv'
  <2>1. /\ Alone(p) /\ receipt' = receipt /\ pc[p] # "idle"
        /\ work'[p].item = work[p].item
    BY <1>7, RunsMoveAlone, CreateSlotCases DEF CreateSlot, WriteArtifact, Work, tables
  <2> QED BY <1>0, <2>1 DEF Alone
<1>8. ASSUME NEW p \in Runs, CompleteReceipt(p) PROVE OrderInv'
  <2> DEFINE it == work[p].item
  <2>1. Alone(p) /\ pc[p] = "complete" /\ it \in AllItems /\ receipt[it].status = "started"
    BY <1>8, RunsMoveAlone DEF CompleteReceipt, Work, TypeOK, ReceiptInv, HeldAlone, Holds
  <2>2. CASE UNCHANGED <<receipt, work>>
    BY <2>1, <2>2, <1>0 DEF Alone
  <2>3. CASE /\ SetReceipt(p, "completed")
             /\ work' = [work EXCEPT ![p] = [NoWork EXCEPT !.item = <<it[1], it[2] + 1>>]]
    <3>1. /\ receipt'[it].status = "completed"
          /\ \A jt \in AllItems \ {it} : receipt'[jt] = receipt[jt]
      BY <2>1, <2>3 DEF SetReceipt, TypeOK
    <3>2. work'[p].item = <<it[1], it[2] + 1>>
      BY <2>3 DEF TypeOK, NoWork
    <3> QED BY <2>1, <3>1, <3>2, <1>1
  <2> QED BY <1>8, <2>2, <2>3 DEF CompleteReceipt
<1>9. ASSUME NEW p \in Runs, FailReceipt(p) PROVE OrderInv'
  <2>1. \A it \in AllItems : receipt'[it].status # "none" => receipt[it].status # "none"
    BY <1>9 DEF FailReceipt, SetReceipt, TypeOK, Receipt
  <2>2. \A q \in Runs : pc'[q] # "idle" => pc[q] # "idle" /\ work'[q].item = work[q].item
    BY <1>9 DEF FailReceipt, Stop, Goto, TypeOK
  <2> QED BY <1>0, <2>1, <2>2
<1>10. CASE \E d \in DeviceIds : RevokeDevice(d) \/ \E a \in Assignments : AssignSlot(a, d)
  BY <1>10, <1>0 DEF RevokeDevice, AssignSlot
<1> QED BY <1>2, <1>3, <1>4, <1>5, <1>6, <1>7, <1>8, <1>9, <1>10, NextCases DEF RunOnly

-----------------------------------------------------------------------------
(* The quota, the passports and the assignments.                           *)

LEMMA ActiveFinite ==
  ASSUME NEW u
  PROVE  IsFiniteSet(Active(u)) /\ Cardinality(Active(u)) \in Nat
<1>1. IsFiniteSet(DeviceIds)
  BY FS_Interval, IssuanceAssumption DEF DeviceIds
<1>2. Active(u) \subseteq DeviceIds
  BY DEF Active, Created
<1> QED BY <1>1, <1>2, FS_Subset, FS_CardinalityType

LEMMA QuotaNext ==
  ASSUME TypeOK, IdsInOrder, RecipientWithinQuota, [Next]_vars
  PROVE  RecipientWithinQuota'
\* A step that makes no device active keeps every quota.
<1>0. ASSUME \A u : Active(u)' \subseteq Active(u) PROVE RecipientWithinQuota'
  <2>1. \A u : /\ Cardinality(Active(u)') \in Nat
               /\ Cardinality(Active(u)') <= Cardinality(Active(u))
    BY <1>0, ActiveFinite, FS_Subset, FS_CardinalityType
  <2> QED BY <2>1, ActiveFinite, IssuanceAssumption DEF RecipientWithinQuota
<1>1. CASE UNCHANGED device
  BY <1>0, <1>1 DEF Active, Created
<1>2. CASE UNCHANGED vars
  BY <1>1, <1>2 DEF vars, tables
<1>3. ASSUME NEW p \in Runs, RunOnly(p) PROVE RecipientWithinQuota'
  BY <1>1, <1>3, RunOnlyKeeps
<1>4. ASSUME NEW p \in Runs, CreateSlot(p) PROVE RecipientWithinQuota'
  <2>0. PICK v : v = SlotOf(work[p].item).to
    OBVIOUS
  <2>1. CASE LetsGo(p)
    BY <1>1, <2>1 DEF LetsGo
  <2>2. ASSUME NEW d \in DeviceIds \ Created, NewRow(p, d), Created' = Created \cup {d},
               Cardinality(Active(v)) < MaxDevices
        PROVE  RecipientWithinQuota'
    <3>1. /\ device'[d].slot.to = v
          /\ \A e \in Created : device'[e] = device[e]
      BY <2>0, <2>2 DEF NewRow, TypeOK, Created
    <3>2. Active(v)' \subseteq Active(v) \cup {d}
      <4> SUFFICES ASSUME NEW e \in Active(v)', e # d PROVE e \in Active(v)
        OBVIOUS
      <4>1. e \in Created
        BY <2>2 DEF Active
      <4> QED BY <3>1, <4>1 DEF Active
    <3>3. \A u : u # v => Active(u)' \subseteq Active(u)
      BY <2>2, <3>1 DEF Active
    <3>4. Cardinality(Active(v)') <= MaxDevices
      <4>0. d \notin Active(v) /\ IsFiniteSet(Active(v))
        BY <2>2, ActiveFinite DEF Active
      <4>1. IsFiniteSet(Active(v) \cup {d})
        BY <4>0, FS_AddElement
      <4>2. Cardinality(Active(v) \cup {d}) = Cardinality(Active(v)) + 1
        BY <4>0, FS_AddElement
      <4>3. Cardinality(Active(v)') <= Cardinality(Active(v) \cup {d})
        BY <3>2, <4>1, FS_Subset
      <4>4. Cardinality(Active(v)') \in Nat
        BY <3>2, <4>1, FS_Subset, FS_CardinalityType
      <4> QED BY <2>2, <4>2, <4>3, <4>4, ActiveFinite, IssuanceAssumption
    <3>5. ASSUME NEW u \in Recipients, u # v PROVE Cardinality(Active(u)') <= MaxDevices
      <4>1. Cardinality(Active(u)') \in Nat /\ Cardinality(Active(u)') <= Cardinality(Active(u))
        BY <3>3, <3>5, ActiveFinite, FS_Subset, FS_CardinalityType
      <4> QED BY <4>1, ActiveFinite, IssuanceAssumption DEF RecipientWithinQuota
    <3> QED BY <3>4, <3>5 DEF RecipientWithinQuota
  <2> QED BY <1>4, <2>0, <2>1, <2>2, CreateSlotCases
<1>5. ASSUME NEW d \in DeviceIds, RevokeDevice(d) PROVE RecipientWithinQuota'
  <2>1. \A e \in Created : device'[e].status = "active" => device'[e] = device[e]
    BY <1>5 DEF RevokeDevice, TypeOK, Created
  <2> QED BY <1>0, <1>5, <2>1, RevokeDeviceKeeps DEF Active, KeepsItems
<1>6. ASSUME NEW d \in DeviceIds, NEW a \in Assignments, AssignSlot(a, d)
      PROVE  RecipientWithinQuota'
  <2>1. \A e \in Created : device'[e].status = device[e].status
    BY <1>6, CreatedRow DEF AssignSlot, CompleteAssignment, TypeOK, Created
  <2> QED BY <1>0, <1>6, <2>1, AssignSlotKeeps DEF Active, KeepsItems
<1> QED BY <1>2, <1>3, <1>4, <1>5, <1>6, NextCases

LEMMA PassportNext ==
  ASSUME TypeOK, IdsInOrder, PassportRevokedWithDevice, [Next]_vars
  PROVE  PassportRevokedWithDevice'
<1> USE DEF PassportRevokedWithDevice
<1>1. CASE UNCHANGED <<device, passport>>
  BY <1>1 DEF Created
<1>2. CASE UNCHANGED vars
  BY <1>1, <1>2 DEF vars, tables
<1>3. ASSUME NEW p \in Runs, RunOnly(p) PROVE PassportRevokedWithDevice'
  BY <1>1, <1>3, RunOnlyKeeps
<1>4. ASSUME NEW p \in Runs, CreateSlot(p) PROVE PassportRevokedWithDevice'
  <2>1. CASE UNCHANGED <<device, passport>>
    BY <1>1, <2>1
  <2>2. ASSUME NEW d \in DeviceIds, NewRow(p, d) PROVE PassportRevokedWithDevice'
    BY <2>2 DEF NewRow, TypeOK, Created
  <2> QED BY <1>4, <2>1, <2>2 DEF CreateSlot
<1>5. ASSUME NEW d \in DeviceIds, RevokeDevice(d) PROVE PassportRevokedWithDevice'
  BY <1>5 DEF RevokeDevice, TypeOK, Created
<1>6. ASSUME NEW d \in DeviceIds, NEW a \in Assignments, AssignSlot(a, d)
      PROVE  PassportRevokedWithDevice'
  <2>1. /\ device'[d].status # "revoked"
        /\ \A e \in DeviceIds \ {d} : device'[e] = device[e] /\ passport'[e] = passport[e]
    BY <1>6, CreatedRow DEF AssignSlot, CompleteAssignment, TypeOK
  <2> QED BY <2>1 DEF Created
<1> QED BY <1>2, <1>3, <1>4, <1>5, <1>6, NextCases

LEMMA AssignedNext ==
  ASSUME TypeOK, IdsInOrder, AssignedTaken, [Next]_vars
  PROVE  AssignedTaken' /\ KeepsAssignments
<1> USE DEF AssignedTaken, KeepsAssignments
<1>1. CASE UNCHANGED <<device, assigned>>
  BY <1>1 DEF Created
<1>2. CASE UNCHANGED vars
  BY <1>1, <1>2 DEF vars, tables
<1>3. ASSUME NEW p \in Runs, RunOnly(p) PROVE AssignedTaken' /\ KeepsAssignments
  BY <1>1, <1>3, RunOnlyKeeps
<1>4. ASSUME NEW p \in Runs, CreateSlot(p) PROVE AssignedTaken' /\ KeepsAssignments
  <2>1. assigned' = assigned
    BY <1>4 DEF CreateSlot
  <2>2. CASE LetsGo(p)
    BY <1>1, <2>1, <2>2 DEF LetsGo
  <2>3. ASSUME NEW d \in DeviceIds \ Created, NewRow(p, d), Created' = Created \cup {d}
        PROVE  AssignedTaken' /\ KeepsAssignments
    <3>1. \A e \in Created : device'[e] = device[e]
      BY <2>3 DEF NewRow, TypeOK, Created
    <3> QED BY <2>1, <2>3, <3>1
  <2> QED BY <1>4, <2>2, <2>3, CreateSlotCases
<1>5. ASSUME NEW d \in DeviceIds, RevokeDevice(d) PROVE AssignedTaken' /\ KeepsAssignments
  <2>1. \A e \in Created : device'[e].slot = device[e].slot
    BY <1>5, CreatedRow DEF RevokeDevice, TypeOK, Created
  <2> QED BY <1>5, <2>1, RevokeDeviceKeeps DEF RevokeDevice, KeepsItems
<1>6. ASSUME NEW d \in DeviceIds, NEW a \in Assignments, AssignSlot(a, d)
      PROVE  AssignedTaken' /\ KeepsAssignments
  <2>1. /\ d \in Created /\ device[d].slot.mode = "unassigned"
        /\ assigned[a] = 0 /\ assigned' = [assigned EXCEPT ![a] = d]
    BY <1>6 DEF AssignSlot, CompleteAssignment
  <2>2. /\ device'[d].slot.mode = "dedicated"
        /\ \A e \in DeviceIds \ {d} : device'[e] = device[e]
    BY <1>6, CreatedRow DEF AssignSlot, CompleteAssignment, TypeOK, Slot
  <2>3. \A b \in Assignments : assigned[b] # d
    BY <2>1, CreatedRow DEF DeviceIds
  <2>4. /\ assigned'[a] = d
        /\ \A b \in Assignments \ {a} : assigned'[b] = assigned[b]
    BY <2>1 DEF TypeOK
  <2>5. Created' = Created
    BY <1>6, AssignSlotKeeps DEF KeepsItems
  <2>6. \A b \in Assignments : assigned[b] # 0 =>
            assigned[b] \in Created /\ device'[assigned[b]].slot.mode = "dedicated"
    BY <2>2, <2>3, CreatedRow
  <2> QED BY <2>1, <2>2, <2>3, <2>4, <2>5, <2>6
<1> QED BY <1>2, <1>3, <1>4, <1>5, <1>6, NextCases

-----------------------------------------------------------------------------
(* The theorems.                                                           *)

LEMMA InvInit == Init => IInv
<1> SUFFICES ASSUME Init PROVE IInv
  OBVIOUS
<1>1. Created = {}
  BY DEF Init, Created, AbsentRow
<1>2. IdsInOrder
  <2>1. Created = 1..0
    BY <1>1
  <2> QED BY <2>1 DEF IdsInOrder
<1>3. ReceiptInv
  BY <1>1 DEF Init, ReceiptInv, HeldAlone, NoneYet, ItemGrantedOnce, GrantHasReceipt, Holds
<1>4. FileInv /\ OrderInv
  BY <1>1 DEF Init, FileInv, KnowsDevice, KnowsFile, CompletedDelivered, OrderInv,
              RunsInOrder, ItemsInOrder, NoReceipt
<1>5. RecipientWithinQuota
  <2>1. \A u : Active(u) = {}
    BY <1>1 DEF Active
  <2>2. Cardinality({}) = 0
    BY FS_EmptySet
  <2>3. 0 <= MaxDevices
    BY IssuanceAssumption
  <2> QED BY <2>1, <2>2, <2>3 DEF RecipientWithinQuota
<1>6. PassportRevokedWithDevice /\ AssignedTaken
  BY <1>1 DEF Init, PassportRevokedWithDevice, AssignedTaken
<1> QED BY <1>2, <1>3, <1>4, <1>5, <1>6, TypeInit DEF IInv

LEMMA InvNext ==
  ASSUME IInv, [Next]_vars
  PROVE  IInv'
  BY TypeNext, IdsInOrderNext, ReceiptInvNext, FileInvNext, OrderInvNext, QuotaNext,
     PassportNext, AssignedNext
  DEF IInv

\* The inductive invariant.
THEOREM IssuanceInvariant == Spec => []IInv
  BY InvInit, InvNext, PTL DEF Spec

(* However often a request is repeated, and by however many runs at once,   *)
(* an item gets at most one device (the receipt of issue_manifest).         *)
THEOREM ItemsGrantedOnce == Spec => []ItemGrantedOnce
<1>1. IInv => ItemGrantedOnce
  BY DEF IInv, ReceiptInv
<1> QED BY <1>1, IssuanceInvariant, PTL

(* Whenever a run stops, there is a receipt for every device it created.    *)
THEOREM GrantsHaveReceipts == Spec => []GrantHasReceipt
<1>1. IInv => GrantHasReceipt
  BY DEF IInv, ReceiptInv
<1> QED BY <1>1, IssuanceInvariant, PTL

(* issue_manifest begins an item only when all items before it are          *)
(* complete, also when another run works on the same request.               *)
THEOREM ItemsTakenInOrder == Spec => []ItemsInOrder
<1>1. IInv => ItemsInOrder
  BY DEF IInv, OrderInv
<1> QED BY <1>1, IssuanceInvariant, PTL

(* A completed receipt names a file with the config of the device that was  *)
(* created for its item: no later run replaces it.                          *)
THEOREM CompletedIsDelivered == Spec => []CompletedDelivered
<1>1. IInv => CompletedDelivered
  BY DEF IInv, FileInv
<1> QED BY <1>1, IssuanceInvariant, PTL

(* Requests that were admitted together do not exceed a recipient's quota.  *)
THEOREM QuotaKept == Spec => []RecipientWithinQuota
<1>1. IInv => RecipientWithinQuota
  BY DEF IInv
<1> QED BY <1>1, IssuanceInvariant, PTL

(* A passport does not outlive the device: neither a late assignment nor a  *)
(* grant makes it live again.                                               *)
THEOREM PassportsRevoked == Spec => []PassportRevokedWithDevice
<1>1. IInv => PassportRevokedWithDevice
  BY DEF IInv
<1> QED BY <1>1, IssuanceInvariant, PTL

(* An assignment request stays with its device, and no other gets it.       *)
THEOREM AssignmentsFinal == Spec => AssignmentFinal
<1>1. IInv /\ [Next]_vars => KeepsAssignments
  BY AssignedNext DEF IInv
<1> QED BY <1>1, IssuanceInvariant, PTL DEF Spec, AssignmentFinal
=============================================================================
