------------------------ MODULE DeviceRegistry_proofs ------------------------
(***************************************************************************)
(* Lemmas about the statements and the steps of the registry, for every    *)
(* number of users, orders and devices and every quota.                    *)
(***************************************************************************)
EXTENDS DeviceRegistry, FiniteSetTheorems, TLAPS

(* The empty registry is well formed. *)
LEMMA EmptyRegistryType == EmptyRegistry \in Registry /\ LinkSound(EmptyRegistry)
  BY DEF EmptyRegistry, Registry, DeviceRow, OrderRow, UserStatus, AbsentRow,
         DeviceStatus, Mode, LinkSound

(* Each statement maps a well-formed registry to one. *)
LEMMA CreateOrderType ==
  ASSUME NEW r \in Registry, NEW o \in Orders
  PROVE  CreateOrder(r, o) \in Registry
  BY DEF CreateOrder, Registry, OrderRow

LEMMA CreateDeviceType ==
  ASSUME NEW r \in Registry, NEW d \in Devices, NEW u \in Users, NEW m \in Mode
  PROVE  CreateDevice(r, d, u, m) \in Registry
  BY DEF CreateDevice, Registry, DeviceRow, DeviceStatus

LEMMA CreateExternalDeviceType ==
  ASSUME NEW r \in Registry, NEW d \in External, NEW u \in Users
  PROVE  CreateExternalDevice(r, d, u) \in Registry
  BY CreateDeviceType, RegistryAssumption DEF CreateExternalDevice, Mode

LEMMA MarkOrderFulfilledType ==
  ASSUME NEW r \in Registry, NEW o \in Orders, NEW d \in Devices
  PROVE  MarkOrderFulfilled(r, o, d) \in Registry
  BY DEF MarkOrderFulfilled, Registry, OrderRow

LEMMA SetUserStatusType ==
  ASSUME NEW r \in Registry, NEW u, NEW s \in UserStatus
  PROVE  SetUserStatus(r, u, s) \in Registry
  BY DEF SetUserStatus, Registry

LEMMA DisableDeviceType ==
  ASSUME NEW r \in Registry, NEW d \in Devices
  PROVE  DisableDevice(r, d) \in Registry
  BY DEF DisableDevice, Registry, DeviceRow, DeviceStatus

LEMMA CascadeRevokeType ==
  ASSUME NEW r \in Registry, NEW d \in Devices
  PROVE  CascadeRevoke(r, d) \in Registry
<1> DEFINE dev == [r.dev EXCEPT ![d].status = "revoked"]
           ord == [o \in Orders |->
                      IF r.ord[o].device = d THEN [r.ord[o] EXCEPT !.device = NoDevice]
                                             ELSE r.ord[o]]
<1>1. dev \in [Devices -> DeviceRow]
  BY DEF Registry, DeviceRow, DeviceStatus
<1>2. ord \in [Orders -> OrderRow]
  BY DEF Registry, OrderRow
<1>3. CascadeRevoke(r, d) = [r EXCEPT !.dev = dev, !.ord = ord]
  BY DEF CascadeRevoke, Registry
<1> QED BY <1>1, <1>2, <1>3 DEF Registry

LEMMA DisableUserDevicesType ==
  ASSUME NEW r \in Registry, NEW u
  PROVE  DisableUserDevices(r, u) \in Registry
  BY DEF DisableUserDevices, Registry, DeviceRow, DeviceStatus

LEMMA EnableUserDevicesType ==
  ASSUME NEW r \in Registry, NEW u
  PROVE  EnableUserDevices(r, u) \in Registry
  BY DEF EnableUserDevices, Registry, DeviceRow, DeviceStatus

LEMMA DisableVpnType ==
  ASSUME NEW r \in Registry, NEW u
  PROVE  DisableVpn(r, u) \in Registry
  BY DisableUserDevicesType, SetUserStatusType DEF DisableVpn, UserStatus

LEMMA EnableVpnType ==
  ASSUME NEW r \in Registry, NEW u
  PROVE  EnableVpn(r, u) \in Registry
  BY EnableUserDevicesType, SetUserStatusType DEF EnableVpn, UserStatus

(* Every step of the ledger keeps the registry well formed. *)
LEMMA LedgerStepType ==
  ASSUME NEW r \in Registry, NEW s, LedgerStep(r, s)
  PROVE  s \in Registry
<1>1. CASE Request(r, s)
  BY <1>1, CreateOrderType DEF Request
<1>2. CASE GrantOrder(r, s)
  <2>1. PICK o \in Orders, d \in Devices \ External :
             s = MarkOrderFulfilled(CreateDevice(r, d, Owner[o], "dedicated"), o, d)
    BY <1>2 DEF GrantOrder
  <2>2. CreateDevice(r, d, Owner[o], "dedicated") \in Registry
    BY CreateDeviceType, RegistryAssumption DEF Mode
  <2> QED BY <2>1, <2>2, MarkOrderFulfilledType
<1>3. CASE GrantSlot(r, s)
  BY <1>3, CreateDeviceType DEF GrantSlot
<1>4. CASE Import(r, s)
  BY <1>4, CreateExternalDeviceType DEF Import
<1>5. CASE SuspendDevice(r, s)
  BY <1>5, DisableDeviceType DEF SuspendDevice
<1>6. CASE SuspendUser(r, s)
  BY <1>6, DisableVpnType DEF SuspendUser
<1>7. CASE ResumeUser(r, s)
  BY <1>7, EnableVpnType DEF ResumeUser
<1>8. CASE Block(r, s)
  BY <1>8, SetUserStatusType DEF Block, UserStatus
<1>9. CASE Revoke(r, s)
  BY <1>9, CascadeRevokeType DEF Revoke
<1> QED BY <1>1, <1>2, <1>3, <1>4, <1>5, <1>6, <1>7, <1>8, <1>9 DEF LedgerStep

(* No step brings back a revoked device. *)
LEMMA LedgerStaysRevoked ==
  ASSUME NEW r \in Registry, NEW s, LedgerStep(r, s)
  PROVE  StaysRevoked(r, s)
<1> SUFFICES ASSUME NEW e \in Devices, r.dev[e].status = "revoked"
             PROVE  s.dev[e].status = "revoked"
  BY DEF StaysRevoked
<1> USE DEF Registry, DeviceRow
<1>1. CASE Request(r, s)
  BY <1>1 DEF Request, CreateOrder
<1>2. CASE GrantOrder(r, s)
  BY <1>2 DEF GrantOrder, MarkOrderFulfilled, CreateDevice
<1>3. CASE GrantSlot(r, s)
  BY <1>3 DEF GrantSlot, CreateDevice
<1>4. CASE Import(r, s)
  BY <1>4 DEF Import, CreateExternalDevice, CreateDevice
<1>5. CASE SuspendDevice(r, s)
  BY <1>5 DEF SuspendDevice, DisableDevice
<1>6. CASE SuspendUser(r, s)
  BY <1>6 DEF SuspendUser, DisableVpn, DisableUserDevices, SetUserStatus, ActiveDevices
<1>7. CASE ResumeUser(r, s)
  BY <1>7 DEF ResumeUser, EnableVpn, EnableUserDevices, SetUserStatus
<1>8. CASE Block(r, s)
  BY <1>8 DEF Block, SetUserStatus
<1>9. CASE Revoke(r, s)
  BY <1>9 DEF Revoke, CascadeRevoke
<1> QED BY <1>1, <1>2, <1>3, <1>4, <1>5, <1>6, <1>7, <1>8, <1>9 DEF LedgerStep

(* A device that has a row keeps one. *)
StaysPresent(r, s) ==
    \A d \in Devices : r.dev[d].status # "absent" => s.dev[d].status # "absent"

LEMMA LedgerStaysPresent ==
  ASSUME NEW r \in Registry, NEW s, LedgerStep(r, s)
  PROVE  StaysPresent(r, s)
<1> SUFFICES ASSUME NEW e \in Devices, r.dev[e].status # "absent"
             PROVE  s.dev[e].status # "absent"
  BY DEF StaysPresent
<1> USE DEF Registry, DeviceRow
<1>1. CASE Request(r, s)
  BY <1>1 DEF Request, CreateOrder
<1>2. CASE GrantOrder(r, s)
  BY <1>2 DEF GrantOrder, MarkOrderFulfilled, CreateDevice
<1>3. CASE GrantSlot(r, s)
  BY <1>3 DEF GrantSlot, CreateDevice
<1>4. CASE Import(r, s)
  BY <1>4 DEF Import, CreateExternalDevice, CreateDevice
<1>5. CASE SuspendDevice(r, s)
  BY <1>5 DEF SuspendDevice, DisableDevice
<1>6. CASE SuspendUser(r, s)
  BY <1>6 DEF SuspendUser, DisableVpn, DisableUserDevices, SetUserStatus, ActiveDevices
<1>7. CASE ResumeUser(r, s)
  BY <1>7 DEF ResumeUser, EnableVpn, EnableUserDevices, SetUserStatus
<1>8. CASE Block(r, s)
  BY <1>8 DEF Block, SetUserStatus
<1>9. CASE Revoke(r, s)
  BY <1>9 DEF Revoke, CascadeRevoke
<1> QED BY <1>1, <1>2, <1>3, <1>4, <1>5, <1>6, <1>7, <1>8, <1>9 DEF LedgerStep

(* No step links a fulfilled order to another device. *)
LEMMA LedgerNeverRegranted ==
  ASSUME NEW r \in Registry, NEW s, LedgerStep(r, s)
  PROVE  NeverRegranted(r, s)
<1> SUFFICES ASSUME NEW o \in Orders, r.ord[o].status = "fulfilled"
             PROVE  /\ s.ord[o].status = "fulfilled"
                    /\ s.ord[o].device \in {r.ord[o].device, NoDevice}
  BY DEF NeverRegranted
<1> USE DEF Registry, OrderRow
<1>1. CASE Request(r, s)
  BY <1>1 DEF Request, CreateOrder
<1>2. CASE GrantOrder(r, s)
  BY <1>2 DEF GrantOrder, Approvable, MarkOrderFulfilled, CreateDevice
<1>3. CASE GrantSlot(r, s)
  BY <1>3 DEF GrantSlot, CreateDevice
<1>4. CASE Import(r, s)
  BY <1>4 DEF Import, CreateExternalDevice, CreateDevice
<1>5. CASE SuspendDevice(r, s)
  BY <1>5 DEF SuspendDevice, DisableDevice
<1>6. CASE SuspendUser(r, s)
  BY <1>6 DEF SuspendUser, DisableVpn, DisableUserDevices, SetUserStatus
<1>7. CASE ResumeUser(r, s)
  BY <1>7 DEF ResumeUser, EnableVpn, EnableUserDevices, SetUserStatus
<1>8. CASE Block(r, s)
  BY <1>8 DEF Block, SetUserStatus
<1>9. CASE Revoke(r, s)
  BY <1>9 DEF Revoke, CascadeRevoke
<1> QED BY <1>1, <1>2, <1>3, <1>4, <1>5, <1>6, <1>7, <1>8, <1>9 DEF LedgerStep

(* Every step keeps the links sound. *)
LEMMA LedgerLinkSound ==
  ASSUME NEW r \in Registry, LinkSound(r), NEW s, LedgerStep(r, s)
  PROVE  LinkSound(s)
<1> SUFFICES ASSUME NEW o \in Orders, s.ord[o].device # NoDevice
             PROVE  /\ s.ord[o].status = "fulfilled"
                    /\ s.dev[s.ord[o].device].user = Owner[o]
                    /\ s.dev[s.ord[o].device].status \in {"active", "disabled"}
  BY DEF LinkSound
<1> USE DEF Registry, OrderRow, DeviceRow, LinkSound
<1>1. CASE Request(r, s)
  BY <1>1 DEF Request, CreateOrder
<1>2. CASE GrantOrder(r, s)
  BY <1>2 DEF GrantOrder, Approvable, MarkOrderFulfilled, CreateDevice
<1>3. CASE GrantSlot(r, s)
  BY <1>3 DEF GrantSlot, CreateDevice
<1>4. CASE Import(r, s)
  BY <1>4, RegistryAssumption DEF Import, CreateExternalDevice, CreateDevice
<1>5. CASE SuspendDevice(r, s)
  BY <1>5 DEF SuspendDevice, DisableDevice
<1>6. CASE SuspendUser(r, s)
  BY <1>6 DEF SuspendUser, DisableVpn, DisableUserDevices, SetUserStatus, ActiveDevices
<1>7. CASE ResumeUser(r, s)
  BY <1>7 DEF ResumeUser, EnableVpn, EnableUserDevices, SetUserStatus
<1>8. CASE Block(r, s)
  BY <1>8 DEF Block, SetUserStatus
<1>9. CASE Revoke(r, s)
  BY <1>9, RegistryAssumption DEF Revoke, CascadeRevoke
<1> QED BY <1>1, <1>2, <1>3, <1>4, <1>5, <1>6, <1>7, <1>8, <1>9 DEF LedgerStep

(* A device created while the quota is free takes one place of it. *)
LEMMA CreateWithinQuota ==
  ASSUME NEW r \in Registry, NEW u \in Users, NEW d \in Devices, NEW m \in Mode,
         r.dev[d].status = "absent", QuotaFree(r, u)
  PROVE  Cardinality(ActiveDevices(CreateDevice(r, d, u, m), u)) <= MaxDevices
<1> DEFINE old == ActiveDevices(r, u)
           new == ActiveDevices(CreateDevice(r, d, u, m), u)
<1>1. new = old \cup {d}
  BY DEF ActiveDevices, CreateDevice, Registry, DeviceRow
<1>2. IsFiniteSet(old)
  BY RegistryAssumption, FS_Subset DEF ActiveDevices
<1>3. d \notin old
  BY DEF ActiveDevices
<1>4. Cardinality(new) = Cardinality(old) + 1 /\ Cardinality(old) \in Nat
  BY <1>1, <1>2, <1>3, FS_AddElement, FS_CardinalityType
<1> QED BY <1>4, RegistryAssumption DEF QuotaFree

(* No step creates a quota-bound device beyond the quota. *)
LEMMA LedgerGrantsWithinQuota ==
  ASSUME NEW r \in Registry, NEW s, LedgerStep(r, s)
  PROVE  GrantsWithinQuota(r, s)
<1> SUFFICES ASSUME NEW e \in Devices \ External, r.dev[e].status = "absent",
                    s.dev[e].status = "active", s.dev[e].mode = "dedicated"
             PROVE  Cardinality(ActiveDevices(s, s.dev[e].user)) <= MaxDevices
  BY DEF GrantsWithinQuota
<1>2. CASE GrantOrder(r, s)
  <2>1. PICK o \in Orders, d \in Devices \ External :
             /\ QuotaFree(r, Owner[o]) /\ r.dev[d].status = "absent"
             /\ s = MarkOrderFulfilled(CreateDevice(r, d, Owner[o], "dedicated"), o, d)
    BY <1>2 DEF GrantOrder, Approvable
  <2>2. /\ s.dev = CreateDevice(r, d, Owner[o], "dedicated").dev
        /\ e = d /\ s.dev[e].user = Owner[o]
    BY <2>1 DEF MarkOrderFulfilled, CreateDevice, Registry, DeviceRow
  <2>3. Owner[o] \in Users
    BY RegistryAssumption
  <2>4. ActiveDevices(s, Owner[o])
          = ActiveDevices(CreateDevice(r, d, Owner[o], "dedicated"), Owner[o])
    BY <2>2 DEF ActiveDevices
  <2> QED BY <2>1, <2>2, <2>3, <2>4, CreateWithinQuota DEF Mode
<1>3. CASE GrantSlot(r, s)
  <2>1. PICK u \in Users, d \in Devices \ External, m \in Mode :
             /\ SlotCreatable(r, u, m) /\ r.dev[d].status = "absent"
             /\ s = CreateDevice(r, d, u, m)
    BY <1>3 DEF GrantSlot
  <2>2. e = d /\ s.dev[e].user = u /\ m = "dedicated"
    BY <2>1 DEF CreateDevice, Registry, DeviceRow
  <2> QED BY <2>1, <2>2, CreateWithinQuota DEF SlotCreatable
<1>4. s.dev[e].status # "active" \/ GrantOrder(r, s) \/ GrantSlot(r, s)
  <2> USE DEF Registry, DeviceRow
  <2>1. CASE Request(r, s)
    BY <2>1 DEF Request, CreateOrder
  <2>4. CASE Import(r, s)
    BY <2>4 DEF Import, CreateExternalDevice, CreateDevice
  <2>5. CASE SuspendDevice(r, s)
    BY <2>5 DEF SuspendDevice, DisableDevice
  <2>6. CASE SuspendUser(r, s)
    BY <2>6 DEF SuspendUser, DisableVpn, DisableUserDevices, SetUserStatus, ActiveDevices
  <2>7. CASE ResumeUser(r, s)
    BY <2>7 DEF ResumeUser, EnableVpn, EnableUserDevices, SetUserStatus
  <2>8. CASE Block(r, s)
    BY <2>8 DEF Block, SetUserStatus
  <2>9. CASE Revoke(r, s)
    BY <2>9 DEF Revoke, CascadeRevoke
  <2> QED BY <2>1, <2>4, <2>5, <2>6, <2>7, <2>8, <2>9 DEF LedgerStep
<1> QED BY <1>2, <1>3, <1>4

(* No statement gives a row to a device it is not about. *)
KeepsAbsent(r, s, S) ==
    \A d \in Devices \ S : r.dev[d].status = "absent" => s.dev[d].status = "absent"

LEMMA StatementsKeepAbsent ==
  ASSUME NEW r \in Registry
  PROVE  /\ \A o \in Orders : KeepsAbsent(r, CreateOrder(r, o), {})
         /\ \A d \in Devices : \A u, m : KeepsAbsent(r, CreateDevice(r, d, u, m), {d})
         /\ \A d, u : KeepsAbsent(r, CreateExternalDevice(r, d, u), {d})
         /\ \A o, d : KeepsAbsent(r, MarkOrderFulfilled(r, o, d), {})
         /\ \A d \in Devices : KeepsAbsent(r, DisableDevice(r, d), {d})
         /\ \A d \in Devices : KeepsAbsent(r, CascadeRevoke(r, d), {d})
         /\ \A u : KeepsAbsent(r, DisableVpn(r, u), {})
         /\ \A u : KeepsAbsent(r, EnableVpn(r, u), {})
         /\ \A u, s : KeepsAbsent(r, SetUserStatus(r, u, s), {})
<1> USE DEF Registry, DeviceRow, KeepsAbsent
<1>1. \A o \in Orders : KeepsAbsent(r, CreateOrder(r, o), {})
  BY DEF CreateOrder
<1>2. \A d \in Devices : \A u, m : KeepsAbsent(r, CreateDevice(r, d, u, m), {d})
  BY DEF CreateDevice
<1>3. \A d, u : KeepsAbsent(r, CreateExternalDevice(r, d, u), {d})
  BY DEF CreateExternalDevice, CreateDevice
<1>4. \A o, d : KeepsAbsent(r, MarkOrderFulfilled(r, o, d), {})
  BY DEF MarkOrderFulfilled
<1>5. \A d \in Devices : KeepsAbsent(r, DisableDevice(r, d), {d})
  BY DEF DisableDevice
<1>6. \A d \in Devices : KeepsAbsent(r, CascadeRevoke(r, d), {d})
  BY DEF CascadeRevoke
<1>7. \A u : KeepsAbsent(r, DisableVpn(r, u), {})
  BY DEF DisableVpn, DisableUserDevices, SetUserStatus, ActiveDevices
<1>8. \A u : KeepsAbsent(r, EnableVpn(r, u), {})
  BY DEF EnableVpn, EnableUserDevices, SetUserStatus
<1>9. \A u, s : KeepsAbsent(r, SetUserStatus(r, u, s), {})
  BY DEF SetUserStatus
<1> QED BY <1>1, <1>2, <1>3, <1>4, <1>5, <1>6, <1>7, <1>8, <1>9

=============================================================================
