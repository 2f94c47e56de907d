--------------------------- MODULE DeviceRegistry ---------------------------
(***************************************************************************)
(* The part of the SQLite schema that decides who has access: the tables   *)
(* devices, orders and users, and the statements of app/db/repositories.py *)
(* that the access services run on them, each as an operator from one      *)
(* registry value to the next.                                             *)
(*                                                                         *)
(* A device is identified with its key pair.  Devices in External were     *)
(* imported from the server (config_material_status 'external_only'): the  *)
(* application knows their public key but holds no preshared key.          *)
(***************************************************************************)
EXTENDS Naturals, FiniteSets

CONSTANTS Users, Orders, Devices,
          External,      \* the devices that are imported, never created
          Owner,         \* the user each order belongs to
          MaxDevices,    \* min(MAX_DEVICES_PER_USER, plans.max_devices)
          NoUser, NoDevice

ASSUME RegistryAssumption ==
    /\ NoUser \notin Users
    /\ NoDevice \notin Devices
    /\ External \subseteq Devices
    /\ IsFiniteSet(Devices)
    /\ Owner \in [Orders -> Users]
    /\ MaxDevices \in Nat

-----------------------------------------------------------------------------
(* 'pending' is treated as 'active' everywhere in the code modelled here    *)
(* and no code path creates it; 'expired' and 'failed' are never assigned.  *)
DeviceStatus == {"absent", "active", "disabled", "revoked"}

(* assignment_mode: 'dedicated' stands for dedicated_device and             *)
(* recipient_unassigned, which the device quota is checked for; 'exempt'    *)
(* for owner_shared.  Devices of either kind count.                         *)
Mode == {"dedicated", "exempt"}

DeviceRow == [status : DeviceStatus, user : Users \cup {NoUser}, mode : Mode]
OrderRow  == [status : {"none", "manual_review", "fulfilled"},
              device : Devices \cup {NoDevice}]
UserStatus == {"active", "blocked"}

Registry == [dev : [Devices -> DeviceRow],
             ord : [Orders -> OrderRow],
             usr : [Users -> UserStatus]]

AbsentRow == [status |-> "absent", user |-> NoUser, mode |-> "dedicated"]

EmptyRegistry ==
    [dev |-> [d \in Devices |-> AbsentRow],
     ord |-> [o \in Orders |-> [status |-> "none", device |-> NoDevice]],
     usr |-> [u \in Users |-> "active"]]

-----------------------------------------------------------------------------
(* Queries.                                                                *)

ActiveDevices(r, u) ==
    {d \in Devices : r.dev[d].user = u /\ r.dev[d].status = "active"}

QuotaFree(r, u) == Cardinality(ActiveDevices(r, u)) < MaxDevices

\* list_user_devices_for_vpn_enable joins on config_material_status 'available'.
DevicesToEnable(r, u) ==
    {d \in Devices \ External :
        r.dev[d].user = u /\ r.dev[d].status = "disabled"}

\* Mutant: approval looks at the link only.
Approvable_LinkOnly(r, o) ==
    /\ r.ord[o].status # "none"
    /\ r.ord[o].device = NoDevice
    /\ QuotaFree(r, Owner[o])

\* The checks of _approve_order; it does not look at the status of the user.
Approvable(r, o) ==
    /\ r.ord[o].status = "manual_review"
    /\ r.ord[o].device = NoDevice
    /\ QuotaFree(r, Owner[o])

\* The checks of _create_operator_device.
SlotCreatable(r, u, m) ==
    /\ r.usr[u] = "active"
    /\ m = "dedicated" => QuotaFree(r, u)

-----------------------------------------------------------------------------
(* Statements.                                                             *)

CreateOrder(r, o) == [r EXCEPT !.ord[o].status = "manual_review"]

CreateDevice(r, d, u, m) ==
    [r EXCEPT !.dev[d] = [status |-> "active", user |-> u, mode |-> m]]

\* UNIQUE (server_id, peer_public_key): a key that has a row cannot get another.
CreateExternalDevice(r, d, u) == CreateDevice(r, d, u, "dedicated")

MarkOrderFulfilled(r, o, d) ==
    [r EXCEPT !.ord[o] = [status |-> "fulfilled", device |-> d]]

SetUserStatus(r, u, s) == [r EXCEPT !.usr[u] = s]

\* Mutant: the status word of a user written to a device.
DisableDevice_UserStatus(r, d) == [r EXCEPT !.dev[d].status = "blocked"]

DisableDevice(r, d) == [r EXCEPT !.dev[d].status = "disabled"]

DisableUserDevices(r, u) ==
    [r EXCEPT !.dev = [d \in Devices |->
        IF d \in ActiveDevices(r, u) THEN [r.dev[d] EXCEPT !.status = "disabled"]
                                     ELSE r.dev[d]]]

\* Every disabled device of the user, imported ones included, and no quota.
EnableUserDevices(r, u) ==
    [r EXCEPT !.dev = [d \in Devices |->
        IF r.dev[d].user = u /\ r.dev[d].status = "disabled"
        THEN [r.dev[d] EXCEPT !.status = "active"]
        ELSE r.dev[d]]]

\* Mutant: the order keeps its link.
CascadeRevoke_KeepLink(r, d) == [r EXCEPT !.dev[d].status = "revoked"]

\* The device becomes 'revoked' and orders.device_id is cleared; the order
\* stays 'fulfilled'.
CascadeRevoke(r, d) ==
    [r EXCEPT !.dev[d].status = "revoked",
              !.ord = [o \in Orders |->
                  IF r.ord[o].device = d THEN [r.ord[o] EXCEPT !.device = NoDevice]
                                         ELSE r.ord[o]]]

\* Mutant: the devices are forgotten.
DisableVpn_UserOnly(r, u) == SetUserStatus(r, u, "blocked")

DisableVpn(r, u) == SetUserStatus(DisableUserDevices(r, u), u, "blocked")
EnableVpn(r, u)  == SetUserStatus(EnableUserDevices(r, u), u, "active")

-----------------------------------------------------------------------------
(* The steps, as relations between the registry before and after.          *)

Request(r, s) ==
    \E o \in Orders : r.ord[o].status = "none" /\ s = CreateOrder(r, o)

GrantOrder(r, s) ==
    \E o \in Orders, d \in Devices \ External :
        /\ Approvable(r, o)
        /\ r.dev[d].status = "absent"
        /\ s = MarkOrderFulfilled(CreateDevice(r, d, Owner[o], "dedicated"), o, d)

GrantSlot(r, s) ==
    \E u \in Users, d \in Devices \ External, m \in Mode :
        /\ SlotCreatable(r, u, m)
        /\ r.dev[d].status = "absent"
        /\ s = CreateDevice(r, d, u, m)

Import(r, s) ==
    \E u \in Users, d \in External :
        r.dev[d].status = "absent" /\ s = CreateExternalDevice(r, d, u)

SuspendDevice(r, s) ==
    \E d \in Devices : r.dev[d].status = "active" /\ s = DisableDevice(r, d)

SuspendUser(r, s) == \E u \in Users : s = DisableVpn(r, u)

ResumeUser(r, s) == \E u \in Users : s = EnableVpn(r, u)

Block(r, s) == \E u \in Users : s = SetUserStatus(r, u, "blocked")

Revoke(r, s) ==
    \E d \in Devices : r.dev[d].status # "absent" /\ s = CascadeRevoke(r, d)

LedgerStep(r, s) ==
    \/ Request(r, s)
    \/ GrantOrder(r, s)
    \/ GrantSlot(r, s)
    \/ Import(r, s)
    \/ SuspendDevice(r, s)
    \/ SuspendUser(r, s)
    \/ ResumeUser(r, s)
    \/ Block(r, s)
    \/ Revoke(r, s)

-----------------------------------------------------------------------------
(* Properties of one registry, and of a registry and its successor.        *)

\* An order that points at a device was granted it: the order is fulfilled
\* and the device is its owner's and has not been revoked.
LinkSound(r) ==
    \A o \in Orders :
        LET d == r.ord[o].device IN
        d # NoDevice => /\ r.ord[o].status = "fulfilled"
                        /\ r.dev[d].user = Owner[o]
                        /\ r.dev[d].status \in {"active", "disabled"}

\* A revoked device keeps its status for good.
StaysRevoked(r, s) ==
    \A d \in Devices : r.dev[d].status = "revoked" => s.dev[d].status = "revoked"

\* An order that was fulfilled is never linked to another device.
NeverRegranted(r, s) ==
    \A o \in Orders :
        r.ord[o].status = "fulfilled" =>
            /\ s.ord[o].status = "fulfilled"
            /\ s.ord[o].device \in {r.ord[o].device, NoDevice}

\* A step that creates a quota-bound device leaves its user within the quota.
GrantsWithinQuota(r, s) ==
    \A d \in Devices \ External :
        /\ r.dev[d].status = "absent"
        /\ s.dev[d].status = "active"
        /\ s.dev[d].mode = "dedicated"
        => Cardinality(ActiveDevices(s, s.dev[d].user)) <= MaxDevices

=============================================================================
