------------------------------ MODULE BotDialog ------------------------------
(***************************************************************************)
(* The handlers behind the bot's commands and buttons.  A button stays in  *)
(* the chat after what it was about has changed, and in a group anybody    *)
(* may press it; the handler knows who pressed.  Every button is taken as  *)
(* one of a group here: a private chat allows no more.  A handler awaits   *)
(* Telegram after its workflow call, so that the messages of a             *)
(* configuration go out while other handlers run.                          *)
(***************************************************************************)
CONSTANTS
    User,       \* Telegram users
    Configured, \* users of ADMIN_IDS
    Device,     \* devices, and the orders they are granted for
    Nobody      \* no Telegram user: telegram_id IS NULL, or another process

VARIABLES
    admins,     \* users whose row has is_admin
    devices,    \* devices[d]: its status and owner
    buttons,    \* buttons in the chat: what they do and to which device
    outgoing,   \* configurations being sent
    inbox       \* inbox[u]: devices whose configuration reached u's own chat

dialogVars == <<admins, devices, buttons, outgoing, inbox>>

Status == {"none", "requested", "active", "disabled", "revoked"}

(* issued: the device has a receipt of a configured administrator's command; *)
(* by is history: who revoked it.                                           *)
DeviceRow == [status : Status, owner : User \cup {Nobody}, issued : BOOLEAN,
              by : User \cup {Nobody}]

Kind == {"resend", "delete", "confirm", "approve", "admin_resend"}
Button == [kind : Kind, device : Device]

NoDeviceRow == [status |-> "none", owner |-> Nobody, issued |-> FALSE, by |-> Nobody]

TypeOK ==
    /\ admins \subseteq User
    /\ devices \in [Device -> DeviceRow]
    /\ buttons \subseteq Button
    /\ outgoing \subseteq [device : Device, to : User]
    /\ inbox \in [User -> SUBSET Device]

(* The administrator's resend keyboard is built by ux.py and shown by no    *)
(* handler any more; chats of older releases still have it.                 *)
Init ==
    /\ admins = {}
    /\ devices = [d \in Device |-> NoDeviceRow]
    /\ buttons = [kind : {"admin_resend"}, device : Device]
    /\ outgoing = {}
    /\ inbox = [u \in User |-> {}]

IsAdmin(u) == u \in Configured \cup admins

Shown(kind, d) == [kind |-> kind, device |-> d] \in buttons

Show(kind, on) == buttons' = buttons \cup [kind : {kind}, device : on]

Owned(u) == {d \in Device : devices[d].owner = u /\ devices[d].status \notin {"none", "requested"}}

(* build_device_config_delivery, with the rows of the moment. *)
Sendable(d) == devices[d].status = "active"

SendTo(d, to) == outgoing' = outgoing \cup [device : {d}, to : {to}]

------------------------------------------------------------------------------
(* Any user: ask for access, list the own devices. *)
PlanRequest(u, d) ==
    /\ devices[d].status = "none"
    /\ devices' = [devices EXCEPT ![d].status = "requested", ![d].owner = u]
    /\ UNCHANGED <<admins, buttons, outgoing, inbox>>

MyDevices(u) ==
    /\ buttons' = buttons \cup [kind : {"resend", "delete"}, device : Owned(u)]
    /\ UNCHANGED <<admins, devices, outgoing, inbox>>

UserResendConfig(u, d) ==
    /\ Shown("resend", d)
    /\ d \in Owned(u)
    /\ Sendable(d)
    /\ SendTo(d, u)
    /\ UNCHANGED <<admins, devices, buttons, inbox>>

(* The prompt asks whoever pressed, about any device. *)
UserRevokeDevice(d) ==
    /\ Shown("delete", d)
    /\ Show("confirm", {d})
    /\ UNCHANGED <<admins, devices, outgoing, inbox>>

(* The workflow finds the device among those of the user who pressed; the   *)
(* node refused, or the row is revoked (a second time it stays as it was).  *)
RevokeAll(u, on) ==
    devices' = [d \in Device |-> IF d \in on /\ devices[d].status # "revoked"
                                 THEN [devices[d] EXCEPT !.status = "revoked", !.by = u]
                                 ELSE devices[d]]

(* Mutant: the confirmation is taken from whoever presses it. *)
UserRevokeDeviceConfirm_Anybody(u, d) ==
    /\ Shown("confirm", d)
    /\ RevokeAll(u, {d})
    /\ UNCHANGED <<admins, buttons, outgoing, inbox>>

UserRevokeDeviceConfirm(u, d) ==
    /\ Shown("confirm", d)
    /\ RevokeAll(u, {d} \cap Owned(u))
    /\ UNCHANGED <<admins, buttons, outgoing, inbox>>

(* The reset asks once, then revokes the active devices of the user, and    *)
(* stops at the first one that fails.                                       *)
UserResetDevicesConfirm(u) ==
    /\ \E on \in SUBSET {d \in Owned(u) : devices[d].status = "active"} : RevokeAll(u, on)
    /\ UNCHANGED <<admins, buttons, outgoing, inbox>>

------------------------------------------------------------------------------
(* Administrators. *)
AdminPending(u) ==
    /\ IsAdmin(u)
    /\ Show("approve", {d \in Device : devices[d].status = "requested"})
    /\ UNCHANGED <<admins, devices, outgoing, inbox>>

(* The workflow asks again who it is; the grant commits.                    *)
ApproveOrder(u, d) ==
    /\ IsAdmin(u)
    /\ devices[d].status = "requested"
    /\ devices' = [devices EXCEPT ![d].status = "active"]

(* The administrator is told, the owner is sent the configuration.          *)
AdminApprove(u, d) ==
    /\ Shown("approve", d)
    /\ ApproveOrder(u, d)
    /\ SendTo(d, devices[d].owner)
    /\ UNCHANGED <<admins, buttons, inbox>>

(* To the owner, not to the administrator; an owner without Telegram cannot *)
(* be sent it.                                                              *)
AdminResendConfig(u, d) ==
    /\ Shown("admin_resend", d)
    /\ IsAdmin(u)
    /\ Sendable(d)
    /\ devices[d].owner # Nobody
    /\ SendTo(d, devices[d].owner)
    /\ UNCHANGED <<admins, devices, buttons, inbox>>

AdminGrant(u, target) ==
    /\ IsAdmin(u)
    /\ admins' = admins \cup {target}
    /\ UNCHANGED <<devices, buttons, outgoing, inbox>>

(* /admin_create_order, on behalf of another user. *)
AdminCreateOrder(u, target, d) ==
    /\ IsAdmin(u)
    /\ PlanRequest(target, d)

(* A manifest of one item, issued to a recipient without Telegram: an       *)
(* issuance that does not complete may leave the device without a completed *)
(* receipt.                                                                 *)
IssueAdminConfig(u, d, completed) ==
    /\ u \in Configured
    /\ devices[d].status = "none"
    /\ devices' = [devices EXCEPT ![d].status = "active", ![d].issued = completed]

(* A configured administrator is handed the file; it may be fetched again   *)
(* for a device with a completed receipt.                                   *)
AdminIssueConfig(u, d) ==
    /\ \/ IssueAdminConfig(u, d, TRUE) /\ SendTo(d, u)
       \/ IssueAdminConfig(u, d, FALSE) /\ UNCHANGED outgoing
    /\ UNCHANGED <<admins, buttons, inbox>>

Handoff(u, d) ==
    /\ u \in Configured
    /\ devices[d].issued
    /\ Sendable(d)
    /\ SendTo(d, u)

AdminResendIssuedConfig(u, d) ==
    /\ Handoff(u, d)
    /\ UNCHANGED <<admins, devices, buttons, inbox>>

------------------------------------------------------------------------------
(* The messages of one configuration: any of them may be refused, by then   *)
(* the device may be revoked.                                               *)
SendDelivery(m) ==
    /\ m \in outgoing
    /\ inbox' = [inbox EXCEPT ![m.to] = @ \cup {m.device}]
    /\ outgoing' = outgoing \ {m}
    /\ UNCHANGED <<admins, devices, buttons>>

DeliveryFails(m) ==
    /\ m \in outgoing
    /\ outgoing' = outgoing \ {m}
    /\ UNCHANGED <<admins, devices, buttons, inbox>>

(* The panel meanwhile. *)
PanelTakesAdmin(u) ==
    /\ admins' = admins \ {u}
    /\ UNCHANGED <<devices, buttons, outgoing, inbox>>

PanelSetsStatus(d) ==
    /\ devices[d].status \in {"active", "disabled"}
    /\ \E s \in {"active", "disabled", "revoked"} : devices' = [devices EXCEPT ![d].status = s]
    /\ UNCHANGED <<admins, buttons, outgoing, inbox>>

Next ==
    \/ \E u \in User, d \in Device : PlanRequest(u, d)
    \/ \E u \in User : MyDevices(u)
    \/ \E u \in User, d \in Device : UserResendConfig(u, d)
    \/ \E d \in Device : UserRevokeDevice(d)
    \/ \E u \in User, d \in Device : UserRevokeDeviceConfirm(u, d)
    \/ \E u \in User : UserResetDevicesConfirm(u)
    \/ \E u \in User : AdminPending(u)
    \/ \E u \in User, d \in Device : AdminApprove(u, d)
    \/ \E u \in User, d \in Device : AdminResendConfig(u, d)
    \/ \E u, target \in User : AdminGrant(u, target)
    \/ \E u, target \in User, d \in Device : AdminCreateOrder(u, target, d)
    \/ \E u \in User, d \in Device : AdminIssueConfig(u, d)
    \/ \E u \in User, d \in Device : AdminResendIssuedConfig(u, d)
    \/ \E m \in outgoing : SendDelivery(m)
    \/ \E m \in outgoing : DeliveryFails(m)
    \/ \E u \in User : PanelTakesAdmin(u)
    \/ \E d \in Device : PanelSetsStatus(d)

Spec == Init /\ [][Next]_dialogVars

------------------------------------------------------------------------------
(* Whoever presses whichever button, however old: a configuration reaches   *)
(* the owner of its device alone (and the configured administrators, when   *)
(* it was issued by one), and the bot revokes a device for its owner alone. *)
BotActsForOwner ==
    \A d \in Device :
        /\ \A u \in User : d \in inbox[u] =>
              devices[d].owner = u \/ (devices[d].issued /\ u \in Configured)
        /\ devices[d].by \in {Nobody, devices[d].owner}
==============================================================================
