------------------------------ MODULE PanelPeers ------------------------------
(***************************************************************************)
(* What the web panel does to the peers of a node: the peer sync and the   *)
(* repairs posted after it, the permanent deletion of a user and of a      *)
(* device.  The panel serves one request at a time, but lists and statuses *)
(* are read in a transaction of their own before the node is reached over  *)
(* SSH.  The bot grants and revokes meanwhile, and either may be cut short.*)
(*                                                                         *)
(* The report of a sync is shown to the browser that asked for it.  No     *)
(* route looks at it: the repairs act on the key or the device that is     *)
(* posted, so that the report is no state here.                            *)
(***************************************************************************)
CONSTANTS
    Device,     \* devices of the user whom the panel may delete, and their peers
    Foreign,    \* peers made on the node with the Amnezia app
    NoDevice    \* the bot is at rest

VARIABLES
    rows,       \* rows[d]: the device row, "granting" while it is uncommitted
    peers,      \* peers of the node
    marked,     \* ignored_remote_peers
    request,    \* the request the panel serves
    bot,        \* the device the bot grants or revokes
    disturbed   \* history: devices whose node and row something known has parted

peerVars == <<rows, peers, marked, request, bot, disturbed>>

Peer == Device \cup Foreign
Row == {"none", "granting", "active", "disabled", "revoked", "erased"}

Op == {"idle", "collect", "compare", "add", "destroy", "delete_peer", "delete_row"}
(* on: what the request has read; left: peers a deletion has still to take; *)
(* quiet is history: devices the bot left alone since the request began.    *)
Request == [op : Op, on : SUBSET Peer, left : SUBSET Device, quiet : SUBSET Device]
Idle == [op |-> "idle", on |-> {}, left |-> {}, quiet |-> {}]

TypeOK ==
    /\ rows \in [Device -> Row]
    /\ peers \subseteq Peer /\ marked \subseteq Peer
    /\ request \in Request
    /\ bot \in Device \cup {NoDevice}
    /\ disturbed \subseteq Device

Init ==
    /\ rows = [d \in Device |-> "none"]
    /\ peers = Foreign
    /\ marked = {}
    /\ request = Idle
    /\ bot = NoDevice
    /\ disturbed = {}

(* Rows another connection reads; list_active_devices_for_server. *)
Active == {d \in Device : rows[d] = "active"}

(* No other connection can commit while the bot holds an open grant. *)
Unlocked == \A d \in Device : rows[d] # "granting"

Starts(op, on) == [Idle EXCEPT !.op = op, !.on = on, !.quiet = Device \ {bot}]

(* Each step says which devices it leaves half done and which it sets right *)
(* again.                                                                   *)
Changes(cut, settled) == disturbed' = (disturbed \ settled) \cup cut

Disturbs(cut) == Changes(cut, {})

PanelDoes(req) == request' = req /\ UNCHANGED bot

BotDoes(d) ==
    /\ bot' = d
    /\ request' = [request EXCEPT !.quiet = @ \ {bot, d}]
    /\ UNCHANGED marked

------------------------------------------------------------------------------
(* The bot: a grant is one open transaction with the peer applied inside; a *)
(* revocation removes the peer first.                                       *)
GrantPeer(d) ==
    /\ bot = NoDevice
    /\ rows[d] = "none"
    /\ rows' = [rows EXCEPT ![d] = "granting"]
    /\ peers' = peers \cup {d}
    /\ BotDoes(d)
    /\ Disturbs({})

GrantCommit ==
    /\ bot # NoDevice /\ rows[bot] = "granting"
    /\ rows' = [rows EXCEPT ![bot] = "active"]
    /\ BotDoes(NoDevice)
    /\ UNCHANGED peers
    /\ Disturbs({})

(* Rolled back; the peer is taken away again, unless that fails too. *)
GrantRollback ==
    /\ bot # NoDevice /\ rows[bot] = "granting"
    /\ rows' = [rows EXCEPT ![bot] = "none"]
    /\ BotDoes(NoDevice)
    /\ \/ peers' = peers \ {bot} /\ Disturbs({})
       \/ peers' = peers /\ Disturbs({bot})

RevokePeer(d) ==
    /\ bot = NoDevice
    /\ rows[d] = "active"
    /\ peers' = peers \ {d}
    /\ BotDoes(d)
    /\ UNCHANGED rows
    /\ Disturbs({})

RevokeCommit ==
    /\ bot # NoDevice /\ rows[bot] # "granting"
    /\ rows' = [rows EXCEPT ![bot] = IF @ = "erased" THEN @ ELSE "revoked"]
    /\ BotDoes(NoDevice)
    /\ UNCHANGED peers
    /\ Disturbs({})

RevokeCut ==
    /\ bot # NoDevice /\ rows[bot] # "granting"
    /\ BotDoes(NoDevice)
    /\ UNCHANGED <<rows, peers>>
    /\ Disturbs({bot})

------------------------------------------------------------------------------
(* Peer sync: the dump of the node, then the rows of the database; what is  *)
(* marked as made with the app is not shown.  It may fail at either.        *)
Sync == Starts("collect", {})

StartSync ==
    /\ request = Idle
    /\ PanelDoes(Sync)
    /\ UNCHANGED <<rows, peers, marked>>
    /\ Disturbs({})

Collect ==
    /\ request.op = "collect"
    /\ PanelDoes([request EXCEPT !.op = "compare", !.on = peers])
    /\ UNCHANGED <<rows, peers, marked>>
    /\ Disturbs({})

(* The report, and a device of which it says nothing. *)
Unknown == (request.on \ Active) \ marked
Missing == Active \ request.on
PassedOver == Device \ (Unknown \cup Missing \cup marked)

(* What a sync passes over is in order, if the bot left it alone meanwhile. *)
Compare ==
    /\ request.op = "compare"
    /\ PanelDoes(Idle)
    /\ UNCHANGED <<rows, peers, marked>>
    /\ Changes({}, request.quiet \cap PassedOver)

SyncFails ==
    /\ request.op \in {"collect", "compare"}
    /\ PanelDoes(Idle)
    /\ UNCHANGED <<rows, peers, marked>>
    /\ Disturbs({})

(* Each takes the key that is posted, whatever the node and the database    *)
(* have under it.                                                           *)
IgnoreRemotePeer(p) ==
    /\ request = Idle /\ Unlocked
    /\ marked' = marked \cup {p}
    /\ PanelDoes(Idle)
    /\ UNCHANGED <<rows, peers>>
    /\ Disturbs({})

UnignoreRemotePeer(p) ==
    /\ request = Idle /\ Unlocked
    /\ marked' = marked \ {p}
    /\ PanelDoes(Idle)
    /\ UNCHANGED <<rows, peers>>
    /\ Disturbs({})

(* The peer may be that of an active device, or of a grant that has not     *)
(* committed: nothing is looked up.                                         *)
RemoveUnknownRemotePeer(p) ==
    /\ request = Idle
    /\ peers' = peers \ {p}
    /\ PanelDoes(Idle)
    /\ UNCHANGED <<rows, marked>>
    /\ Disturbs({d \in Device \cap peers : d = p /\ rows[d] \in {"granting", "active"}})

(* Mutant: the page is trusted to say that the device is active. *)
CheckMissing_Trusted(d) ==
    /\ request = Idle
    /\ rows[d] # "none"
    /\ PanelDoes(Starts("add", {d}))
    /\ UNCHANGED <<rows, peers, marked>>
    /\ Disturbs({})

(* The status is read and checked, the peer is applied, the sync runs anew. *)
CheckMissing(d) ==
    /\ request = Idle
    /\ rows[d] = "active"
    /\ PanelDoes(Starts("add", {d}))
    /\ UNCHANGED <<rows, peers, marked>>
    /\ Disturbs({})

(* The status is not read again: the bot may have revoked the device since. *)
AddMissing ==
    /\ request.op = "add"
    /\ peers' = peers \cup request.on
    /\ PanelDoes(Sync)
    /\ UNCHANGED <<rows, marked>>
    /\ Changes(request.on \ request.quiet, request.on \cap request.quiet)

AddFails ==
    /\ request.op = "add"
    /\ peers' \in {peers, peers \cup request.on}
    /\ PanelDoes(Idle)
    /\ UNCHANGED <<rows, marked>>
    /\ Disturbs(request.on)

------------------------------------------------------------------------------
(* Delete permanently: the list of pending and active devices, their peers  *)
(* one by one, then every row of the user in one transaction.               *)
ListForDestroy ==
    /\ request = Idle
    /\ PanelDoes([Starts("destroy", Active) EXCEPT !.left = Active])
    /\ UNCHANGED <<rows, peers, marked>>
    /\ Disturbs({})

DestroyPeer(d) ==
    /\ request.op = "destroy"
    /\ d \in request.left
    /\ peers' = peers \ {d}
    /\ PanelDoes([request EXCEPT !.left = @ \ {d}])
    /\ UNCHANGED <<rows, marked>>
    /\ Disturbs({})

(* DELETE FROM devices, with all that belongs to the user: also a device    *)
(* granted since the list was read, whose peer nobody took.                 *)
HardDelete ==
    /\ request.op = "destroy" /\ request.left = {}
    /\ Unlocked
    /\ rows' = [d \in Device |-> IF rows[d] = "none" THEN "none" ELSE "erased"]
    /\ PanelDoes(Idle)
    /\ UNCHANGED <<peers, marked>>
    /\ Disturbs(Device \ (request.on \cup request.quiet))

(* SSH fails, the panel is stopped, the database is locked, or a receipt or *)
(* a slot assignment that has no cascade refers to a row: the peers that    *)
(* went stay away, the rows stay.                                           *)
DestroyFails ==
    /\ request.op = "destroy"
    /\ PanelDoes(Idle)
    /\ UNCHANGED <<rows, peers, marked>>
    /\ Disturbs(request.on \ request.left)

(* Delete a device: the cascade reads the status once more, removes the     *)
(* peer of a pending or active one, and revokes the row.                    *)
StartDelete(d) ==
    /\ request = Idle
    /\ rows[d] \in {"active", "disabled", "revoked"}
    /\ PanelDoes(Starts("delete_peer", {d}))
    /\ UNCHANGED <<rows, peers, marked>>
    /\ Disturbs({})

DeletePeer(d) ==
    /\ request.op = "delete_peer" /\ d \in request.on
    /\ peers' = IF rows[d] = "active" THEN peers \ {d} ELSE peers
    /\ PanelDoes([request EXCEPT !.op = "delete_row"])
    /\ UNCHANGED <<rows, marked>>
    /\ Disturbs({})

(* Mutant: the status of the user is written. *)
DeleteRow_UserStatus(d) ==
    /\ request.op = "delete_row" /\ d \in request.on
    /\ Unlocked
    /\ rows' = [rows EXCEPT ![d] = "deleted"]
    /\ PanelDoes(Idle)
    /\ UNCHANGED <<peers, marked>>
    /\ Disturbs({})

DeleteRow(d) ==
    /\ request.op = "delete_row" /\ d \in request.on
    /\ Unlocked
    /\ rows' = [rows EXCEPT ![d] = "revoked"]
    /\ PanelDoes(Idle)
    /\ UNCHANGED <<peers, marked>>
    /\ Disturbs({})

DeleteFails(d) ==
    /\ request.op \in {"delete_peer", "delete_row"} /\ d \in request.on
    /\ PanelDoes(Idle)
    /\ UNCHANGED <<rows, peers, marked>>
    /\ Disturbs(IF request.op = "delete_row" THEN {d} ELSE {})

------------------------------------------------------------------------------
(* Disable and enable as requests of the panel, whole (AccessProvisioning   *)
(* has their steps).  An enable may fail when the peer is already there, or *)
(* restore it to a device that the bot has not finished revoking.           *)
Disable(d) ==
    /\ request = Idle /\ Unlocked
    /\ rows[d] = "active"
    /\ rows' = [rows EXCEPT ![d] = "disabled"]
    /\ peers' = peers \ {d}
    /\ PanelDoes(Idle)
    /\ UNCHANGED marked
    /\ Disturbs({})

Enable(d) ==
    /\ request = Idle
    /\ rows[d] = "disabled"
    /\ peers' = peers \cup {d}
    /\ PanelDoes(Idle)
    /\ UNCHANGED marked
    /\ \/ Unlocked /\ rows' = [rows EXCEPT ![d] = "active"] /\ Disturbs({d} \cap {bot})
       \/ rows' = rows /\ Disturbs({d})

Next ==
    \/ \E d \in Device : GrantPeer(d)
    \/ GrantCommit
    \/ GrantRollback
    \/ \E d \in Device : RevokePeer(d)
    \/ RevokeCommit
    \/ RevokeCut
    \/ StartSync
    \/ Collect
    \/ Compare
    \/ SyncFails
    \/ \E p \in Peer : IgnoreRemotePeer(p)
    \/ \E p \in Peer : UnignoreRemotePeer(p)
    \/ \E p \in Peer : RemoveUnknownRemotePeer(p)
    \/ \E d \in Device : CheckMissing(d)
    \/ AddMissing
    \/ AddFails
    \/ ListForDestroy
    \/ \E d \in Device : DestroyPeer(d)
    \/ HardDelete
    \/ DestroyFails
    \/ \E d \in Device : StartDelete(d)
    \/ \E d \in Device : DeletePeer(d)
    \/ \E d \in Device : DeleteRow(d)
    \/ \E d \in Device : DeleteFails(d)
    \/ \E d \in Device : Disable(d)
    \/ \E d \in Device : Enable(d)

Spec == Init /\ [][Next]_peerVars

------------------------------------------------------------------------------
(* Devices an operation is at: the bot's, and what the panel works on. *)
InHand == {bot} \cup (IF request.op = "compare" THEN {} ELSE request.on)

(* The node serves exactly the active devices, but for those an operation   *)
(* is at.  Syncs, and disables and deletions of a device, do it no harm     *)
(* beside a grant or a revocation by the bot, nor a repair beside another.  *)
(* What may part the two is this alone: an operation cut short; a posted    *)
(* removal of the peer of an active device or of a grant under way; a       *)
(* missing peer added, or a disabled device enabled, while the bot revokes  *)
(* it; a grant while its user is deleted.  A sync shows every such device   *)
(* that it does not pass over, and adding a missing peer sets it right.     *)
NodeServesActive ==
    \A d \in Device \ (disturbed \cup InHand) : d \in peers <=> rows[d] = "active"
==============================================================================
