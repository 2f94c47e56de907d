-------------------------- MODULE DockerPeerConfig --------------------------
(***************************************************************************)
(* The node's peers when the VPN runs in a Docker container.  They are the *)
(* [Peer] blocks of one config file.  Applying or removing a peer reads    *)
(* the file, edits the text, writes all of it back with `cat >` and        *)
(* restarts the container: three SSH commands, each of which may fail,     *)
(* also after its effect or in the middle of it.  A write that breaks off  *)
(* may stop at any byte and leave a torn block, which the program cannot   *)
(* tell from a whole one: later edits keep it, the allocator reads the     *)
(* address it still has, and a restart, which succeeds all the same,       *)
(* cannot bring up an interface from it.                                   *)
(*                                                                         *)
(* A grant takes its address from the same file: it lists the registry and *)
(* the file, picks an address, inserts the row and holds the write lock of *)
(* the registry while it applies the peer.  Every other request works on   *)
(* the file without any lock.  Each process opens one connection for a     *)
(* request, as the panel and the command line do.                          *)
(*                                                                         *)
(* Of a device the model keeps the row's status and the address in its     *)
(* config.  Who may be granted what is in AccessProvisioning.              *)
(***************************************************************************)
EXTENDS Naturals, FiniteSets, SequencesExt, FiniteSetsExt

CONSTANTS
    Procs, NoProc,
    Keys, NoKey,      \* key pairs of peers
    Foreign,          \* peers of the file that the program did not create
    ForeignAddress,   \* their addresses
    PoolSize,         \* host addresses of the network
    ServerAddress,
    Truncated,        \* hosts whose address as text begins that of a host
    MaxTorn           \* bound: torn blocks in the file

Hosts == 1 .. PoolSize
NoAddress == 0                 \* no AllowedIPs
BadAddress == PoolSize + 1     \* AllowedIPs that are no address

ASSUME DockerAssumption ==
    /\ PoolSize \in Nat
    /\ ServerAddress \in Hosts
    /\ Foreign \subseteq Keys /\ IsFiniteSet(Foreign)
    /\ ForeignAddress \in [Foreign -> Hosts] /\ IsInjective(ForeignAddress)
    /\ NoProc \notin Procs
    /\ NoKey \notin Keys
    /\ Truncated \in [Hosts -> SUBSET Hosts]
    /\ \A a \in Hosts : \A b \in Truncated[a] : b < a
    /\ MaxTorn \in Nat

VARIABLES
    file,      \* the config file
    up,        \* the last start of the container brought the interface up
    live,      \* peers it serves under the address in their config
    address,   \* address in the config made with a key pair
    row,       \* committed status of a key pair's device
    holder,    \* process that holds the registry's write lock
    readers,   \* processes whose open transaction only read so far
    pc, job, copy,
    doubt      \* peers that a failed request, or one posted by hand, took care of

node     == <<file, up, live>>
registry == <<row, holder, readers>>
vars     == <<node, address, registry, pc, job, copy, doubt>>

RowStatus == {"none", "active", "disabled", "revoked"}
Applying  == {"grant", "enable", "add_missing"}
Removing  == {"revoke", "disable", "remove_unknown"}
Job == [kind : Applying \cup Removing \cup {"none"}, key : Keys \cup {NoKey}]
NoJob == [kind |-> "none", key |-> NoKey]

\* A [Peer] block, as far as it can be read; wg refuses one that is not sound.
Block == [key : Keys \cup {NoKey}, ip : Hosts \cup {NoAddress, BadAddress}, sound : BOOLEAN]

\* A key has at most one block: a new one is added after the old was taken out.
OneBlockEach(s) ==
    \A i, j \in DOMAIN s : s[i].key = s[j].key /\ s[i].key # NoKey => i = j

\* "torn": [Interface] with its address, but not whole; "none": no address.
ConfigFile == [interface : {"whole", "torn", "none"}, blocks : {s \in Seq(Block) : OneBlockEach(s)}]

PC == {"idle",
       "listed",   \* grant: address picked, nothing written
       "read",     \* the file is to be read
       "write",    \* read and edited
       "restart",  \* written
       "local"}    \* restarted: the registry is to be written

TypeOK ==
    /\ file \in ConfigFile
    /\ up \in BOOLEAN
    /\ live \subseteq Keys
    /\ address \in [Keys -> Hosts \cup {NoAddress}]
    /\ row \in [Keys -> RowStatus]
    /\ holder \in Procs \cup {NoProc}
    /\ readers \subseteq Procs
    /\ pc \in [Procs -> PC]
    /\ job \in [Procs -> Job]
    /\ copy \in [Procs -> ConfigFile]
    /\ doubt \subseteq Keys

NoFile == [interface |-> "none", blocks |-> << >>]

ForeignBlocks ==
    LET s == SetToSeq(Foreign)
    IN  [i \in DOMAIN s |-> [key |-> s[i], ip |-> ForeignAddress[s[i]], sound |-> TRUE]]

Init ==
    /\ file = [interface |-> "whole", blocks |-> ForeignBlocks]
    /\ up = TRUE
    /\ live = Foreign
    /\ address = [k \in Keys |-> IF k \in Foreign THEN ForeignAddress[k] ELSE NoAddress]
    /\ row = [k \in Keys |-> "none"]
    /\ holder = NoProc
    /\ readers = {}
    /\ pc = [p \in Procs |-> "idle"]
    /\ job = [p \in Procs |-> NoJob]
    /\ copy = [p \in Procs |-> NoFile]
    /\ doubt = {}

-----------------------------------------------------------------------------
(* The config file as text.                                                *)

\* Keys with a block, whole or torn.
KeysOf(f) == {b.key : b \in ToSet(f.blocks)} \ {NoKey}

Names(b, k) == b.key = k /\ b.ip = address[k] /\ b.ip \in Hosts

\* The peers of a file: their blocks have the address of their config.
PeersOf(f) == {k \in Keys : \E b \in ToSet(f.blocks) : Names(b, k)}

TornIn(f) ==
    {i \in DOMAIN f.blocks : ~f.blocks[i].sound \/ \A k \in Keys : ~Names(f.blocks[i], k)}

\* An address that two blocks name is the last one's.
Routed(f) ==
    {k \in Keys : \E i \in DOMAIN f.blocks :
        /\ Names(f.blocks[i], k)
        /\ \A j \in DOMAIN f.blocks : j > i => f.blocks[j].ip # address[k]}

\* awg-quick takes the whole file or none of it.
Loads(f) ==
    /\ f.interface = "whole"
    /\ \A b \in ToSet(f.blocks) : b.sound

Serves(f) == IF Loads(f) THEN Routed(f) ELSE {}

BlockOf(s, k) == CHOOSE i \in DOMAIN s : s[i].key = k

\* Mutant: the block ends where the file does.
RemovePeerBlock_ToEnd(f, k) ==
    [f EXCEPT !.blocks = IF k \in KeysOf(f) THEN SubSeq(@, 1, BlockOf(@, k) - 1) ELSE @]

RemovePeerBlock(f, k) ==
    [f EXCEPT !.blocks = IF k \in KeysOf(f) THEN RemoveAt(@, BlockOf(@, k)) ELSE @]

NewBlock(k) == [key |-> k, ip |-> address[k], sound |-> TRUE]

UpsertPeerBlock(f, k) == [RemovePeerBlock(f, k) EXCEPT !.blocks = Append(@, NewBlock(k))]

Edited(p) ==
    IF job[p].kind \in Applying THEN UpsertPeerBlock(copy[p], job[p].key)
                                ELSE RemovePeerBlock(copy[p], job[p].key)

\* What is left of a block when the text stops within it: nothing with a key,
\* a key without AllowedIPs, or with the beginning of them, which may be
\* another's address, or none.
Remains(b) ==
    LET none  == {NoAddress} \cup {a \in {BadAddress} : b.ip \in Hosts \cup {BadAddress}}
        other == {a \in Hosts : b.ip \in Hosts /\ a \in Truncated[b.ip]}
        keyed == [key : {b.key}, ip : none, sound : BOOLEAN]
                 \cup [key : {b.key}, ip : other, sound : {TRUE}]
    IN  [key : {NoKey}, ip : {NoAddress}, sound : {FALSE}]
        \cup {c \in keyed : b.key # NoKey}

\* What a write that breaks off may leave: nothing, a part of [Interface],
\* some blocks, some with the beginning of the next header, some with the
\* remains of the next.
CutOff(f) ==
    LET first(n) == SubSeq(f.blocks, 1, n)
        texts == {first(n) : n \in 0 .. Len(f.blocks)}
                 \cup {[first(n) EXCEPT ![n].sound = FALSE] : n \in 1 .. Len(f.blocks) - 1}
                 \cup UNION {{Append(first(n - 1), b) : b \in Remains(f.blocks[n])}
                               : n \in 1 .. Len(f.blocks)}
    IN  {NoFile}
        \cup {g \in {[f EXCEPT !.interface = "torn", !.blocks = << >>]} : f.interface # "none"}
        \cup {[f EXCEPT !.blocks = s] : s \in texts}

-----------------------------------------------------------------------------
(* Addresses.                                                              *)

ActiveKeys   == {k \in Keys : row[k] = "active"}
ReservedKeys == {k \in Keys : row[k] \in {"active", "disabled"}}
AddressesOf(S) == {address[k] : k \in S}

\* Mutant: the node is not asked.
FreeAddresses_Registry ==
    Hosts \ (AddressesOf(ReservedKeys) \cup {ServerAddress})

\* Addresses above the highest one of the node, also of a torn block.
FreeAddresses ==
    LET remote == {b.ip : b \in ToSet(file.blocks)} \cap Hosts
        above  == {a \in Hosts : \A b \in remote : a > b}
    IN  above \ (AddressesOf(ReservedKeys) \cup {ServerAddress})

AllocateVpnIp == Min(FreeAddresses)

-----------------------------------------------------------------------------
Goto(p, label) == pc' = [pc EXCEPT ![p] = label]
Begin(p, label, kind, k) ==
    /\ pc[p] = "idle"
    /\ Goto(p, label)
    /\ job' = [job EXCEPT ![p] = [kind |-> kind, key |-> k]]
Stop(p) ==
    /\ Goto(p, "idle")
    /\ job' = [job EXCEPT ![p] = NoJob]
    /\ copy' = [copy EXCEPT ![p] = NoFile]
    /\ readers' = readers \ {p}
    /\ holder' = IF holder = p THEN NoProc ELSE holder

\* BEGIN, the checks, the listing of both sides.  An exhausted network, a
\* file that cannot be read or AllowedIPs that are no address end the request
\* here, without effect.
StartGrant(p, k) ==
    /\ address[k] = NoAddress
    /\ \A b \in ToSet(file.blocks) : b.ip # BadAddress
    /\ FreeAddresses # {}
    /\ Begin(p, "listed", "grant", k)
    /\ address' = [address EXCEPT ![k] = AllocateVpnIp]
    /\ readers' = readers \cup {p}
    /\ UNCHANGED <<node, row, holder, copy, doubt>>

\* The INSERT takes the write lock.
InsertRow(p) ==
    /\ pc[p] = "listed" /\ holder = NoProc
    /\ holder' = p
    /\ readers' = readers \ {p}
    /\ Goto(p, "read")
    /\ UNCHANGED <<node, address, row, job, copy, doubt>>

Start(p, label, kind, k) ==
    /\ Begin(p, label, kind, k)
    /\ UNCHANGED <<node, address, registry, copy, doubt>>

StartRevoke(p, k) ==
    \/ row[k] = "active" /\ Start(p, "read", "revoke", k)
    \/ row[k] = "disabled" /\ Start(p, "local", "revoke", k)

StartDisable(p, k)    == row[k] = "active" /\ Start(p, "read", "disable", k)
StartEnable(p, k)     == row[k] = "disabled" /\ Start(p, "read", "enable", k)
StartAddMissing(p, k) == row[k] = "active" /\ Start(p, "read", "add_missing", k)

\* The form posts a key; neither the registry nor the node is looked at.
StartRemoveUnknown(p, k) == Start(p, "read", "remove_unknown", k)

-----------------------------------------------------------------------------
(* The three commands.                                                     *)

\* Mutant: the live network is not compared.
NetworkMatches_Unchecked(f) == TRUE

\* _validate_docker_config_network, when a peer is added.
NetworkMatches(f) == f.interface # "none"

ReadDockerConfig(p) ==
    /\ pc[p] = "read"
    /\ job[p].kind \in Applying => NetworkMatches(file)
    /\ copy' = [copy EXCEPT ![p] = file]
    /\ Goto(p, "write")
    /\ UNCHANGED <<node, address, registry, job, doubt>>

WriteDockerConfig(p) ==
    /\ pc[p] = "write"
    /\ file' = Edited(p)
    /\ Goto(p, "restart")
    /\ UNCHANGED <<up, live, address, registry, job, copy, doubt>>

\* Mutant: the container is not restarted.
RestartDockerContainer_Skipped(p) ==
    /\ pc[p] = "restart"
    /\ Goto(p, "local")
    /\ UNCHANGED <<node, address, registry, job, copy, doubt>>

Restarts == up' = Loads(file) /\ live' = Serves(file)

\* `docker restart` succeeds also when the interface does not come up.
RestartDockerContainer(p) ==
    /\ pc[p] = "restart"
    /\ Restarts
    /\ Goto(p, "local")
    /\ UNCHANGED <<file, address, registry, job, copy, doubt>>

-----------------------------------------------------------------------------
(* The end of a request.                                                   *)

\* Mutant: a user's status is written to the device.
RowAfter_UserStatus(k, kind) ==
    IF kind = "disable" THEN "blocked" ELSE IF kind = "revoke" THEN "revoked" ELSE "active"

RowAfter(k, kind) ==
    CASE kind \in {"grant", "enable"} -> "active"
      [] kind = "disable" /\ row[k] = "active" -> "disabled"
      [] kind = "revoke" -> "revoked"
      [] OTHER -> row[k]

\* COMMIT needs the lock and no reader.  The panel's repairs write an audit
\* row only.  The peer removed by hand may be an active device's, and the
\* revocation of a disabled one has not looked at the node.
WriteLocal(p) ==
    LET k == job[p].key
    IN  /\ pc[p] = "local"
        /\ holder \in {p, NoProc} /\ readers = {}
        /\ row' = [row EXCEPT ![k] = RowAfter(k, job[p].kind)]
        /\ doubt' = CASE job[p].kind = "remove_unknown" /\ row[k] = "active" -> doubt \cup {k}
                      [] job[p].kind = "revoke" /\ row[k] # "active" -> doubt
                      [] OTHER -> doubt \ {k}
        /\ Stop(p)
        /\ UNCHANGED <<node, address>>

Doubts(S) == doubt' = doubt \cup (S \ Foreign)

\* An error before anything left the process: the key pair is forgotten.
FailEarly(p) ==
    LET k == job[p].key
    IN  /\ pc[p] \in {"listed", "read", "write"}
        /\ address' = IF job[p].kind = "grant"
                      THEN [address EXCEPT ![k] = NoAddress] ELSE address
        /\ Stop(p)
        /\ UNCHANGED <<node, row, doubt>>

FailWrite(p) ==
    /\ pc[p] = "write"
    /\ file' \in {f \in CutOff(Edited(p)) : Cardinality(TornIn(f)) <= MaxTorn}
    /\ Doubts({job[p].key} \cup (Routed(file) \ Routed(file')))
    /\ Stop(p)
    /\ UNCHANGED <<up, live, address, row>>

FailRestart(p) ==
    /\ pc[p] = "restart"
    /\ Restarts \/ UNCHANGED <<up, live>>
    /\ Doubts({job[p].key})
    /\ Stop(p)
    /\ UNCHANGED <<file, address, row>>

\* COMMIT was refused, the database failed, or the process died.
FailLocal(p) ==
    /\ pc[p] = "local"
    /\ Doubts({job[p].key})
    /\ Stop(p)
    /\ UNCHANGED <<node, address, row>>

-----------------------------------------------------------------------------
Work(p) ==
    \/ InsertRow(p)
    \/ ReadDockerConfig(p) \/ WriteDockerConfig(p) \/ RestartDockerContainer(p)
    \/ WriteLocal(p)
    \/ FailEarly(p) \/ FailWrite(p) \/ FailRestart(p) \/ FailLocal(p)

Next ==
    \/ \E p \in Procs : Work(p)
    \/ \E p \in Procs, k \in Keys :
        \/ StartGrant(p, k)
        \/ StartRevoke(p, k) \/ StartDisable(p, k) \/ StartEnable(p, k)
        \/ StartAddMissing(p, k) \/ StartRemoveUnknown(p, k)

Spec == Init /\ [][Next]_vars

-----------------------------------------------------------------------------
(* Properties.                                                             *)

DistinctAddresses(S) == \A j, k \in S : address[j] = address[k] => j = k

\* No address is given out twice: the peers of the file, or of the running
\* interface, and the devices that keep an address in the registry (active
\* or disabled) all have different ones, whatever failed before.  Another's
\* address can stand only in a block that a broken-off write has torn.
AddressUnique ==
    /\ DistinctAddresses(PeersOf(file) \cup ReservedKeys)
    /\ DistinctAddresses(live \cup ReservedKeys)

\* A device becomes active only when its peer is in the file, under an
\* [Interface] of the configured network, and is served if anyone is: after
\* a broken-off write nobody may be, and the request cannot tell.
ActivationServed ==
    [][\A k \in Keys : row'[k] = "active" /\ row[k] # "active" =>
        /\ file'.interface # "none" /\ k \in PeersOf(file)'
        /\ up' => k \in live']_vars

BlocksBut(f, k) == {b \in ToSet(f.blocks) : b.key # k}

\* A request that rewrites the whole file changes no other block, torn ones
\* too, unless its write broke off, which ends it.
OnlyOwnPeerChanges ==
    [][\A p \in Procs :
        pc[p] = "write" /\ pc'[p] = "restart" =>
            /\ file'.interface = file.interface
            /\ BlocksBut(file', job[p].key) = BlocksBut(file, job[p].key)]_vars

\* Between requests the file has the peers of exactly the active devices, and
\* so has the interface if it is up, except those that a failed request was
\* about, that were removed by hand, or whose block or address a broken-off
\* write took: repairing them (again, or by the sync page) is enough.
ServedUntilTold ==
    (\A p \in Procs : pc[p] = "idle") =>
        \A k \in Keys \ (Foreign \cup doubt) :
            /\ k \in ActiveKeys <=> k \in PeersOf(file)
            /\ up => (k \in ActiveKeys <=> k \in live)
=============================================================================
