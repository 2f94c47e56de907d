-------------------------- MODULE NodeServices_proofs --------------------------
(***************************************************************************)
(* What the services of MCServices that look after the nodes promise, for  *)
(* every value of their constants: the health check of a server, the peers *)
(* the panel adds and removes, the catalog of servers.                     *)
(***************************************************************************)
EXTENDS MCServices, Integers, Sequences, FiniteSetTheorems, TLAPS

(* The health check of a server.                                           *)

Asked(commands, n) == {commands[k] : k \in 1..n}

\* The results of a check under way: what was sent so far, what of it failed,
\* and what was wrong with the node all the time.
CheckHonest ==
    check.on =>
        /\ check.done <= Len(check.commands)
        /\ run = Asked(check.commands, check.done)
        /\ check.lasting \subseteq wrong \cap Asked(check.commands, Len(check.commands))
        /\ check.lasting \cap run \subseteq check.failed
        /\ check.quiet => /\ check.failed = {}
                          /\ wrong \cap Asked(check.commands, Len(check.commands)) = {}
        /\ "interface" \in run => check.wellFormed

\* The recorded verdict has every fault that lasted.
VerdictHonest ==
    /\ health.lasting # {} => health.status # "online"
    /\ health.lasting \cap Health!Errors # {} => health.status \in {"offline", "unknown"}
    /\ health.quiet => health.status = "online"
    /\ health.status = "online" /\ ~check.on =>
          run \in {Asked(Health!Docker, Len(Health!Docker)),
                   Asked(Health!Systemd, Len(Health!Systemd))}

HealthInv == Health!TypeOK /\ CheckHonest /\ VerdictHonest

LEMMA Checklists ==
    ASSUME NEW commands \in {Health!Docker, Health!Systemd}
    PROVE  /\ commands \in Seq(Health!Check)
           /\ Len(commands) \in 1..7
           /\ Health!Range(commands) = Asked(commands, Len(commands))
<1>1. commands \in Seq(Health!Check) /\ Len(commands) \in 1..7
  <2>1. CASE commands = Health!Docker
    BY <2>1 DEF Health!Docker, Health!Check, Health!Errors, Health!Warnings
  <2>2. CASE commands = Health!Systemd
    BY <2>2 DEF Health!Systemd, Health!Check, Health!Errors, Health!Warnings
  <2> QED
    BY <2>1, <2>2
<1>2. DOMAIN commands = 1..Len(commands)
  BY <1>1
<1> QED
  BY <1>1, <1>2 DEF Health!Range, Asked

\* Blank rows, of a check that never ran.
LEMMA BlankHealth ==
    /\ Health!Idle \in Health!Running /\ ~Health!Idle.on
    /\ Health!NoHealth \in Health!HealthRow
BY DEF Health!Idle, Health!Running, Health!NoHealth, Health!HealthRow, Health!Verdict

LEMMA HealthInit == Health!Init => HealthInv
<1>1. Health!Init => Health!TypeOK
  BY BlankHealth DEF Health!Init, Health!TypeOK
<1>2. Health!Init => CheckHonest
  BY BlankHealth DEF Health!Init, CheckHonest
<1>3. Health!Init => VerdictHonest
  BY DEF Health!Init, VerdictHonest, Health!NoHealth
<1> QED
  BY <1>1, <1>2, <1>3 DEF HealthInv

LEMMA CheckTypes ==
    ASSUME Health!TypeOK
    PROVE  /\ check.on \in BOOLEAN /\ check.wellFormed \in BOOLEAN /\ check.quiet \in BOOLEAN
           /\ check.commands \in {Health!Docker, Health!Systemd}
           /\ check.done \in 0..7
           /\ check.failed \subseteq Health!Check /\ check.lasting \subseteq Health!Check
BY DEF Health!TypeOK, Health!Running

LEMMA NodeChangesKeeps ==
    ASSUME HealthInv, NEW faults \in SUBSET Health!Check, Health!NodeChanges(faults)
    PROVE  HealthInv'
<1>1. /\ wrong' = faults /\ UNCHANGED <<entry, health, run>>
      /\ check' = [check EXCEPT !.lasting = check.lasting \cap faults,
                                !.quiet = (check.quiet /\ faults = {})]
  BY DEF Health!NodeChanges
<1>2. check \in Health!Running /\ (check.quiet /\ faults = {}) \in BOOLEAN
  BY CheckTypes DEF HealthInv, Health!TypeOK
<1>3. /\ check' \in Health!Running
      /\ check'.on = check.on /\ check'.commands = check.commands /\ check'.done = check.done
      /\ check'.failed = check.failed /\ check'.wellFormed = check.wellFormed
      /\ check'.lasting = check.lasting \cap faults
      /\ check'.quiet = (check.quiet /\ faults = {})
  BY <1>1, <1>2 DEF Health!Running
<1>4. Health!TypeOK'
  BY <1>1, <1>3 DEF HealthInv, Health!TypeOK
<1>5. CheckHonest'
  BY <1>1, <1>3 DEF HealthInv, CheckHonest
<1>6. VerdictHonest'
  BY <1>1 DEF HealthInv, VerdictHonest
<1> QED
  BY <1>4, <1>5, <1>6 DEF HealthInv

LEMMA EditFileKeeps ==
    ASSUME HealthInv, NEW e \in Health!Entry, Health!EditFile(e)
    PROVE  HealthInv'
BY DEF Health!EditFile, HealthInv, Health!TypeOK, CheckHonest, VerdictHonest

LEMMA RunHealthKeeps ==
    ASSUME HealthInv, Health!RunHealth
    PROVE  HealthInv'
<1>0. /\ ~check.on /\ run' = {} /\ UNCHANGED <<entry, wrong>>
      /\ entry \in Health!Entry /\ wrong \subseteq Health!Check
  BY DEF Health!RunHealth, HealthInv, Health!TypeOK
<1>1. CASE entry.runtime = "none"
  <2> DEFINE row == [Health!NoHealth EXCEPT !.status = "unknown"]
  <2>1. row \in Health!HealthRow /\ row.status = "unknown" /\ row.lasting = {} /\ ~row.quiet
    BY DEF Health!NoHealth, Health!HealthRow, Health!Verdict
  <2>2. health' = row /\ check' = Health!Idle
    BY <1>1 DEF Health!RunHealth
  <2> HIDE DEF row
  <2> QED
    BY <1>0, <2>1, <2>2, BlankHealth DEF HealthInv, Health!TypeOK, CheckHonest, VerdictHonest
<1>2. CASE entry.runtime # "none"
  <2> DEFINE commands == Health!Commands(entry.runtime)
             lasting == wrong \cap Health!Range(commands)
             started == [on |-> TRUE, commands |-> commands, done |-> 0,
                         wellFormed |-> entry.wellFormed, failed |-> {},
                         lasting |-> lasting, quiet |-> lasting = {}]
  <2>1. commands \in {Health!Docker, Health!Systemd}
    BY DEF Health!Commands
  <2>2. lasting = wrong \cap Asked(commands, Len(commands)) /\ lasting \subseteq Health!Check
    BY <1>0, <2>1, Checklists
  <2>3. health' = [health EXCEPT !.lasting = {}, !.quiet = FALSE] /\ check' = started
    BY <1>2 DEF Health!RunHealth
  <2> HIDE DEF commands, lasting
  <2>4. /\ started \in Health!Running /\ started.on /\ started.commands = commands
        /\ started.done = 0 /\ started.failed = {} /\ started.lasting = lasting
        /\ started.quiet = (lasting = {})
    BY <1>0, <2>1, <2>2 DEF Health!Running, Health!Entry
  <2> HIDE DEF started
  <2>5. Health!TypeOK'
    BY <1>0, <2>3, <2>4 DEF HealthInv, Health!TypeOK, Health!HealthRow
  <2>6. Len(commands) \in 1..7 /\ Asked(commands, 0) = {}
    BY <2>1, Checklists DEF Asked
  <2>7. CheckHonest'
    <3>1. check'.done <= Len(check'.commands) /\ run' = Asked(check'.commands, check'.done)
      BY <1>0, <2>3, <2>4, <2>6
    <3>2. check'.lasting \subseteq wrong' \cap Asked(check'.commands, Len(check'.commands))
      BY <1>0, <2>2, <2>3, <2>4
    <3>3. check'.quiet => /\ check'.failed = {}
                          /\ wrong' \cap Asked(check'.commands, Len(check'.commands)) = {}
      BY <1>0, <2>2, <2>3, <2>4
    <3> QED
      BY <1>0, <2>3, <3>1, <3>2, <3>3 DEF CheckHonest
  <2>8. VerdictHonest'
    BY <2>3, <2>4 DEF HealthInv, VerdictHonest, Health!TypeOK, Health!HealthRow
  <2> QED
    BY <2>5, <2>7, <2>8 DEF HealthInv
<1> QED
  BY <1>1, <1>2

\* The next command is one of the list, and with it one more was sent.
LEMMA NextCommand ==
    ASSUME HealthInv, Health!Pending
    PROVE  /\ check.on /\ check.done + 1 \in 1..Len(check.commands)
           /\ check.done + 1 \in 0..7
           /\ Health!Step \in Health!Check
           /\ Health!Step \in Asked(check.commands, Len(check.commands))
           /\ Asked(check.commands, check.done + 1) = run \cup {Health!Step}
<1>1. check.on /\ check.done < Len(check.commands) /\ run = Asked(check.commands, check.done)
  BY DEF Health!Pending, HealthInv, CheckHonest
<1>2. /\ check.commands \in Seq(Health!Check) /\ Len(check.commands) \in 1..7
      /\ check.done \in 0..7
  BY CheckTypes, Checklists DEF HealthInv
<1>3. check.done + 1 \in 1..Len(check.commands) /\ Health!Step = check.commands[check.done + 1]
  BY <1>1, <1>2 DEF Health!Step
<1>4. 1..(check.done + 1) = (1..check.done) \cup {check.done + 1}
  BY <1>2
<1> QED
  BY <1>1, <1>2, <1>3, <1>4 DEF Asked

\* A command was sent, and failed when what it looks at was wrong.
LEMMA CheckStepKeeps ==
    ASSUME HealthInv, Health!Pending, Health!ReadOnly(Health!Step),
           NEW more \in SUBSET {Health!Step}, NEW still \in BOOLEAN,
           {Health!Step} \cap wrong \subseteq more,
           still => check.quiet /\ more \subseteq wrong,
           run' = run \cup {Health!Step},
           check' = [check EXCEPT !.done = check.done + 1, !.failed = check.failed \cup more,
                                  !.quiet = still],
           UNCHANGED <<entry, wrong, health>>
    PROVE  HealthInv'
<1> DEFINE next == Health!Step
<1>1. /\ check.on /\ check.done + 1 \in 1..Len(check.commands)
      /\ check.done + 1 \in 0..7 /\ next \in Health!Check
      /\ next \in Asked(check.commands, Len(check.commands))
      /\ Asked(check.commands, check.done + 1) = run \cup {next}
  BY NextCommand
<1>2. next = "interface" => check.wellFormed
  BY DEF Health!ReadOnly
<1> HIDE DEF next
<1>3. check \in Health!Running /\ check.failed \cup more \subseteq Health!Check
  BY <1>1, CheckTypes DEF HealthInv, Health!TypeOK, next
<1>4. /\ check' \in Health!Running /\ check'.on /\ check'.commands = check.commands
      /\ check'.done = check.done + 1 /\ check'.failed = check.failed \cup more
      /\ check'.quiet = still /\ check'.lasting = check.lasting
      /\ check'.wellFormed = check.wellFormed
  BY <1>1, <1>3 DEF Health!Running
<1>5. run' = run \cup {next} /\ more \subseteq {next} /\ {next} \cap wrong \subseteq more
  BY DEF next
<1>6. Health!TypeOK'
  BY <1>1, <1>4, <1>5 DEF HealthInv, Health!TypeOK
<1>7. CheckHonest'
  <2>1. check'.done <= Len(check'.commands) /\ run' = Asked(check'.commands, check'.done)
    BY <1>1, <1>4, <1>5, Checklists, CheckTypes DEF HealthInv
  <2>2. /\ check.lasting \subseteq wrong \cap Asked(check.commands, Len(check.commands))
        /\ check.lasting \cap run \subseteq check.failed
        /\ check.quiet => /\ check.failed = {}
                          /\ wrong \cap Asked(check.commands, Len(check.commands)) = {}
        /\ "interface" \in run => check.wellFormed
    BY <1>1 DEF HealthInv, CheckHonest
  <2>3. check'.lasting \cap run' \subseteq check'.failed
    BY <1>4, <1>5, <2>2
  <2>4. check'.quiet => check'.failed = {}
    BY <1>1, <1>4, <1>5, <2>2
  <2> QED
    BY <1>2, <1>4, <1>5, <2>1, <2>2, <2>3, <2>4 DEF CheckHonest
<1>8. VerdictHonest'
  BY <1>1, <1>4 DEF HealthInv, VerdictHonest
<1> QED
  BY <1>6, <1>7, <1>8 DEF HealthInv

\* The check is over: its row says what was judged.
LEMMA RecordKeeps ==
    ASSUME HealthInv, NEW row \in Health!HealthRow, NEW told \in SUBSET Health!Check,
           health' = row, check' = Health!Idle, run' = told, UNCHANGED <<entry, wrong>>,
           row.lasting # {} => row.status # "online",
           row.lasting \cap Health!Errors # {} => row.status \in {"offline", "unknown"},
           row.quiet => row.status = "online",
           row.status = "online" =>
              told \in {Asked(Health!Docker, Len(Health!Docker)),
                          Asked(Health!Systemd, Len(Health!Systemd))}
    PROVE  HealthInv'
<1>1. Health!TypeOK'
  BY BlankHealth DEF HealthInv, Health!TypeOK
<1>2. CheckHonest'
  BY BlankHealth DEF CheckHonest
<1>3. VerdictHonest'
  BY DEF VerdictHonest
<1> QED
  BY <1>1, <1>2, <1>3 DEF HealthInv

\* A check that is cut short is not online.
LEMMA CutShortKeeps ==
    ASSUME HealthInv, Health!Pending, NEW status \in {"unknown", "offline"},
           NEW told \in SUBSET {Health!Step},
           health' = [status |-> status, lasting |-> check.lasting, quiet |-> FALSE],
           check' = Health!Idle, run' = run \cup told, UNCHANGED <<entry, wrong>>
    PROVE  HealthInv'
<1> DEFINE row == [status |-> status, lasting |-> check.lasting, quiet |-> FALSE]
<1>1. /\ row \in Health!HealthRow /\ row.status = status /\ row.lasting = check.lasting
      /\ ~row.quiet
  BY CheckTypes DEF HealthInv, Health!HealthRow, Health!Verdict
<1>2. run' \subseteq Health!Check
  BY NextCommand DEF HealthInv, Health!TypeOK
<1>3. health' = row
  OBVIOUS
<1> HIDE DEF row
<1> QED
  BY <1>1, <1>2, <1>3, RecordKeeps

LEMMA FinishKeeps ==
    ASSUME HealthInv, Health!Finish
    PROVE  HealthInv'
<1> DEFINE status == Health!SummarizeCheckReport(check.failed)
           row == [status |-> status, lasting |-> check.lasting, quiet |-> check.quiet]
<1>1. /\ check.on /\ ~(check.done < Len(check.commands))
      /\ health' = row /\ check' = Health!Idle /\ UNCHANGED <<entry, wrong, run>>
  BY DEF Health!Finish, Health!Pending, Health!Recorded
<1>2. /\ status = "online" <=> check.failed = {}
      /\ check.failed \cap Health!Errors # {} => status = "offline"
      /\ status \in Health!Verdict
  BY DEF Health!SummarizeCheckReport, Health!Verdict
<1>3. check.done = Len(check.commands)
  BY <1>1, CheckTypes, Checklists DEF HealthInv, CheckHonest
<1>4. /\ run = Asked(check.commands, Len(check.commands)) /\ check.lasting \subseteq check.failed
      /\ check.quiet => check.failed = {}
  BY <1>1, <1>3 DEF HealthInv, CheckHonest
<1> HIDE DEF status
<1>5. /\ row \in Health!HealthRow /\ row.status = status /\ row.lasting = check.lasting
      /\ row.quiet = check.quiet
  BY <1>2, CheckTypes DEF HealthInv, Health!HealthRow
<1> HIDE DEF row
<1>6. run' \in SUBSET Health!Check
      /\ run' \in {Asked(Health!Docker, Len(Health!Docker)),
                   Asked(Health!Systemd, Len(Health!Systemd))}
  BY <1>1, <1>4, CheckTypes DEF HealthInv, Health!TypeOK
<1>7. /\ row.lasting # {} => row.status # "online"
      /\ row.lasting \cap Health!Errors # {} => row.status \in {"offline", "unknown"}
      /\ row.quiet => row.status = "online"
  BY <1>2, <1>4, <1>5
<1> QED
  BY <1>1, <1>5, <1>6, <1>7, RecordKeeps

LEMMA HealthNextKeeps ==
    ASSUME HealthInv, [Health!Next]_v10
    PROVE  HealthInv'
<1>1. CASE UNCHANGED v10
  BY <1>1 DEF v10, HealthInv, Health!TypeOK, CheckHonest, VerdictHonest
<1>2. CASE Health!Next
  <2>1. CASE \E faults \in SUBSET Health!Check : Health!NodeChanges(faults)
    BY <2>1, NodeChangesKeeps
  <2>2. CASE \E e \in Health!Entry : Health!EditFile(e)
    BY <2>2, EditFileKeeps
  <2>3. CASE Health!RunHealth
    BY <2>3, RunHealthKeeps
  <2>4. CASE Health!RunStep
    <3>1. /\ Health!Pending /\ Health!ReadOnly(Health!Step)
          /\ run' = run \cup {Health!Step} /\ UNCHANGED <<entry, wrong, health>>
          /\ check' = [check EXCEPT !.done = check.done + 1,
                                    !.failed = check.failed \cup ({Health!Step} \cap wrong)]
      BY <2>4 DEF Health!RunStep
    <3>2. check \in Health!Running /\ check.quiet \in BOOLEAN
      BY CheckTypes DEF HealthInv, Health!TypeOK
    <3>3. check' = [check EXCEPT !.done = check.done + 1,
                                 !.failed = check.failed \cup ({Health!Step} \cap wrong),
                                 !.quiet = check.quiet]
      BY <3>1, <3>2 DEF Health!Running
    <3> QED
      BY <3>1, <3>2, <3>3, CheckStepKeeps
  <2>5. CASE Health!Unreachable
    BY <2>5, CheckStepKeeps DEF Health!Unreachable
  <2>6. CASE Health!StepRaises
    BY <2>6, CutShortKeeps DEF Health!StepRaises
  <2>7. CASE Health!StepBlocked
    <3>1. {} \in SUBSET {Health!Step} /\ run' = run \cup {}
      BY <2>7 DEF Health!StepBlocked
    <3> QED
      BY <2>7, <3>1, CutShortKeeps DEF Health!StepBlocked
  <2>8. CASE Health!Finish
    BY <2>8, FinishKeeps
  <2> QED
    BY <1>2, <2>1, <2>2, <2>3, <2>4, <2>5, <2>6, <2>7, <2>8 DEF Health!Next
<1> QED
  BY <1>1, <1>2

\* A check under way and its verdict are honest, whatever breaks meanwhile.
THEOREM HealthInvariant == Spec => [](part = "health" => HealthInv)
<1>1. Init => (part = "health" => HealthInv)
  BY HealthInit DEF Init
<1>2. ASSUME part = "health" => HealthInv, [Next]_<<part, v1, v2, v3, v4, v5, v6, v7, v8, v9, v10>>
      PROVE  (part = "health" => HealthInv)'
  <2>1. CASE HealthNext
    BY <1>2, <2>1, HealthNextKeeps DEF HealthNext
  <2>2. CASE part # "health" /\ part' = part
    BY <2>2
  <2>3. CASE part' = part /\ v10' = v10
    BY <1>2, <2>3, HealthNextKeeps
  <2> QED
    BY <1>2, <2>1, <2>2, <2>3
    DEF Next, ApiNext, MailNext, SchemaNext, BackupNext, PeersNext, RuntimeNext, DialogNext,
        CatalogNext, AccountsNext
<1> QED
  BY <1>1, <1>2, PTL DEF Spec

\* A fault that lasted through the check is in the verdict; a node that was
\* well is online; nothing outside the allowlist is sent.
THEOREM VerdictsHold == Spec => []VerdictHolds
<1>1. ASSUME HealthInv PROVE Health!VerdictHolds
  <2>1. /\ Health!Range(Health!Docker) = Asked(Health!Docker, Len(Health!Docker))
        /\ Health!Range(Health!Systemd) = Asked(Health!Systemd, Len(Health!Systemd))
    BY Checklists
  <2> QED
    BY <1>1, <2>1 DEF Health!VerdictHolds, HealthInv, CheckHonest, VerdictHonest
<1>2. (part = "health" => HealthInv) => VerdictHolds
  BY <1>1 DEF VerdictHolds
<1> QED
  BY <1>2, HealthInvariant, PTL

-----------------------------------------------------------------------------
(* The peers the panel adds and removes.                                   *)

Serves(d) == d \in peers <=> rows[d] = "active"

\* The bot is at the device: the peer is there before the row, and goes
\* before it.
Held(d) == IF rows[d] = "granting" THEN d \in peers ELSE d \notin peers

\* A deletion has taken the peer and not yet the row.
Gone(d) ==
    /\ d \in request.on
    /\ request.op = "delete_row" \/ (request.op = "destroy" /\ d \notin request.left)

InOrder(d) ==
    IF d = peerBot THEN Held(d) ELSE IF Gone(d) THEN d \notin peers ELSE Serves(d)

\* A deletion of a device is about one.  What a request about devices has
\* read has a row.  Of the devices the bot left alone since, a request knows
\* what it read: the active ones, the one that is active, the peers.
RequestShape ==
    /\ peerBot \notin request.quiet
    /\ request.op \in {"delete_peer", "delete_row"} => \A d, e \in request.on : d = e
    /\ request.op \in {"add", "destroy", "delete_peer", "delete_row"} =>
          \A d \in request.on : d \in PeerDevice /\ rows[d] \notin {"none", "granting"}
    /\ request.op = "destroy" => request.left \subseteq request.on
    /\ request.op = "destroy" => \A d \in request.quiet \ request.on : rows[d] # "active"
    /\ request.op = "add" => \A d \in request.on \cap request.quiet : rows[d] = "active"
    /\ request.op = "compare" => \A d \in request.quiet : d \in request.on <=> d \in peers

PeersInv ==
    /\ Peers!TypeOK
    /\ RequestShape
    /\ \A d \in PeerDevice \ disturbed : InOrder(d)

LEMMA Requests ==
    /\ Peers!Idle \in Peers!Request
    /\ Peers!Idle.op = "idle" /\ Peers!Idle.on = {} /\ Peers!Idle.left = {}
    /\ Peers!Idle.quiet = {}
BY DEF Peers!Idle, Peers!Request, Peers!Op

LEMMA PeersInit == Peers!Init => PeersInv
<1> SUFFICES ASSUME Peers!Init PROVE PeersInv
  OBVIOUS
<1> USE Requests DEF Peers!Init
<1>1. Peers!TypeOK
  BY DEF Peers!TypeOK, Peers!Row, Peers!Peer
<1>2. RequestShape
  BY DEF RequestShape
<1>3. \A d \in PeerDevice : InOrder(d)
  BY ServicesAssumption DEF InOrder, Gone, Serves
<1> QED
  BY <1>1, <1>2, <1>3 DEF PeersInv

LEMMA RequestTypes ==
    ASSUME PeersInv
    PROVE  /\ rows \in [PeerDevice -> Peers!Row] /\ peers \subseteq Peers!Peer
           /\ marked \subseteq Peers!Peer /\ request \in Peers!Request
           /\ disturbed \subseteq PeerDevice /\ peerBot \in PeerDevice \cup {NoDevice}
           /\ request.op \in Peers!Op /\ request.on \subseteq Peers!Peer
           /\ request.left \subseteq PeerDevice /\ request.quiet \subseteq PeerDevice
           /\ PeerDevice \subseteq Peers!Peer
BY DEF PeersInv, Peers!TypeOK, Peers!Request, Peers!Peer

\* What a new request has read.
LEMMA NewRequest ==
    ASSUME PeersInv, NEW op \in Peers!Op, NEW on \in SUBSET Peers!Peer
    PROVE  /\ Peers!Starts(op, on) \in Peers!Request
           /\ Peers!Starts(op, on).op = op /\ Peers!Starts(op, on).on = on
           /\ Peers!Starts(op, on).left = {}
           /\ Peers!Starts(op, on).quiet = PeerDevice \ {peerBot}
BY Requests DEF Peers!Starts, Peers!Request, Peers!Idle

\* The bot goes from one device to another, or to rest: only that device and
\* the one it leaves change.
LEMMA BotKeeps ==
    ASSUME PeersInv, NEW d \in PeerDevice \cup {NoDevice}, NEW cut \in SUBSET PeerDevice,
           Peers!BotDoes(d), Peers!Disturbs(cut),
           rows' \in [PeerDevice -> Peers!Row], peers' \subseteq Peers!Peer,
           d = NoDevice \/ peerBot = NoDevice,
           \A e \in PeerDevice \ {d, peerBot} :
               rows'[e] = rows[e] /\ (e \in peers' <=> e \in peers),
           \A e \in PeerDevice :
               rows[e] \notin {"none", "granting"} => rows'[e] \notin {"none", "granting"},
           d \in PeerDevice => Held(d)',
           peerBot \in PeerDevice \ cut =>
               (Held(peerBot) => /\ peerBot \in peers' <=> rows'[peerBot] = "active"
                                 /\ rows[peerBot] # "granting" => peerBot \notin peers')
    PROVE  PeersInv'
<1>1. /\ peerBot' = d /\ marked' = marked
      /\ request' = [request EXCEPT !.quiet = request.quiet \ {peerBot, d}]
  BY DEF Peers!BotDoes
<1>2. /\ request'.op = request.op /\ request'.on = request.on /\ request'.left = request.left
      /\ request'.quiet = request.quiet \ {peerBot, d}
      /\ request' \in Peers!Request
  BY <1>1, RequestTypes DEF Peers!Request
<1>3. disturbed' = disturbed \cup cut
  BY DEF Peers!Disturbs, Peers!Changes
<1>4. Peers!TypeOK'
  BY <1>1, <1>2, <1>3, RequestTypes DEF Peers!TypeOK
<1>5. RequestShape'
  <2>1. \A e \in request'.quiet : rows'[e] = rows[e] /\ (e \in peers' <=> e \in peers)
    BY <1>2, RequestTypes
  <2> QED
    BY <1>1, <1>2, <2>1, RequestTypes DEF PeersInv, RequestShape
<1>6. ASSUME NEW e \in PeerDevice \ disturbed' PROVE InOrder(e)'
  <2>1. InOrder(e) /\ e \notin cut
    BY <1>3 DEF PeersInv
  <2>2. Gone(e)' <=> Gone(e)
    BY <1>2 DEF Gone
  <2>3. CASE e = d
    BY <1>1, <2>3 DEF InOrder
  <2>4. CASE e # d /\ e = peerBot
    <3>1. Held(e)
      BY <2>1, <2>4 DEF InOrder
    <3>2. Serves(e)' /\ (rows[e] # "granting" => e \notin peers')
      BY <2>1, <2>4, <3>1 DEF Serves
    <3>3. Gone(e) => rows[e] # "granting"
      BY DEF Gone, PeersInv, RequestShape
    <3> QED
      BY <1>1, <2>2, <2>4, <3>2, <3>3 DEF InOrder
  <2>5. CASE e # d /\ e # peerBot
    BY <1>1, <2>1, <2>2, <2>5 DEF InOrder, Serves
  <2> QED
    BY <2>3, <2>4, <2>5
<1> QED
  BY <1>4, <1>5, <1>6 DEF PeersInv

LEMMA BotGrants ==
    ASSUME PeersInv, NEW d \in PeerDevice, Peers!GrantPeer(d)
    PROVE  PeersInv'
<1>1. /\ peerBot = NoDevice /\ rows[d] = "none"
      /\ rows' = [rows EXCEPT ![d] = "granting"] /\ peers' = peers \cup {d}
      /\ Peers!BotDoes(d) /\ Peers!Disturbs({})
  BY DEF Peers!GrantPeer
<1>2. /\ rows' \in [PeerDevice -> Peers!Row] /\ peers' \subseteq Peers!Peer
      /\ rows'[d] = "granting" /\ \A e \in PeerDevice \ {d} : rows'[e] = rows[e]
  BY <1>1, RequestTypes DEF Peers!Row
<1>3. Held(d)'
  BY <1>1, <1>2 DEF Held
<1>4. \A e \in PeerDevice \ {d} : e \in peers' <=> e \in peers
  BY <1>1
<1> QED
  BY <1>1, <1>2, <1>3, <1>4, ServicesAssumption, BotKeeps

LEMMA BotRevokes ==
    ASSUME PeersInv, NEW d \in PeerDevice, Peers!RevokePeer(d)
    PROVE  PeersInv'
<1>1. /\ peerBot = NoDevice /\ rows[d] = "active" /\ rows' = rows /\ peers' = peers \ {d}
      /\ Peers!BotDoes(d) /\ Peers!Disturbs({})
  BY DEF Peers!RevokePeer
<1>2. rows' \in [PeerDevice -> Peers!Row] /\ peers' \subseteq Peers!Peer
  BY <1>1, RequestTypes
<1>3. Held(d)'
  BY <1>1 DEF Held
<1> QED
  BY <1>1, <1>2, <1>3, ServicesAssumption, BotKeeps

\* The bot's transaction ends, whole, rolled back or cut short.
LEMMA BotEnds ==
    ASSUME PeersInv,
           Peers!GrantCommit \/ Peers!GrantRollback \/ Peers!RevokeCommit \/ Peers!RevokeCut
    PROVE  PeersInv'
<1>1. peerBot \in PeerDevice
  BY RequestTypes DEF Peers!GrantCommit, Peers!GrantRollback, Peers!RevokeCommit,
     Peers!RevokeCut
<1>2. rows \in [PeerDevice -> Peers!Row] /\ peers \subseteq Peers!Peer
  BY RequestTypes
<1>3. \E cut \in SUBSET PeerDevice :
         /\ Peers!BotDoes(NoDevice) /\ Peers!Disturbs(cut)
         /\ rows' \in [PeerDevice -> Peers!Row] /\ peers' \subseteq Peers!Peer
         /\ \A e \in PeerDevice \ {peerBot} :
               rows'[e] = rows[e] /\ (e \in peers' <=> e \in peers)
         /\ rows[peerBot] \notin {"none", "granting"} =>
               rows'[peerBot] \notin {"none", "granting"}
         /\ peerBot \notin cut =>
               (Held(peerBot) => /\ peerBot \in peers' <=> rows'[peerBot] = "active"
                                 /\ rows[peerBot] # "granting" => peerBot \notin peers')
  <2>1. CASE Peers!GrantCommit
    <3>1. /\ rows' = [rows EXCEPT ![peerBot] = "active"] /\ peers' = peers
          /\ rows[peerBot] = "granting" /\ Peers!BotDoes(NoDevice) /\ Peers!Disturbs({})
      BY <2>1 DEF Peers!GrantCommit
    <3> QED
      BY <1>1, <1>2, <3>1 DEF Held, Peers!Row
  <2>2. CASE Peers!GrantRollback
    <3>1. PICK cut \in SUBSET PeerDevice :
            /\ rows' = [rows EXCEPT ![peerBot] = "none"] /\ Peers!BotDoes(NoDevice)
            /\ rows[peerBot] = "granting" /\ Peers!Disturbs(cut)
            /\ \/ peers' = peers \ {peerBot}
               \/ peers' = peers /\ peerBot \in cut
      <4>1. {} \in SUBSET PeerDevice /\ {peerBot} \in SUBSET PeerDevice
        BY <1>1
      <4> QED
        BY <2>2, <4>1 DEF Peers!GrantRollback
    <3> QED
      BY <1>1, <1>2, <3>1 DEF Peers!Row
  <2>3. CASE Peers!RevokeCommit
    <3>1. /\ rows' = [rows EXCEPT ![peerBot] = IF rows[peerBot] = "erased" THEN "erased"
                                               ELSE "revoked"]
          /\ peers' = peers /\ rows[peerBot] # "granting" /\ Peers!BotDoes(NoDevice)
          /\ Peers!Disturbs({})
      BY <1>2, <2>3 DEF Peers!RevokeCommit
    <3> QED
      BY <1>1, <1>2, <3>1 DEF Held, Peers!Row
  <2>4. CASE Peers!RevokeCut
    <3>1. /\ rows' = rows /\ peers' = peers /\ Peers!BotDoes(NoDevice)
          /\ Peers!Disturbs({peerBot})
      BY <2>4 DEF Peers!RevokeCut
    <3> QED
      BY <1>1, <1>2, <3>1
  <2> QED
    BY <2>1, <2>2, <2>3, <2>4
<1>4. PICK cut \in SUBSET PeerDevice :
         /\ Peers!BotDoes(NoDevice) /\ Peers!Disturbs(cut)
         /\ rows' \in [PeerDevice -> Peers!Row] /\ peers' \subseteq Peers!Peer
         /\ \A e \in PeerDevice \ {peerBot} :
               rows'[e] = rows[e] /\ (e \in peers' <=> e \in peers)
         /\ rows[peerBot] \notin {"none", "granting"} =>
               rows'[peerBot] \notin {"none", "granting"}
         /\ peerBot \notin cut =>
               (Held(peerBot) => /\ peerBot \in peers' <=> rows'[peerBot] = "active"
                                 /\ rows[peerBot] # "granting" => peerBot \notin peers')
  BY <1>3
<1>5. \A e \in PeerDevice :
         rows[e] \notin {"none", "granting"} => rows'[e] \notin {"none", "granting"}
  BY <1>4
<1> QED
  BY <1>1, <1>4, <1>5, ServicesAssumption, BotKeeps

\* The panel takes a step: what its request is about is to be shown, and
\* that each device it does not leave half done is in order if it was, or is
\* set right.
LEMMA PanelStepKeeps ==
    ASSUME PeersInv, NEW req \in Peers!Request,
           NEW cut \in SUBSET PeerDevice, NEW settled,
           Peers!PanelDoes(req), Peers!Changes(cut, settled),
           rows' \in [PeerDevice -> Peers!Row], peers' \subseteq Peers!Peer,
           marked' \subseteq Peers!Peer, RequestShape',
           \A d \in PeerDevice \ cut : InOrder(d) \/ d \in settled => InOrder(d)'
    PROVE  PeersInv'
<1>1. peerBot' = peerBot /\ request' = req
  BY DEF Peers!PanelDoes
<1>2. disturbed' = (disturbed \ settled) \cup cut
  BY DEF Peers!Changes
<1>3. Peers!TypeOK'
  BY <1>1, <1>2, RequestTypes DEF Peers!TypeOK
<1>4. \A d \in PeerDevice \ disturbed' : InOrder(d)'
  BY <1>2 DEF PeersInv
<1> QED
  BY <1>3, <1>4 DEF PeersInv

\* At rest the panel knows nothing, so that nothing is to be shown of it.
LEMMA RestShape ==
    ASSUME PeersInv, Peers!PanelDoes(Peers!Idle)
    PROVE  RequestShape' /\ \A d : ~Gone(d)'
BY Requests DEF Peers!PanelDoes, RequestShape, Gone

LEMMA StartSyncKeeps ==
    ASSUME PeersInv, Peers!PanelDoes(Peers!Sync), request.op \in {"idle", "add"},
           rows' = rows, marked' = marked, peers' \subseteq Peers!Peer,
           NEW cut \in SUBSET PeerDevice, NEW settled, Peers!Changes(cut, settled),
           \A d \in PeerDevice \ cut :
               \/ d \in settled /\ d # peerBot /\ Serves(d)'
               \/ d \notin settled /\ (d \in peers' <=> d \in peers)
    PROVE  PeersInv'
<1>1. /\ Peers!Sync \in Peers!Request /\ Peers!Sync.op = "collect"
      /\ Peers!Sync.quiet = PeerDevice \ {peerBot}
  BY NewRequest DEF Peers!Sync, Peers!Op
<1>2. /\ request' = Peers!Sync /\ peerBot' = peerBot
  BY DEF Peers!PanelDoes
<1>3. RequestShape'
  BY <1>1, <1>2 DEF RequestShape
<1>4. \A d : ~Gone(d) /\ ~Gone(d)'
  BY <1>1, <1>2 DEF Gone
<1>5. \A d \in PeerDevice \ cut : InOrder(d) \/ d \in settled => InOrder(d)'
  BY <1>2, <1>4 DEF InOrder, Held, Serves
<1> QED
  BY <1>1, <1>3, <1>5, RequestTypes, PanelStepKeeps

LEMMA SyncStarts == ASSUME PeersInv, Peers!StartSync PROVE PeersInv'
BY Requests, RequestTypes, StartSyncKeeps DEF Peers!StartSync, Peers!Disturbs

LEMMA CollectKeeps ==
    ASSUME PeersInv, Peers!Collect
    PROVE  PeersInv'
<1> DEFINE req == [request EXCEPT !.op = "compare", !.on = peers]
<1>1. /\ request.op = "collect" /\ Peers!PanelDoes(req)
      /\ rows' = rows /\ peers' = peers /\ marked' = marked /\ Peers!Changes({}, {})
  BY DEF Peers!Collect, Peers!Disturbs
<1>2. /\ req \in Peers!Request /\ req.op = "compare" /\ req.on = peers
      /\ req.quiet = request.quiet
  BY RequestTypes DEF Peers!Request, Peers!Op
<1> HIDE DEF req
<1>3. request' = req /\ peerBot' = peerBot
  BY <1>1 DEF Peers!PanelDoes
<1>4. RequestShape'
  BY <1>1, <1>2, <1>3 DEF PeersInv, RequestShape
<1>5. \A d \in PeerDevice : InOrder(d) => InOrder(d)'
  BY <1>1, <1>2, <1>3 DEF InOrder, Gone, Held, Serves
<1> QED
  BY <1>1, <1>2, <1>4, <1>5, RequestTypes, PanelStepKeeps

\* A request comes to rest; what deletions have taken meanwhile is disturbed.
LEMMA RestKeeps ==
    ASSUME PeersInv, Peers!PanelDoes(Peers!Idle),
           NEW cut \in SUBSET PeerDevice, NEW settled, Peers!Changes(cut, settled),
           rows' \in [PeerDevice -> Peers!Row], peers' \subseteq Peers!Peer,
           marked' \subseteq Peers!Peer,
           \A d \in PeerDevice \ cut :
               IF d = peerBot THEN d \notin settled /\ (Held(d) => Held(d)')
               ELSE d \in settled \/ InOrder(d) => Serves(d)'
    PROVE  PeersInv'
<1>1. request' = Peers!Idle /\ peerBot' = peerBot
  BY DEF Peers!PanelDoes
<1>2. \A d \in PeerDevice \ cut : InOrder(d) \/ d \in settled => InOrder(d)'
  BY <1>1, RestShape DEF InOrder
<1> QED
  BY <1>2, Requests, RestShape, PanelStepKeeps

\* What a sync that saw the peers passes over is in order.
LEMMA CompareKeeps ==
    ASSUME PeersInv, Peers!Compare
    PROVE  PeersInv'
<1> DEFINE settled == request.quiet \cap Peers!PassedOver
<1>1. /\ request.op = "compare" /\ Peers!PanelDoes(Peers!Idle)
      /\ rows' = rows /\ peers' = peers /\ marked' = marked /\ Peers!Changes({}, settled)
  BY DEF Peers!Compare
<1>2. peerBot \notin settled
  BY DEF PeersInv, RequestShape
<1>3. \A d \in settled : Serves(d)
  BY <1>1, RequestTypes
  DEF PeersInv, RequestShape, Serves, Peers!PassedOver, Peers!Unknown, Peers!Missing,
      Peers!Active
<1> HIDE DEF settled
<1>4. \A d \in PeerDevice \ {peerBot} : InOrder(d) => Serves(d)
  BY <1>1 DEF InOrder, Gone
<1>5. \A d \in PeerDevice :
         IF d = peerBot THEN d \notin settled /\ (Held(d) => Held(d)') ELSE d \in settled \/ InOrder(d) => Serves(d)'
  BY <1>1, <1>2, <1>3, <1>4 DEF Serves, Held
<1> QED
  BY <1>1, <1>5, RequestTypes, RestKeeps

LEMMA SyncFailsKeeps ==
    ASSUME PeersInv, Peers!SyncFails
    PROVE  PeersInv'
<1>1. /\ request.op \in {"collect", "compare"} /\ Peers!PanelDoes(Peers!Idle)
      /\ rows' = rows /\ peers' = peers /\ marked' = marked /\ Peers!Changes({}, {})
  BY DEF Peers!SyncFails, Peers!Disturbs
<1>2. \A d \in PeerDevice \ {peerBot} : InOrder(d) => Serves(d)
  BY <1>1 DEF InOrder, Gone
<1>3. \A d \in PeerDevice :
         IF d = peerBot THEN Held(d) => Held(d)' ELSE InOrder(d) => Serves(d)'
  BY <1>1, <1>2 DEF Serves, Held
<1> QED
  BY <1>1, <1>3, RequestTypes, RestKeeps

\* The panel is about nothing before the step: a device the bot is not at is
\* served just when it is active.
LEMMA IdleServes ==
    ASSUME request = Peers!Idle
    PROVE  \A d : d # peerBot /\ InOrder(d) => Serves(d)
BY Requests DEF InOrder, Gone

\* A peer is marked as made with the app, or not.
LEMMA IgnoreKeeps ==
    ASSUME PeersInv, NEW p \in Peers!Peer,
           Peers!IgnoreRemotePeer(p) \/ Peers!UnignoreRemotePeer(p)
    PROVE  PeersInv'
<1>1. /\ request = Peers!Idle /\ Peers!PanelDoes(Peers!Idle)
      /\ rows' = rows /\ peers' = peers /\ Peers!Changes({}, {})
      /\ marked' \subseteq Peers!Peer
  BY RequestTypes DEF Peers!IgnoreRemotePeer, Peers!UnignoreRemotePeer, Peers!Disturbs
<1>2. \A d \in PeerDevice :
         IF d = peerBot THEN Held(d) => Held(d)' ELSE InOrder(d) => Serves(d)'
  BY <1>1, IdleServes DEF Serves, Held
<1> QED
  BY <1>1, <1>2, RequestTypes, RestKeeps

\* Any key may be posted: the device that loses a peer it should have is
\* disturbed.
LEMMA RemoveUnknownKeeps ==
    ASSUME PeersInv, NEW p \in Peers!Peer, Peers!RemoveUnknownRemotePeer(p)
    PROVE  PeersInv'
<1> DEFINE cut == {d \in PeerDevice \cap peers : d = p /\ rows[d] \in {"granting", "active"}}
<1>1. /\ request = Peers!Idle /\ peers' = peers \ {p} /\ Peers!PanelDoes(Peers!Idle)
      /\ rows' = rows /\ marked' = marked /\ Peers!Changes(cut, {})
  BY DEF Peers!RemoveUnknownRemotePeer, Peers!Disturbs
<1>2. \A d \in PeerDevice \ cut : d \in peers' \/ rows[d] \notin {"granting", "active"}
                                     \/ d \notin peers
  BY <1>1
<1>3. cut \in SUBSET PeerDevice
  OBVIOUS
<1> HIDE DEF cut
<1>4. \A d \in PeerDevice \ cut : (Held(d) => Held(d)') /\ (Serves(d) => Serves(d)')
  BY <1>1, <1>2 DEF Held, Serves
<1>5. rows' \in [PeerDevice -> Peers!Row] /\ peers' \subseteq Peers!Peer
      /\ marked' \subseteq Peers!Peer
  BY <1>1, RequestTypes
<1> QED
  BY <1>1, <1>3, <1>4, <1>5, IdleServes, RestKeeps

LEMMA CheckMissingKeeps ==
    ASSUME PeersInv, NEW d \in PeerDevice, Peers!CheckMissing(d)
    PROVE  PeersInv'
<1> DEFINE req == Peers!Starts("add", {d})
<1>1. /\ request = Peers!Idle /\ rows[d] = "active" /\ Peers!PanelDoes(req)
      /\ rows' = rows /\ peers' = peers /\ marked' = marked /\ Peers!Changes({}, {})
  BY DEF Peers!CheckMissing, Peers!Disturbs
<1>2. /\ req \in Peers!Request /\ req.op = "add" /\ req.on = {d}
      /\ req.quiet = PeerDevice \ {peerBot}
  BY RequestTypes, NewRequest DEF Peers!Op
<1> HIDE DEF req
<1>3. request' = req /\ peerBot' = peerBot
  BY <1>1 DEF Peers!PanelDoes
<1>4. RequestShape'
  BY <1>1, <1>2, <1>3 DEF RequestShape
<1>5. \A e \in PeerDevice : InOrder(e) => InOrder(e)'
  BY <1>1, <1>2, <1>3, Requests DEF InOrder, Gone, Held, Serves
<1> QED
  BY <1>1, <1>2, <1>4, <1>5, RequestTypes, PanelStepKeeps

\* Added again, the peer of an active device the bot left alone is set right.
LEMMA AddMissingKeeps ==
    ASSUME PeersInv, Peers!AddMissing
    PROVE  PeersInv'
<1> DEFINE cut == request.on \ request.quiet
           settled == request.on \cap request.quiet
<1>1. /\ request.op = "add" /\ peers' = peers \cup request.on /\ Peers!PanelDoes(Peers!Sync)
      /\ rows' = rows /\ marked' = marked /\ Peers!Changes(cut, settled)
  BY DEF Peers!AddMissing
<1>2. /\ peerBot \notin request.quiet /\ request.on \subseteq PeerDevice
      /\ \A d \in settled : rows[d] = "active"
  BY <1>1 DEF PeersInv, RequestShape
<1>3. peers' \subseteq Peers!Peer
  BY <1>1, RequestTypes
<1>4. \A d \in PeerDevice \ cut :
         \/ d \in settled /\ d # peerBot /\ Serves(d)'
         \/ d \notin settled /\ (d \in peers' <=> d \in peers)
  BY <1>1, <1>2 DEF Serves
<1>5. cut \in SUBSET PeerDevice
  BY <1>2
<1> HIDE DEF cut, settled
<1> QED
  BY <1>1, <1>3, <1>4, <1>5, StartSyncKeeps

LEMMA AddFailsKeeps ==
    ASSUME PeersInv, Peers!AddFails
    PROVE  PeersInv'
<1>1. /\ request.op = "add" /\ peers' \in {peers, peers \cup request.on}
      /\ Peers!PanelDoes(Peers!Idle)
      /\ rows' = rows /\ marked' = marked /\ Peers!Changes(request.on, {})
  BY DEF Peers!AddFails, Peers!Disturbs
<1>2. request.on \in SUBSET PeerDevice
  BY <1>1 DEF PeersInv, RequestShape
<1>3. /\ rows' \in [PeerDevice -> Peers!Row] /\ peers' \subseteq Peers!Peer
      /\ marked' \subseteq Peers!Peer
  BY <1>1, RequestTypes
<1>4. \A d \in PeerDevice \ request.on : d \in peers' <=> d \in peers
  BY <1>1
<1>5. \A d \in PeerDevice \ request.on : d # peerBot /\ InOrder(d) => Serves(d)
  BY <1>1 DEF InOrder, Gone
<1>6. \A d \in PeerDevice \ request.on :
         IF d = peerBot THEN Held(d) => Held(d)' ELSE InOrder(d) => Serves(d)'
  BY <1>1, <1>4, <1>5 DEF Serves, Held
<1> QED
  BY <1>1, <1>2, <1>3, <1>6, RestKeeps

LEMMA ListKeeps ==
    ASSUME PeersInv, Peers!ListForDestroy
    PROVE  PeersInv'
<1> DEFINE started == Peers!Starts("destroy", Peers!Active)
           req == [started EXCEPT !.left = Peers!Active]
<1>1. /\ request = Peers!Idle /\ Peers!PanelDoes(req)
      /\ rows' = rows /\ peers' = peers /\ marked' = marked /\ Peers!Changes({}, {})
  BY DEF Peers!ListForDestroy, Peers!Disturbs
<1>2. /\ Peers!Active \subseteq PeerDevice
      /\ \A d \in PeerDevice : d \in Peers!Active <=> rows[d] = "active"
  BY DEF Peers!Active
<1>3. /\ started \in Peers!Request /\ started.op = "destroy" /\ started.on = Peers!Active
      /\ started.quiet = PeerDevice \ {peerBot}
  BY <1>2, RequestTypes, NewRequest DEF Peers!Op
<1> HIDE DEF started
<1>4. /\ req \in Peers!Request /\ req.op = "destroy" /\ req.on = Peers!Active
      /\ req.left = Peers!Active /\ req.quiet = PeerDevice \ {peerBot}
  BY <1>2, <1>3 DEF Peers!Request
<1> HIDE DEF req
<1>5. request' = req /\ peerBot' = peerBot
  BY <1>1 DEF Peers!PanelDoes
<1>6. RequestShape'
  BY <1>1, <1>2, <1>4, <1>5 DEF RequestShape
<1>7. \A d \in PeerDevice : InOrder(d) => InOrder(d)'
  BY <1>1, <1>4, <1>5, Requests DEF InOrder, Gone, Held, Serves
<1> QED
  BY <1>1, <1>4, <1>6, <1>7, RequestTypes, PanelStepKeeps

LEMMA DestroyPeerKeeps ==
    ASSUME PeersInv, NEW d \in PeerDevice, Peers!DestroyPeer(d)
    PROVE  PeersInv'
<1> DEFINE req == [request EXCEPT !.left = request.left \ {d}]
<1>1. /\ request.op = "destroy" /\ d \in request.left
      /\ peers' = peers \ {d} /\ Peers!PanelDoes(req)
      /\ rows' = rows /\ marked' = marked /\ Peers!Changes({}, {})
  BY DEF Peers!DestroyPeer, Peers!Disturbs
<1>2. /\ req \in Peers!Request /\ req.op = "destroy" /\ req.on = request.on
      /\ req.left = request.left \ {d} /\ req.quiet = request.quiet
  BY <1>1, RequestTypes DEF Peers!Request
<1> HIDE DEF req
<1>3. request' = req /\ peerBot' = peerBot
  BY <1>1 DEF Peers!PanelDoes
<1>4. d \in request.on /\ rows[d] # "granting"
  BY <1>1 DEF PeersInv, RequestShape
<1>5. RequestShape'
  BY <1>1, <1>2, <1>3 DEF PeersInv, RequestShape
<1>6. \A e \in PeerDevice : InOrder(e) => InOrder(e)'
  BY <1>1, <1>2, <1>3, <1>4 DEF InOrder, Gone, Held, Serves
<1>7. peers' \subseteq Peers!Peer
  BY <1>1, RequestTypes
<1> QED
  BY <1>1, <1>2, <1>5, <1>6, <1>7, RequestTypes, PanelStepKeeps

\* What was listed has lost its peer; what was not, and was left alone, had
\* none.
LEMMA HardDeleteKeeps ==
    ASSUME PeersInv, Peers!HardDelete
    PROVE  PeersInv'
<1> DEFINE cut == PeerDevice \ (request.on \cup request.quiet)
<1>1. /\ request.op = "destroy" /\ request.left = {} /\ Peers!PanelDoes(Peers!Idle)
      /\ rows' = [d \in PeerDevice |-> IF rows[d] = "none" THEN "none" ELSE "erased"]
      /\ peers' = peers /\ marked' = marked /\ Peers!Changes(cut, {})
      /\ \A d \in PeerDevice : rows[d] # "granting"
  BY DEF Peers!HardDelete, Peers!Disturbs, Peers!Unlocked
<1>2. /\ rows' \in [PeerDevice -> Peers!Row]
      /\ \A d \in PeerDevice : rows'[d] \in {"none", "erased"}
  BY <1>1 DEF Peers!Row
<1>3. ASSUME NEW d \in PeerDevice \ (cut \cup {peerBot}), InOrder(d) PROVE d \notin peers
  <2>1. CASE d \in request.on
    BY <1>1, <1>3, <2>1 DEF InOrder, Gone
  <2>2. CASE d \notin request.on
    BY <1>1, <1>3, <2>2 DEF InOrder, Gone, Serves, PeersInv, RequestShape
  <2> QED
    BY <2>1, <2>2
<1>4. cut \in SUBSET PeerDevice
  OBVIOUS
<1> HIDE DEF cut
<1>5. \A d \in PeerDevice \ cut :
         IF d = peerBot THEN Held(d) => Held(d)' ELSE InOrder(d) => Serves(d)'
  BY <1>1, <1>2, <1>3 DEF Serves, Held
<1> QED
  BY <1>1, <1>2, <1>4, <1>5, RequestTypes, RestKeeps

LEMMA DestroyFailsKeeps ==
    ASSUME PeersInv, Peers!DestroyFails
    PROVE  PeersInv'
<1> DEFINE cut == request.on \ request.left
<1>1. /\ request.op = "destroy" /\ Peers!PanelDoes(Peers!Idle)
      /\ rows' = rows /\ peers' = peers /\ marked' = marked /\ Peers!Changes(cut, {})
  BY DEF Peers!DestroyFails, Peers!Disturbs
<1>2. \A d \in PeerDevice \ cut : d # peerBot /\ InOrder(d) => Serves(d)
  BY <1>1 DEF InOrder, Gone
<1>3. cut \in SUBSET PeerDevice
  BY <1>1 DEF PeersInv, RequestShape
<1> HIDE DEF cut
<1>4. \A d \in PeerDevice \ cut :
         IF d = peerBot THEN Held(d) => Held(d)' ELSE InOrder(d) => Serves(d)'
  BY <1>1, <1>2 DEF Serves, Held
<1> QED
  BY <1>1, <1>3, <1>4, RequestTypes, RestKeeps

LEMMA StartDeleteKeeps ==
    ASSUME PeersInv, NEW d \in PeerDevice, Peers!StartDelete(d)
    PROVE  PeersInv'
<1> DEFINE req == Peers!Starts("delete_peer", {d})
<1>1. /\ request = Peers!Idle /\ rows[d] \in {"active", "disabled", "revoked"}
      /\ Peers!PanelDoes(req)
      /\ rows' = rows /\ peers' = peers /\ marked' = marked /\ Peers!Changes({}, {})
  BY DEF Peers!StartDelete, Peers!Disturbs
<1>2. /\ req \in Peers!Request /\ req.op = "delete_peer" /\ req.on = {d}
      /\ req.quiet = PeerDevice \ {peerBot}
  BY RequestTypes, NewRequest DEF Peers!Op
<1> HIDE DEF req
<1>3. request' = req /\ peerBot' = peerBot
  BY <1>1 DEF Peers!PanelDoes
<1>4. RequestShape'
  BY <1>1, <1>2, <1>3 DEF RequestShape
<1>5. \A e \in PeerDevice : InOrder(e) => InOrder(e)'
  BY <1>1, <1>2, <1>3, Requests DEF InOrder, Gone, Held, Serves
<1> QED
  BY <1>1, <1>2, <1>4, <1>5, RequestTypes, PanelStepKeeps

LEMMA DeletePeerKeeps ==
    ASSUME PeersInv, NEW d \in PeerDevice, Peers!DeletePeer(d)
    PROVE  PeersInv'
<1> DEFINE req == [request EXCEPT !.op = "delete_row"]
<1>1. /\ request.op = "delete_peer" /\ d \in request.on
      /\ peers' = (IF rows[d] = "active" THEN peers \ {d} ELSE peers)
      /\ Peers!PanelDoes(req) /\ rows' = rows /\ marked' = marked /\ Peers!Changes({}, {})
  BY DEF Peers!DeletePeer, Peers!Disturbs
<1>2. /\ req \in Peers!Request /\ req.op = "delete_row" /\ req.on = request.on
      /\ req.quiet = request.quiet
  BY RequestTypes DEF Peers!Request, Peers!Op
<1> HIDE DEF req
<1>3. request' = req /\ peerBot' = peerBot
  BY <1>1 DEF Peers!PanelDoes
<1>4. rows[d] # "granting" /\ \A e \in request.on : e = d
  BY <1>1 DEF PeersInv, RequestShape
<1>5. RequestShape'
  BY <1>1, <1>2, <1>3 DEF PeersInv, RequestShape
<1>6. \A e \in PeerDevice : InOrder(e) => InOrder(e)'
  BY <1>1, <1>2, <1>3, <1>4 DEF InOrder, Gone, Held, Serves
<1>7. peers' \subseteq Peers!Peer
  BY <1>1, RequestTypes
<1> QED
  BY <1>1, <1>2, <1>5, <1>6, <1>7, RequestTypes, PanelStepKeeps

LEMMA DeleteRowKeeps ==
    ASSUME PeersInv, NEW d \in PeerDevice, Peers!DeleteRow(d)
    PROVE  PeersInv'
<1>1. /\ request.op = "delete_row" /\ d \in request.on
      /\ rows' = [rows EXCEPT ![d] = "revoked"] /\ Peers!PanelDoes(Peers!Idle)
      /\ peers' = peers /\ marked' = marked /\ Peers!Changes({}, {})
  BY DEF Peers!DeleteRow, Peers!Disturbs
<1>2. rows[d] # "granting" /\ \A e \in request.on : e = d
  BY <1>1 DEF PeersInv, RequestShape
<1>3. /\ rows' \in [PeerDevice -> Peers!Row] /\ rows'[d] = "revoked"
      /\ \A e \in PeerDevice \ {d} : rows'[e] = rows[e]
  BY <1>1, RequestTypes DEF Peers!Row
<1>4. \A e \in PeerDevice : e # peerBot /\ InOrder(e) => Serves(e)'
  BY <1>1, <1>2, <1>3 DEF InOrder, Gone, Serves
<1>5. \A e \in PeerDevice : Held(e) => Held(e)'
  BY <1>1, <1>2, <1>3 DEF Held
<1> QED
  BY <1>1, <1>3, <1>4, <1>5, RequestTypes, RestKeeps

LEMMA DeleteFailsKeeps ==
    ASSUME PeersInv, NEW d \in PeerDevice, Peers!DeleteFails(d)
    PROVE  PeersInv'
<1> DEFINE cut == IF request.op = "delete_row" THEN {d} ELSE {}
<1>1. /\ request.op \in {"delete_peer", "delete_row"} /\ d \in request.on
      /\ Peers!PanelDoes(Peers!Idle)
      /\ rows' = rows /\ peers' = peers /\ marked' = marked /\ Peers!Changes(cut, {})
  BY DEF Peers!DeleteFails, Peers!Disturbs
<1>2. \A e \in request.on : e = d
  BY <1>1 DEF PeersInv, RequestShape
<1>3. \A e \in PeerDevice \ cut : e # peerBot /\ InOrder(e) => Serves(e)
  BY <1>1, <1>2 DEF InOrder, Gone
<1>4. cut \in SUBSET PeerDevice
  OBVIOUS
<1> HIDE DEF cut
<1>5. \A e \in PeerDevice \ cut :
         IF e = peerBot THEN Held(e) => Held(e)' ELSE InOrder(e) => Serves(e)'
  BY <1>1, <1>3 DEF Serves, Held
<1> QED
  BY <1>1, <1>4, <1>5, RequestTypes, RestKeeps

LEMMA DisableKeeps ==
    ASSUME PeersInv, NEW d \in PeerDevice, Peers!Disable(d)
    PROVE  PeersInv'
<1>1. /\ request = Peers!Idle /\ rows[d] = "active" /\ rows' = [rows EXCEPT ![d] = "disabled"]
      /\ peers' = peers \ {d} /\ Peers!PanelDoes(Peers!Idle)
      /\ marked' = marked /\ Peers!Changes({}, {})
  BY DEF Peers!Disable, Peers!Disturbs
<1>2. /\ rows' \in [PeerDevice -> Peers!Row] /\ rows'[d] = "disabled"
      /\ \A e \in PeerDevice \ {d} : rows'[e] = rows[e]
      /\ peers' \subseteq Peers!Peer
  BY <1>1, RequestTypes DEF Peers!Row
<1>3. \A e \in PeerDevice : (Serves(e) => Serves(e)') /\ (Held(e) => Held(e)')
  BY <1>1, <1>2 DEF Serves, Held
<1> QED
  BY <1>1, <1>2, <1>3, RequestTypes, IdleServes, RestKeeps

LEMMA EnableKeeps ==
    ASSUME PeersInv, NEW d \in PeerDevice, Peers!Enable(d)
    PROVE  PeersInv'
<1>1. /\ request = Peers!Idle /\ peers' = peers \cup {d} /\ marked' = marked
      /\ Peers!PanelDoes(Peers!Idle)
  BY DEF Peers!Enable
<1>2. PICK cut \in SUBSET {d} :
         /\ Peers!Changes(cut, {})
         /\ \/ rows' = [rows EXCEPT ![d] = "active"] /\ (d = peerBot => d \in cut)
            \/ rows' = rows /\ d \in cut
  <2>1. {d} \cap {peerBot} \in SUBSET {d} /\ (d = peerBot => d \in {d} \cap {peerBot})
    OBVIOUS
  <2> QED
    BY <2>1 DEF Peers!Enable, Peers!Disturbs
<1>3. /\ rows' \in [PeerDevice -> Peers!Row]
      /\ \A e \in PeerDevice \ {d} : rows'[e] = rows[e] /\ (e \in peers' <=> e \in peers)
      /\ d \notin cut => d # peerBot /\ rows'[d] = "active"
      /\ peers' \subseteq Peers!Peer /\ marked' \subseteq Peers!Peer
  BY <1>1, <1>2, RequestTypes DEF Peers!Row
<1>4. \A e \in PeerDevice \ (cut \cup {peerBot}) : Serves(e) => Serves(e)'
  BY <1>1, <1>3 DEF Serves
<1>5. /\ cut \in SUBSET PeerDevice
      /\ \A e \in PeerDevice \ cut : e = peerBot => (Held(e) => Held(e)')
  BY <1>3 DEF Held
<1> QED
  BY <1>1, <1>2, <1>3, <1>4, <1>5, IdleServes, RestKeeps

LEMMA PeersNextKeeps ==
    ASSUME PeersInv, [Peers!Next]_v5
    PROVE  PeersInv'
<1>1. CASE UNCHANGED v5
  BY <1>1
  DEF v5, PeersInv, Peers!TypeOK, RequestShape, InOrder, Gone, Held, Serves
<1>2. CASE Peers!Next
  <2>1. CASE \E d \in PeerDevice : Peers!GrantPeer(d) \/ Peers!RevokePeer(d)
    BY <2>1, BotGrants, BotRevokes
  <2>2. CASE \/ Peers!GrantCommit \/ Peers!GrantRollback
             \/ Peers!RevokeCommit \/ Peers!RevokeCut
    BY <2>2, BotEnds
  <2>3. CASE Peers!StartSync \/ Peers!Collect \/ Peers!Compare \/ Peers!SyncFails
    BY <2>3, SyncStarts, CollectKeeps, CompareKeeps, SyncFailsKeeps
  <2>4. CASE \E p \in Peers!Peer : \/ Peers!IgnoreRemotePeer(p)
                                   \/ Peers!UnignoreRemotePeer(p)
                                   \/ Peers!RemoveUnknownRemotePeer(p)
    BY <2>4, IgnoreKeeps, RemoveUnknownKeeps
  <2>5. CASE \/ \E d \in PeerDevice : Peers!CheckMissing(d)
             \/ Peers!AddMissing \/ Peers!AddFails
    BY <2>5, CheckMissingKeeps, AddMissingKeeps, AddFailsKeeps
  <2>6. CASE \/ Peers!ListForDestroy
             \/ \E d \in PeerDevice : Peers!DestroyPeer(d)
             \/ Peers!HardDelete \/ Peers!DestroyFails
    BY <2>6, ListKeeps, DestroyPeerKeeps, HardDeleteKeeps, DestroyFailsKeeps
  <2>7. CASE \E d \in PeerDevice : \/ Peers!StartDelete(d) \/ Peers!DeletePeer(d)
                                   \/ Peers!DeleteRow(d) \/ Peers!DeleteFails(d)
    BY <2>7, StartDeleteKeeps, DeletePeerKeeps, DeleteRowKeeps, DeleteFailsKeeps
  <2>8. CASE \E d \in PeerDevice : Peers!Disable(d) \/ Peers!Enable(d)
    BY <2>8, DisableKeeps, EnableKeeps
  <2> QED
    BY <1>2, <2>1, <2>2, <2>3, <2>4, <2>5, <2>6, <2>7, <2>8 DEF Peers!Next
<1> QED
  BY <1>1, <1>2

\* A device that nothing known has parted from its peer is in order after
\* every step of the panel and the bot, also half way through a grant, a
\* revocation or a deletion, whatever the devices are.
THEOREM PeersInvariant == Spec => [](part = "peers" => PeersInv)
<1>1. Init => (part = "peers" => PeersInv)
  BY PeersInit DEF Init
<1>2. ASSUME part = "peers" => PeersInv, [Next]_<<part, v1, v2, v3, v4, v5, v6, v7, v8, v9, v10>>
      PROVE  (part = "peers" => PeersInv)'
  <2>1. CASE PeersNext
    BY <1>2, <2>1, PeersNextKeeps DEF PeersNext
  <2>2. CASE part # "peers" /\ part' = part
    BY <2>2
  <2>3. CASE part' = part /\ v5' = v5
    BY <1>2, <2>3, PeersNextKeeps
  <2> QED
    BY <1>2, <2>1, <2>2, <2>3
    DEF Next, ApiNext, MailNext, SchemaNext, BackupNext, RuntimeNext, DialogNext,
        CatalogNext, AccountsNext, HealthNext
<1> QED
  BY <1>1, <1>2, PTL DEF Spec

\* The node serves exactly the active devices, but for the one the bot is
\* at, those the panel works on, and those that something named in the
\* property's comment has parted from their peers.
THEOREM NodesServeActive == Spec => []NodeServesActive
<1>1. ASSUME PeersInv PROVE Peers!NodeServesActive
  BY <1>1 DEF Peers!NodeServesActive, Peers!InHand, PeersInv, InOrder, Gone, Serves
<1>2. (part = "peers" => PeersInv) => NodeServesActive
  BY <1>1 DEF NodeServesActive
<1> QED
  BY <1>2, PeersInvariant, PTL


-----------------------------------------------------------------------------
(* The catalog of servers.                                                 *)

\* A process that has read its entry, and one that has synced its row.
ProcessesLoaded ==
    \A p \in Process :
        /\ process[p].step # "down" => process[p].name \in Name /\ process[p].node \in Node
        /\ process[p].step = "synced" => process[p].row \in ServerId

\* A row that is not spoiled says what its entry says.
RowsAsFiled ==
    \A r \in ServerId \ spoiled :
        servers[r].name # None => servers[r].node = yaml[servers[r].name]

\* The device is served at the node its configuration names, which is that
\* of the entry its row names.
AtHome(d) ==
    /\ \A n \in Node : d \in nodes[n] <=> placed[d].status = "active" /\ n = placed[d].config
    /\ placed[d].status \in {"active", "disabled"} =>
          /\ placed[d].row \in ServerId
          /\ servers[placed[d].row].name \in Name
          /\ placed[d].config = yaml[servers[placed[d].row].name]

\* A granted device has a row of a server.
DevicesPlaced ==
    \A d \in ServedDevice : placed[d].status \in {"active", "disabled"} =>
        placed[d].row \in ServerId

CatalogInv ==
    /\ Catalog!TypeOK
    /\ DevicesPlaced
    /\ ProcessesLoaded
    /\ RowsAsFiled
    /\ \A d \in ServedDevice \ astray : AtHome(d)
    /\ quota = asked

LEMMA CatalogInit == Catalog!Init => CatalogInv
<1> SUFFICES ASSUME Catalog!Init PROVE CatalogInv
  OBVIOUS
<1> USE DEF Catalog!Init, Catalog!NoRow, Catalog!Down
<1>1. Catalog!TypeOK
  <2>1. Catalog!NoRow \in Catalog!ServerRow /\ Catalog!Down \in Catalog!Entry
    BY DEF Catalog!ServerRow, Catalog!Entry
  <2>2. [status |-> "none", row |-> None, config |-> None] \in Catalog!DeviceRow
    BY DEF Catalog!DeviceRow
  <2> HIDE DEF Catalog!NoRow, Catalog!Down
  <2> QED
    BY <2>1, <2>2 DEF Catalog!TypeOK
<1>2. ProcessesLoaded /\ RowsAsFiled /\ DevicesPlaced
  BY DEF ProcessesLoaded, RowsAsFiled, DevicesPlaced
<1>3. \A d \in ServedDevice : AtHome(d)
  BY DEF AtHome
<1> QED
  BY <1>1, <1>2, <1>3 DEF CatalogInv

LEMMA CatalogTypes ==
    ASSUME CatalogInv
    PROVE  /\ yaml \in [Name -> Node \cup {None}]
           /\ servers \in [ServerId -> Catalog!ServerRow]
           /\ process \in [Process -> Catalog!Entry]
           /\ placed \in [ServedDevice -> Catalog!DeviceRow]
           /\ nodes \in [Node -> SUBSET ServedDevice]
           /\ quota \in Quota \cup {None} /\ asked = quota
           /\ spoiled \subseteq ServerId /\ astray \subseteq ServedDevice
           /\ Bot \in Process /\ None \notin Name
BY ServicesAssumption DEF CatalogInv, Catalog!TypeOK

\* Devices stay at home when rows keep their names and nothing else changes.
LEMMA NamesKept ==
    ASSUME CatalogInv, UNCHANGED <<yaml, placed, nodes>>, astray \subseteq astray',
           \A d \in ServedDevice \ astray' :
               placed[d].row \in ServerId /\ servers[placed[d].row].name \in Name =>
                   servers'[placed[d].row].name = servers[placed[d].row].name
    PROVE  \A d \in ServedDevice \ astray' : AtHome(d)'
BY DEF CatalogInv, AtHome

LEMMA EntryEditKeeps ==
    ASSUME CatalogInv, NEW name \in Name, NEW node \in Node \cup {None},
           Catalog!EditFile(name, node)
    PROVE  CatalogInv'
<1>1. /\ yaml' = [yaml EXCEPT ![name] = node]
      /\ spoiled' = spoiled \cup Catalog!Named(name)
      /\ astray' = astray \cup Catalog!DevicesOf(Catalog!Named(name))
      /\ UNCHANGED <<servers, process, placed, nodes, quota, asked>>
  BY DEF Catalog!EditFile
<1>2. /\ yaml' \in [Name -> Node \cup {None}]
      /\ \A m \in Name \ {name} : yaml'[m] = yaml[m]
  BY <1>1, CatalogTypes
<1>3. /\ Catalog!Named(name) \subseteq ServerId
      /\ \A r \in ServerId : r \in Catalog!Named(name) <=> servers[r].name = name
      /\ Catalog!DevicesOf(Catalog!Named(name)) \subseteq ServedDevice
      /\ \A d \in ServedDevice : placed[d].row \in Catalog!Named(name)
            /\ placed[d].status # "revoked" => d \in astray'
  BY <1>1 DEF Catalog!Named, Catalog!DevicesOf
<1>4. Catalog!TypeOK'
  BY <1>1, <1>2, <1>3 DEF CatalogInv, Catalog!TypeOK
<1>5. ProcessesLoaded' /\ DevicesPlaced'
  BY <1>1 DEF CatalogInv, ProcessesLoaded, DevicesPlaced
<1>6. RowsAsFiled'
  <2>1. \A r \in ServerId : servers[r].name \in Name \cup {None}
    BY CatalogTypes DEF Catalog!ServerRow
  <2> QED
    BY <1>1, <1>2, <1>3, <2>1 DEF CatalogInv, RowsAsFiled
<1>7. \A d \in ServedDevice \ astray' : AtHome(d)'
  BY <1>1, <1>2, <1>3 DEF CatalogInv, AtHome
<1> QED
  BY <1>1, <1>4, <1>5, <1>6, <1>7 DEF CatalogInv

\* Only the entry a process has read changes.
LEMMA ProcessKeeps ==
    ASSUME CatalogInv, NEW p \in Process, NEW e \in Catalog!Entry,
           process' = [process EXCEPT ![p] = e],
           e.step # "down" => e.name \in Name /\ e.node \in Node,
           e.step # "synced",
           UNCHANGED <<yaml, servers, placed, nodes, quota, asked, spoiled, astray>>
    PROVE  CatalogInv'
<1>1. process' \in [Process -> Catalog!Entry] /\ process'[p] = e
      /\ \A q \in Process \ {p} : process'[q] = process[q]
  BY CatalogTypes
<1>2. Catalog!TypeOK'
  BY <1>1 DEF CatalogInv, Catalog!TypeOK
<1>3. ProcessesLoaded'
  BY <1>1 DEF CatalogInv, ProcessesLoaded
<1>4. RowsAsFiled' /\ DevicesPlaced'
  BY DEF CatalogInv, RowsAsFiled, DevicesPlaced
<1>5. \A d \in ServedDevice \ astray' : AtHome(d)'
  BY NamesKept
<1> QED
  BY <1>2, <1>3, <1>4, <1>5 DEF CatalogInv

LEMMA LoadKeeps ==
    ASSUME CatalogInv, NEW p \in Process, NEW name \in Name, Catalog!LoadServer(p, name)
    PROVE  CatalogInv'
<1> DEFINE e == [step |-> "loaded", name |-> name, node |-> yaml[name], row |-> None]
<1>1. /\ yaml[name] # None /\ process' = [process EXCEPT ![p] = e]
      /\ UNCHANGED <<yaml, servers, placed, nodes, quota, asked, spoiled, astray>>
  BY DEF Catalog!LoadServer
<1>2. e \in Catalog!Entry /\ e.step = "loaded" /\ e.name \in Name /\ e.node \in Node
  BY <1>1, CatalogTypes DEF Catalog!Entry
<1> HIDE DEF e
<1> QED
  BY <1>1, <1>2, ProcessKeeps

LEMMA EndsKeeps ==
    ASSUME CatalogInv, NEW p \in Process, Catalog!Ends(p)
    PROVE  CatalogInv'
<1>1. Catalog!Down \in Catalog!Entry /\ Catalog!Down.step = "down"
  BY DEF Catalog!Down, Catalog!Entry
<1> QED
  BY <1>1, ProcessKeeps DEF Catalog!Ends

\* One row is written: it keeps its name or had none, and is spoiled unless
\* it says what the file says.
LEMMA ServerKeeps ==
    ASSUME CatalogInv, NEW r \in ServerId, NEW row \in Catalog!ServerRow,
           Catalog!ServerIs(r, row), row.name \in Name,
           process' \in [Process -> Catalog!Entry], ProcessesLoaded',
           \/ spoiled' = spoiled \cup {r}
           \/ spoiled' = spoiled \ {r} /\ row.node = yaml[row.name],
           UNCHANGED <<yaml, placed, nodes, quota, asked>>,
           \/ servers[r].name \in {row.name, None} /\ astray' = astray
           \/ astray' = astray \cup Catalog!DevicesOf({r})
    PROVE  CatalogInv'
<1>1. servers' \in [ServerId -> Catalog!ServerRow] /\ servers'[r] = row
      /\ \A s \in ServerId \ {r} : servers'[s] = servers[s]
  BY CatalogTypes DEF Catalog!ServerIs
<1>2. spoiled' \subseteq ServerId /\ astray' \subseteq ServedDevice
  BY CatalogTypes DEF Catalog!DevicesOf
<1>3. Catalog!TypeOK'
  BY <1>1, <1>2 DEF CatalogInv, Catalog!TypeOK
<1>4. RowsAsFiled' /\ DevicesPlaced'
  BY <1>1 DEF CatalogInv, RowsAsFiled, DevicesPlaced
<1>5. \A d \in ServedDevice \ astray' : AtHome(d)'
  <2>1. CASE servers[r].name \in {row.name, None} /\ astray' = astray
    BY <1>1, <2>1, CatalogTypes, NamesKept
  <2>2. CASE astray' = astray \cup Catalog!DevicesOf({r})
    <3>1. \A d \in ServedDevice \ astray' :
             placed[d].row # r \/ placed[d].status = "revoked"
      BY <2>2 DEF Catalog!DevicesOf
    <3>2. ASSUME NEW d \in ServedDevice \ astray' PROVE AtHome(d)'
      <4>1. AtHome(d) /\ UNCHANGED <<yaml, placed, nodes>>
        BY <2>2 DEF CatalogInv
      <4>2. CASE placed[d].row # r
        BY <1>1, <4>1, <4>2 DEF AtHome
      <4>3. CASE placed[d].status = "revoked"
        BY <4>1, <4>3 DEF AtHome
      <4> QED
        BY <3>1, <4>2, <4>3
    <3> QED
      BY <3>2
  <2> QED
    BY <2>1, <2>2
<1> QED
  BY <1>3, <1>4, <1>5 DEF CatalogInv

\* The row a process syncs is that of its entry.
LEMMA SyncKeeps ==
    ASSUME CatalogInv, NEW p \in Process, NEW r \in ServerId, Catalog!SyncServerRow(p, r),
           UNCHANGED quota
    PROVE  CatalogInv'
<1> DEFINE e == process[p]
           row == [name |-> e.name, node |-> e.node]
           next == [e EXCEPT !.step = "synced", !.row = r]
<1>1. /\ e.step = "loaded" /\ Catalog!Upsert(r, e.name, e.node)
      /\ process' = [process EXCEPT ![p].step = "synced", ![p].row = r]
      /\ spoiled' = IF e.node = yaml[e.name] THEN spoiled \ {r} ELSE spoiled \cup {r}
      /\ UNCHANGED <<yaml, placed, nodes, asked, astray>>
  BY DEF Catalog!SyncServerRow
<1>2. e \in Catalog!Entry /\ e.name \in Name /\ e.node \in Node
  BY <1>1, CatalogTypes DEF CatalogInv, ProcessesLoaded
<1>3. process' = [process EXCEPT ![p] = next]
  BY <1>1, <1>2, CatalogTypes DEF Catalog!Entry
<1>4. /\ next \in Catalog!Entry /\ next.name = e.name /\ next.node = e.node /\ next.row = r
  BY <1>2 DEF Catalog!Entry
<1>5. row \in Catalog!ServerRow /\ row.name = e.name /\ row.node = e.node
  BY <1>2 DEF Catalog!ServerRow
<1>6. Catalog!ServerIs(r, row) /\ servers[r].name \in {row.name, None}
  <2>1. servers[r] \in Catalog!ServerRow
    BY CatalogTypes
  <2>2. servers[r].name = e.name => [servers[r] EXCEPT !.node = e.node] = row
    BY <2>1 DEF Catalog!ServerRow
  <2> QED
    BY <1>1, <2>2 DEF Catalog!Upsert
<1> HIDE DEF e, row, next
<1>7. process' \in [Process -> Catalog!Entry] /\ process'[p] = next
      /\ \A q \in Process \ {p} : process'[q] = process[q]
  BY <1>3, <1>4, CatalogTypes
<1>8. ProcessesLoaded'
  BY <1>2, <1>4, <1>7 DEF CatalogInv, ProcessesLoaded
<1> QED
  BY <1>1, <1>2, <1>5, <1>6, <1>7, <1>8, ServerKeeps

LEMMA EnsureKeeps ==
    ASSUME CatalogInv, NEW name \in Name, NEW r \in ServerId, Catalog!EnsureServer(name, r)
    PROVE  CatalogInv'
<1> DEFINE row == [name |-> name, node |-> None]
<1>1. /\ r \in Catalog!Unused /\ Catalog!ServerIs(r, row) /\ spoiled' = spoiled \cup {r}
      /\ UNCHANGED <<yaml, process, placed, nodes, quota, asked, astray>>
  BY DEF Catalog!EnsureServer
<1>2. row \in Catalog!ServerRow /\ row.name = name
  BY DEF Catalog!ServerRow
<1> HIDE DEF row
<1>3. servers[r].name = None
  BY <1>1 DEF Catalog!Unused, Catalog!Named
<1>4. ProcessesLoaded' /\ process' \in [Process -> Catalog!Entry]
  BY <1>1, CatalogTypes DEF CatalogInv, ProcessesLoaded
<1> QED
  BY <1>1, <1>2, <1>3, <1>4, ServerKeeps

LEMMA FormsKeep ==
    ASSUME CatalogInv, NEW r \in ServerId, NEW name \in Name, NEW node \in Node,
           Catalog!CreateServer(r, name, node) \/ Catalog!UpdateServer(r, name, node)
    PROVE  CatalogInv'
<1> DEFINE row == [name |-> name, node |-> node]
<1>1. /\ Catalog!ServerIs(r, row)
      /\ spoiled' = IF node = yaml[name] THEN spoiled \ {r} ELSE spoiled \cup {r}
      /\ UNCHANGED <<yaml, process, placed, nodes, quota, asked>>
  BY DEF Catalog!CreateServer, Catalog!UpdateServer, Catalog!Saved
<1>2. row \in Catalog!ServerRow /\ row.name = name /\ row.node = node
  BY DEF Catalog!ServerRow
<1> HIDE DEF row
<1>3. \/ servers[r].name \in {row.name, None} /\ astray' = astray
      \/ astray' = astray \cup Catalog!DevicesOf({r})
  <2>1. CASE Catalog!CreateServer(r, name, node)
    BY <2>1 DEF Catalog!CreateServer, Catalog!Unused, Catalog!Named
  <2>2. CASE Catalog!UpdateServer(r, name, node)
    BY <1>2, <2>2 DEF Catalog!UpdateServer
  <2> QED
    BY <2>1, <2>2
<1>4. ProcessesLoaded' /\ process' \in [Process -> Catalog!Entry]
  BY <1>1, CatalogTypes DEF CatalogInv, ProcessesLoaded
<1> QED
  BY <1>1, <1>2, <1>3, <1>4, ServerKeeps

\* One device changes; it is at home again, or left behind.
LEMMA DeviceKeeps ==
    ASSUME CatalogInv, NEW d \in ServedDevice, NEW row \in Catalog!DeviceRow,
           placed' = [placed EXCEPT ![d] = row],
           row.status \in {"active", "disabled"} => row.row \in ServerId,
           nodes' \in [Node -> SUBSET ServedDevice],
           \A n \in Node : \A e \in ServedDevice \ {d} : e \in nodes'[n] <=> e \in nodes[n],
           astray' \in {astray, astray \cup {d}},
           d \notin astray' => AtHome(d)',
           UNCHANGED <<yaml, servers, process, quota, asked, spoiled>>
    PROVE  CatalogInv'
<1>1. placed' \in [ServedDevice -> Catalog!DeviceRow]
      /\ \A e \in ServedDevice \ {d} : placed'[e] = placed[e]
  BY CatalogTypes
<1>2. Catalog!TypeOK'
  BY <1>1, CatalogTypes DEF CatalogInv, Catalog!TypeOK
<1>3. ProcessesLoaded' /\ RowsAsFiled' /\ DevicesPlaced'
  BY <1>1 DEF CatalogInv, ProcessesLoaded, RowsAsFiled, DevicesPlaced
<1>4. ASSUME NEW e \in ServedDevice \ astray' PROVE AtHome(e)'
  <2>1. CASE e = d
    BY <2>1
  <2>2. CASE e # d
    BY <1>1, <2>2 DEF CatalogInv, AtHome
  <2> QED
    BY <2>1, <2>2
<1> QED
  BY <1>2, <1>3, <1>4 DEF CatalogInv

\* A process that has the entry and the row as they are is at the node both
\* name.
LEMMA CurrentIsFiled ==
    ASSUME CatalogInv, NEW p \in Process, process[p].step = "synced", Catalog!Current(p)
    PROVE  /\ process[p].row \in ServerId /\ process[p].node \in Node
           /\ servers[process[p].row].name \in Name
           /\ process[p].node = yaml[servers[process[p].row].name]
           /\ process[p].node = servers[process[p].row].node
<1>1. /\ process[p].row \in ServerId \ spoiled /\ process[p].node \in Node
      /\ process[p].name \in Name
  BY DEF CatalogInv, ProcessesLoaded, Catalog!Current
<1>2. /\ servers[process[p].row].name = process[p].name
      /\ process[p].node = yaml[process[p].name]
  BY DEF Catalog!Current
<1>3. servers[process[p].row].node = yaml[process[p].name]
  BY <1>1, <1>2, CatalogTypes DEF CatalogInv, RowsAsFiled
<1> QED
  BY <1>1, <1>2, <1>3

LEMMA GrantsKeep ==
    ASSUME CatalogInv, NEW p \in Process, NEW d \in ServedDevice, Catalog!Grant(p, d)
    PROVE  CatalogInv'
<1> DEFINE e == process[p]
           row == [status |-> "active", row |-> e.row, config |-> servers[e.row].node]
<1>1. /\ e.step = "synced" /\ placed[d].status = "none"
      /\ placed' = [placed EXCEPT ![d] = row]
      /\ nodes' = [nodes EXCEPT ![e.node] = nodes[e.node] \cup {d}]
      /\ astray' = IF Catalog!Current(p) THEN astray ELSE astray \cup {d}
      /\ UNCHANGED <<yaml, servers, process, quota, asked, spoiled>>
  BY DEF Catalog!Grant, Catalog!Apply
<1>2. e.row \in ServerId /\ e.node \in Node
  BY <1>1 DEF CatalogInv, ProcessesLoaded
<1>3. /\ row \in Catalog!DeviceRow /\ row.status = "active" /\ row.row = e.row
      /\ row.config = servers[e.row].node
  BY <1>2, CatalogTypes DEF Catalog!DeviceRow, Catalog!ServerRow
<1>4. Catalog!Current(p) => /\ servers[e.row].name \in Name
                            /\ e.node = yaml[servers[e.row].name]
                            /\ e.node = servers[e.row].node
  BY <1>1, CurrentIsFiled
<1> HIDE DEF e, row
<1>5. /\ nodes' \in [Node -> SUBSET ServedDevice]
      /\ \A n \in Node : \A f \in ServedDevice \ {d} : f \in nodes'[n] <=> f \in nodes[n]
      /\ d \in nodes'[e.node]
      /\ \A n \in Node \ {e.node} : nodes'[n] = nodes[n]
  BY <1>1, <1>2, CatalogTypes
<1>6. placed'[d] = row
  BY <1>1, CatalogTypes
<1>7. d \notin astray' => AtHome(d)'
  <2>1. d \notin astray => \A n \in Node : d \notin nodes[n]
    BY <1>1 DEF CatalogInv, AtHome
  <2> QED
    BY <1>1, <1>2, <1>3, <1>4, <1>5, <1>6, <2>1 DEF AtHome
<1> QED
  BY <1>1, <1>2, <1>3, <1>5, <1>7, DeviceKeeps

\* A device at home is taken off its node, or put on it.
LEMMA SwitchKeeps ==
    ASSUME CatalogInv, NEW d \in ServedDevice, NEW node,
           NEW s \in {"active", "disabled", "revoked"},
           placed[d].status \in {"active", "disabled"},
           Catalog!StatusIs(d, s),
           IF s = "active" THEN Catalog!Apply(node, d) ELSE Catalog!Remove(node, d),
           astray' \in {astray, astray \cup {d}},
           d \notin astray' => node = placed[d].config,
           s = "active" /\ d \notin astray' => node \in Node,
           UNCHANGED <<yaml, servers, process, quota, asked, spoiled>>
    PROVE  CatalogInv'
<1> DEFINE row == [placed[d] EXCEPT !.status = s]
<1>1. placed[d] \in Catalog!DeviceRow /\ placed' = [placed EXCEPT ![d] = row]
  BY CatalogTypes DEF Catalog!StatusIs
<1>2. /\ row \in Catalog!DeviceRow /\ row.status = s /\ row.row = placed[d].row
      /\ row.config = placed[d].config
  BY <1>1 DEF Catalog!DeviceRow
<1> HIDE DEF row
<1>3. placed'[d] = row /\ row.row \in ServerId
  BY <1>1, <1>2, CatalogTypes DEF CatalogInv, DevicesPlaced
<1>4. /\ nodes' \in [Node -> SUBSET ServedDevice]
      /\ \A n \in Node : \A e \in ServedDevice \ {d} : e \in nodes'[n] <=> e \in nodes[n]
      /\ \A n \in Node : d \in nodes'[n] <=> IF n = node THEN s = "active" ELSE d \in nodes[n]
  <2>1. CASE s = "active"
    BY <2>1, CatalogTypes DEF Catalog!Apply
  <2>2. CASE s # "active"
    BY <2>2, CatalogTypes DEF Catalog!Remove
  <2> QED
    BY <2>1, <2>2
<1>5. d \notin astray' => AtHome(d)'
  BY <1>2, <1>3, <1>4 DEF CatalogInv, AtHome
<1> QED
  BY <1>1, <1>2, <1>3, <1>4, <1>5, DeviceKeeps

LEMMA PlacedRevokeKeeps ==
    ASSUME CatalogInv, NEW d \in ServedDevice, Catalog!Revoke(d)
    PROVE  CatalogInv'
<1> DEFINE e == process[Bot]
           current == Catalog!Current(Bot) /\ placed[d].row = e.row
<1>1. /\ e.step = "synced" /\ placed[d].status = "active" /\ Catalog!StatusIs(d, "revoked")
      /\ Catalog!Remove(e.node, d)
      /\ astray' = IF current THEN astray ELSE astray \cup {d}
      /\ UNCHANGED <<yaml, servers, process, quota, asked, spoiled>>
  BY DEF Catalog!Revoke
<1>2. d \notin astray' => e.node = placed[d].config
  BY <1>1, CurrentIsFiled, CatalogTypes DEF CatalogInv, AtHome
<1> HIDE DEF e, current
<1> QED
  BY <1>1, <1>2, SwitchKeeps

LEMMA PanelSwitches ==
    ASSUME CatalogInv, NEW d \in ServedDevice,
           Catalog!DisableDevice(d) \/ Catalog!EnableDevice(d)
    PROVE  CatalogInv'
<1> DEFINE node == Catalog!NodeOf(d)
<1>1. /\ placed[d].status \in {"active", "disabled"} /\ node # None
      /\ UNCHANGED <<yaml, servers, process, quota, asked, spoiled, astray>>
  BY DEF Catalog!DisableDevice, Catalog!EnableDevice
<1>2. d \notin astray => node = placed[d].config /\ node \in Node
  BY <1>1, CatalogTypes DEF CatalogInv, AtHome, Catalog!NodeOf
<1>3. \/ Catalog!StatusIs(d, "disabled") /\ Catalog!Remove(node, d)
      \/ Catalog!StatusIs(d, "active") /\ Catalog!Apply(node, d)
  BY DEF Catalog!DisableDevice, Catalog!EnableDevice
<1> HIDE DEF node
<1> QED
  BY <1>1, <1>2, <1>3, SwitchKeeps

LEMMA ResendKeeps ==
    ASSUME CatalogInv, NEW d \in ServedDevice, Catalog!Resend(d)
    PROVE  CatalogInv'
<1> DEFINE node == servers[placed[d].row].node
           row == [placed[d] EXCEPT !.config = node]
<1>1. /\ placed[d].status = "active"
      /\ placed' = [placed EXCEPT ![d] = row]
      /\ astray' = IF placed[d].row \in spoiled THEN astray \cup {d} ELSE astray
      /\ UNCHANGED <<yaml, servers, process, nodes, quota, asked, spoiled>>
  BY CatalogTypes DEF Catalog!Resend, Catalog!DeviceRow
<1>2. placed[d].row \in ServerId /\ placed[d] \in Catalog!DeviceRow
  BY <1>1, CatalogTypes DEF CatalogInv, DevicesPlaced
<1>3. /\ row \in Catalog!DeviceRow /\ row.status = "active" /\ row.row = placed[d].row
      /\ row.config = node
  BY <1>1, <1>2, CatalogTypes DEF Catalog!DeviceRow, Catalog!ServerRow
<1> HIDE DEF row
<1>4. placed'[d] = row
  BY <1>1, CatalogTypes
<1>5. d \notin astray' => AtHome(d)'
  <2>1. ASSUME d \notin astray' PROVE node = placed[d].config
    <3>1. d \notin astray /\ placed[d].row \notin spoiled
      BY <1>1, <2>1
    <3>2. servers[placed[d].row].name \in Name
          /\ placed[d].config = yaml[servers[placed[d].row].name]
      BY <1>1, <3>1 DEF CatalogInv, AtHome
    <3> QED
      BY <1>2, <3>1, <3>2, CatalogTypes DEF CatalogInv, RowsAsFiled
  <2> HIDE DEF node
  <2> QED
    BY <1>1, <1>3, <1>4, <2>1 DEF CatalogInv, AtHome
<1> QED
  BY <1>1, <1>2, <1>3, <1>5, CatalogTypes, DeviceKeeps

LEMMA CatalogNextKeeps ==
    ASSUME CatalogInv, [Catalog!Next]_v8
    PROVE  CatalogInv'
<1>1. CASE UNCHANGED v8
  BY <1>1
  DEF v8, CatalogInv, Catalog!TypeOK, DevicesPlaced, ProcessesLoaded, RowsAsFiled, AtHome
<1>2. CASE Catalog!Next
  <2>1. CASE \E m \in Name, n \in Node \cup {None} : Catalog!EditFile(m, n)
    BY <2>1, EntryEditKeeps
  <2>2. CASE \E p \in Process, m \in Name : Catalog!LoadServer(p, m)
    BY <2>2, LoadKeeps
  <2>3. CASE \E r \in ServerId : Catalog!CreateWorkflow(r)
    <3>1. quota' = quota
      BY <2>3 DEF Catalog!CreateWorkflow, Catalog!UpsertPlan
    <3> QED
      BY <2>3, <3>1, CatalogTypes, SyncKeeps DEF Catalog!CreateWorkflow
  <2>4. CASE \E p \in Process, r \in ServerId : Catalog!OperatorCommand(p, r)
    BY <2>4, SyncKeeps DEF Catalog!OperatorCommand
  <2>5. CASE \E p \in Process : Catalog!Ends(p)
    BY <2>5, EndsKeeps
  <2>6. CASE \E m \in Name, r \in ServerId : Catalog!EnsureServer(m, r)
    BY <2>6, EnsureKeeps
  <2>7. CASE \E p \in Process, d \in ServedDevice : Catalog!Grant(p, d)
    BY <2>7, GrantsKeep
  <2>8. CASE \E d \in ServedDevice : Catalog!Revoke(d)
    BY <2>8, PlacedRevokeKeeps
  <2>9. CASE \E d \in ServedDevice : Catalog!Resend(d)
    BY <2>9, ResendKeeps
  <2>10. CASE \E d \in ServedDevice : Catalog!DisableDevice(d) \/ Catalog!EnableDevice(d)
    BY <2>10, PanelSwitches
  <2>11. CASE \E r \in ServerId, m \in Name, n \in Node :
                 Catalog!CreateServer(r, m, n) \/ Catalog!UpdateServer(r, m, n)
    BY <2>11, FormsKeep
  <2>12. CASE \E q \in Quota \cup {None} : Catalog!UpdatePlanDeviceQuota(q)
    <3>1. /\ quota' \in Quota \cup {None} /\ asked' = quota'
          /\ UNCHANGED <<yaml, servers, process, placed, nodes, spoiled, astray>>
      BY <2>12 DEF Catalog!UpdatePlanDeviceQuota
    <3> QED
      BY <3>1
      DEF CatalogInv, Catalog!TypeOK, DevicesPlaced, ProcessesLoaded, RowsAsFiled, AtHome
  <2> QED
    BY <1>2, <2>1, <2>2, <2>3, <2>4, <2>5, <2>6, <2>7, <2>8, <2>9, <2>10, <2>11, <2>12
    DEF Catalog!Next
<1> QED
  BY <1>1, <1>2

\* File, rows, processes and devices are as the code leaves them, whatever
\* the servers are.
THEOREM CatalogInvariant == Spec => [](part = "catalog" => CatalogInv)
<1>1. Init => (part = "catalog" => CatalogInv)
  BY CatalogInit DEF Init
<1>2. ASSUME part = "catalog" => CatalogInv, [Next]_<<part, v1, v2, v3, v4, v5, v6, v7, v8, v9, v10>>
      PROVE  (part = "catalog" => CatalogInv)'
  <2>1. CASE CatalogNext
    BY <1>2, <2>1, CatalogNextKeeps DEF CatalogNext
  <2>2. CASE part # "catalog" /\ part' = part
    BY <2>2
  <2>3. CASE part' = part /\ v8' = v8
    BY <1>2, <2>3, CatalogNextKeeps
  <2> QED
    BY <1>2, <2>1, <2>2, <2>3
    DEF Next, ApiNext, MailNext, SchemaNext, BackupNext, PeersNext, RuntimeNext, DialogNext,
        AccountsNext, HealthNext
<1> QED
  BY <1>1, <1>2, PTL DEF Spec

\* A device that no change of its server was made behind is served at the
\* node its configuration names and nowhere else, and quotas stay.
THEOREM DevicesServedWhereNamed == Spec => []ServedWhereNamed
<1>1. ASSUME CatalogInv PROVE Catalog!ServedWhereNamed
  BY <1>1 DEF Catalog!ServedWhereNamed, CatalogInv, AtHome
<1>2. (part = "catalog" => CatalogInv) => ServedWhereNamed
  BY <1>1 DEF ServedWhereNamed
<1> QED
  BY <1>2, CatalogInvariant, PTL
=============================================================================
