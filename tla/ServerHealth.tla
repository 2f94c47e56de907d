------------------------------ MODULE ServerHealth ------------------------------
(***************************************************************************)
(* The health check of a server: the panel has the read-only operation run *)
(* one command after the other over SSH, each admitted by the allowlist,   *)
(* judges the results and records the verdict.  The node changes between   *)
(* the commands, and any of them may not be answered.                      *)
(***************************************************************************)
EXTENDS Naturals, Sequences, FiniteSets, Functions

CONSTANT MaxFaults  \* bound: faults of the node at one time

VARIABLES
    entry,      \* the server in servers.yml: its runtime, and whether the
                \* names in its commands have the form the allowlist admits
    wrong,      \* the checks the node would not pass now
    check,      \* the health check under way
    health,     \* server_health_checks, the latest row
    sent        \* history: commands sent in the check under way, or the last

healthVars == <<entry, wrong, check, health, sent>>

Docker == <<"debian", "docker", "container", "interface", "udp-port">>
Systemd == <<"debian", "systemd", "awg", "awg-quick", "ufw", "interface", "udp-port">>
Errors == {"debian", "docker", "systemd", "container"}
Warnings == {"awg", "awg-quick", "ufw", "interface", "udp-port"}
Check == Errors \cup Warnings

Entry == [runtime : {"docker", "host_systemd", "none"}, wellFormed : BOOLEAN]
Verdict == {"online", "degraded", "offline", "unknown", "none"}

(* done: commands answered; failed: those whose result was not what it      *)
(* should be.  History: lasting, what was wrong all through the check;      *)
(* quiet, nothing was.                                                      *)
Running == [on : BOOLEAN, commands : {Docker, Systemd}, wellFormed : BOOLEAN,
            done : 0..7, failed : SUBSET Check, lasting : SUBSET Check, quiet : BOOLEAN]
Idle == [on |-> FALSE, commands |-> Docker, wellFormed |-> TRUE, done |-> 0,
         failed |-> {}, lasting |-> {}, quiet |-> FALSE]
HealthRow == [status : Verdict, lasting : SUBSET Check, quiet : BOOLEAN]
NoHealth == [status |-> "none", lasting |-> {}, quiet |-> FALSE]

Commands(runtime) == IF runtime = "docker" THEN Docker ELSE Systemd

TypeOK ==
    /\ entry \in Entry
    /\ wrong \subseteq Check
    /\ check \in Running
    /\ health \in HealthRow
    /\ sent \subseteq Check

Init ==
    /\ entry \in Entry
    /\ wrong = {}
    /\ check = Idle
    /\ health = NoHealth
    /\ sent = {}

------------------------------------------------------------------------------
(* Something breaks or is repaired; the operator edits the file, which a    *)
(* check under way has read already.                                        *)
NodeChanges(faults) ==
    /\ Cardinality(faults) <= MaxFaults
    /\ wrong' = faults
    /\ check' = [check EXCEPT !.lasting = @ \cap faults, !.quiet = @ /\ faults = {}]
    /\ UNCHANGED <<entry, health, sent>>

EditFile(e) ==
    /\ ~check.on
    /\ entry' = e
    /\ UNCHANGED <<wrong, check, health, sent>>

Recorded(status) ==
    /\ health' = [status |-> status, lasting |-> check.lasting, quiet |-> check.quiet]
    /\ check' = Idle

(* The row of the server gives the name, servers.yml the rest.  The latest  *)
(* verdict stands until the check under way has one; its history does not. *)
RunHealth ==
    /\ ~check.on
    /\ sent' = {}
    /\ IF entry.runtime = "none"
       THEN /\ health' = [NoHealth EXCEPT !.status = "unknown"]
            /\ check' = Idle
       ELSE LET commands == Commands(entry.runtime)
                lasting == wrong \cap Range(commands)
            IN
            /\ health' = [health EXCEPT !.lasting = {}, !.quiet = FALSE]
            /\ check' = [on |-> TRUE, commands |-> commands, done |-> 0,
                         wellFormed |-> entry.wellFormed, failed |-> {},
                         lasting |-> lasting, quiet |-> lasting = {}]
    /\ UNCHANGED <<entry, wrong>>

Step == check.commands[check.done + 1]
Pending == check.on /\ check.done < Len(check.commands)

(* The commands into which a name of the entry is put. *)
ReadOnly(command) == command = "interface" => check.wellFormed

(* Every step is run, whatever the one before it found. *)
RunStep ==
    /\ Pending /\ ReadOnly(Step)
    /\ sent' = sent \cup {Step}
    /\ check' = [check EXCEPT !.done = @ + 1, !.failed = @ \cup ({Step} \cap wrong)]
    /\ UNCHANGED <<entry, wrong, health>>

(* No answer in time is a failed command, and the next one is sent. *)
Unreachable ==
    /\ Pending /\ ReadOnly(Step)
    /\ sent' = sent \cup {Step}
    /\ check' = [check EXCEPT !.done = @ + 1, !.failed = @ \cup {Step}, !.quiet = FALSE]
    /\ UNCHANGED <<entry, wrong, health>>

(* Mutant: what was run so far is judged. *)
StepRaises_Judged ==
    /\ Pending /\ ReadOnly(Step)
    /\ sent' = sent \cup {Step}
    /\ Recorded(IF check.failed = {} THEN "online" ELSE "degraded")
    /\ UNCHANGED <<entry, wrong>>

(* Output that is not text, an error of the client itself: the exception    *)
(* drops the results of the steps before it.                                *)
StepRaises ==
    /\ Pending /\ ReadOnly(Step)
    /\ sent' = sent \cup {Step}
    /\ health' = [status |-> "unknown", lasting |-> check.lasting, quiet |-> FALSE]
    /\ check' = Idle
    /\ UNCHANGED <<entry, wrong>>

(* So does a command the allowlist refuses; that is an error in itself. *)
StepBlocked ==
    /\ Pending /\ ~ReadOnly(Step)
    /\ health' = [status |-> "offline", lasting |-> check.lasting, quiet |-> FALSE]
    /\ check' = Idle
    /\ UNCHANGED <<entry, wrong, sent>>

SummarizeCheckReport(failed) ==
    IF failed \cap Errors # {} THEN "offline"
    ELSE IF failed # {} THEN "degraded" ELSE "online"

Finish ==
    /\ check.on /\ ~Pending
    /\ Recorded(SummarizeCheckReport(check.failed))
    /\ UNCHANGED <<entry, wrong, sent>>

Next ==
    \/ \E faults \in SUBSET Check : NodeChanges(faults)
    \/ \E e \in Entry : EditFile(e)
    \/ RunHealth
    \/ RunStep
    \/ Unreachable
    \/ StepRaises
    \/ StepBlocked
    \/ Finish

Spec == Init /\ [][Next]_healthVars

------------------------------------------------------------------------------
(* A fault that lasted through the check is in the verdict, at its own      *)
(* severity, however the check ended, unless the verdict is that nothing is *)
(* known; a node that was well all through is online when every command was *)
(* sent and answered; and nothing outside the allowlist is ever sent.       *)
VerdictHolds ==
    /\ health.lasting # {} => health.status # "online"
    /\ health.lasting \cap Errors # {} => health.status \in {"offline", "unknown"}
    /\ health.quiet => health.status = "online"
    /\ health.status = "online" /\ ~check.on => sent \in {Range(Docker), Range(Systemd)}
    /\ "interface" \in sent /\ check.on => check.wellFormed
==============================================================================
