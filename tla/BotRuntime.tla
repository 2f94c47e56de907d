------------------------------ MODULE BotRuntime ------------------------------
(***************************************************************************)
(* Processes that read the bot's updates from Telegram: the persistent bot *)
(* under systemd, of which a second instance may be started, and the       *)
(* controlled smoke on a copy of the database.  Telegram keeps an update   *)
(* until a later poll acknowledges it by its offset; a process may die at  *)
(* any point, and the bot that replaces it must admit itself first.        *)
(***************************************************************************)
EXTENDS Naturals, FiniteSetsExt

CONSTANTS
    Proc,       \* starts of the persistent bot on the host
    NoProc,     \* nobody holds the lock file
    MaxUpdate   \* bound: updates are numbered 1..MaxUpdate

VARIABLES
    lock,       \* the process that holds the flock
    bot,        \* bot[p]: how far process p got
    batch,      \* batch[p]: fetched by p's last poll, to be acknowledged by its next
    ready,      \* processes systemd was told READY of
    sent,       \* the last update the users sent
    pending,    \* updates Telegram still holds
    webhook,    \* a webhook is configured at Telegram
    starts,     \* updates that are the selected administrator's /start
    handled,    \* history: handled[u], how often the bot began to handle u
    dropped,    \* history: updates the operator discarded at Telegram
    smoke       \* the controlled smoke: its step and its update

botVars == <<lock, bot, batch, ready, sent, pending, webhook, starts, handled, dropped, smoke>>

Update == 1..MaxUpdate
BotStep == {"down", "locked", "checked", "probed", "built", "rechecked", "polling"}
SmokeStep == {"down", "waiting", "handled", "acknowledged", "passed", "failed"}

TypeOK ==
    /\ lock \in Proc \cup {NoProc}
    /\ bot \in [Proc -> BotStep]
    /\ batch \in [Proc -> SUBSET Update]
    /\ ready \subseteq Proc
    /\ sent \in 0..MaxUpdate
    /\ pending \subseteq 1..sent
    /\ webhook \in BOOLEAN
    /\ starts \subseteq Update
    /\ handled \in [Update -> 0..2]
    /\ dropped \subseteq Update
    /\ smoke \in [step : SmokeStep, update : 0..MaxUpdate]

Init ==
    /\ lock = NoProc
    /\ bot = [p \in Proc |-> "down"]
    /\ batch = [p \in Proc |-> {}]
    /\ ready = {}
    /\ sent = 0
    /\ pending = {}
    /\ webhook = FALSE
    /\ starts \in SUBSET Update
    /\ handled = [u \in Update |-> 0]
    /\ dropped = {}
    /\ smoke = [step |-> "down", update |-> 0]

telegramVars == <<sent, pending, webhook, starts, handled, dropped>>

(* Webhook and backlog, as getWebhookInfo tells them; getUpdates fails with *)
(* a webhook and returns the backlog.                                       *)
StateAdmits == ~webhook /\ pending = {}

Goes(p, from, to) ==
    /\ bot[p] = from
    /\ bot' = [bot EXCEPT ![p] = to]
    /\ UNCHANGED <<lock, batch, ready, smoke, telegramVars>>

------------------------------------------------------------------------------
(* The lock file, not waited for: a second instance ends at once. *)
AcquireLock(p) ==
    /\ bot[p] = "down"
    /\ lock = NoProc
    /\ lock' = p
    /\ bot' = [bot EXCEPT ![p] = "locked"]
    /\ UNCHANGED <<batch, ready, smoke, telegramVars>>

(* Admission: identity, webhook and backlog; then a poll that must return   *)
(* nothing and acknowledges nothing.  The database is opened, the state     *)
(* checked once more.                                                       *)
CheckState(p) == StateAdmits /\ Goes(p, "locked", "checked")

(* Mutant: the probe asks with an offset, which discards the backlog. *)
ProbeOwnership_Discards(p) ==
    /\ bot[p] = "checked"
    /\ bot' = [bot EXCEPT ![p] = "probed"]
    /\ pending' = {}
    /\ UNCHANGED <<lock, batch, ready, sent, webhook, starts, handled, dropped, smoke>>

ProbeOwnership(p) == StateAdmits /\ Goes(p, "checked", "probed")

CreateWorkflow(p) == Goes(p, "probed", "built")

Recheck(p) == StateAdmits /\ Goes(p, "built", "rechecked")

StartPolling(p) == Goes(p, "rechecked", "polling")

(* systemd hears READY once the polling task runs. *)
NotifyReady(p) ==
    /\ bot[p] = "polling"
    /\ ready' = ready \cup {p}
    /\ UNCHANGED <<lock, bot, batch, smoke, telegramVars>>

(* The poll acknowledges the last batch, and every update it returns is     *)
(* given to a handler as a task of its own before the next poll.  A webhook *)
(* set meanwhile makes the poll fail, and the dispatcher tries again.       *)
Poll(p) ==
    LET left == pending \ batch[p] IN
    /\ bot[p] = "polling"
    /\ ~webhook
    /\ pending' = left
    /\ batch' = [batch EXCEPT ![p] = left]
    /\ handled' = [u \in Update |-> handled[u] + (IF u \in left /\ handled[u] < 2 THEN 1 ELSE 0)]
    /\ UNCHANGED <<lock, bot, ready, sent, webhook, starts, dropped, smoke>>

(* Any failure, a refused admission, a stop: what was not acknowledged is   *)
(* left to Telegram; the lock is released last, or by the kernel.           *)
Exit(p) ==
    /\ bot[p] # "down"
    /\ bot' = [bot EXCEPT ![p] = "down"]
    /\ batch' = [batch EXCEPT ![p] = {}]
    /\ ready' = ready \ {p}
    /\ lock' = NoProc
    /\ UNCHANGED <<smoke, telegramVars>>

------------------------------------------------------------------------------
(* The controlled smoke takes no lock: it checks the state, waits for the   *)
(* first update, which must be the administrator's /start, handles it on    *)
(* the copy, and acknowledges it when it is the only one in the backlog.    *)
SmokeStart ==
    /\ smoke.step = "down"
    /\ StateAdmits
    /\ smoke' = [step |-> "waiting", update |-> 0]
    /\ UNCHANGED <<lock, bot, batch, ready, telegramVars>>

SmokeReceive ==
    /\ smoke.step = "waiting"
    /\ pending # {} /\ ~webhook
    /\ smoke' = IF Min(pending) \in starts
                THEN [step |-> "handled", update |-> Min(pending)]
                ELSE [step |-> "down", update |-> 0]
    /\ UNCHANGED <<lock, bot, batch, ready, telegramVars>>

(* getUpdates with the offset behind the update discards every earlier one. *)
SmokeAcknowledge ==
    /\ smoke.step = "handled"
    /\ ~webhook
    /\ Cardinality(pending) = 1
    /\ pending' = {u \in pending : u > smoke.update}
    /\ smoke' = [smoke EXCEPT !.step = "acknowledged"]
    /\ UNCHANGED <<lock, bot, batch, ready, sent, webhook, starts, handled, dropped>>

(* A last look: whatever came meanwhile fails the smoke, whose update is    *)
(* gone all the same.  Bound: it is not run again.                          *)
SmokeVerify ==
    /\ smoke.step = "acknowledged"
    /\ smoke' = [smoke EXCEPT !.step = IF StateAdmits THEN "passed" ELSE "failed"]
    /\ UNCHANGED <<lock, bot, batch, ready, telegramVars>>

SmokeFail ==
    /\ smoke.step \in {"waiting", "handled"}
    /\ smoke' = [step |-> "down", update |-> 0]
    /\ UNCHANGED <<lock, bot, batch, ready, telegramVars>>

------------------------------------------------------------------------------
(* Users and the operator. *)
Send ==
    /\ sent < MaxUpdate
    /\ sent' = sent + 1
    /\ pending' = pending \cup {sent + 1}
    /\ UNCHANGED <<lock, bot, batch, ready, webhook, starts, handled, dropped, smoke>>

SetWebhook ==
    /\ webhook' = ~webhook
    /\ UNCHANGED <<lock, bot, batch, ready, sent, pending, starts, handled, dropped, smoke>>

(* The operator discards the backlog, or a webhook of hers takes it. *)
DropBacklog ==
    /\ pending # {}
    /\ pending' = {}
    /\ dropped' = dropped \cup pending
    /\ UNCHANGED <<lock, bot, batch, ready, sent, webhook, starts, handled, smoke>>

Next ==
    \/ \E p \in Proc : AcquireLock(p)
    \/ \E p \in Proc : CheckState(p)
    \/ \E p \in Proc : ProbeOwnership(p)
    \/ \E p \in Proc : CreateWorkflow(p)
    \/ \E p \in Proc : Recheck(p)
    \/ \E p \in Proc : StartPolling(p)
    \/ \E p \in Proc : NotifyReady(p)
    \/ \E p \in Proc : Poll(p)
    \/ \E p \in Proc : Exit(p)
    \/ SmokeStart
    \/ SmokeReceive
    \/ SmokeAcknowledge
    \/ SmokeVerify
    \/ SmokeFail
    \/ Send
    \/ SetWebhook
    \/ DropBacklog

Spec == Init /\ [][Next]_botVars

------------------------------------------------------------------------------
(* Every update is handled once: never twice, although a bot that died in   *)
(* a handler leaves its update to the next, and acknowledged unhandled only *)
(* by the operator, or by the smoke whose /start it was.                    *)
UpdateHandledOnce ==
    \A u \in 1..sent :
        /\ handled[u] <= 1
        /\ \/ u \in pending
           \/ handled[u] = 1
           \/ u \in dropped
           \/ u \in starts /\ u = smoke.update
                /\ smoke.step \in {"acknowledged", "passed", "failed"}
==============================================================================
