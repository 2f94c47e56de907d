------------------------ MODULE RuntimeServices_proofs ------------------------
(***************************************************************************)
(* What the services of MCServices under the bot and its database promise, *)
(* for every value of their constants: the updates the bot reads from      *)
(* Telegram, the migration of the database at a start, its backup.         *)
(***************************************************************************)
EXTENDS AccountServices_proofs, NodeServices_proofs, WellFoundedInduction

(* The updates the bot reads.                                              *)

\* Only the process that holds the lock is not down.
OneAwake == \A p \in Proc : bot[p] # "down" => lock = p

\* What a process that was admitted will find at Telegram was never handled;
\* what it fetched before was.
BatchesHandled ==
    \A p \in Proc :
        /\ bot[p] \in {"rechecked", "polling"} => \A u \in pending \ batch[p] : handled[u] = 0
        /\ \A u \in batch[p] : handled[u] = 1

\* The first update the smoke saw is the first there is while it handles it,
\* and a start.
SmokeFirst ==
    smoke.step = "handled" =>
        /\ smoke.update \in starts /\ smoke.update <= sent
        /\ \A u \in pending : u >= smoke.update

\* An update not sent yet was not handled.
UnsentUnhandled == \A u \in Runtime!Update : u > sent => handled[u] = 0

RuntimeInv ==
    /\ Runtime!TypeOK
    /\ OneAwake
    /\ BatchesHandled
    /\ SmokeFirst
    /\ UnsentUnhandled
    /\ Runtime!UpdateHandledOnce

\* The first of the pending updates is one of them, and there is none before.
LEMMA FirstPending ==
    ASSUME NEW S \in SUBSET Nat, S # {}
    PROVE  Runtime!Min(S) \in S /\ \A u \in S : u >= Runtime!Min(S)
<1>1. PICK x \in S : \A y \in S : ~ (<<y, x>> \in OpToRel(<, Nat))
  BY WFMin, NatLessThanWellFounded
<1>2. \A y \in S : x <= y
  <2>1. ASSUME NEW y \in S, y < x PROVE FALSE
    BY <1>1, <2>1 DEF OpToRel
  <2> QED
    BY <2>1
<1> QED
  BY <1>2 DEF Runtime!Min

LEMMA RuntimeInit == Runtime!Init => RuntimeInv
<1> SUFFICES ASSUME Runtime!Init PROVE RuntimeInv
  OBVIOUS
<1>1. MaxUpdate \in Nat
  BY ServicesAssumption
<1>2. Runtime!TypeOK
  <2>1. handled \in [Runtime!Update -> 0..2] /\ bot \in [Proc -> Runtime!BotStep]
    BY DEF Runtime!Init, Runtime!BotStep
  <2>2. batch \in [Proc -> SUBSET Runtime!Update] /\ starts \subseteq Runtime!Update
    BY DEF Runtime!Init
  <2>3. smoke \in [step : Runtime!SmokeStep, update : 0..MaxUpdate] /\ sent \in 0..MaxUpdate
    BY <1>1 DEF Runtime!Init, Runtime!SmokeStep
  <2> QED
    BY <2>1, <2>2, <2>3 DEF Runtime!Init, Runtime!TypeOK
<1>3. OneAwake /\ BatchesHandled /\ SmokeFirst /\ UnsentUnhandled
  BY DEF Runtime!Init, OneAwake, BatchesHandled, SmokeFirst, UnsentUnhandled
<1>4. Runtime!UpdateHandledOnce
  BY DEF Runtime!Init, Runtime!UpdateHandledOnce
<1> QED
  BY <1>2, <1>3, <1>4 DEF RuntimeInv

\* A step of a process that neither fetches nor ends: only how far it got
\* changes, and it is behind the last check of the backlog only after it.
LEMMA BotStepKeeps ==
    ASSUME RuntimeInv, NEW p \in Proc, NEW from \in Runtime!BotStep, NEW to \in Runtime!BotStep,
           from # "down", Runtime!Goes(p, from, to),
           to = "rechecked" => Runtime!StateAdmits,
           to = "polling" => from = "rechecked"
    PROVE  RuntimeInv'
BY DEF RuntimeInv, Runtime!TypeOK, OneAwake, BatchesHandled, SmokeFirst,
    UnsentUnhandled, Runtime!UpdateHandledOnce, Runtime!Goes, Runtime!StateAdmits,
    Runtime!telegramVars

LEMMA AcquireKeeps ==
    ASSUME RuntimeInv, NEW p \in Proc, Runtime!AcquireLock(p)
    PROVE  RuntimeInv'
<1>1. OneAwake'
  <2>1. \A q \in Proc : bot[q] = "down"
    BY ServicesAssumption DEF RuntimeInv, OneAwake, Runtime!AcquireLock
  <2> QED
    BY <2>1 DEF RuntimeInv, Runtime!TypeOK, OneAwake, Runtime!AcquireLock
<1> QED
  BY <1>1 DEF RuntimeInv, Runtime!TypeOK, Runtime!BotStep, BatchesHandled, SmokeFirst,
    UnsentUnhandled, Runtime!UpdateHandledOnce, Runtime!AcquireLock, Runtime!telegramVars

LEMMA ReadyKeeps ==
    ASSUME RuntimeInv, NEW p \in Proc, Runtime!NotifyReady(p)
    PROVE  RuntimeInv'
BY DEF RuntimeInv, Runtime!TypeOK, OneAwake, BatchesHandled, SmokeFirst,
    UnsentUnhandled, Runtime!UpdateHandledOnce, Runtime!NotifyReady, Runtime!telegramVars

LEMMA PollKeeps ==
    ASSUME RuntimeInv, NEW p \in Proc, Runtime!Poll(p)
    PROVE  RuntimeInv'
<1> DEFINE left == pending \ batch[p]
<1>1. /\ bot[p] = "polling" /\ pending' = left
      /\ batch' = [batch EXCEPT ![p] = left]
      /\ handled' = [u \in Runtime!Update |->
                        handled[u] + (IF u \in left /\ handled[u] < 2 THEN 1 ELSE 0)]
      /\ UNCHANGED <<lock, bot, ready, sent, webhook, starts, dropped, smoke>>
  BY DEF Runtime!Poll
<1>2. /\ batch \in [Proc -> SUBSET Runtime!Update] /\ handled \in [Runtime!Update -> 0..2]
      /\ sent \in 0..MaxUpdate /\ pending \subseteq 1..sent /\ MaxUpdate \in Nat
      /\ smoke.update \in Int
  BY ServicesAssumption DEF RuntimeInv, Runtime!TypeOK
<1>3. left \subseteq Runtime!Update /\ left \subseteq pending
  <2>1. ASSUME NEW u \in pending PROVE u \in Runtime!Update
    <3>1. u \in 1..sent
      BY <1>2
    <3> QED
      BY <1>2, <3>1 DEF Runtime!Update
  <2> QED
    BY <2>1
<1>4. \A u \in left : handled[u] = 0
  BY <1>1 DEF RuntimeInv, BatchesHandled
<1> HIDE DEF left
<1>5. \A u \in Runtime!Update : handled'[u] = IF u \in left THEN 1 ELSE handled[u]
  BY <1>1, <1>2, <1>4
<1>6. Runtime!TypeOK'
  <2>1. handled' \in [Runtime!Update -> 0..2]
    BY <1>1, <1>2, <1>5
  <2> QED
    BY <1>1, <1>2, <1>3, <2>1 DEF RuntimeInv, Runtime!TypeOK
<1>7. OneAwake'
  BY <1>1 DEF RuntimeInv, OneAwake
<1>8. BatchesHandled'
  <2>1. ASSUME NEW q \in Proc, bot'[q] \in {"rechecked", "polling"}, NEW u \in pending' \ batch'[q]
        PROVE  handled'[u] = 0
    <3>1. q = p
      BY <1>1, <2>1 DEF RuntimeInv, OneAwake
    <3> QED
      BY <1>1, <1>2, <2>1, <3>1
  <2>2. ASSUME NEW q \in Proc, NEW u \in batch'[q] PROVE handled'[u] = 1
    <3>1. CASE q = p
      BY <1>1, <1>2, <1>3, <1>5, <2>2, <3>1
    <3>2. CASE q # p
      <4>1. u \in batch[q] /\ u \in Runtime!Update
        BY <1>1, <1>2, <2>2, <3>2
      <4>2. handled[u] = 1
        BY <4>1 DEF RuntimeInv, BatchesHandled
      <4> QED
        BY <1>5, <4>1, <4>2
    <3> QED
      BY <3>1, <3>2
  <2> QED
    BY <2>1, <2>2 DEF BatchesHandled
<1>9. SmokeFirst'
  BY <1>1, <1>3 DEF RuntimeInv, SmokeFirst
<1>10. UnsentUnhandled'
  BY <1>1, <1>2, <1>3, <1>5 DEF RuntimeInv, UnsentUnhandled, Runtime!Update
<1>11. Runtime!UpdateHandledOnce'
  <2> SUFFICES ASSUME NEW u \in 1..sent
               PROVE  /\ handled'[u] <= 1
                      /\ \/ u \in pending'
                         \/ handled'[u] = 1
                         \/ u \in dropped
                         \/ u \in starts /\ u = smoke.update
                              /\ smoke.step \in {"acknowledged", "passed", "failed"}
    BY <1>1 DEF Runtime!UpdateHandledOnce
  <2>1. u \in Runtime!Update
    BY <1>2 DEF Runtime!Update
  <2>2. CASE u \in left
    BY <1>5, <2>1, <2>2
  <2>3. CASE u \notin left
    <3>1. handled'[u] = handled[u]
      BY <1>5, <2>1, <2>3
    <3>2. u \in pending => handled[u] = 1
      BY <2>3 DEF left, RuntimeInv, BatchesHandled
    <3> QED
      BY <3>1, <3>2 DEF RuntimeInv, Runtime!UpdateHandledOnce
  <2> QED
    BY <2>2, <2>3
<1> QED
  BY <1>6, <1>7, <1>8, <1>9, <1>10, <1>11 DEF RuntimeInv

LEMMA ExitKeeps ==
    ASSUME RuntimeInv, NEW p \in Proc, Runtime!Exit(p)
    PROVE  RuntimeInv'
<1>1. \A q \in Proc : bot'[q] = "down"
  BY DEF RuntimeInv, OneAwake, Runtime!TypeOK, Runtime!Exit
<1>2. Runtime!TypeOK'
  BY DEF RuntimeInv, Runtime!TypeOK, Runtime!BotStep, Runtime!Exit, Runtime!telegramVars
<1>3. BatchesHandled'
  BY <1>1 DEF RuntimeInv, Runtime!TypeOK, BatchesHandled, Runtime!Exit, Runtime!telegramVars
<1> QED
  BY <1>1, <1>2, <1>3 DEF RuntimeInv, OneAwake, SmokeFirst, UnsentUnhandled,
    Runtime!UpdateHandledOnce, Runtime!Exit, Runtime!telegramVars

LEMMA SmokeKeeps ==
    ASSUME RuntimeInv,
           Runtime!SmokeStart \/ Runtime!SmokeReceive \/ Runtime!SmokeVerify \/ Runtime!SmokeFail
    PROVE  RuntimeInv'
<1>1. /\ UNCHANGED <<lock, bot, batch, ready, sent, pending, webhook, starts, handled, dropped>>
      /\ smoke.step \in {"acknowledged", "passed", "failed"} =>
            /\ smoke'.step \in {"acknowledged", "passed", "failed"}
            /\ smoke'.update = smoke.update
  BY DEF RuntimeInv, Runtime!TypeOK, Runtime!SmokeStart, Runtime!SmokeReceive,
    Runtime!SmokeVerify, Runtime!SmokeFail, Runtime!telegramVars
<1>2. /\ smoke' \in [step : Runtime!SmokeStep, update : 0..MaxUpdate]
      /\ SmokeFirst'
  <2>1. CASE Runtime!SmokeReceive /\ Runtime!Min(pending) \in starts
    <3>1. pending \in SUBSET Nat /\ pending # {}
      BY <2>1 DEF RuntimeInv, Runtime!TypeOK, Runtime!SmokeReceive
    <3>2. /\ smoke' = [step |-> "handled", update |-> Runtime!Min(pending)]
          /\ starts \subseteq Runtime!Update
      BY <2>1 DEF RuntimeInv, Runtime!TypeOK, Runtime!SmokeReceive
    <3>3. /\ Runtime!Min(pending) \in pending
          /\ \A u \in pending : u >= Runtime!Min(pending)
      BY <3>1, FirstPending
    <3>4. Runtime!Min(pending) \in 0..MaxUpdate /\ Runtime!Min(pending) <= sent
      <4>1. pending \subseteq 1..sent /\ sent \in 0..MaxUpdate /\ MaxUpdate \in Nat
        BY ServicesAssumption DEF RuntimeInv, Runtime!TypeOK
      <4>2. Runtime!Min(pending) \in 1..sent
        BY <3>3, <4>1
      <4> QED
        BY <4>1, <4>2
    <3>5. smoke' \in [step : Runtime!SmokeStep, update : 0..MaxUpdate]
      BY <3>2, <3>4 DEF Runtime!SmokeStep
    <3>6. SmokeFirst'
      <4>1. smoke'.update = Runtime!Min(pending)
        BY <3>2
      <4> QED
        BY <1>1, <2>1, <3>3, <3>4, <4>1 DEF SmokeFirst
    <3> QED
      BY <3>5, <3>6
  <2>2. CASE ~ (Runtime!SmokeReceive /\ Runtime!Min(pending) \in starts)
    <3>1. smoke'.step # "handled" /\ smoke' \in [step : Runtime!SmokeStep, update : 0..MaxUpdate]
      BY <2>2, ServicesAssumption DEF RuntimeInv, Runtime!TypeOK, Runtime!SmokeStart,
        Runtime!SmokeReceive, Runtime!SmokeVerify, Runtime!SmokeFail, Runtime!SmokeStep
    <3> QED
      BY <3>1 DEF SmokeFirst
  <2> QED
    BY <2>1, <2>2
<1> QED
  BY <1>1, <1>2 DEF RuntimeInv, Runtime!TypeOK, OneAwake, BatchesHandled,
    UnsentUnhandled, Runtime!UpdateHandledOnce

\* The smoke acknowledges its own update alone: there is none before it.
LEMMA AcknowledgeKeeps ==
    ASSUME RuntimeInv, Runtime!SmokeAcknowledge
    PROVE  RuntimeInv'
<1>1. /\ smoke.step = "handled"
      /\ pending' = {u \in pending : u > smoke.update}
      /\ smoke' = [smoke EXCEPT !.step = "acknowledged"]
      /\ UNCHANGED <<lock, bot, batch, ready, sent, webhook, starts, handled, dropped>>
  BY DEF Runtime!SmokeAcknowledge
<1>2. /\ smoke \in [step : Runtime!SmokeStep, update : 0..MaxUpdate]
      /\ sent \in Nat /\ pending \subseteq 1..sent /\ smoke.update \in Nat
  BY ServicesAssumption DEF RuntimeInv, Runtime!TypeOK
<1>3. smoke'.step = "acknowledged" /\ smoke'.update = smoke.update
  BY <1>1, <1>2
<1>4. smoke.update \in starts /\ \A u \in pending : u \in pending' \/ u = smoke.update
  BY <1>1, <1>2 DEF RuntimeInv, SmokeFirst
<1>5. Runtime!TypeOK'
  BY <1>1, <1>2 DEF RuntimeInv, Runtime!TypeOK, Runtime!SmokeStep
<1>6. OneAwake' /\ BatchesHandled' /\ SmokeFirst' /\ UnsentUnhandled'
  BY <1>1, <1>3 DEF RuntimeInv, OneAwake, BatchesHandled, SmokeFirst, UnsentUnhandled
<1>7. Runtime!UpdateHandledOnce'
  BY <1>1, <1>3, <1>4 DEF RuntimeInv, Runtime!UpdateHandledOnce
<1> QED
  BY <1>5, <1>6, <1>7 DEF RuntimeInv

LEMMA UpdateSendKeeps ==
    ASSUME RuntimeInv, Runtime!Send
    PROVE  RuntimeInv'
<1>1. /\ sent < MaxUpdate /\ sent' = sent + 1
      /\ pending' = pending \cup {sent + 1}
      /\ UNCHANGED <<lock, bot, batch, ready, webhook, starts, handled, dropped, smoke>>
  BY DEF Runtime!Send
<1>2. /\ MaxUpdate \in Nat /\ sent \in 0..MaxUpdate /\ pending \subseteq 1..sent
      /\ smoke.update \in 0..MaxUpdate /\ handled \in [Runtime!Update -> 0..2]
      /\ starts \subseteq Runtime!Update
  BY ServicesAssumption DEF RuntimeInv, Runtime!TypeOK
<1>3. sent + 1 \in Runtime!Update /\ handled[sent + 1] = 0
  BY <1>1, <1>2 DEF RuntimeInv, UnsentUnhandled, Runtime!Update
<1>4. smoke.step = "handled" => smoke.update <= sent
  BY DEF RuntimeInv, SmokeFirst
<1>5. Runtime!TypeOK'
  BY <1>1, <1>2 DEF RuntimeInv, Runtime!TypeOK
<1>6. OneAwake' /\ BatchesHandled'
  BY <1>1, <1>3 DEF RuntimeInv, OneAwake, BatchesHandled
<1>7. SmokeFirst' /\ UnsentUnhandled'
  BY <1>1, <1>2, <1>4 DEF RuntimeInv, SmokeFirst, UnsentUnhandled, Runtime!Update
<1>8. Runtime!UpdateHandledOnce'
  BY <1>1, <1>2, <1>3 DEF RuntimeInv, Runtime!UpdateHandledOnce
<1> QED
  BY <1>5, <1>6, <1>7, <1>8 DEF RuntimeInv

LEMMA OperatorKeeps ==
    ASSUME RuntimeInv, Runtime!SetWebhook \/ Runtime!DropBacklog
    PROVE  RuntimeInv'
<1>1. CASE Runtime!SetWebhook
  BY <1>1 DEF RuntimeInv, Runtime!TypeOK, OneAwake, BatchesHandled, SmokeFirst,
    UnsentUnhandled, Runtime!UpdateHandledOnce, Runtime!SetWebhook
<1>2. CASE Runtime!DropBacklog
  <2>1. pending \subseteq Runtime!Update
    BY ServicesAssumption DEF RuntimeInv, Runtime!TypeOK, Runtime!Update
  <2> QED
    BY <1>2, <2>1 DEF RuntimeInv, Runtime!TypeOK, OneAwake, BatchesHandled, SmokeFirst,
      UnsentUnhandled, Runtime!UpdateHandledOnce, Runtime!DropBacklog
<1> QED
  BY <1>1, <1>2

LEMMA RuntimeNextKeeps ==
    ASSUME RuntimeInv, [Runtime!Next]_v6
    PROVE  RuntimeInv'
<1>1. CASE Runtime!Next
  <2>1. ASSUME NEW p \in Proc, Runtime!AcquireLock(p) PROVE RuntimeInv'
    BY <2>1, AcquireKeeps
  <2>2. ASSUME NEW p \in Proc, \/ Runtime!CheckState(p) \/ Runtime!ProbeOwnership(p)
                              \/ Runtime!CreateWorkflow(p) \/ Runtime!Recheck(p)
                              \/ Runtime!StartPolling(p)
        PROVE RuntimeInv'
    <3>1. CASE Runtime!CheckState(p)
      BY <3>1, BotStepKeeps DEF Runtime!CheckState, Runtime!BotStep
    <3>2. CASE Runtime!ProbeOwnership(p)
      BY <3>2, BotStepKeeps DEF Runtime!ProbeOwnership, Runtime!BotStep
    <3>3. CASE Runtime!CreateWorkflow(p)
      BY <3>3, BotStepKeeps DEF Runtime!CreateWorkflow, Runtime!BotStep
    <3>4. CASE Runtime!Recheck(p)
      BY <3>4, BotStepKeeps DEF Runtime!Recheck, Runtime!BotStep
    <3>5. CASE Runtime!StartPolling(p)
      BY <3>5, BotStepKeeps DEF Runtime!StartPolling, Runtime!BotStep
    <3> QED
      BY <2>2, <3>1, <3>2, <3>3, <3>4, <3>5
  <2>3. ASSUME NEW p \in Proc, Runtime!NotifyReady(p) PROVE RuntimeInv'
    BY <2>3, ReadyKeeps
  <2>4. ASSUME NEW p \in Proc, Runtime!Poll(p) PROVE RuntimeInv'
    BY <2>4, PollKeeps
  <2>5. ASSUME NEW p \in Proc, Runtime!Exit(p) PROVE RuntimeInv'
    BY <2>5, ExitKeeps
  <2>6. CASE Runtime!SmokeStart \/ Runtime!SmokeReceive \/ Runtime!SmokeVerify \/ Runtime!SmokeFail
    BY <2>6, SmokeKeeps
  <2>7. CASE Runtime!SmokeAcknowledge
    BY <2>7, AcknowledgeKeeps
  <2>8. CASE Runtime!Send
    BY <2>8, UpdateSendKeeps
  <2>9. CASE Runtime!SetWebhook \/ Runtime!DropBacklog
    BY <2>9, OperatorKeeps
  <2> QED
    BY <1>1, <2>1, <2>2, <2>3, <2>4, <2>5, <2>6, <2>7, <2>8, <2>9 DEF Runtime!Next
<1>2. CASE UNCHANGED v6
  BY <1>2 DEF v6, RuntimeInv, Runtime!TypeOK, OneAwake, BatchesHandled, SmokeFirst,
    UnsentUnhandled, Runtime!UpdateHandledOnce
<1> QED
  BY <1>1, <1>2

\* One bot at a time reads the updates, and those it is admitted to were
\* never handled.
THEOREM RuntimeInvariant == Spec => [](part = "runtime" => RuntimeInv)
<1>1. Init => (part = "runtime" => RuntimeInv)
  BY RuntimeInit DEF Init
<1>2. ASSUME part = "runtime" => RuntimeInv, [Next]_<<part, v1, v2, v3, v4, v5, v6, v7, v8, v9, v10>>
      PROVE  (part = "runtime" => RuntimeInv)'
  <2>1. CASE RuntimeNext
    BY <1>2, <2>1, RuntimeNextKeeps DEF RuntimeNext
  <2>2. CASE part # "runtime" /\ part' = part
    BY <2>2
  <2>3. CASE part' = part /\ v6' = v6
    BY <1>2, <2>3, RuntimeNextKeeps
  <2> QED
    BY <1>2, <2>1, <2>2, <2>3
    DEF Next, ApiNext, MailNext, SchemaNext, BackupNext, PeersNext, DialogNext,
        CatalogNext, AccountsNext, HealthNext
<1> QED
  BY <1>1, <1>2, PTL DEF Spec

\* Every update is handled once: not twice across deaths of the bot, and not
\* lost but by the operator or the smoke whose /start it was.
THEOREM UpdatesHandledOnce == Spec => []UpdateHandledOnce
<1>1. (part = "runtime" => RuntimeInv) => UpdateHandledOnce
  BY DEF UpdateHandledOnce, RuntimeInv
<1> QED
  BY <1>1, RuntimeInvariant, PTL

------------------------------------------------------------------------------
(* The migration of the database.                                          *)

\* A process inside the rebuild has read an old devices table.
RebuildSaw ==
    \A p \in Opener : step[p] \in {"create_new", "copy", "drop_old", "rename"} =>
                         seen[p].devices = "legacy"

\* Unless two processes met in it, a rebuild finds the old table as long as
\* it has not dropped it, and drops it once its rows are copied.
RebuildAlone ==
    ~clash =>
        /\ granted \subseteq table.rows \cup spare.rows
        /\ \A p \in Opener :
              /\ step[p] = "drop_old" => table.rows \subseteq spare.rows
              /\ Schema!Rebuilding(p) => table.schema # "current"

\* Unless one was cut short either, devices_new is there only inside a
\* rebuild, and a process that is up finds the current table.
RebuildWhole ==
    (~clash /\ ~interrupted) =>
        /\ \/ spare.rows = {}
           \/ \E p \in Opener : step[p] \in {"copy", "drop_old", "rename"}
        /\ \A p \in Opener : step[p] = "running" => table.schema = "current"

SchemaInv == Schema!TypeOK /\ RebuildSaw /\ RebuildAlone /\ RebuildWhole

\* A step of a process leaves the others where they are; unless it clashes,
\* none of them is inside a rebuild.
LEMMA OneSteps ==
    ASSUME SchemaInv, NEW p \in Opener, NEW s \in Schema!Step, Schema!Goes(p, s)
    PROVE  /\ step' \in [Opener -> Schema!Step] /\ clash' \in BOOLEAN
           /\ step'[p] = s /\ \A q \in Opener \ {p} : step'[q] = step[q]
           /\ ~clash' => ~clash /\ \A q \in Opener \ {p} : ~Schema!Rebuilding(q)
BY DEF SchemaInv, Schema!TypeOK, Schema!Goes

LEMMA SchemaInit == Schema!Init => SchemaInv
<1> SUFFICES ASSUME Schema!Init PROVE SchemaInv
  OBVIOUS
<1>1. table \in Schema!Table /\ spare = Schema!NoTable /\ spare.rows = {}
  BY ServicesAssumption DEF Schema!Init, Schema!Table, Schema!NoTable, Schema!Schema
<1>2. spare \in Schema!Table
  BY <1>1 DEF Schema!NoTable, Schema!Table, Schema!Schema
<1>3. granted = table.rows /\ granted \subseteq OldDevice
  BY <1>1 DEF Schema!Init, Schema!Table
<1>4. seen \in [Opener -> [users : {"legacy", "current"}, devices : Schema!Schema]]
  BY DEF Schema!Init, Schema!Schema
<1>5. step \in [Opener -> Schema!Step] /\ \A p \in Opener : step[p] = "down"
  BY DEF Schema!Init, Schema!Step
<1>6. Schema!TypeOK
  BY <1>1, <1>2, <1>3, <1>4, <1>5 DEF Schema!Init, Schema!TypeOK
<1> QED
  BY <1>1, <1>3, <1>5, <1>6
  DEF SchemaInv, RebuildSaw, RebuildAlone, RebuildWhole, Schema!Rebuilding

LEMMA OpenKeeps ==
    ASSUME SchemaInv, NEW p \in Opener, Schema!Open(p)
    PROVE  SchemaInv'
<1>1. PICK s \in Schema!Step : Schema!Goes(p, s) /\ s \in {"tables"}
  BY DEF Schema!Open, Schema!Step
<1>2. /\ step' \in [Opener -> Schema!Step] /\ clash' \in BOOLEAN
      /\ step'[p] = s /\ \A q \in Opener \ {p} : step'[q] = step[q]
      /\ ~clash' => ~clash /\ \A q \in Opener \ {p} : ~Schema!Rebuilding(q)
  BY <1>1, OneSteps
<1>3. Schema!TypeOK'
  BY <1>2 DEF SchemaInv, Schema!TypeOK, Schema!Table, Schema!Schema, Schema!NoTable, Schema!Open
<1>4. RebuildSaw'
  BY <1>1, <1>2 DEF SchemaInv, Schema!TypeOK, RebuildSaw, Schema!Open
<1>5. RebuildAlone'
  BY <1>1, <1>2, <1>4 DEF SchemaInv, Schema!TypeOK, RebuildSaw, RebuildAlone, Schema!Rebuilding,
    Schema!Table, Schema!NoTable, Schema!Open
<1>6. RebuildWhole'
  BY <1>1, <1>2 DEF SchemaInv, Schema!TypeOK, RebuildSaw, RebuildAlone, RebuildWhole,
    Schema!Rebuilding, Schema!Table, Schema!NoTable, Schema!Open
<1> QED
  BY <1>3, <1>4, <1>5, <1>6 DEF SchemaInv

LEMMA CreateTablesKeeps ==
    ASSUME SchemaInv, NEW p \in Opener, Schema!CreateTables(p)
    PROVE  SchemaInv'
<1>1. PICK s \in Schema!Step : Schema!Goes(p, s) /\ s \in {"read_users"}
  BY DEF Schema!CreateTables, Schema!Step
<1>2. /\ step' \in [Opener -> Schema!Step] /\ clash' \in BOOLEAN
      /\ step'[p] = s /\ \A q \in Opener \ {p} : step'[q] = step[q]
      /\ ~clash' => ~clash /\ \A q \in Opener \ {p} : ~Schema!Rebuilding(q)
  BY <1>1, OneSteps
<1>3. Schema!TypeOK'
  BY <1>2 DEF SchemaInv, Schema!TypeOK, Schema!Table, Schema!Schema, Schema!NoTable, Schema!CreateTables
<1>4. RebuildSaw'
  BY <1>1, <1>2 DEF SchemaInv, Schema!TypeOK, RebuildSaw, Schema!CreateTables
<1>5. RebuildAlone'
  BY <1>1, <1>2, <1>4 DEF SchemaInv, Schema!TypeOK, RebuildSaw, RebuildAlone, Schema!Rebuilding,
    Schema!Table, Schema!NoTable, Schema!CreateTables
<1>6. RebuildWhole'
  BY <1>1, <1>2 DEF SchemaInv, Schema!TypeOK, RebuildSaw, RebuildAlone, RebuildWhole,
    Schema!Rebuilding, Schema!Table, Schema!NoTable, Schema!CreateTables
<1> QED
  BY <1>3, <1>4, <1>5, <1>6 DEF SchemaInv

LEMMA ReadUsersKeeps ==
    ASSUME SchemaInv, NEW p \in Opener, Schema!ReadUsers(p)
    PROVE  SchemaInv'
<1>1. PICK s \in Schema!Step : Schema!Goes(p, s) /\ s \in {"users"}
  BY DEF Schema!ReadUsers, Schema!Step
<1>2. /\ step' \in [Opener -> Schema!Step] /\ clash' \in BOOLEAN
      /\ step'[p] = s /\ \A q \in Opener \ {p} : step'[q] = step[q]
      /\ ~clash' => ~clash /\ \A q \in Opener \ {p} : ~Schema!Rebuilding(q)
  BY <1>1, OneSteps
<1>3. Schema!TypeOK'
  BY <1>2 DEF SchemaInv, Schema!TypeOK, Schema!Table, Schema!Schema, Schema!NoTable, Schema!ReadUsers
<1>4. RebuildSaw'
  BY <1>1, <1>2 DEF SchemaInv, Schema!TypeOK, RebuildSaw, Schema!ReadUsers
<1>5. RebuildAlone'
  BY <1>1, <1>2, <1>4 DEF SchemaInv, Schema!TypeOK, RebuildSaw, RebuildAlone, Schema!Rebuilding,
    Schema!Table, Schema!NoTable, Schema!ReadUsers
<1>6. RebuildWhole'
  BY <1>1, <1>2 DEF SchemaInv, Schema!TypeOK, RebuildSaw, RebuildAlone, RebuildWhole,
    Schema!Rebuilding, Schema!Table, Schema!NoTable, Schema!ReadUsers
<1> QED
  BY <1>3, <1>4, <1>5, <1>6 DEF SchemaInv

LEMMA ReadDevicesKeeps ==
    ASSUME SchemaInv, NEW p \in Opener, Schema!ReadDevices(p)
    PROVE  SchemaInv'
<1>1. PICK s \in Schema!Step : Schema!Goes(p, s) /\ s \in {"drop_index"}
  BY DEF Schema!ReadDevices, Schema!Step
<1>2. /\ step' \in [Opener -> Schema!Step] /\ clash' \in BOOLEAN
      /\ step'[p] = s /\ \A q \in Opener \ {p} : step'[q] = step[q]
      /\ ~clash' => ~clash /\ \A q \in Opener \ {p} : ~Schema!Rebuilding(q)
  BY <1>1, OneSteps
<1>3. Schema!TypeOK'
  BY <1>2 DEF SchemaInv, Schema!TypeOK, Schema!Table, Schema!Schema, Schema!NoTable, Schema!ReadDevices
<1>4. RebuildSaw'
  BY <1>1, <1>2 DEF SchemaInv, Schema!TypeOK, RebuildSaw, Schema!ReadDevices
<1>5. RebuildAlone'
  BY <1>1, <1>2, <1>4 DEF SchemaInv, Schema!TypeOK, RebuildSaw, RebuildAlone, Schema!Rebuilding,
    Schema!Table, Schema!NoTable, Schema!ReadDevices
<1>6. RebuildWhole'
  BY <1>1, <1>2 DEF SchemaInv, Schema!TypeOK, RebuildSaw, RebuildAlone, RebuildWhole,
    Schema!Rebuilding, Schema!Table, Schema!NoTable, Schema!ReadDevices
<1> QED
  BY <1>3, <1>4, <1>5, <1>6 DEF SchemaInv

LEMMA DropIndexKeeps ==
    ASSUME SchemaInv, NEW p \in Opener, Schema!DropIndex(p)
    PROVE  SchemaInv'
<1>1. PICK s \in Schema!Step :
           /\ Schema!Goes(p, s) /\ s \in {"create_new", "create_index"}
           /\ s = "create_new" => seen[p].devices = "legacy"
  BY DEF Schema!DropIndex, Schema!Step
<1>2. /\ step' \in [Opener -> Schema!Step] /\ clash' \in BOOLEAN
      /\ step'[p] = s /\ \A q \in Opener \ {p} : step'[q] = step[q]
      /\ ~clash' => ~clash /\ \A q \in Opener \ {p} : ~Schema!Rebuilding(q)
  BY <1>1, OneSteps
<1>3. Schema!TypeOK'
  BY <1>2 DEF SchemaInv, Schema!TypeOK, Schema!Table, Schema!Schema, Schema!NoTable, Schema!DropIndex
<1>4. RebuildSaw'
  BY <1>1, <1>2 DEF SchemaInv, Schema!TypeOK, RebuildSaw, Schema!DropIndex
<1>5. RebuildAlone'
  BY <1>1, <1>2, <1>4 DEF SchemaInv, Schema!TypeOK, RebuildSaw, RebuildAlone, Schema!Rebuilding,
    Schema!Table, Schema!NoTable, Schema!DropIndex
<1>6. RebuildWhole'
  BY <1>1, <1>2 DEF SchemaInv, Schema!TypeOK, RebuildSaw, RebuildAlone, RebuildWhole,
    Schema!Rebuilding, Schema!Table, Schema!NoTable, Schema!DropIndex
<1> QED
  BY <1>3, <1>4, <1>5, <1>6 DEF SchemaInv

LEMMA CreateNewKeeps ==
    ASSUME SchemaInv, NEW p \in Opener, Schema!CreateNew(p)
    PROVE  SchemaInv'
<1>1. PICK s \in Schema!Step : Schema!Goes(p, s) /\ s \in {"copy"}
  BY DEF Schema!CreateNew, Schema!Step
<1>2. /\ step' \in [Opener -> Schema!Step] /\ clash' \in BOOLEAN
      /\ step'[p] = s /\ \A q \in Opener \ {p} : step'[q] = step[q]
      /\ ~clash' => ~clash /\ \A q \in Opener \ {p} : ~Schema!Rebuilding(q)
  BY <1>1, OneSteps
<1>3. Schema!TypeOK'
  BY <1>2 DEF SchemaInv, Schema!TypeOK, Schema!Table, Schema!Schema, Schema!NoTable, Schema!CreateNew
<1>4. RebuildSaw'
  BY <1>1, <1>2 DEF SchemaInv, Schema!TypeOK, RebuildSaw, Schema!CreateNew
<1>5. RebuildAlone'
  BY <1>1, <1>2, <1>4 DEF SchemaInv, Schema!TypeOK, RebuildSaw, RebuildAlone, Schema!Rebuilding,
    Schema!Table, Schema!NoTable, Schema!CreateNew
<1>6. RebuildWhole'
  BY <1>1, <1>2 DEF SchemaInv, Schema!TypeOK, RebuildSaw, RebuildAlone, RebuildWhole,
    Schema!Rebuilding, Schema!Table, Schema!NoTable, Schema!CreateNew
<1> QED
  BY <1>3, <1>4, <1>5, <1>6 DEF SchemaInv

LEMMA CopyKeeps ==
    ASSUME SchemaInv, NEW p \in Opener, Schema!Copy(p)
    PROVE  SchemaInv'
<1>1. PICK s \in Schema!Step : Schema!Goes(p, s) /\ s \in {"drop_old"}
  BY DEF Schema!Copy, Schema!Step
<1>2. /\ step' \in [Opener -> Schema!Step] /\ clash' \in BOOLEAN
      /\ step'[p] = s /\ \A q \in Opener \ {p} : step'[q] = step[q]
      /\ ~clash' => ~clash /\ \A q \in Opener \ {p} : ~Schema!Rebuilding(q)
  BY <1>1, OneSteps
<1>3. Schema!TypeOK'
  BY <1>2 DEF SchemaInv, Schema!TypeOK, Schema!Table, Schema!Schema, Schema!NoTable, Schema!Copy
<1>4. RebuildSaw'
  BY <1>1, <1>2 DEF SchemaInv, Schema!TypeOK, RebuildSaw, Schema!Copy
<1>5. RebuildAlone'
  BY <1>1, <1>2, <1>4 DEF SchemaInv, Schema!TypeOK, RebuildSaw, RebuildAlone, Schema!Rebuilding,
    Schema!Table, Schema!NoTable, Schema!Copy
<1>6. RebuildWhole'
  BY <1>1, <1>2 DEF SchemaInv, Schema!TypeOK, RebuildSaw, RebuildAlone, RebuildWhole,
    Schema!Rebuilding, Schema!Table, Schema!NoTable, Schema!Copy
<1> QED
  BY <1>3, <1>4, <1>5, <1>6 DEF SchemaInv

LEMMA DropOldKeeps ==
    ASSUME SchemaInv, NEW p \in Opener, Schema!DropOld(p)
    PROVE  SchemaInv'
<1>1. PICK s \in Schema!Step : Schema!Goes(p, s) /\ s \in {"rename"}
  BY DEF Schema!DropOld, Schema!Step
<1>2. /\ step' \in [Opener -> Schema!Step] /\ clash' \in BOOLEAN
      /\ step'[p] = s /\ \A q \in Opener \ {p} : step'[q] = step[q]
      /\ ~clash' => ~clash /\ \A q \in Opener \ {p} : ~Schema!Rebuilding(q)
  BY <1>1, OneSteps
<1>3. Schema!TypeOK'
  BY <1>2 DEF SchemaInv, Schema!TypeOK, Schema!Table, Schema!Schema, Schema!NoTable, Schema!DropOld
<1>4. RebuildSaw'
  BY <1>1, <1>2 DEF SchemaInv, Schema!TypeOK, RebuildSaw, Schema!DropOld
<1>5. RebuildAlone'
  BY <1>1, <1>2, <1>4 DEF SchemaInv, Schema!TypeOK, RebuildSaw, RebuildAlone, Schema!Rebuilding,
    Schema!Table, Schema!NoTable, Schema!DropOld
<1>6. RebuildWhole'
  BY <1>1, <1>2 DEF SchemaInv, Schema!TypeOK, RebuildSaw, RebuildAlone, RebuildWhole,
    Schema!Rebuilding, Schema!Table, Schema!NoTable, Schema!DropOld
<1> QED
  BY <1>3, <1>4, <1>5, <1>6 DEF SchemaInv

LEMMA RenameNewKeeps ==
    ASSUME SchemaInv, NEW p \in Opener, Schema!RenameNew(p)
    PROVE  SchemaInv'
<1>1. PICK s \in Schema!Step : Schema!Goes(p, s) /\ s \in {"create_index"}
  BY DEF Schema!RenameNew, Schema!Step
<1>2. /\ step' \in [Opener -> Schema!Step] /\ clash' \in BOOLEAN
      /\ step'[p] = s /\ \A q \in Opener \ {p} : step'[q] = step[q]
      /\ ~clash' => ~clash /\ \A q \in Opener \ {p} : ~Schema!Rebuilding(q)
  BY <1>1, OneSteps
<1>3. Schema!TypeOK'
  BY <1>2 DEF SchemaInv, Schema!TypeOK, Schema!Table, Schema!Schema, Schema!NoTable, Schema!RenameNew
<1>4. RebuildSaw'
  BY <1>1, <1>2 DEF SchemaInv, Schema!TypeOK, RebuildSaw, Schema!RenameNew
<1>5. RebuildAlone'
  BY <1>1, <1>2, <1>4 DEF SchemaInv, Schema!TypeOK, RebuildSaw, RebuildAlone, Schema!Rebuilding,
    Schema!Table, Schema!NoTable, Schema!RenameNew
<1>6. RebuildWhole'
  BY <1>1, <1>2 DEF SchemaInv, Schema!TypeOK, RebuildSaw, RebuildAlone, RebuildWhole,
    Schema!Rebuilding, Schema!Table, Schema!NoTable, Schema!RenameNew
<1> QED
  BY <1>3, <1>4, <1>5, <1>6 DEF SchemaInv

LEMMA CreateIndexKeeps ==
    ASSUME SchemaInv, NEW p \in Opener, Schema!CreateIndex(p)
    PROVE  SchemaInv'
<1>1. PICK s \in Schema!Step : Schema!Goes(p, s) /\ s \in {"contract"}
  BY DEF Schema!CreateIndex, Schema!Step
<1>2. /\ step' \in [Opener -> Schema!Step] /\ clash' \in BOOLEAN
      /\ step'[p] = s /\ \A q \in Opener \ {p} : step'[q] = step[q]
      /\ ~clash' => ~clash /\ \A q \in Opener \ {p} : ~Schema!Rebuilding(q)
  BY <1>1, OneSteps
<1>3. Schema!TypeOK'
  BY <1>2 DEF SchemaInv, Schema!TypeOK, Schema!Table, Schema!Schema, Schema!NoTable, Schema!CreateIndex
<1>4. RebuildSaw'
  BY <1>1, <1>2 DEF SchemaInv, Schema!TypeOK, RebuildSaw, Schema!CreateIndex
<1>5. RebuildAlone'
  BY <1>1, <1>2, <1>4 DEF SchemaInv, Schema!TypeOK, RebuildSaw, RebuildAlone, Schema!Rebuilding,
    Schema!Table, Schema!NoTable, Schema!CreateIndex
<1>6. RebuildWhole'
  BY <1>1, <1>2 DEF SchemaInv, Schema!TypeOK, RebuildSaw, RebuildAlone, RebuildWhole,
    Schema!Rebuilding, Schema!Table, Schema!NoTable, Schema!CreateIndex
<1> QED
  BY <1>3, <1>4, <1>5, <1>6 DEF SchemaInv

LEMMA MigrateContractKeeps ==
    ASSUME SchemaInv, NEW p \in Opener, Schema!MigrateContract(p)
    PROVE  SchemaInv'
<1>1. PICK s \in Schema!Step : Schema!Goes(p, s) /\ s \in {"running"}
  BY DEF Schema!MigrateContract, Schema!Step
<1>2. /\ step' \in [Opener -> Schema!Step] /\ clash' \in BOOLEAN
      /\ step'[p] = s /\ \A q \in Opener \ {p} : step'[q] = step[q]
      /\ ~clash' => ~clash /\ \A q \in Opener \ {p} : ~Schema!Rebuilding(q)
  BY <1>1, OneSteps
<1>3. Schema!TypeOK'
  BY <1>2 DEF SchemaInv, Schema!TypeOK, Schema!Table, Schema!Schema, Schema!NoTable, Schema!MigrateContract
<1>4. RebuildSaw'
  BY <1>1, <1>2 DEF SchemaInv, Schema!TypeOK, RebuildSaw, Schema!MigrateContract
<1>5. RebuildAlone'
  BY <1>1, <1>2, <1>4 DEF SchemaInv, Schema!TypeOK, RebuildSaw, RebuildAlone, Schema!Rebuilding,
    Schema!Table, Schema!NoTable, Schema!MigrateContract
<1>6. RebuildWhole'
  BY <1>1, <1>2 DEF SchemaInv, Schema!TypeOK, RebuildSaw, RebuildAlone, RebuildWhole,
    Schema!Rebuilding, Schema!Table, Schema!NoTable, Schema!MigrateContract
<1> QED
  BY <1>3, <1>4, <1>5, <1>6 DEF SchemaInv

LEMMA MigrateUsersKeeps ==
    ASSUME SchemaInv, NEW p \in Opener, Schema!MigrateUsers(p)
    PROVE  SchemaInv'
<1>1. PICK s \in Schema!Step : Schema!Goes(p, s) /\ s \in {"read_devices", "down"}
  BY DEF Schema!MigrateUsers, Schema!Fails, Schema!Step
<1>2. /\ step' \in [Opener -> Schema!Step] /\ clash' \in BOOLEAN
      /\ step'[p] = s /\ \A q \in Opener \ {p} : step'[q] = step[q]
      /\ ~clash' => ~clash /\ \A q \in Opener \ {p} : ~Schema!Rebuilding(q)
  BY <1>1, OneSteps
<1>3. Schema!TypeOK'
  BY <1>2 DEF SchemaInv, Schema!TypeOK, Schema!Table, Schema!Schema, Schema!NoTable, Schema!MigrateUsers, Schema!Fails
<1>4. RebuildSaw'
  BY <1>1, <1>2 DEF SchemaInv, Schema!TypeOK, RebuildSaw, Schema!MigrateUsers, Schema!Fails
<1>5. RebuildAlone'
  BY <1>1, <1>2, <1>4 DEF SchemaInv, Schema!TypeOK, RebuildSaw, RebuildAlone, Schema!Rebuilding,
    Schema!Table, Schema!NoTable, Schema!MigrateUsers, Schema!Fails
<1>6. RebuildWhole'
  BY <1>1, <1>2 DEF SchemaInv, Schema!TypeOK, RebuildSaw, RebuildAlone, RebuildWhole,
    Schema!Rebuilding, Schema!Table, Schema!NoTable, Schema!MigrateUsers, Schema!Fails
<1> QED
  BY <1>3, <1>4, <1>5, <1>6 DEF SchemaInv

LEMMA DieKeeps ==
    ASSUME SchemaInv, NEW p \in Opener, Schema!Die(p)
    PROVE  SchemaInv'
<1>1. PICK s \in Schema!Step : Schema!Goes(p, s) /\ s \in {"down"}
  BY DEF Schema!Die, Schema!Fails, Schema!Step
<1>2. /\ step' \in [Opener -> Schema!Step] /\ clash' \in BOOLEAN
      /\ step'[p] = s /\ \A q \in Opener \ {p} : step'[q] = step[q]
      /\ ~clash' => ~clash /\ \A q \in Opener \ {p} : ~Schema!Rebuilding(q)
  BY <1>1, OneSteps
<1>3. Schema!TypeOK'
  BY <1>2 DEF SchemaInv, Schema!TypeOK, Schema!Table, Schema!Schema, Schema!NoTable, Schema!Die, Schema!Fails
<1>4. RebuildSaw'
  BY <1>1, <1>2 DEF SchemaInv, Schema!TypeOK, RebuildSaw, Schema!Die, Schema!Fails
<1>5. RebuildAlone'
  BY <1>1, <1>2, <1>4 DEF SchemaInv, Schema!TypeOK, RebuildSaw, RebuildAlone, Schema!Rebuilding,
    Schema!Table, Schema!NoTable, Schema!Die, Schema!Fails
<1>6. RebuildWhole'
  BY <1>1, <1>2 DEF SchemaInv, Schema!TypeOK, RebuildSaw, RebuildAlone, RebuildWhole,
    Schema!Rebuilding, Schema!Table, Schema!NoTable, Schema!Die, Schema!Fails
<1> QED
  BY <1>3, <1>4, <1>5, <1>6 DEF SchemaInv

LEMMA DeviceGrantKeeps ==
    ASSUME SchemaInv, NEW p \in Opener, NEW d \in OldDevice, Schema!Grant(p, d)
    PROVE  SchemaInv'
<1>1. PICK s \in Schema!Step : Schema!Goes(p, s) /\ s \in {"running"}
  BY DEF Schema!Grant, Schema!Step
<1>2. /\ step' \in [Opener -> Schema!Step] /\ clash' \in BOOLEAN
      /\ step'[p] = s /\ \A q \in Opener \ {p} : step'[q] = step[q]
      /\ ~clash' => ~clash /\ \A q \in Opener \ {p} : ~Schema!Rebuilding(q)
  BY <1>1, OneSteps
<1>3. Schema!TypeOK'
  BY <1>2 DEF SchemaInv, Schema!TypeOK, Schema!Table, Schema!Schema, Schema!NoTable, Schema!Grant
<1>4. RebuildSaw'
  BY <1>1, <1>2 DEF SchemaInv, Schema!TypeOK, RebuildSaw, Schema!Grant
<1>5. RebuildAlone'
  BY <1>1, <1>2, <1>4 DEF SchemaInv, Schema!TypeOK, RebuildSaw, RebuildAlone, Schema!Rebuilding,
    Schema!Table, Schema!NoTable, Schema!Grant
<1>6. RebuildWhole'
  BY <1>1, <1>2 DEF SchemaInv, Schema!TypeOK, RebuildSaw, RebuildAlone, RebuildWhole,
    Schema!Rebuilding, Schema!Table, Schema!NoTable, Schema!Grant
<1> QED
  BY <1>3, <1>4, <1>5, <1>6 DEF SchemaInv

LEMMA SchemaNextKeeps ==
    ASSUME SchemaInv, [Schema!Next]_v3
    PROVE  SchemaInv'
<1>1. CASE Schema!Next
  <2> SUFFICES ASSUME NEW p \in Opener,
                      \/ Schema!Open(p) \/ Schema!CreateTables(p) \/ Schema!ReadUsers(p)
                      \/ Schema!MigrateUsers(p) \/ Schema!ReadDevices(p) \/ Schema!DropIndex(p)
                      \/ Schema!CreateNew(p) \/ Schema!Copy(p) \/ Schema!DropOld(p)
                      \/ Schema!RenameNew(p) \/ Schema!CreateIndex(p)
                      \/ Schema!MigrateContract(p) \/ Schema!Die(p)
                      \/ \E d \in OldDevice : Schema!Grant(p, d)
               PROVE  SchemaInv'
    BY <1>1 DEF Schema!Next
  <2> QED
    BY OpenKeeps, CreateTablesKeeps, ReadUsersKeeps, MigrateUsersKeeps, ReadDevicesKeeps,
      DropIndexKeeps, CreateNewKeeps, CopyKeeps, DropOldKeeps, RenameNewKeeps,
      CreateIndexKeeps, MigrateContractKeeps, DieKeeps, DeviceGrantKeeps
<1>2. CASE UNCHANGED v3
  BY <1>2 DEF v3, SchemaInv, Schema!TypeOK, RebuildSaw, RebuildAlone, RebuildWhole,
    Schema!Rebuilding
<1> QED
  BY <1>1, <1>2

\* A rebuild that no other process meets drops the old table behind the copy
\* of its rows alone, and leaves devices_new behind only when it is cut short.
THEOREM SchemaInvariant == Spec => [](part = "schema" => SchemaInv)
<1>1. Init => (part = "schema" => SchemaInv)
  BY SchemaInit DEF Init
<1>2. ASSUME part = "schema" => SchemaInv, [Next]_<<part, v1, v2, v3, v4, v5, v6, v7, v8, v9, v10>>
      PROVE  (part = "schema" => SchemaInv)'
  <2>1. CASE SchemaNext
    BY <1>2, <2>1, SchemaNextKeeps DEF SchemaNext
  <2>2. CASE part # "schema" /\ part' = part
    BY <2>2
  <2>3. CASE part' = part /\ v3' = v3
    BY <1>2, <2>3, SchemaNextKeeps
  <2> QED
    BY <1>2, <2>1, <2>2, <2>3
    DEF Next, ApiNext, MailNext, BackupNext, PeersNext, RuntimeNext, DialogNext,
        CatalogNext, AccountsNext, HealthNext
<1> QED
  BY <1>1, <1>2, PTL DEF Spec

\* No device row is lost by a start, whenever it is cut short, unless two
\* processes rebuilt the table at once; and while none was cut short, a
\* process that is up finds them all in a current table.
THEOREM RowsSurvive == Spec => []RowsSurviveMigration
<1>1. ASSUME SchemaInv PROVE Schema!RowsSurviveMigration
  <2>1. ASSUME ~clash, ~interrupted, NEW p \in Opener, step[p] = "running"
        PROVE  spare.rows = {}
    <3>1. \A q \in Opener : ~Schema!Rebuilding(q)
      BY <1>1, <2>1 DEF SchemaInv, RebuildAlone, RebuildWhole
    <3> QED
      BY <1>1, <2>1, <3>1 DEF SchemaInv, RebuildSaw, RebuildWhole, Schema!Rebuilding
  <2> QED
    BY <1>1, <2>1 DEF Schema!RowsSurviveMigration, SchemaInv, RebuildAlone, RebuildWhole
<1>2. (part = "schema" => SchemaInv) => RowsSurviveMigration
  BY <1>1 DEF RowsSurviveMigration
<1> QED
  BY <1>2, SchemaInvariant, PTL

------------------------------------------------------------------------------
(* The backup of the database file.                                        *)

\* While a commit is under way every page is either what it was before or of
\* that commit, and no commit begun is behind its number.
CommitShape ==
    ~restored =>
        /\ \A i \in Backup!Page : file[i] <= commit
        /\ journal # Backup!NoImage =>
              \A i \in Backup!Page :
                  /\ journal[i] < commit
                  /\ file[i] \in {journal[i], commit}

\* The page as the next to read the whole file would find it, who reads the
\* pages up to m beside the commit under way and the others once it was
\* rolled back.
Torn(m) == [i \in Backup!Page |-> IF i <= m THEN file[i] ELSE journal[i]]

\* Pages 1..n of two images are the same.
SameUpTo(n, f, g) == \A i \in 1..n : f[i] = g[i]

\* A backup reads a file that was not restored, the archive behind the
\* checksum; what it read of the commit under way is still there.
ReadShape ==
    /\ second # Backup!NoImage => Backup!Complete(first)
    /\ first # Backup!NoImage =>
        /\ ~restored
        /\ file \in moments
        /\ \A i \in DOMAIN first :
              /\ first[i] <= commit
              /\ journal # Backup!NoImage /\ first[i] = commit => file[i] = commit

\* The checksum's reading can yet turn out to be whole, if the commit under
\* way is rolled back behind page m, only if the file once was what it read,
\* but for pages to be read which the commit has written since.
FirstWhole ==
    \A n \in 1..Pages : \A m \in 0..n :
        (/\ first \in [1..n -> Backup!Version]
         /\ journal # Backup!NoImage
         /\ second = Backup!NoImage
         /\ SameUpTo(n, first, Torn(m))) =>
            \E image \in moments :
                /\ SameUpTo(n, first, image)
                /\ \A i \in (n + 1)..Pages : image[i] = journal[i] \/ file[i] = commit

\* The archive's reading can yet turn out to be the checksum's, with or
\* without the commit under way rolled back, only if the file once was that.
SecondWhole ==
    \A k \in 0..Pages :
        (/\ Backup!Complete(first)
         /\ second \in [1..k -> Backup!Version]
         /\ SameUpTo(k, first, second)) =>
            /\ (\A i \in (k + 1)..Pages : first[i] = file[i]) => first \in moments
            /\ \A m \in k..Pages :
                  (journal # Backup!NoImage /\ \A i \in (k + 1)..Pages : first[i] = Torn(m)[i]) =>
                      first \in moments

BackupInv ==
    /\ Backup!TypeOK
    /\ archive # Backup!NoArchive => archive.bytes \in Backup!Image /\ archive.sum \in Backup!Image
    /\ CommitShape
    /\ ReadShape
    /\ FirstWhole
    /\ SecondWhole
    /\ Backup!BackupIsSnapshot

\* What was read so far is the first pages of an image.
LEMMA Lengths ==
    ASSUME NEW n \in 0..Pages, NEW f \in [1..n -> Backup!Version]
    PROVE  /\ f = Backup!NoImage <=> n = 0
           /\ Backup!Complete(f) <=> n = Pages
           /\ \A k \in 0..Pages : f \in [1..k -> Backup!Version] => k = n
<1>1. Pages \in Nat \ {0} /\ DOMAIN f = 1..n
  BY ServicesAssumption
<1>2. ASSUME NEW k \in 0..Pages, 1..k = 1..n PROVE k = n
  <2>1. k \in Nat /\ n \in Nat
    BY <1>1
  <2>2. k > 0 => k \in 1..n
    BY <1>2, <2>1
  <2>3. n > 0 => n \in 1..k
    BY <1>2, <2>1
  <2> QED
    BY <2>1, <2>2, <2>3
<1>3. f = Backup!NoImage <=> n = 0
  <2>1. DOMAIN Backup!NoImage = {}
    BY DEF Backup!NoImage
  <2>2. CASE n = 0
    <3>1. f \in [{} -> Backup!Version]
      BY <2>2
    <3> QED
      BY <2>2, <3>1 DEF Backup!NoImage
  <2>3. CASE n # 0
    <3>1. 1 \in DOMAIN f
      BY <1>1, <2>3
    <3> QED
      BY <2>1, <2>3, <3>1
  <2> QED
    BY <2>2, <2>3
<1>4. Backup!Complete(f) <=> n = Pages
  <2>1. Pages \in 0..Pages
    BY <1>1
  <2> QED
    BY <1>1, <1>2, <2>1 DEF Backup!Complete, Backup!Page
<1>5. ASSUME NEW k \in 0..Pages, f \in [1..k -> Backup!Version] PROVE k = n
  BY <1>1, <1>2, <1>5
<1> QED
  BY <1>3, <1>4, <1>5

\* Take reads one more page of the file.
LEMMA OnePage ==
    ASSUME NEW n \in 0..Pages, n < Pages, NEW f \in [1..n -> Backup!Version], file \in Backup!Image
    PROVE  /\ n + 1 \in 1..Pages
           /\ Backup!Take(f) \in [1..(n + 1) -> Backup!Version]
           /\ \A i \in 1..n : Backup!Take(f)[i] = f[i]
           /\ Backup!Take(f)[n + 1] = file[n + 1]
<1>1. Pages \in Nat \ {0} /\ n \in Nat /\ DOMAIN f = 1..n
  BY ServicesAssumption
<1>2. Backup!Cardinality(DOMAIN f) = n
  <2>1. Cardinality(1..n) = n
    BY <1>1, FS_Interval
  <2> QED
    BY <1>1, <2>1 DEF Backup!Cardinality, Cardinality
<1>3. Backup!Take(f) = [i \in 1..(n + 1) |-> IF i \in 1..n THEN f[i] ELSE file[i]]
  BY <1>1, <1>2 DEF Backup!Take
<1>4. n + 1 \in 1..Pages
  BY <1>1
<1>5. \A i \in 1..(n + 1) : i \in Backup!Page /\ (i \in 1..n \/ i = n + 1)
  BY <1>1, <1>4 DEF Backup!Page
<1>6. \A i \in 1..(n + 1) : (IF i \in 1..n THEN f[i] ELSE file[i]) \in Backup!Version
  BY <1>5 DEF Backup!Image
<1> QED
  BY <1>1, <1>3, <1>4, <1>5, <1>6

LEMMA BackupInit == Backup!Init => BackupInv
<1> SUFFICES ASSUME Backup!Init PROVE BackupInv
  OBVIOUS
<1>1. Pages \in Nat \ {0} /\ MaxCommit \in Nat /\ 0 \in 0..Pages /\ 0 \in Backup!Version
  BY ServicesAssumption DEF Backup!Version
<1>2. Backup!NoImage \in [1..0 -> Backup!Version]
  BY DEF Backup!NoImage
<1>3. Backup!NoImage \in Backup!Prefix
  BY <1>1, <1>2 DEF Backup!Prefix
<1>4. ~Backup!Complete(Backup!NoImage)
  BY <1>1, <1>2, Lengths
<1>5. \A n \in 1..Pages : Backup!NoImage \notin [1..n -> Backup!Version]
  <2> SUFFICES ASSUME NEW n \in 1..Pages, Backup!NoImage \in [1..n -> Backup!Version]
               PROVE  FALSE
    OBVIOUS
  <2>1. n \in 0..Pages /\ n # 0
    BY <1>1
  <2> QED
    BY <1>1, <2>1, Lengths
<1>6. Backup!TypeOK
  BY <1>1, <1>3 DEF Backup!Init, Backup!TypeOK, Backup!Image, Backup!NoArchive
<1>7. CommitShape /\ ReadShape
  BY <1>1 DEF Backup!Init, CommitShape, ReadShape
<1>8. FirstWhole
  BY <1>5 DEF Backup!Init, FirstWhole
<1>9. SecondWhole
  BY <1>4 DEF Backup!Init, SecondWhole
<1>10. Backup!BackupIsSnapshot
  BY DEF Backup!Init, Backup!BackupIsSnapshot, Backup!Verified
<1> QED
  BY <1>6, <1>7, <1>8, <1>9, <1>10 DEF Backup!Init, BackupInv

LEMMA BackupTypes ==
    ASSUME BackupInv
    PROVE  /\ Pages \in Nat \ {0} /\ MaxCommit \in Nat /\ commit \in Nat
           /\ file \in Backup!Image /\ \A i \in 1..Pages : file[i] \in Nat
           /\ journal # Backup!NoImage =>
                 journal \in Backup!Image /\ \A i \in 1..Pages : journal[i] \in Nat
           /\ \E n \in 0..Pages : first \in [1..n -> Backup!Version]
           /\ \E n \in 0..Pages : second \in [1..n -> Backup!Version]
           /\ moments \subseteq Backup!Image
<1>1. Pages \in Nat \ {0} /\ MaxCommit \in Nat
  BY ServicesAssumption
<1>2. \A image \in Backup!Image : \A i \in 1..Pages : image[i] \in Nat
  BY <1>1 DEF Backup!Image, Backup!Page, Backup!Version
<1>3. Backup!TypeOK
  BY DEF BackupInv
<1>4. file \in Backup!Image /\ moments \subseteq Backup!Image
  BY <1>3 DEF Backup!TypeOK
<1>5. journal # Backup!NoImage => journal \in Backup!Image
  BY <1>3 DEF Backup!TypeOK
<1>6. commit \in Nat
  BY <1>1, <1>3 DEF Backup!TypeOK, Backup!Version
<1>7. /\ \E n \in 0..Pages : first \in [1..n -> Backup!Version]
      /\ \E n \in 0..Pages : second \in [1..n -> Backup!Version]
  BY <1>3 DEF Backup!TypeOK, Backup!Prefix
<1> QED
  BY <1>1, <1>2, <1>4, <1>5, <1>6, <1>7

\* With n pages read, the reading has begun.
LEMMA Begun ==
    ASSUME NEW n \in 1..Pages, first \in [1..n -> Backup!Version]
    PROVE  first # Backup!NoImage /\ DOMAIN first = 1..n
<1>1. Pages \in Nat
  BY ServicesAssumption
<1>2. n \in 0..Pages /\ n # 0
  BY <1>1
<1> QED
  BY <1>2, Lengths

LEMMA BeginKeeps ==
    ASSUME BackupInv, Backup!BeginCommit
    PROVE  BackupInv'
<1>1. /\ journal = Backup!NoImage /\ commit < MaxCommit
      /\ commit' = commit + 1 /\ journal' = file
      /\ UNCHANGED <<file, first, second, moments, archive, restored>>
  BY DEF Backup!BeginCommit
<1>2. /\ Pages \in Nat \ {0} /\ MaxCommit \in Nat /\ commit \in Nat
      /\ file \in Backup!Image /\ \A i \in 1..Pages : file[i] \in Nat
  BY BackupTypes
<1>3. Backup!TypeOK'
  BY <1>1, <1>2 DEF BackupInv, Backup!TypeOK, Backup!Version
<1>4. CommitShape'
  BY <1>1, <1>2 DEF BackupInv, CommitShape, Backup!Page
<1>5. ReadShape'
  <2>1. ASSUME first # Backup!NoImage, NEW i \in DOMAIN first
        PROVE  first[i] <= commit + 1 /\ first[i] # commit + 1
    <3>1. first[i] <= commit
      BY <2>1 DEF BackupInv, ReadShape
    <3>2. first[i] \in Nat
      <4>1. PICK n \in 0..Pages : first \in [1..n -> Backup!Version]
        BY BackupTypes
      <4> QED
        BY <1>2, <2>1, <4>1 DEF Backup!Version
    <3> QED
      BY <1>2, <3>1, <3>2
  <2> QED
    BY <1>1, <2>1 DEF BackupInv, ReadShape, Backup!Complete
<1>6. FirstWhole'
  <2> SUFFICES ASSUME NEW n \in 1..Pages, NEW m \in 0..n, first \in [1..n -> Backup!Version],
                      SameUpTo(n, first, [i \in Backup!Page |-> IF i <= m THEN file[i] ELSE file[i]])
               PROVE  \E image \in moments :
                        /\ SameUpTo(n, first, image)
                        /\ \A i \in (n + 1)..Pages : image[i] = file[i] \/ file[i] = commit'
    BY <1>1 DEF FirstWhole, Torn
  <2>1. first # Backup!NoImage
    BY Begun
  <2>2. file \in moments
    BY <2>1 DEF BackupInv, ReadShape
  <2>3. \A i \in 1..n : i \in Backup!Page
    BY <1>2 DEF Backup!Page
  <2>4. SameUpTo(n, first, file)
    BY <2>3 DEF SameUpTo
  <2> QED
    BY <2>2, <2>4
<1>7. SecondWhole'
  <2> SUFFICES ASSUME NEW k \in 0..Pages, Backup!Complete(first),
                      second \in [1..k -> Backup!Version], SameUpTo(k, first, second),
                      \A i \in (k + 1)..Pages : first[i] = file[i]
               PROVE  first \in moments
    <3>1. \A k \in 0..Pages : \A m \in k..Pages : \A i \in (k + 1)..Pages : Torn(m)'[i] = file[i]
      BY <1>1, <1>2 DEF Torn, Backup!Page
    <3> QED
      BY <1>1, <3>1 DEF SecondWhole, Backup!Complete
  <2> QED
    BY DEF BackupInv, SecondWhole
<1>8. (archive # Backup!NoArchive => archive.bytes \in Backup!Image /\ archive.sum \in Backup!Image)'
  BY <1>1 DEF BackupInv
<1>9. Backup!BackupIsSnapshot'
  BY <1>1 DEF BackupInv, Backup!BackupIsSnapshot, Backup!Verified
<1> QED
  BY <1>3, <1>4, <1>5, <1>6, <1>7, <1>8, <1>9 DEF BackupInv

LEMMA WriteKeeps ==
    ASSUME BackupInv, NEW j \in Backup!Page, Backup!WritePage(j)
    PROVE  BackupInv'
<1>1. /\ journal # Backup!NoImage /\ file[j] # commit
      /\ file' = [file EXCEPT ![j] = commit]
      /\ moments' = IF first = Backup!NoImage THEN {} ELSE moments \cup {file'}
      /\ UNCHANGED <<journal, commit, first, second, archive, restored>>
  BY DEF Backup!WritePage, Backup!FileBecomes
<1>2. /\ Pages \in Nat \ {0} /\ MaxCommit \in Nat /\ commit \in Nat
      /\ file \in Backup!Image /\ \A i \in 1..Pages : file[i] \in Nat
      /\ moments \subseteq Backup!Image
  BY BackupTypes
<1>3. /\ file' \in Backup!Image
      /\ file'[j] = commit /\ \A i \in Backup!Page : i # j => file'[i] = file[i]
  BY <1>1, <1>2 DEF Backup!Image, BackupInv, Backup!TypeOK
<1>4. Backup!TypeOK'
  BY <1>1, <1>2, <1>3 DEF BackupInv, Backup!TypeOK
<1>5. CommitShape'
  BY <1>1, <1>2, <1>3 DEF BackupInv, CommitShape, Backup!Page
<1>6. ReadShape'
  <2>1. \A i \in DOMAIN first : i \in Backup!Page
    <3>1. PICK n \in 0..Pages : first \in [1..n -> Backup!Version]
      BY BackupTypes
    <3> QED
      BY <1>2, <3>1 DEF Backup!Page
  <2> QED
    BY <1>1, <1>3, <2>1 DEF BackupInv, ReadShape, Backup!Complete
<1>7. \A n \in 1..Pages : first \in [1..n -> Backup!Version] =>
          /\ first # Backup!NoImage /\ moments \subseteq moments'
          /\ \A i \in 1..n : first[i] = file'[i] => first[i] = file[i]
  <2> SUFFICES ASSUME NEW n \in 1..Pages, first \in [1..n -> Backup!Version]
               PROVE  /\ first # Backup!NoImage /\ moments \subseteq moments'
                      /\ \A i \in 1..n : first[i] = file'[i] => first[i] = file[i]
    OBVIOUS
  <2>1. first # Backup!NoImage /\ DOMAIN first = 1..n
    BY Begun
  <2>2. ASSUME NEW i \in 1..n, first[i] = file'[i] PROVE first[i] = file[i]
    <3>1. i \in Backup!Page
      BY <1>2 DEF Backup!Page
    <3>2. first[i] = commit => file[i] = commit
      BY <1>1, <2>1 DEF BackupInv, ReadShape
    <3> QED
      BY <1>1, <1>3, <2>2, <3>1, <3>2
  <2> QED
    BY <1>1, <2>1, <2>2
<1>8. FirstWhole'
  <2> SUFFICES ASSUME NEW n \in 1..Pages, NEW m \in 0..n, first \in [1..n -> Backup!Version],
                      second = Backup!NoImage, SameUpTo(n, first, Torn(m)')
               PROVE  \E image \in moments' :
                        /\ SameUpTo(n, first, image)
                        /\ \A i \in (n + 1)..Pages : image[i] = journal[i] \/ file'[i] = commit
    BY <1>1 DEF FirstWhole
  <2>1. SameUpTo(n, first, Torn(m))
    <3>1. \A i \in 1..n : i \in Backup!Page
      BY <1>2 DEF Backup!Page
    <3> QED
      BY <1>1, <1>7, <3>1 DEF SameUpTo, Torn
  <2>2. PICK image \in moments :
            /\ SameUpTo(n, first, image)
            /\ \A i \in (n + 1)..Pages : image[i] = journal[i] \/ file[i] = commit
    BY <1>1, <2>1 DEF BackupInv, FirstWhole
  <2>3. \A i \in (n + 1)..Pages : i \in Backup!Page
    BY <1>2 DEF Backup!Page
  <2> QED
    BY <1>3, <1>7, <2>2, <2>3
<1>9. SecondWhole'
  <2> SUFFICES ASSUME NEW k \in 0..Pages, Backup!Complete(first),
                      second \in [1..k -> Backup!Version], SameUpTo(k, first, second)
               PROVE  /\ (\A i \in (k + 1)..Pages : first[i] = file'[i]) => first \in moments'
                      /\ \A m \in k..Pages :
                            (\A i \in (k + 1)..Pages : first[i] = Torn(m)'[i]) => first \in moments'
    BY <1>1 DEF SecondWhole, Backup!Complete
  <2>1. first \in [1..Pages -> Backup!Version]
    <3>1. PICK n \in 0..Pages : first \in [1..n -> Backup!Version]
      BY BackupTypes
    <3> QED
      BY <3>1, Lengths
  <2>2. Pages \in 1..Pages /\ \A i \in (k + 1)..Pages : i \in 1..Pages /\ i \in Backup!Page
    BY <1>2 DEF Backup!Page
  <2>3. moments \subseteq moments' /\ \A i \in 1..Pages : first[i] = file'[i] => first[i] = file[i]
    BY <1>7, <2>1, <2>2
  <2>4. ASSUME \A i \in (k + 1)..Pages : first[i] = file'[i] PROVE first \in moments'
    <3>1. \A i \in (k + 1)..Pages : first[i] = file[i]
      BY <2>2, <2>3, <2>4
    <3> QED
      BY <2>3, <3>1 DEF BackupInv, SecondWhole
  <2>5. ASSUME NEW m \in k..Pages, \A i \in (k + 1)..Pages : first[i] = Torn(m)'[i]
        PROVE  first \in moments'
    <3>1. \A i \in (k + 1)..Pages : first[i] = Torn(m)[i]
      BY <1>1, <2>2, <2>3, <2>5 DEF Torn
    <3> QED
      BY <1>1, <2>3, <3>1 DEF BackupInv, SecondWhole
  <2> QED
    BY <2>4, <2>5
<1>10. (archive # Backup!NoArchive => archive.bytes \in Backup!Image /\ archive.sum \in Backup!Image)'
  BY <1>1 DEF BackupInv
<1>11. Backup!BackupIsSnapshot'
  BY <1>1 DEF BackupInv, Backup!BackupIsSnapshot, Backup!Verified
<1> QED
  BY <1>4, <1>5, <1>6, <1>8, <1>9, <1>10, <1>11 DEF BackupInv

\* The journal is gone: the file stays, or is what the journal held.
LEMMA EndKeeps ==
    ASSUME BackupInv, Backup!EndCommit \/ Backup!RollBack
    PROVE  BackupInv'
<1>1. /\ journal # Backup!NoImage /\ journal' = Backup!NoImage
      /\ file' \in {file, journal}
      /\ \/ file' = file /\ moments' = moments
         \/ moments' = IF first = Backup!NoImage THEN {} ELSE moments \cup {file'}
      /\ UNCHANGED <<commit, first, second, archive, restored>>
  BY DEF Backup!EndCommit, Backup!RollBack, Backup!FileBecomes
<1>2. /\ Pages \in Nat \ {0} /\ MaxCommit \in Nat /\ commit \in Nat
      /\ file \in Backup!Image /\ \A i \in 1..Pages : file[i] \in Nat
      /\ journal \in Backup!Image /\ \A i \in 1..Pages : journal[i] \in Nat
      /\ moments \subseteq Backup!Image
  BY <1>1, BackupTypes
<1>3. Backup!TypeOK'
  BY <1>1, <1>2 DEF BackupInv, Backup!TypeOK
<1>4. CommitShape'
  BY <1>1, <1>2 DEF BackupInv, CommitShape, Backup!Page
<1>5. ReadShape'
  BY <1>1 DEF BackupInv, ReadShape, Backup!Complete
<1>6. FirstWhole'
  BY <1>1 DEF FirstWhole
<1>7. SecondWhole'
  <2> SUFFICES ASSUME NEW k \in 0..Pages, Backup!Complete(first),
                      second \in [1..k -> Backup!Version], SameUpTo(k, first, second),
                      \A i \in (k + 1)..Pages : first[i] = file'[i]
               PROVE  first \in moments'
    BY <1>1 DEF SecondWhole, Backup!Complete
  <2>1. moments \subseteq moments'
    <3>1. first # Backup!NoImage
      <4>1. DOMAIN Backup!NoImage = {} /\ 1 \in Backup!Page
        BY <1>2 DEF Backup!NoImage, Backup!Page
      <4> QED
        BY <4>1 DEF Backup!Complete
    <3> QED
      BY <1>1, <3>1
  <2>2. CASE file' = file
    BY <2>1, <2>2 DEF BackupInv, SecondWhole
  <2>3. CASE file' = journal
    <3>1. k \in k..Pages /\ k \in Nat
      BY <1>2
    <3>2. \A i \in (k + 1)..Pages : first[i] = Torn(k)[i]
      BY <1>2, <2>3, <3>1 DEF Torn, Backup!Page
    <3> QED
      BY <1>1, <2>1, <3>1, <3>2 DEF BackupInv, SecondWhole
  <2> QED
    BY <1>1, <2>2, <2>3
<1>8. (archive # Backup!NoArchive => archive.bytes \in Backup!Image /\ archive.sum \in Backup!Image)'
  BY <1>1 DEF BackupInv
<1>9. Backup!BackupIsSnapshot'
  BY <1>1 DEF BackupInv, Backup!BackupIsSnapshot, Backup!Verified
<1> QED
  BY <1>3, <1>4, <1>5, <1>6, <1>7, <1>8, <1>9 DEF BackupInv

\* The reading for the checksum: a page that is already the commit's can be
\* read back before m alone, one that is not is what the journal holds.
LEMMA ChecksumKeeps ==
    ASSUME BackupInv, Backup!ReadForChecksum
    PROVE  BackupInv'
<1>1. /\ ~restored /\ ~Backup!Complete(first)
      /\ first' = Backup!Take(first) /\ moments' = moments \cup {file}
      /\ UNCHANGED <<file, journal, commit, second, archive, restored>>
  BY DEF Backup!ReadForChecksum
<1>2. /\ Pages \in Nat \ {0} /\ MaxCommit \in Nat /\ commit \in Nat
      /\ file \in Backup!Image /\ \A i \in 1..Pages : file[i] \in Nat
      /\ journal # Backup!NoImage =>
            journal \in Backup!Image /\ \A i \in 1..Pages : journal[i] \in Nat
      /\ moments \subseteq Backup!Image
  BY BackupTypes
<1>3. PICK n \in 0..Pages : first \in [1..n -> Backup!Version]
  BY BackupTypes
<1>4. n \in Nat /\ n < Pages /\ second = Backup!NoImage
  <2>1. n # Pages
    BY <1>1, <1>3, Lengths
  <2> QED
    BY <1>1, <1>2, <2>1 DEF BackupInv, ReadShape
<1>5. /\ n + 1 \in 1..Pages /\ n + 1 \in 0..Pages
      /\ first' \in [1..(n + 1) -> Backup!Version]
      /\ \A i \in 1..n : first'[i] = first[i]
      /\ first'[n + 1] = file[n + 1]
  BY <1>1, <1>2, <1>3, <1>4, OnePage
<1>6. /\ \A i \in 1..(n + 1) : i \in 1..n \/ i = n + 1
      /\ \A i \in 1..n : i \in 1..(n + 1)
      /\ \A i \in (n + 2)..Pages : i \in (n + 1)..Pages
      /\ n + 1 \in (n + 1)..Pages
      /\ \A i \in 1..(n + 1) : i \in 1..Pages
      /\ 1..Pages = Backup!Page
  BY <1>2, <1>4 DEF Backup!Page
<1>7. Backup!TypeOK'
  <2>1. first' \in Backup!Prefix
    BY <1>5 DEF Backup!Prefix
  <2> QED
    BY <1>1, <1>2, <2>1 DEF BackupInv, Backup!TypeOK
<1>8. CommitShape'
  BY <1>1 DEF BackupInv, CommitShape
<1>9. ReadShape'
  <2>1. DOMAIN first' = 1..(n + 1) /\ DOMAIN first = 1..n
    BY <1>3, <1>5
  <2>2. ASSUME NEW i \in 1..n
        PROVE  /\ first[i] <= commit
               /\ journal # Backup!NoImage /\ first[i] = commit => file[i] = commit
    <3>1. n \in 1..Pages
      BY <1>3, <1>4, <2>2
    <3>2. first # Backup!NoImage
      BY <1>3, <3>1, Begun
    <3> QED
      BY <2>1, <3>2 DEF BackupInv, ReadShape
  <2>3. file[n + 1] <= commit
    BY <1>1, <1>5, <1>6 DEF BackupInv, CommitShape
  <2> QED
    BY <1>1, <1>4, <1>5, <1>6, <2>1, <2>2, <2>3 DEF ReadShape
<1>10. FirstWhole'
  <2> SUFFICES ASSUME NEW k \in 1..Pages, NEW m \in 0..k, first' \in [1..k -> Backup!Version],
                      journal # Backup!NoImage, SameUpTo(k, first', Torn(m))
               PROVE  \E image \in moments' :
                        /\ SameUpTo(k, first', image)
                        /\ \A i \in (k + 1)..Pages : image[i] = journal[i] \/ file[i] = commit
    BY <1>1 DEF FirstWhole, Torn
  <2>1. k = n + 1
    <3>1. k \in 0..Pages
      BY <1>2
    <3> QED
      BY <1>5, <3>1, Lengths
  <2>2. /\ \A i \in 1..Pages : file[i] = journal[i] \/ file[i] = commit
        /\ \A i \in 1..Pages : journal[i] # commit
    BY <1>1, <1>2, <1>6 DEF BackupInv, CommitShape
  <2>3. \A i \in 1..(n + 1) : first'[i] = IF i <= m THEN file[i] ELSE journal[i]
    BY <1>4, <1>6, <2>1 DEF SameUpTo, Torn
  <2>4. CASE m = n + 1 \/ n = 0
    <3>1. SameUpTo(k, first', file)
      <4>1. CASE m = n + 1
        BY <2>1, <2>3, <4>1 DEF SameUpTo
      <4>2. CASE n = 0
        BY <1>5, <2>1, <4>2 DEF SameUpTo
      <4> QED
        BY <2>4, <4>1, <4>2
    <3>2. \A i \in (k + 1)..Pages : i \in 1..Pages
      BY <1>2
    <3> QED
      BY <1>1, <2>2, <3>1, <3>2
  <2>5. CASE m # n + 1 /\ n # 0
    <3>1. m \in 0..n /\ n \in 1..Pages /\ m < n + 1
      BY <1>3, <1>4, <2>1, <2>5
    <3>2. SameUpTo(n, first, Torn(m))
      BY <1>2, <1>5, <1>6, <2>3 DEF SameUpTo, Torn
    <3>3. PICK image \in moments :
              /\ SameUpTo(n, first, image)
              /\ \A i \in (n + 1)..Pages : image[i] = journal[i] \/ file[i] = commit
      BY <1>3, <1>4, <3>1, <3>2 DEF BackupInv, FirstWhole
    <3>4. first'[n + 1] = journal[n + 1] /\ file[n + 1] # commit
      BY <1>5, <2>2, <2>3, <3>1
    <3>5. SameUpTo(k, first', image)
      BY <1>5, <1>6, <2>1, <3>3, <3>4 DEF SameUpTo
    <3>6. \A i \in (k + 1)..Pages : i \in (n + 1)..Pages
      BY <1>4, <2>1
    <3> QED
      BY <1>1, <3>3, <3>5, <3>6
  <2> QED
    BY <2>4, <2>5
<1>11. SecondWhole'
  <2> SUFFICES ASSUME NEW k \in 0..Pages, Backup!Complete(first'),
                      second \in [1..k -> Backup!Version]
               PROVE  /\ (\A i \in (k + 1)..Pages : first'[i] = file[i]) => first' \in moments'
                      /\ \A m \in k..Pages :
                            (/\ journal # Backup!NoImage
                             /\ \A i \in (k + 1)..Pages : first'[i] = Torn(m)[i]) =>
                                first' \in moments'
    <3>1. \A k \in 0..Pages : \A m \in k..Pages : \A i \in (k + 1)..Pages : Torn(m)'[i] = Torn(m)[i]
      BY <1>1 DEF Torn
    <3> QED
      BY <1>1, <3>1 DEF SecondWhole, Backup!Complete
  <2>1. k = 0
    BY <1>4, Lengths
  <2>2. n + 1 = Pages /\ first' \in [1..Pages -> Backup!Version]
    BY <1>5, Lengths
  <2>3. \A image \in Backup!Image : SameUpTo(Pages, first', image) => first' = image
    BY <2>2 DEF SameUpTo, Backup!Image, Backup!Page
  <2>4. ASSUME \A i \in 1..Pages : first'[i] = file[i] PROVE first' \in moments'
    BY <1>1, <1>2, <2>3, <2>4 DEF SameUpTo
  <2>5. ASSUME NEW m \in 0..Pages, journal # Backup!NoImage,
               \A i \in 1..Pages : first'[i] = Torn(m)[i]
        PROVE  first' \in moments'
    <3>1. Torn(m)' = Torn(m) /\ Pages \in 1..Pages
      BY <1>1, <1>2 DEF Torn
    <3>2. SameUpTo(Pages, first', Torn(m)')
      BY <2>5, <3>1 DEF SameUpTo
    <3>3. \E image \in moments' : SameUpTo(Pages, first', image)
      BY <1>1, <1>4, <1>10, <2>2, <2>5, <3>1, <3>2 DEF FirstWhole
    <3> QED
      BY <1>1, <1>2, <2>3, <3>3
  <2> QED
    BY <2>1, <2>4, <2>5
<1>12. (archive # Backup!NoArchive => archive.bytes \in Backup!Image /\ archive.sum \in Backup!Image)'
  BY <1>1 DEF BackupInv
<1>13. Backup!BackupIsSnapshot'
  BY <1>1 DEF BackupInv, Backup!BackupIsSnapshot, Backup!Verified
<1> QED
  BY <1>7, <1>8, <1>9, <1>10, <1>11, <1>12, <1>13 DEF BackupInv

\* The reading for the archive: the next page is what the checksum's was, and
\* the rest as if the commit were rolled back behind it, or later.
LEMMA ArchiveKeeps ==
    ASSUME BackupInv, Backup!ReadForArchive
    PROVE  BackupInv'
<1>1. /\ Backup!Complete(first) /\ ~Backup!Complete(second)
      /\ second' = Backup!Take(second)
      /\ UNCHANGED <<file, journal, commit, first, moments, archive, restored>>
  BY DEF Backup!ReadForArchive
<1>2. /\ Pages \in Nat \ {0} /\ file \in Backup!Image
      /\ \E n \in 0..Pages : first \in [1..n -> Backup!Version]
  BY BackupTypes
<1>3. PICK n \in 0..Pages : second \in [1..n -> Backup!Version]
  BY BackupTypes
<1>4. n \in Nat /\ n < Pages
  <2>1. n # Pages
    BY <1>1, <1>3, Lengths
  <2> QED
    BY <1>2, <2>1
<1>5. /\ n + 1 \in 1..Pages /\ n + 1 \in 0..Pages /\ n + 1 # 0
      /\ second' \in [1..(n + 1) -> Backup!Version]
      /\ \A i \in 1..n : second'[i] = second[i]
      /\ second'[n + 1] = file[n + 1]
  BY <1>1, <1>2, <1>3, <1>4, OnePage
<1>6. second' # Backup!NoImage
  BY <1>5, Lengths
<1>7. Backup!TypeOK'
  <2>1. second' \in Backup!Prefix
    BY <1>5 DEF Backup!Prefix
  <2> QED
    BY <1>1, <2>1 DEF BackupInv, Backup!TypeOK
<1>8. CommitShape' /\ ReadShape'
  BY <1>1 DEF BackupInv, CommitShape, ReadShape, Backup!Complete
<1>9. FirstWhole'
  BY <1>6 DEF FirstWhole
<1>10. SecondWhole'
  <2> SUFFICES ASSUME NEW k \in 0..Pages, second' \in [1..k -> Backup!Version],
                      SameUpTo(k, first, second')
               PROVE  /\ (\A i \in (k + 1)..Pages : first[i] = file[i]) => first \in moments
                      /\ \A m \in k..Pages :
                            (/\ journal # Backup!NoImage
                             /\ \A i \in (k + 1)..Pages : first[i] = Torn(m)[i]) =>
                                first \in moments
    <3>1. \A k \in 0..Pages : \A m \in k..Pages : \A i \in (k + 1)..Pages : Torn(m)'[i] = Torn(m)[i]
      BY <1>1 DEF Torn
    <3> QED
      BY <1>1, <3>1 DEF SecondWhole, Backup!Complete
  <2>1. k = n + 1
    BY <1>5, Lengths
  <2>2. /\ \A i \in (n + 1)..Pages : i = n + 1 \/ i \in (n + 2)..Pages
        /\ \A i \in 1..n : i \in 1..(n + 1)
        /\ n + 1 \in 1..(n + 1)
    BY <1>4
  <2>3. first[n + 1] = file[n + 1] /\ SameUpTo(n, first, second)
    BY <1>5, <2>1, <2>2 DEF SameUpTo
  <2>4. k + 1 = n + 2
    BY <1>4, <2>1
  <2>5. ASSUME \A i \in (k + 1)..Pages : first[i] = file[i] PROVE first \in moments
    <3>1. \A i \in (n + 1)..Pages : first[i] = file[i]
      BY <2>2, <2>3, <2>4, <2>5
    <3> QED
      BY <1>1, <1>3, <2>3, <3>1 DEF BackupInv, SecondWhole
  <2>6. ASSUME NEW m \in k..Pages, journal # Backup!NoImage,
               \A i \in (k + 1)..Pages : first[i] = Torn(m)[i]
        PROVE  first \in moments
    <3>1. m \in n..Pages /\ n + 1 <= m /\ n + 1 \in Backup!Page
      BY <1>4, <1>5, <2>1 DEF Backup!Page
    <3>2. Torn(m)[n + 1] = file[n + 1]
      BY <3>1 DEF Torn
    <3>3. \A i \in (n + 1)..Pages : first[i] = Torn(m)[i]
      BY <2>2, <2>3, <2>4, <2>6, <3>2
    <3> QED
      BY <1>1, <1>3, <2>3, <2>6, <3>1, <3>3 DEF BackupInv, SecondWhole
  <2> QED
    BY <2>5, <2>6
<1>11. (archive # Backup!NoArchive => archive.bytes \in Backup!Image /\ archive.sum \in Backup!Image)'
  BY <1>1 DEF BackupInv
<1>12. Backup!BackupIsSnapshot'
  BY <1>1 DEF BackupInv, Backup!BackupIsSnapshot, Backup!Verified
<1> QED
  BY <1>7, <1>8, <1>9, <1>10, <1>11, <1>12 DEF BackupInv

\* No backup is under way.
LEMMA AtRest ==
    ASSUME NEW f, f = Backup!NoImage
    PROVE  /\ ~Backup!Complete(f)
           /\ \A n \in 1..Pages : f \notin [1..n -> Backup!Version]
           /\ f \in Backup!Prefix
<1>1. Pages \in Nat \ {0} /\ 0 \in 0..Pages
  BY ServicesAssumption
<1>2. f \in [1..0 -> Backup!Version]
  BY DEF Backup!NoImage
<1>3. f \in Backup!Prefix
  BY <1>1, <1>2 DEF Backup!Prefix
<1>4. ~Backup!Complete(f)
  BY <1>1, <1>2, Lengths
<1>5. ASSUME NEW n \in 1..Pages, f \in [1..n -> Backup!Version] PROVE FALSE
  <2>1. n \in 0..Pages /\ n # 0
    BY <1>1
  <2> QED
    BY <1>5, <2>1, Lengths
<1> QED
  BY <1>3, <1>4, <1>5

LEMMA WriteArchiveKeeps ==
    ASSUME BackupInv, Backup!WriteArchive
    PROVE  BackupInv'
<1>1. /\ Backup!Complete(second)
      /\ archive' = [bytes |-> second, sum |-> first, moments |-> moments]
      /\ first' = Backup!NoImage /\ second' = Backup!NoImage /\ moments' = {}
      /\ UNCHANGED <<file, journal, commit, restored>>
  BY DEF Backup!WriteArchive
<1>2. Pages \in Nat \ {0} /\ Pages \in 0..Pages
  BY ServicesAssumption
<1>3. second # Backup!NoImage /\ Backup!Complete(first)
  BY <1>1, AtRest DEF BackupInv, ReadShape
<1>4. /\ first \in [1..Pages -> Backup!Version] /\ second \in [1..Pages -> Backup!Version]
      /\ first \in Backup!Image /\ second \in Backup!Image
  <2>1. PICK n \in 0..Pages : first \in [1..n -> Backup!Version]
    BY BackupTypes
  <2>2. PICK k \in 0..Pages : second \in [1..k -> Backup!Version]
    BY BackupTypes
  <2> QED
    BY <1>1, <1>3, <2>1, <2>2, Lengths DEF Backup!Image, Backup!Page
<1>5. Backup!TypeOK'
  BY <1>1, AtRest DEF BackupInv, Backup!TypeOK
<1>6. CommitShape' /\ ReadShape'
  BY <1>1 DEF BackupInv, CommitShape, ReadShape
<1>7. FirstWhole' /\ SecondWhole'
  <2>1. FirstWhole'
    BY <1>1, AtRest DEF FirstWhole
  <2>2. SecondWhole'
    BY <1>1, AtRest DEF SecondWhole
  <2> QED
    BY <2>1, <2>2
<1>8. Backup!BackupIsSnapshot'
  <2> SUFFICES ASSUME first = second PROVE first \in moments
    BY <1>1 DEF Backup!BackupIsSnapshot, Backup!Verified
  <2>1. SameUpTo(Pages, first, second)
    BY DEF SameUpTo
  <2>2. \A i \in (Pages + 1)..Pages : first[i] = file[i]
    BY <1>2
  <2> QED
    BY <1>2, <1>3, <1>4, <2>1, <2>2 DEF BackupInv, SecondWhole
<1> QED
  BY <1>1, <1>4, <1>5, <1>6, <1>7, <1>8 DEF BackupInv

LEMMA RestoreKeeps ==
    ASSUME BackupInv, Backup!Restore
    PROVE  BackupInv'
<1>1. /\ archive # Backup!NoArchive /\ first = Backup!NoImage
      /\ file' = archive.bytes /\ restored' = TRUE
      /\ UNCHANGED <<journal, commit, first, second, moments, archive>>
  BY DEF Backup!Restore, Backup!Restorable, Backup!Verified
<1>2. file' \in Backup!Image
  BY <1>1 DEF BackupInv
<1>3. Backup!TypeOK'
  BY <1>1, <1>2 DEF BackupInv, Backup!TypeOK
<1>4. CommitShape' /\ ReadShape'
  BY <1>1 DEF BackupInv, CommitShape, ReadShape, Backup!Complete
<1>5. FirstWhole'
  BY <1>1, AtRest DEF FirstWhole
<1>6. SecondWhole'
  BY <1>1, AtRest DEF SecondWhole
<1>7. Backup!BackupIsSnapshot'
  BY <1>1 DEF BackupInv, Backup!BackupIsSnapshot, Backup!Verified
<1> QED
  BY <1>1, <1>3, <1>4, <1>5, <1>6, <1>7 DEF BackupInv

LEMMA BackupNextKeeps ==
    ASSUME BackupInv, [Backup!Next]_v4
    PROVE  BackupInv'
<1>1. CASE Backup!Next
  <2>1. ASSUME NEW i \in Backup!Page, Backup!WritePage(i) PROVE BackupInv'
    BY <2>1, WriteKeeps
  <2> QED
    BY <1>1, <2>1, BeginKeeps, EndKeeps, ChecksumKeeps, ArchiveKeeps, WriteArchiveKeeps,
      RestoreKeeps DEF Backup!Next
<1>2. CASE UNCHANGED v4
  <2>1. UNCHANGED <<file, journal, commit, first, second, moments, archive, restored>>
    BY <1>2 DEF v4
  <2>2. Backup!TypeOK' /\ CommitShape' /\ ReadShape'
    BY <2>1 DEF BackupInv, Backup!TypeOK, CommitShape, ReadShape, Backup!Complete
  <2>3. \A m : Torn(m)' = Torn(m)
    BY <2>1 DEF Torn
  <2>4. FirstWhole'
    BY <2>1, <2>3 DEF BackupInv, FirstWhole
  <2>5. SecondWhole'
    BY <2>1, <2>3 DEF BackupInv, SecondWhole, Backup!Complete
  <2>6. Backup!BackupIsSnapshot'
    BY <2>1 DEF BackupInv, Backup!BackupIsSnapshot, Backup!Verified
  <2> QED
    BY <2>1, <2>2, <2>4, <2>5, <2>6 DEF BackupInv
<1> QED
  BY <1>1, <1>2

\* A reading for the archive that agrees so far with the checksum's can agree
\* to the end only if the file was once what they read.
THEOREM BackupInvariant == Spec => [](part = "backup" => BackupInv)
<1>1. Init => (part = "backup" => BackupInv)
  BY BackupInit DEF Init
<1>2. ASSUME part = "backup" => BackupInv, [Next]_<<part, v1, v2, v3, v4, v5, v6, v7, v8, v9, v10>>
      PROVE  (part = "backup" => BackupInv)'
  <2>1. CASE BackupNext
    BY <1>2, <2>1, BackupNextKeeps DEF BackupNext
  <2>2. CASE part # "backup" /\ part' = part
    BY <2>2
  <2>3. CASE part' = part /\ v4' = v4
    BY <1>2, <2>3, BackupNextKeeps
  <2> QED
    BY <1>2, <2>1, <2>2, <2>3
    DEF Next, ApiNext, MailNext, SchemaNext, PeersNext, RuntimeNext, DialogNext,
        CatalogNext, AccountsNext, HealthNext
<1> QED
  BY <1>1, <1>2, PTL DEF Spec

\* An archive that verifies is what the file was at one moment, although its
\* pages were read one by one beside the commits and their roll backs.
THEOREM BackupsAreSnapshots == Spec => []BackupIsSnapshot
<1>1. (part = "backup" => BackupInv) => BackupIsSnapshot
  BY DEF BackupIsSnapshot, BackupInv
<1> QED
  BY <1>1, BackupInvariant, PTL

------------------------------------------------------------------------------
(* All services together.                                                  *)

\* A form open on one user is open on at most one.
LEMMA OneForm ==
    ASSUME FormOfOne
    PROVE  Accounts!Cardinality(form.users) <= 1
<1>1. Cardinality(form.users) <= 1
  <2>1. CASE form.users = {}
    BY <2>1, FS_EmptySet
  <2>2. CASE \E i \in Id : form.users = {i}
    BY <2>2, FS_Singleton
  <2> QED
    BY <2>1, <2>2 DEF FormOfOne
<1> QED
  BY <1>1 DEF Accounts!Cardinality, Cardinality

\* Every service keeps its state in the types its module declares.
THEOREM TypeCorrect == Spec => []TypeOK
<1>1. AccountInv => Accounts!TypeOK
  BY OneForm DEF AccountInv, AccountTypes, Accounts!TypeOK
<1>2. MailInv => Mail!TypeOK
  <2>1. ASSUME MailTypes, NEW c \in Code, codes[c].made PROVE codes[c] \in Mail!CodeRow
    BY <2>1 DEF MailTypes
  <2> QED
    BY <2>1 DEF MailInv, MailTypes, Mail!TypeOK
<1>3. (/\ part = "api" => ApiInv
       /\ part = "mail" => MailInv
       /\ part = "schema" => SchemaInv
       /\ part = "backup" => BackupInv
       /\ part = "peers" => PeersInv
       /\ part = "runtime" => RuntimeInv
       /\ part = "dialog" => DialogInv
       /\ part = "catalog" => CatalogInv
       /\ part = "accounts" => AccountInv
       /\ part = "health" => HealthInv) => TypeOK
  BY <1>1, <1>2 DEF TypeOK, ApiInv, SchemaInv, BackupInv, PeersInv, RuntimeInv, DialogInv,
    CatalogInv, HealthInv
<1> QED
  BY <1>3, ApiInvariant, MailInvariant, SchemaInvariant, BackupInvariant, PeersInvariant,
    RuntimeInvariant, DialogInvariant, CatalogInvariant, AccountInvariant, HealthInvariant, PTL
=============================================================================
