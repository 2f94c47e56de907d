-------------------------- MODULE DeviceEnrollment --------------------------
(***************************************************************************)
(* Enrollment tickets, device passports and lifecycle stages.              *)
(*                                                                         *)
(* A ticket is handed out once and claimed once; the claim creates a       *)
(* passport.  Clients repeat a claim with the same idempotency key when    *)
(* the answer was lost, and other clients may try the same token.  A       *)
(* passport is attached to a local device, which may be revoked, and       *)
(* passes the stages issued, claimed, config_ready, delivered and          *)
(* acceptance_verified.  Passports of operators start at config_ready.     *)
(*                                                                         *)
(* A failed stage is recorded too, but nothing ever depends on it: events  *)
(* has the completed ones only.  All tickets, passports and devices belong *)
(* to one user; mixing owners is refused.                                  *)
(***************************************************************************)
EXTENDS Naturals, FiniteSets

CONSTANTS Tickets, Passports, Devices,
          Clients,   \* callers of claim_device_enrollment_ticket
          Keys,      \* idempotency keys
          NoTicket, NoPassport, NoDevice, NoKey

ASSUME EnrollmentAssumption ==
    /\ NoTicket \notin Tickets /\ NoPassport \notin Passports
    /\ NoDevice \notin Devices /\ NoKey \notin Keys

VARIABLES
    ticket,    \* rows of device_enrollment_tickets
    passport,  \* rows of device_passports
    device,    \* status of the local devices
    events,    \* completed stages: <<ticket, passport, stage>>
    claim,     \* what each client has begun
    fresh      \* answers for each ticket that were no idempotent replay

vars == <<ticket, passport, device, events, claim, fresh>>

Stage == {"issued", "claimed", "config_ready", "delivered", "acceptance_verified"}
Before == [claimed |-> "issued", config_ready |-> "claimed",
           delivered |-> "config_ready", acceptance_verified |-> "delivered"]

TicketRow == [issued : BOOLEAN, expired : BOOLEAN, revoked : BOOLEAN,
              passport : Passports \cup {NoPassport}, key : Keys \cup {NoKey}]
NewTicket == [issued |-> FALSE, expired |-> FALSE, revoked |-> FALSE,
              passport |-> NoPassport, key |-> NoKey]

PassportRow == [exists : BOOLEAN, revoked : BOOLEAN, device : Devices \cup {NoDevice},
                acceptance : {"none", "pending", "passed", "failed"}]
NoRow == [exists |-> FALSE, revoked |-> FALSE, device |-> NoDevice, acceptance |-> "none"]

\* late: the ticket had expired when the claim read the clock.  replay: the
\* ticket was already claimed with this key when the claim looked.
Claim == [ticket : Tickets \cup {NoTicket}, key : Keys \cup {NoKey},
          passport : Passports \cup {NoPassport}, late : BOOLEAN, replay : BOOLEAN]
NoClaim == [ticket |-> NoTicket, key |-> NoKey, passport |-> NoPassport,
            late |-> FALSE, replay |-> FALSE]

TypeOK ==
    /\ ticket \in [Tickets -> TicketRow]
    /\ passport \in [Passports -> PassportRow]
    /\ device \in [Devices -> {"absent", "active", "revoked"}]
    /\ events \subseteq (Tickets \cup {NoTicket}) \X (Passports \cup {NoPassport}) \X Stage
    /\ claim \in [Clients -> Claim]
    /\ fresh \in [Tickets -> Nat]

Init ==
    /\ ticket = [t \in Tickets |-> NewTicket]
    /\ passport = [q \in Passports |-> NoRow]
    /\ device = [d \in Devices |-> "absent"]
    /\ events = {}
    /\ claim = [c \in Clients |-> NoClaim]
    /\ fresh = [t \in Tickets |-> 0]

-----------------------------------------------------------------------------
(* Lifecycle stages.                                                       *)

TicketsOf(q) == {t \in Tickets : ticket[t].passport = q}

\* list_device_lifecycle_events: of the ticket OR of the passport.
Recorded(t, q, s) ==
    \E e \in events : /\ e[3] = s
                      /\ \/ t # NoTicket /\ e[1] = t
                         \/ q # NoPassport /\ e[2] = q

\* A stage that was completed before is not recorded again.
EventsAfter(t, q, s) == IF Recorded(t, q, s) THEN events ELSE events \cup {<<t, q, s>>}

StageAllowed(t, q, s) ==
    \/ Recorded(t, q, s)
    \/ s = "config_ready" /\ t = NoTicket
    \/ Recorded(t, q, Before[s])

\* Config rendering and delivery, which name the passport, and the ticket if
\* they know it.
RecordStage(t, q, s) ==
    /\ passport[q].exists
    /\ t \in TicketsOf(q) \cup {NoTicket}
    /\ StageAllowed(t, q, s)
    /\ events' = EventsAfter(t, q, s)
    /\ UNCHANGED <<ticket, passport, device, claim, fresh>>

-----------------------------------------------------------------------------
(* Tickets.                                                                *)

CreateTicket(t) ==
    /\ ~ticket[t].issued
    /\ ticket' = [ticket EXCEPT ![t].issued = TRUE]

\* The row and its first stage are one transaction.
IssueTicket(t) ==
    /\ CreateTicket(t)
    /\ events' = EventsAfter(t, NoPassport, "issued")
    /\ UNCHANGED <<passport, device, claim, fresh>>

\* Time passes.
Expire(t) ==
    /\ ticket[t].issued
    /\ ticket' = [ticket EXCEPT ![t].expired = TRUE]
    /\ UNCHANGED <<passport, device, events, claim, fresh>>

\* The UPDATE touches a row that is not revoked.
RevokeRow(t) ==
    /\ ticket[t].issued
    /\ ticket' = [ticket EXCEPT ![t].revoked = TRUE]

\* Unclaimed or not; the passport of a claimed one is left alone.
RevokeTicket(t) ==
    /\ RevokeRow(t)
    /\ UNCHANGED <<passport, device, events, claim, fresh>>

-----------------------------------------------------------------------------
(* Claims.                                                                 *)

UnusedPassports ==
    {q \in Passports : ~passport[q].exists /\ \A c \in Clients : claim[c].passport # q}

\* A claim's passport has no device yet, and its acceptance is pending.
CreatePassport(q, d, acceptance) ==
    passport' = [passport EXCEPT ![q] = [exists |-> TRUE, revoked |-> FALSE,
                                         device |-> d, acceptance |-> acceptance]]

\* is_device_enrollment_claim_replay
ClaimedWith(t, k) == ticket[t].passport # NoPassport /\ ticket[t].key = k

\* Before the transaction: the clock, a new device id, and whether this is
\* known to be a replay.
StartClaim(c, t, k) ==
    /\ claim[c] = NoClaim /\ ticket[t].issued
    /\ \E q \in UnusedPassports :
        claim' = [claim EXCEPT ![c] =
            [ticket |-> t, key |-> k, passport |-> q, late |-> ticket[t].expired,
             replay |-> ClaimedWith(t, k)]]
    /\ UNCHANGED <<ticket, passport, device, events, fresh>>

\* Mutant: claimed_at is not part of the UPDATE.
ClaimableBy_Again(c) == ~ticket[claim[c].ticket].revoked /\ ~claim[c].late

\* The UPDATE of the ticket decides who has it.
ClaimableBy(c) ==
    LET row == ticket[claim[c].ticket] IN
    ~row.revoked /\ row.passport = NoPassport /\ ~claim[c].late

Answer(c, replay) ==
    /\ claim' = [claim EXCEPT ![c] = NoClaim]
    /\ fresh' = IF replay THEN fresh
                ELSE [fresh EXCEPT ![claim[c].ticket] = @ + 1]

ClaimTicket(c) ==
    LET t == claim[c].ticket
        q == claim[c].passport
    IN  /\ claim[c] # NoClaim
        /\ ClaimableBy(c)
        /\ ticket' = [ticket EXCEPT ![t].passport = q, ![t].key = claim[c].key]
        /\ CreatePassport(q, NoDevice, "pending")
        /\ events' = EventsAfter(t, q, "claimed")
        /\ Answer(c, claim[c].replay)
        /\ UNCHANGED device

\* Mutant: only what was seen before the transaction makes it a replay.
ReplayClaim_LookedBefore(c) ==
    LET t == claim[c].ticket IN
    /\ claim[c] # NoClaim
    /\ ~ClaimableBy(c)
    /\ ticket[t].key = claim[c].key
    /\ Answer(c, claim[c].replay)
    /\ UNCHANGED <<ticket, passport, device, events>>

\* Whoever has the key gets the passport again, expired or revoked as the
\* ticket may be.
ReplayClaim(c) ==
    LET t == claim[c].ticket IN
    /\ claim[c] # NoClaim
    /\ ~ClaimableBy(c)
    /\ ticket[t].key = claim[c].key
    /\ Answer(c, claim[c].replay \/ ticket[t].passport # claim[c].passport)
    /\ UNCHANGED <<ticket, passport, device, events>>

\* Mutant: the UPDATE of the ticket is committed on its own.
AbandonClaim_NoRollback(c) ==
    /\ claim[c] # NoClaim
    /\ claim' = [claim EXCEPT ![c] = NoClaim]
    /\ ticket' = IF ClaimableBy(c)
                 THEN [ticket EXCEPT ![claim[c].ticket].passport = claim[c].passport,
                                     ![claim[c].ticket].key = claim[c].key]
                 ELSE ticket
    /\ UNCHANGED <<passport, device, events, fresh>>

\* EnrollmentTicketUnavailable, an error that rolls the transaction back, or
\* the client gives up.
AbandonClaim(c) ==
    /\ claim[c] # NoClaim
    /\ claim' = [claim EXCEPT ![c] = NoClaim]
    /\ UNCHANGED <<ticket, passport, device, events, fresh>>

-----------------------------------------------------------------------------
(* Passports and devices.                                                  *)

\* approve_order: a device without a passport.
CreateDevice(d) ==
    /\ device[d] = "absent"
    /\ device' = [device EXCEPT ![d] = "active"]
    /\ UNCHANGED <<ticket, passport, events, claim, fresh>>

\* create_operator_device: the device, its passport and the stage config_ready
\* are one transaction.
CreateOperatorDevice(d) ==
    /\ device[d] = "absent"
    /\ device' = [device EXCEPT ![d] = "active"]
    /\ \E q \in UnusedPassports :
        /\ CreatePassport(q, d, "none")
        /\ events' = EventsAfter(NoTicket, q, "config_ready")
    /\ UNCHANGED <<ticket, claim, fresh>>

\* UNIQUE (local_device_id); the status of the device is not looked at.
AttachPassport(q, d) ==
    /\ passport[q].exists /\ ~passport[q].revoked
    /\ device[d] # "absent"
    /\ \A r \in Passports \ {q} : passport[r].device # d
    /\ passport' = [passport EXCEPT ![q].device = d]
    /\ UNCHANGED <<ticket, device, events, claim, fresh>>

\* Acceptance of a passport that came from a ticket needs the delivery to be
\* recorded for that ticket; the whole is one transaction.
AcceptanceRecorded(q, verdict) ==
    verdict # "pending" => \A t \in TicketsOf(q) : Recorded(t, NoPassport, "delivered")

\* Mutant: revoked_at is not part of the UPDATE.
Observable_Revoked(q) == passport[q].exists

\* update_device_passport_observation leaves a revoked passport alone, which is
\* reported as unknown.
Observable(q) == passport[q].exists /\ ~passport[q].revoked

RecordAcceptance(q, verdict) ==
    /\ Observable(q)
    /\ AcceptanceRecorded(q, verdict)
    /\ passport' = [passport EXCEPT ![q].acceptance = verdict]
    /\ events' = IF verdict = "passed" /\ TicketsOf(q) # {}
                 THEN EventsAfter(CHOOSE t \in TicketsOf(q) : TRUE, q, "acceptance_verified")
                 ELSE events
    /\ UNCHANGED <<ticket, device, claim, fresh>>

Found(d) == {q \in Passports : passport[q].device = d}

\* Mutant: the device is disabled.
DeviceAfterRevoke_Disabled(d) == [device EXCEPT ![d] = "disabled"]
DeviceAfterRevoke(d) == [device EXCEPT ![d] = "revoked"]

TicketsAfterRevoke(d) ==
    [t \in Tickets |->
        IF ticket[t].passport \in Found(d) THEN [ticket[t] EXCEPT !.revoked = TRUE]
                                           ELSE ticket[t]]

\* The passport found by the device, its ticket, and the device.
CascadeRevoke(d) ==
    /\ device[d] # "absent"
    /\ device' = DeviceAfterRevoke(d)
    /\ passport' = [q \in Passports |->
          IF q \in Found(d) THEN [passport[q] EXCEPT !.revoked = TRUE] ELSE passport[q]]
    /\ ticket' = TicketsAfterRevoke(d)
    /\ UNCHANGED <<events, claim, fresh>>

-----------------------------------------------------------------------------
Next ==
    \/ \E t \in Tickets : IssueTicket(t) \/ Expire(t) \/ RevokeTicket(t)
    \/ \E c \in Clients :
        \/ \E t \in Tickets, k \in Keys : StartClaim(c, t, k)
        \/ ClaimTicket(c) \/ ReplayClaim(c) \/ AbandonClaim(c)
    \/ \E d \in Devices :
        \/ CreateDevice(d) \/ CreateOperatorDevice(d) \/ CascadeRevoke(d)
        \/ \E q \in Passports : AttachPassport(q, d)
    \/ \E q \in Passports :
        \/ \E t \in Tickets \cup {NoTicket}, s \in {"config_ready", "delivered"} :
              RecordStage(t, q, s)
        \/ \E verdict \in {"pending", "passed", "failed"} : RecordAcceptance(q, verdict)

Spec == Init /\ [][Next]_vars

-----------------------------------------------------------------------------
(* Properties.                                                             *)

KeepsClaim ==
    \A t \in Tickets : ticket[t].passport # NoPassport \/ ticket[t].revoked =>
        ticket'[t].passport = ticket[t].passport /\ ticket'[t].key = ticket[t].key

\* Of any number of clients, at most one takes the ticket, for good; a ticket
\* that was revoked first is never taken, also by a claim under way.
TicketClaimedOnce == [][KeepsClaim]_vars

\* However claims race and repeat, at most one caller is told that it enrolled
\* the device; all others are told that it was a replay.
FreshAnswerOnce == \A t \in Tickets : fresh[t] <= 1

\* A claimed ticket has its passport and its stage: a claim that fails on the way
\* leaves nothing behind.
ClaimComplete ==
    \A t \in Tickets : ticket[t].passport # NoPassport =>
        LET q == ticket[t].passport IN
        /\ passport[q].exists
        /\ <<t, q, "claimed">> \in events

KeepsRevoked == \A q \in Passports : passport[q].revoked => passport'[q] = passport[q]

\* Neither a late observation nor an attachment revives a revoked passport.
RevokedPassportFinal == [][KeepsRevoked]_vars

=============================================================================
