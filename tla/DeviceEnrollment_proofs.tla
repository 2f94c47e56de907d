----------------------- MODULE DeviceEnrollment_proofs -----------------------
(***************************************************************************)
(* Proofs about DeviceEnrollment, for every set of tickets, clients, keys,  *)
(* passports and devices.                                                  *)
(*                                                                         *)
(* The argument is the passport id a claim brings along: it is nobody      *)
(* else's and has no row before the claim's own transaction commits, so a  *)
(* ticket that has it was taken by this very claim.                        *)
(***************************************************************************)
EXTENDS DeviceEnrollment, TLAPS

\* A claim under way is whole, and its passport does not exist yet.
ClaimsPending ==
    /\ \A c \in Clients : claim[c] # NoClaim =>
          /\ claim[c].ticket \in Tickets /\ claim[c].key \in Keys
          /\ claim[c].passport \in Passports
          /\ ~passport[claim[c].passport].exists
    /\ \A b, c \in Clients : claim[b] # NoClaim /\ claim[c] # NoClaim
                             /\ claim[b].passport = claim[c].passport => b = c

\* Only a passport that exists is revoked or attached.
RowsExist ==
    \A q \in Passports : passport[q].revoked \/ passport[q].device # NoDevice =>
        passport[q].exists

\* A claim that is recorded is the ticket's.
ClaimsRecorded ==
    \A e \in events : e[3] = "claimed" =>
        e[1] \in Tickets /\ e[2] \in Passports /\ ticket[e[1]].passport = e[2]

\* Nobody was told that he enrolled a device before the ticket was taken.
FreshWithClaim ==
    \A t \in Tickets : ticket[t].passport = NoPassport => fresh[t] = 0

IInv == /\ TypeOK /\ ClaimsPending /\ RowsExist /\ ClaimComplete
        /\ ClaimsRecorded /\ FreshWithClaim /\ FreshAnswerOnce

-----------------------------------------------------------------------------
(* Types.                                                                  *)

LEMMA RowTypes ==
  /\ NewTicket \in TicketRow /\ NoRow \in PassportRow /\ NoClaim \in Claim
  BY DEF NewTicket, TicketRow, NoRow, PassportRow, NoClaim, Claim

LEMMA TypeInit == Init => TypeOK
  BY RowTypes DEF Init, TypeOK

LEMMA EventsAfterType ==
  ASSUME TypeOK, NEW t \in Tickets \cup {NoTicket}, NEW q \in Passports \cup {NoPassport},
         NEW s \in Stage
  PROVE  EventsAfter(t, q, s) \subseteq
            (Tickets \cup {NoTicket}) \X (Passports \cup {NoPassport}) \X Stage
  BY DEF EventsAfter, TypeOK

LEMMA CreatePassportType ==
  ASSUME TypeOK, NEW q \in Passports, NEW d \in Devices \cup {NoDevice},
         NEW a \in {"none", "pending"}, CreatePassport(q, d, a)
  PROVE  passport' \in [Passports -> PassportRow]
  BY DEF CreatePassport, TypeOK, PassportRow

\* The changes of a ticket's row.
LEMMA TicketType ==
  ASSUME TypeOK, NEW t \in Tickets
  PROVE  /\ [ticket EXCEPT ![t].issued = TRUE] \in [Tickets -> TicketRow]
         /\ [ticket EXCEPT ![t].expired = TRUE] \in [Tickets -> TicketRow]
         /\ [ticket EXCEPT ![t].revoked = TRUE] \in [Tickets -> TicketRow]
         /\ \A q \in Passports, k \in Keys :
               [ticket EXCEPT ![t].passport = q, ![t].key = k] \in [Tickets -> TicketRow]
<1>1. [ticket EXCEPT ![t].issued = TRUE] \in [Tickets -> TicketRow]
  BY DEF TypeOK, TicketRow
<1>2. [ticket EXCEPT ![t].expired = TRUE] \in [Tickets -> TicketRow]
  BY DEF TypeOK, TicketRow
<1>3. [ticket EXCEPT ![t].revoked = TRUE] \in [Tickets -> TicketRow]
  BY DEF TypeOK, TicketRow
<1>4. ASSUME NEW q \in Passports, NEW k \in Keys
      PROVE  [ticket EXCEPT ![t].passport = q, ![t].key = k] \in [Tickets -> TicketRow]
  BY DEF TypeOK, TicketRow
<1> QED BY <1>1, <1>2, <1>3, <1>4

LEMMA AnswerType ==
  ASSUME TypeOK, NEW c \in Clients, claim[c].ticket \in Tickets, NEW replay \in BOOLEAN,
         Answer(c, replay)
  PROVE  claim' \in [Clients -> Claim] /\ fresh' \in [Tickets -> Nat]
  BY RowTypes DEF Answer, TypeOK

LEMMA TypeNext ==
  ASSUME TypeOK, ClaimsPending, [Next]_vars
  PROVE  TypeOK'
<1> USE DEF TypeOK
<1>1. CASE UNCHANGED vars
  BY <1>1 DEF vars
<1>2. ASSUME NEW t \in Tickets, IssueTicket(t) \/ Expire(t) \/ RevokeTicket(t) PROVE TypeOK'
  BY <1>2, TicketType, EventsAfterType
     DEF IssueTicket, Expire, RevokeTicket, RevokeRow, CreateTicket, Stage
<1>3. ASSUME NEW c \in Clients, NEW t \in Tickets, NEW k \in Keys, StartClaim(c, t, k)
      PROVE  TypeOK'
  <2>1. PICK q \in UnusedPassports :
          claim' = [claim EXCEPT ![c] =
            [ticket |-> t, key |-> k, passport |-> q, late |-> ticket[t].expired,
             replay |-> ClaimedWith(t, k)]]
    BY <1>3 DEF StartClaim
  <2>2. [ticket |-> t, key |-> k, passport |-> q, late |-> ticket[t].expired,
         replay |-> ClaimedWith(t, k)] \in Claim
    BY DEF Claim, UnusedPassports, ClaimedWith, TicketRow
  <2> QED BY <1>3, <2>1, <2>2 DEF StartClaim
<1>4. ASSUME NEW c \in Clients, ClaimTicket(c) PROVE TypeOK'
  <2> DEFINE t == claim[c].ticket
             q == claim[c].passport
  <2>1. t \in Tickets /\ q \in Passports /\ claim[c].key \in Keys /\ claim[c].replay \in BOOLEAN
    BY <1>4 DEF ClaimTicket, ClaimsPending, Claim
  <2>2. claim' \in [Clients -> Claim] /\ fresh' \in [Tickets -> Nat]
    BY <1>4, <2>1, AnswerType DEF ClaimTicket
  <2>3. ticket' \in [Tickets -> TicketRow] /\ passport' \in [Passports -> PassportRow]
    BY <1>4, <2>1, TicketType, CreatePassportType DEF ClaimTicket
  <2> QED BY <1>4, <2>1, <2>2, <2>3, EventsAfterType DEF ClaimTicket, Stage
<1>5. ASSUME NEW c \in Clients, ReplayClaim(c) PROVE TypeOK'
  <2>1. claim[c].ticket \in Tickets /\ claim[c].replay \in BOOLEAN
    BY <1>5 DEF ReplayClaim, ClaimsPending, Claim
  <2> QED BY <1>5, <2>1, AnswerType DEF ReplayClaim
<1>6. ASSUME NEW c \in Clients, AbandonClaim(c) PROVE TypeOK'
  BY <1>6, RowTypes DEF AbandonClaim
<1>7. ASSUME NEW d \in Devices, CreateDevice(d) PROVE TypeOK'
  BY <1>7 DEF CreateDevice
<1>8. ASSUME NEW d \in Devices, CreateOperatorDevice(d) PROVE TypeOK'
  BY <1>8, EventsAfterType, CreatePassportType DEF CreateOperatorDevice, UnusedPassports, Stage
<1>9. ASSUME NEW d \in Devices, CascadeRevoke(d) PROVE TypeOK'
  <2>1. device' \in [Devices -> {"absent", "active", "revoked"}]
    BY <1>9 DEF CascadeRevoke, DeviceAfterRevoke
  <2>2. passport' \in [Passports -> PassportRow]
    BY <1>9 DEF CascadeRevoke, PassportRow
  <2>3. ticket' \in [Tickets -> TicketRow]
    BY <1>9 DEF CascadeRevoke, TicketsAfterRevoke, TicketRow
  <2> QED BY <1>9, <2>1, <2>2, <2>3 DEF CascadeRevoke
<1>10. ASSUME NEW d \in Devices, NEW q \in Passports, AttachPassport(q, d) PROVE TypeOK'
  BY <1>10 DEF AttachPassport, PassportRow
<1>11. ASSUME NEW q \in Passports, NEW t \in Tickets \cup {NoTicket},
              NEW s \in {"config_ready", "delivered"}, RecordStage(t, q, s)
       PROVE  TypeOK'
  BY <1>11, EventsAfterType DEF RecordStage, Stage
<1>12. ASSUME NEW q \in Passports, NEW verdict \in {"pending", "passed", "failed"},
              RecordAcceptance(q, verdict)
       PROVE  TypeOK'
  <2>1. passport' \in [Passports -> PassportRow]
    BY <1>12 DEF RecordAcceptance, PassportRow
  <2>2. TicketsOf(q) # {} => (CHOOSE t \in TicketsOf(q) : TRUE) \in Tickets
    BY DEF TicketsOf
  <2> QED BY <1>12, <2>1, <2>2, EventsAfterType DEF RecordAcceptance, Stage
<1> QED BY <1>1, <1>2, <1>3, <1>4, <1>5, <1>6, <1>7, <1>8, <1>9, <1>10, <1>11, <1>12 DEF Next

-----------------------------------------------------------------------------
(* Most steps leave alone what the invariant is about.                     *)

\* An event is added at most, of that stage.
LEMMA EventsAfterGrow ==
  ASSUME NEW t, NEW q, NEW s
  PROVE  /\ events \subseteq EventsAfter(t, q, s)
         /\ s # "claimed" => \A e \in EventsAfter(t, q, s) : e[3] = "claimed" => e \in events
<1>1. <<t, q, s>>[3] = s
  OBVIOUS
<1> QED BY <1>1 DEF EventsAfter

\* No ticket is taken, no passport created, no claim begun.
Quiet ==
    /\ \A t \in Tickets : ticket'[t].passport = ticket[t].passport /\ ticket'[t].key = ticket[t].key
    /\ \A q \in Passports : passport'[q].exists = passport[q].exists
    /\ fresh' = fresh
    /\ events \subseteq events' /\ \A e \in events' : e[3] = "claimed" => e \in events
    /\ \A c \in Clients : claim'[c] \in {claim[c], NoClaim}

LEMMA QuietTickets ==
  ASSUME TypeOK, NEW t \in Tickets, IssueTicket(t) \/ Expire(t) \/ RevokeTicket(t)
  PROVE  Quiet /\ passport' = passport
<1>1. \A u \in Tickets : /\ ticket'[u].passport = ticket[u].passport
                         /\ ticket'[u].key = ticket[u].key
  BY DEF IssueTicket, Expire, RevokeTicket, RevokeRow, CreateTicket, TypeOK, TicketRow
<1>2. events \subseteq events' /\ \A e \in events' : e[3] = "claimed" => e \in events
  BY EventsAfterGrow DEF IssueTicket, Expire, RevokeTicket
<1> QED BY <1>1, <1>2 DEF Quiet, IssueTicket, Expire, RevokeTicket

\* A replay is never answered as new: a ticket that is taken was not taken
\* with the passport of a claim that is still under way.
LEMMA QuietClaims ==
  ASSUME TypeOK, ClaimsPending, ClaimComplete, NEW c \in Clients,
         ReplayClaim(c) \/ AbandonClaim(c)
  PROVE  Quiet /\ passport' = passport
<1>1. CASE ReplayClaim(c)
  <2> DEFINE t == claim[c].ticket
  <2>1. /\ t \in Tickets /\ claim[c].passport \in Passports
        /\ ~passport[claim[c].passport].exists
    BY <1>1 DEF ReplayClaim, ClaimsPending
  <2>2. ticket[t].passport # claim[c].passport
    BY <2>1, EnrollmentAssumption DEF ClaimComplete
  <2> QED BY <1>1, <2>2 DEF ReplayClaim, Answer, Quiet, TypeOK
<1>2. CASE AbandonClaim(c)
  BY <1>2 DEF AbandonClaim, Quiet, TypeOK
<1> QED BY <1>1, <1>2

LEMMA QuietDevices ==
  ASSUME TypeOK, RowsExist, NEW d \in Devices,
         \/ CreateDevice(d) \/ CascadeRevoke(d)
         \/ \E q \in Passports : AttachPassport(q, d)
  PROVE  Quiet /\ RowsExist'
<1> USE DEF TypeOK
<1>1. CASE CreateDevice(d)
  BY <1>1 DEF CreateDevice, Quiet, RowsExist
<1>2. CASE CascadeRevoke(d)
  <2>1. \A t \in Tickets : /\ ticket'[t].passport = ticket[t].passport
                           /\ ticket'[t].key = ticket[t].key
    BY <1>2 DEF CascadeRevoke, TicketsAfterRevoke, TicketRow
  <2>2. \A q \in Passports : passport'[q].exists = passport[q].exists
                             /\ passport'[q].device = passport[q].device
                             /\ (q \notin Found(d) => passport'[q].revoked = passport[q].revoked)
    BY <1>2 DEF CascadeRevoke, PassportRow
  <2>3. \A q \in Found(d) : passport[q].device # NoDevice
    BY EnrollmentAssumption DEF Found
  <2> QED BY <1>2, <2>1, <2>2, <2>3 DEF Quiet, RowsExist, CascadeRevoke
<1>3. ASSUME NEW q \in Passports, AttachPassport(q, d) PROVE Quiet /\ RowsExist'
  <2>1. /\ passport[q].exists /\ passport'[q].exists
        /\ \A r \in Passports \ {q} : passport'[r] = passport[r]
    BY <1>3 DEF AttachPassport, PassportRow
  <2> QED BY <1>3, <2>1 DEF AttachPassport, Quiet, RowsExist
<1> QED BY <1>1, <1>2, <1>3

LEMMA QuietStages ==
  ASSUME TypeOK, RowsExist, NEW q \in Passports,
         \/ \E t \in Tickets \cup {NoTicket}, s \in {"config_ready", "delivered"} :
               RecordStage(t, q, s)
         \/ \E verdict \in {"pending", "passed", "failed"} : RecordAcceptance(q, verdict)
  PROVE  Quiet /\ RowsExist'
<1> USE DEF TypeOK
<1>1. ASSUME NEW t \in Tickets \cup {NoTicket}, NEW s \in {"config_ready", "delivered"},
             RecordStage(t, q, s)
      PROVE  Quiet /\ RowsExist'
  <2>1. events \subseteq events' /\ \A e \in events' : e[3] = "claimed" => e \in events
    BY <1>1, EventsAfterGrow DEF RecordStage
  <2> QED BY <1>1, <2>1 DEF RecordStage, Quiet, RowsExist
<1>2. ASSUME NEW verdict \in {"pending", "passed", "failed"}, RecordAcceptance(q, verdict)
      PROVE  Quiet /\ RowsExist'
  <2>1. /\ passport[q].exists /\ passport'[q].exists
        /\ \A r \in Passports \ {q} : passport'[r] = passport[r]
    BY <1>2 DEF RecordAcceptance, Observable, PassportRow
  <2>2. events \subseteq events' /\ \A e \in events' : e[3] = "claimed" => e \in events
    BY <1>2, EventsAfterGrow DEF RecordAcceptance
  <2> QED BY <1>2, <2>1, <2>2 DEF RecordAcceptance, Quiet, RowsExist
<1> QED BY <1>1, <1>2

LEMMA QuietInv ==
  ASSUME IInv, TypeOK', RowsExist', Quiet
  PROVE  IInv'
<1> USE DEF IInv, Quiet
<1>1. ClaimsPending'
  BY DEF ClaimsPending
<1>2. ClaimComplete'
  <2> SUFFICES ASSUME NEW t \in Tickets, ticket[t].passport # NoPassport
               PROVE  /\ passport'[ticket[t].passport].exists
                      /\ <<t, ticket[t].passport, "claimed">> \in events'
    BY DEF ClaimComplete
  <2>1. ticket[t].passport \in Passports
    BY DEF TypeOK, TicketRow
  <2> QED BY <2>1 DEF ClaimComplete
<1>3. ClaimsRecorded'
  BY DEF ClaimsRecorded
<1>4. FreshWithClaim' /\ FreshAnswerOnce'
  BY DEF FreshWithClaim, FreshAnswerOnce
<1> QED BY <1>1, <1>2, <1>3, <1>4

-----------------------------------------------------------------------------
(* The other three.                                                        *)

LEMMA InvStartClaim ==
  ASSUME IInv, TypeOK', NEW c \in Clients, NEW t \in Tickets, NEW k \in Keys, StartClaim(c, t, k)
  PROVE  IInv'
<1>1. PICK q \in UnusedPassports :
        claim' = [claim EXCEPT ![c] =
          [ticket |-> t, key |-> k, passport |-> q, late |-> ticket[t].expired,
           replay |-> ClaimedWith(t, k)]]
  BY DEF StartClaim
<1>2. q \in Passports /\ ~passport[q].exists /\ \A b \in Clients : claim[b].passport # q
  BY DEF UnusedPassports
<1>3. /\ claim'[c].ticket = t /\ claim'[c].key = k /\ claim'[c].passport = q
      /\ \A b \in Clients \ {c} : claim'[b] = claim[b]
  BY <1>1 DEF IInv, TypeOK
<1>4. UNCHANGED <<ticket, passport, events, fresh>>
  BY DEF StartClaim
<1>5. ClaimsPending'
  BY <1>2, <1>3, <1>4 DEF IInv, ClaimsPending
<1> QED BY <1>4, <1>5 DEF IInv, RowsExist, ClaimComplete, ClaimsRecorded, FreshWithClaim,
                          FreshAnswerOnce

\* The passport of a claim that commits was no ticket's and is nobody else's.
LEMMA InvClaimTicket ==
  ASSUME IInv, TypeOK', NEW c \in Clients, ClaimTicket(c)
  PROVE  IInv'
<1> DEFINE t == claim[c].ticket
           q == claim[c].passport
<1>1. /\ t \in Tickets /\ q \in Passports /\ ~passport[q].exists /\ claim[c] # NoClaim
      /\ ticket[t].passport = NoPassport /\ q # NoPassport
  BY EnrollmentAssumption DEF IInv, ClaimsPending, ClaimTicket, ClaimableBy
<1>2. /\ ticket'[t].passport = q
      /\ \A u \in Tickets \ {t} : ticket'[u] = ticket[u]
  BY <1>1 DEF ClaimTicket, IInv, TypeOK, TicketRow
<1>3. /\ passport'[q].exists
      /\ \A r \in Passports \ {q} : passport'[r] = passport[r]
  BY <1>1 DEF ClaimTicket, CreatePassport, IInv, TypeOK
<1>4. claim'[c] = NoClaim /\ \A b \in Clients \ {c} : claim'[b] = claim[b]
  BY DEF ClaimTicket, Answer, IInv, TypeOK
<1>5. ClaimsPending'
  BY <1>1, <1>3, <1>4 DEF IInv, ClaimsPending
<1>6. RowsExist'
  BY <1>3 DEF IInv, RowsExist
<1>7. ~Recorded(t, q, "claimed")
  BY <1>1, EnrollmentAssumption DEF IInv, ClaimsRecorded, ClaimComplete, Recorded
<1>8. events' = events \cup {<<t, q, "claimed">>}
  BY <1>7 DEF ClaimTicket, EventsAfter
<1>9. ClaimComplete'
  <2> SUFFICES ASSUME NEW u \in Tickets, ticket'[u].passport # NoPassport
               PROVE  /\ passport'[ticket'[u].passport].exists
                      /\ <<u, ticket'[u].passport, "claimed">> \in events'
    BY DEF ClaimComplete
  <2>1. CASE u = t
    BY <1>2, <1>3, <1>8, <2>1
  <2>2. CASE u # t
    <3>1. ticket[u].passport \in Passports
      BY <1>2, <2>2 DEF IInv, TypeOK, TicketRow
    <3> QED BY <1>2, <1>3, <1>8, <2>2, <3>1 DEF IInv, ClaimComplete
  <2> QED BY <2>1, <2>2
<1>10. ClaimsRecorded'
  <2>1. \A e \in events : e[3] = "claimed" => e[1] # t
    BY <1>1, EnrollmentAssumption DEF IInv, ClaimsRecorded
  <2>2. \A e \in events' : e \in events \/ (e[1] = t /\ e[2] = q)
    BY <1>8
  <2> QED BY <1>1, <1>2, <2>1, <2>2 DEF IInv, ClaimsRecorded
<1>11. FreshWithClaim' /\ FreshAnswerOnce'
  <2>1. fresh[t] = 0
    BY <1>1 DEF IInv, FreshWithClaim
  <2>2. fresh'[t] <= 1 /\ \A u \in Tickets \ {t} : fresh'[u] = fresh[u]
    BY <1>1, <2>1 DEF ClaimTicket, Answer, IInv, TypeOK
  <2> QED BY <1>1, <1>2, <2>2 DEF IInv, FreshWithClaim, FreshAnswerOnce
<1> QED BY <1>5, <1>6, <1>9, <1>10, <1>11 DEF IInv

LEMMA InvCreateOperatorDevice ==
  ASSUME IInv, TypeOK', NEW d \in Devices, CreateOperatorDevice(d)
  PROVE  IInv'
<1>1. PICK q \in UnusedPassports :
        CreatePassport(q, d, "none") /\ events' = EventsAfter(NoTicket, q, "config_ready")
  BY DEF CreateOperatorDevice
<1>2. q \in Passports /\ ~passport[q].exists /\ \A b \in Clients : claim[b].passport # q
  BY DEF UnusedPassports
<1>3. /\ passport'[q].exists
      /\ \A r \in Passports \ {q} : passport'[r] = passport[r]
  BY <1>1, <1>2 DEF CreatePassport, IInv, TypeOK
<1>4. events \subseteq events' /\ \A e \in events' : e[3] = "claimed" => e \in events
  BY <1>1, EventsAfterGrow
<1>5. UNCHANGED <<ticket, claim, fresh>>
  BY DEF CreateOperatorDevice
<1>6. ClaimsPending' /\ RowsExist'
  BY <1>2, <1>3, <1>5 DEF IInv, ClaimsPending, RowsExist
<1>7. ClaimComplete'
  <2>1. \A t \in Tickets : ticket[t].passport # NoPassport => ticket[t].passport \in Passports
    BY DEF IInv, TypeOK, TicketRow
  <2> QED BY <1>2, <1>3, <1>4, <1>5, <2>1 DEF IInv, ClaimComplete
<1>8. ClaimsRecorded' /\ FreshWithClaim' /\ FreshAnswerOnce'
  BY <1>4, <1>5 DEF IInv, ClaimsRecorded, FreshWithClaim, FreshAnswerOnce
<1> QED BY <1>6, <1>7, <1>8 DEF IInv

-----------------------------------------------------------------------------
(* The theorems.                                                           *)

LEMMA InvInit == Init => IInv
  BY TypeInit
  DEF Init, IInv, ClaimsPending, RowsExist, ClaimComplete, ClaimsRecorded, FreshWithClaim,
      FreshAnswerOnce, NoRow, NewTicket

LEMMA InvNext ==
  ASSUME IInv, [Next]_vars
  PROVE  IInv'
<1> TypeOK /\ ClaimsPending /\ ClaimComplete /\ RowsExist
  BY DEF IInv
<1> TypeOK'
  BY TypeNext
<1>1. CASE UNCHANGED vars
  <2>1. Quiet /\ passport' = passport
    BY <1>1 DEF vars, Quiet
  <2> QED BY <2>1, QuietInv DEF RowsExist
<1>2. ASSUME NEW t \in Tickets, IssueTicket(t) \/ Expire(t) \/ RevokeTicket(t) PROVE IInv'
  <2>1. Quiet /\ passport' = passport
    BY <1>2, QuietTickets
  <2> QED BY <2>1, QuietInv DEF RowsExist
<1>3. ASSUME NEW c \in Clients, ReplayClaim(c) \/ AbandonClaim(c) PROVE IInv'
  <2>1. Quiet /\ passport' = passport
    BY <1>3, QuietClaims
  <2> QED BY <2>1, QuietInv DEF RowsExist
<1>4. ASSUME NEW d \in Devices,
             CreateDevice(d) \/ CascadeRevoke(d) \/ \E q \in Passports : AttachPassport(q, d)
      PROVE  IInv'
  BY <1>4, QuietDevices, QuietInv
<1>5. ASSUME NEW q \in Passports,
             \/ \E t \in Tickets \cup {NoTicket}, s \in {"config_ready", "delivered"} :
                   RecordStage(t, q, s)
             \/ \E verdict \in {"pending", "passed", "failed"} : RecordAcceptance(q, verdict)
      PROVE  IInv'
  BY <1>5, QuietStages, QuietInv
<1> QED BY <1>1, <1>2, <1>3, <1>4, <1>5, InvStartClaim, InvClaimTicket,
           InvCreateOperatorDevice DEF Next

\* The inductive invariant, with the type of every row.
THEOREM EnrollmentInvariant == Spec => []IInv
  BY InvInit, InvNext, PTL DEF Spec

(* Every ticket, passport, device, event and claim has its type.            *)
THEOREM TypeCorrect == Spec => []TypeOK
<1>1. IInv => TypeOK
  BY DEF IInv
<1> QED BY <1>1, EnrollmentInvariant, PTL

(* Of any number of callers of claim_device_enrollment_ticket, one at most  *)
(* is told that it enrolled the device.                                     *)
THEOREM FreshOnce == Spec => []FreshAnswerOnce
<1>1. IInv => FreshAnswerOnce
  BY DEF IInv
<1> QED BY <1>1, EnrollmentInvariant, PTL

(* A ticket that is taken has its passport and its stage: the transaction   *)
(* of the claim leaves nothing half done.                                   *)
THEOREM ClaimsComplete == Spec => []ClaimComplete
<1>1. IInv => ClaimComplete
  BY DEF IInv
<1> QED BY <1>1, EnrollmentInvariant, PTL

LEMMA ClaimKept ==
  ASSUME IInv, [Next]_vars
  PROVE  KeepsClaim
<1> TypeOK /\ ClaimsPending /\ ClaimComplete /\ RowsExist
  BY DEF IInv
<1>1. CASE Quiet
  BY <1>1 DEF Quiet, KeepsClaim
<1>2. CASE UNCHANGED ticket
  BY <1>2 DEF KeepsClaim
<1>3. ASSUME NEW c \in Clients, ClaimTicket(c) PROVE KeepsClaim
  <2>1. /\ claim[c].ticket \in Tickets
        /\ ticket[claim[c].ticket].passport = NoPassport /\ ~ticket[claim[c].ticket].revoked
        /\ \A u \in Tickets \ {claim[c].ticket} : ticket'[u] = ticket[u]
    BY <1>3 DEF ClaimTicket, ClaimableBy, ClaimsPending, TypeOK
  <2> QED BY <2>1 DEF KeepsClaim
<1>4. ASSUME NEW c \in Clients, NEW t \in Tickets, NEW k \in Keys, StartClaim(c, t, k)
      PROVE  UNCHANGED ticket
  BY <1>4 DEF StartClaim
<1>5. ASSUME NEW d \in Devices, CreateOperatorDevice(d) PROVE UNCHANGED ticket
  BY <1>5 DEF CreateOperatorDevice
<1> QED BY <1>1, <1>2, <1>3, <1>4, <1>5, QuietTickets, QuietClaims, QuietDevices, QuietStages
    DEF Next, vars

(* A ticket is taken once, and not after it was revoked: the UPDATE of the  *)
(* row decides among all claims that are under way.                         *)
THEOREM TicketsClaimedOnce == Spec => TicketClaimedOnce
  BY ClaimKept, EnrollmentInvariant, PTL DEF Spec, TicketClaimedOnce

LEMMA RevokedKept ==
  ASSUME IInv, [Next]_vars
  PROVE  KeepsRevoked
<1> TypeOK /\ ClaimsPending /\ RowsExist
  BY DEF IInv
\* A new row is not written over another.
<1>1. ASSUME NEW q \in Passports, ~passport[q].exists, NEW d, NEW a, CreatePassport(q, d, a)
      PROVE  KeepsRevoked
  <2>1. ~passport[q].revoked /\ \A r \in Passports \ {q} : passport'[r] = passport[r]
    BY <1>1 DEF CreatePassport, RowsExist, TypeOK
  <2> QED BY <2>1 DEF KeepsRevoked
<1>2. CASE UNCHANGED passport
  BY <1>2 DEF KeepsRevoked
<1>3. ASSUME NEW c \in Clients, ClaimTicket(c) PROVE KeepsRevoked
  BY <1>1, <1>3 DEF ClaimTicket, ClaimsPending
<1>4. ASSUME NEW d \in Devices, CreateOperatorDevice(d) PROVE KeepsRevoked
  BY <1>1, <1>4 DEF CreateOperatorDevice, UnusedPassports
<1>5. ASSUME NEW d \in Devices, CascadeRevoke(d) PROVE KeepsRevoked
  <2>1. \A q \in Passports : passport[q].revoked =>
            [passport[q] EXCEPT !.revoked = TRUE] = passport[q]
    BY DEF TypeOK, PassportRow
  <2> QED BY <1>5, <2>1 DEF CascadeRevoke, KeepsRevoked
<1>6. ASSUME NEW d \in Devices, NEW q \in Passports, AttachPassport(q, d) PROVE KeepsRevoked
  BY <1>6 DEF AttachPassport, KeepsRevoked, TypeOK
<1>7. ASSUME NEW q \in Passports, NEW verdict, RecordAcceptance(q, verdict) PROVE KeepsRevoked
  BY <1>7 DEF RecordAcceptance, Observable, KeepsRevoked, TypeOK
<1> QED BY <1>2, <1>3, <1>4, <1>5, <1>6, <1>7
    DEF Next, vars, IssueTicket, Expire, RevokeTicket, StartClaim, ReplayClaim, AbandonClaim,
        CreateDevice, RecordStage

(* A revoked passport stays as it was when it was revoked: no observation,  *)
(* attachment or claim that comes late writes to it.                        *)
THEOREM RevokedPassportsFinal == Spec => RevokedPassportFinal
  BY RevokedKept, EnrollmentInvariant, PTL DEF Spec, RevokedPassportFinal
=============================================================================
