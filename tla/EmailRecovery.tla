---------------------------- MODULE EmailRecovery ----------------------------
(***************************************************************************)
(* One user's e-mail address in the web panel: verification by a code sent *)
(* to the address, and the mails that carry a configuration, sent by an    *)
(* administrator or asked for with a recovery code.  The panel serves one  *)
(* request at a time; the bot, which may revoke the device, and a crash    *)
(* come between its transactions, and the mail server may accept a mail    *)
(* although the transaction that sent it is rolled back.                   *)
(***************************************************************************)
CONSTANTS
    Address,    \* addresses the user's row may hold
    Code,       \* rows of email_recovery_tokens, named by their random code
    NoAddress   \* users.email IS NULL

VARIABLES
    email,      \* users.email
    verified,   \* users.email_verified_at IS NOT NULL
    codes,      \* codes[c]: the row of code c
    served,     \* the user's device is pending or active, its material kept
    sending,    \* the recovery whose code is spent and whose mail is due
    mailbox     \* mails the mail server accepted: kind, address, code

emailVars == <<email, verified, codes, served, sending, mailbox>>

Purpose == {"verify_email", "recover_config"}

CodeRow == [made : BOOLEAN, purpose : Purpose, address : Address,
            used : BOOLEAN, expired : BOOLEAN]

Nobody == [code |-> "none", address |-> NoAddress]

(* proven says whether the address was the user's verified one when the     *)
(* mail was decided on; code is "admin" for a mail an administrator sent.   *)
Mail == [kind : {"code"}, address : Address, code : Code]
        \cup [kind : {"config"}, address : Address, code : Code \cup {"admin"},
              proven : BOOLEAN]

TypeOK ==
    /\ email \in Address \cup {NoAddress}
    /\ verified \in BOOLEAN
    /\ \A c \in Code : codes[c].made => codes[c] \in CodeRow
    /\ served \in BOOLEAN
    /\ sending = Nobody \/ sending \in [code : Code, address : Address]
    /\ mailbox \subseteq Mail

Init ==
    /\ email = NoAddress
    /\ verified = FALSE
    /\ codes = [c \in Code |-> [made |-> FALSE]]
    /\ served = TRUE
    /\ sending = Nobody
    /\ mailbox = {}

(* The row the WHERE clause returns for a code somebody typed in. *)
ValidCode(c, purpose) ==
    /\ codes[c].made
    /\ codes[c].purpose = purpose
    /\ ~codes[c].used
    /\ ~codes[c].expired

(* A code can be typed in by whoever reads the mail it was sent in. *)
Typed(c) == \E m \in mailbox : m.kind = "code" /\ m.code = c

------------------------------------------------------------------------------
(* Saving the user's form: a new address loses the verification. *)
EditUser(address) ==
    /\ sending = Nobody
    /\ email' = address
    /\ verified' = (verified /\ address = email)
    /\ UNCHANGED <<codes, served, sending, mailbox>>

(* Insert a code and mail it inside the transaction: all of it happens, or  *)
(* the mail is refused and the code rolled back, or the mail is out and the *)
(* commit fails, so that the code in the mail is unknown.                   *)
MailCode(c, purpose) ==
    LET row == [made |-> TRUE, purpose |-> purpose, address |-> email,
                used |-> FALSE, expired |-> FALSE]
        mail == [kind |-> "code", address |-> email, code |-> c]
    IN
    /\ sending = Nobody
    /\ email # NoAddress
    /\ ~codes[c].made
    /\ ~Typed(c)
    /\ mailbox' = mailbox \cup {mail}
    /\ codes' \in {codes, [codes EXCEPT ![c] = row]}
    /\ UNCHANGED <<email, verified, served, sending>>

StartVerification(c) == MailCode(c, "verify_email")

(* The device is looked up, its status is not looked at. *)
StartRecovery(c) == verified /\ MailCode(c, "recover_config")

(* The code must belong to the address the user has now. *)
Verify(c) ==
    /\ sending = Nobody
    /\ Typed(c)
    /\ ValidCode(c, "verify_email")
    /\ codes[c].address = email
    /\ verified' = TRUE
    /\ codes' = [codes EXCEPT ![c].used = TRUE]
    /\ UNCHANGED <<email, served, sending, mailbox>>

(* Mutant: the code is marked used after the mail, so that it can be tried  *)
(* again while the mail is on its way.                                      *)
Redeem_MarkLater(c) ==
    /\ sending = Nobody
    /\ Typed(c)
    /\ ValidCode(c, "recover_config")
    /\ codes[c].address = email
    /\ verified
    /\ served
    /\ sending' = [code |-> c, address |-> codes[c].address]
    /\ UNCHANGED <<email, verified, codes, served, mailbox>>

(* Recovery, first transaction: the code is good, the address is still the  *)
(* user's verified one, the configuration can be built; the code is spent   *)
(* and the transaction committed before the mail is sent.                   *)
Redeem(c) ==
    /\ sending = Nobody
    /\ Typed(c)
    /\ ValidCode(c, "recover_config")
    /\ codes[c].address = email
    /\ verified
    /\ served
    /\ codes' = [codes EXCEPT ![c].used = TRUE]
    /\ sending' = [code |-> c, address |-> codes[c].address]
    /\ UNCHANGED <<email, verified, served, mailbox>>

(* The mail after the commit, to the address the code was issued for; it is *)
(* lost when the mail server refuses it or the panel dies first, and the    *)
(* code is spent all the same.                                              *)
SendRecovered ==
    /\ sending # Nobody
    /\ mailbox' = mailbox \cup
         {[kind |-> "config", address |-> sending.address, code |-> sending.code,
           proven |-> verified /\ email = sending.address]}
    /\ sending' = Nobody
    /\ UNCHANGED <<email, verified, codes, served>>

LoseRecovered ==
    /\ sending # Nobody
    /\ sending' = Nobody
    /\ UNCHANGED <<email, verified, codes, served, mailbox>>

(* An administrator mails the configuration: nothing is stored. *)
SendConfig ==
    /\ sending = Nobody
    /\ email # NoAddress
    /\ verified
    /\ served
    /\ mailbox' = mailbox \cup
         {[kind |-> "config", address |-> email, code |-> "admin", proven |-> TRUE]}
    /\ UNCHANGED <<email, verified, codes, served, sending>>

------------------------------------------------------------------------------
(* The bot revokes the device; a code outlives its time. *)
RevokeDevice ==
    /\ served' = FALSE
    /\ UNCHANGED <<email, verified, codes, sending, mailbox>>

ExpireCode(c) ==
    /\ codes[c].made
    /\ codes' = [codes EXCEPT ![c].expired = TRUE]
    /\ UNCHANGED <<email, verified, served, sending, mailbox>>

Next ==
    \/ \E a \in Address \cup {NoAddress} : EditUser(a)
    \/ \E c \in Code : StartVerification(c)
    \/ \E c \in Code : StartRecovery(c)
    \/ \E c \in Code : Verify(c)
    \/ \E c \in Code : Redeem(c)
    \/ SendRecovered
    \/ LoseRecovered
    \/ SendConfig
    \/ RevokeDevice
    \/ \E c \in Code : ExpireCode(c)

Spec == Init /\ [][Next]_emailVars

------------------------------------------------------------------------------
(* A verified address was proven by somebody who read a code in its         *)
(* mailbox.  A configuration is mailed to the user's verified address       *)
(* alone, and a recovery code brings it there once: at most one mail, none  *)
(* once the code was refused, and never without the code being spent.       *)
ProvenMailOnce ==
    /\ verified => \E c \in Code :
          /\ codes[c].made
          /\ codes[c].purpose = "verify_email"
          /\ codes[c].used
          /\ codes[c].address = email
          /\ [kind |-> "code", address |-> email, code |-> c] \in mailbox
    /\ \A m \in mailbox : m.kind = "config" =>
          /\ m.proven
          /\ m.code \in Code => /\ codes[m.code].used
                                /\ codes[m.code].address = m.address
                                /\ sending.code # m.code
==============================================================================
