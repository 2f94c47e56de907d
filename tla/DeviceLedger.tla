---------------------------- MODULE DeviceLedger ----------------------------
(***************************************************************************)
(* What the device registry promises its readers: each change of access is *)
(* one atomic step.  An order is granted once, within the quota; a device  *)
(* that was revoked stays revoked.  AccessProvisioning, where the same     *)
(* changes take several statements, a remote server and a lock, implements *)
(* this specification.                                                     *)
(***************************************************************************)
EXTENDS DeviceRegistry

VARIABLE reg

Init == reg = EmptyRegistry
Next == LedgerStep(reg, reg')
Spec == Init /\ [][Next]_reg

=============================================================================
