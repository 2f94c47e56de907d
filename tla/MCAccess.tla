------------------------------ MODULE MCAccess ------------------------------
(* Instances of AccessProvisioning for TLC.                                *)
EXTENDS AccessProvisioning, TLC

\* Every order belongs to the same user, so that they compete for the quota.
MCOwner == [o \in Orders |-> CHOOSE u \in Users : TRUE]

\* Key pairs are interchangeable unless they are imported.
KeySymmetry == Permutations(Devices \ External)

\* outcome records what callers were told and no action reads it: runs whose
\* properties do not mention it identify the states that differ in it only.
WithoutOutcome == <<store, readers, remote, minted, pc, job>>

=============================================================================
