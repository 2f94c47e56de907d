----------------------------- MODULE MCIssuance -----------------------------
(* Two requests for the same recipient that both fit alone: the first asks *)
(* for a device and a slot without one, the second for the same slot and    *)
(* another device.                                                         *)
EXTENDS ConfigIssuance, TLC

CONSTANTS r1, r2, anna, boris

Unassigned(u, n) == [to |-> u, label |-> n, mode |-> "unassigned"]
Dedicated(u, n)  == [to |-> u, label |-> n, mode |-> "dedicated"]

MCItems ==
    r1 :> <<Unassigned(anna, 1), Dedicated(anna, 7)>> @@
    r2 :> <<Unassigned(anna, 1), Dedicated(boris, 7)>>

RunSymmetry == Permutations(Runs)
=============================================================================
