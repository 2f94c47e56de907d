---------------------------- MODULE MCEnrollment ----------------------------
(* Two clients race for the tickets with two idempotency keys.             *)
EXTENDS DeviceEnrollment, TLC

Interchangeable ==
    Permutations(Passports) \cup Permutations(Clients) \cup Permutations(Keys)

=============================================================================
