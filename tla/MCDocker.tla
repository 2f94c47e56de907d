------------------------------ MODULE MCDocker ------------------------------
(***************************************************************************)
(* Instance of DockerPeerConfig for TLC.                                   *)
(***************************************************************************)
EXTENDS DockerPeerConfig, TLC

\* The server is the first host, the foreign peer the second.
MCForeignAddress == [k \in Foreign |-> 2]

\* Texts like 10.8.1.2, 10.8.1.23 and 10.8.1.231.
MCTruncated == [a \in Hosts |-> 2 .. a - 1]

\* Key pairs the program makes are interchangeable.
KeySymmetry == Permutations(Keys \ Foreign)
=============================================================================
