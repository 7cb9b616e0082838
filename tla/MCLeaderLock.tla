---------------------------- MODULE MCLeaderLock ----------------------------
(* Instances of LeaderLock for TLC. *)
EXTENDS LeaderLock, TLC

\* Replicas are interchangeable: sound for the safety runs only.
Symmetry == Permutations(Replicas)

=============================================================================
