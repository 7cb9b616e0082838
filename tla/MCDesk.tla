------------------------------- MODULE MCDesk -------------------------------
(* The dashboards, with the devices and the requests interchangeable. *)
EXTENDS Desk, TLC

Symmetry == Permutations(Devices) \cup Permutations(Calls)
=============================================================================
