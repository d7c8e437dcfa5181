----------------------------- MODULE MCRequests -----------------------------
(***************************************************************************)
(* Instances of Requests for TLC. The devices do not differ.               *)
(***************************************************************************)
EXTENDS Requests, TLC

DashboardSymmetry == Permutations(Devices)
=============================================================================
