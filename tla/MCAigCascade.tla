---------------------------- MODULE MCAigCascade ----------------------------
(* What is computed from the networks that MCCascadeSpec produces, for TLC. *)
EXTENDS TopoView, Mffc, MCAig
=============================================================================
