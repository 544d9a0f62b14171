---------------------------- MODULE MCLabAdapter ----------------------------
(* A small instance of LabAdapter for TLC. *)
EXTENDS LabAdapter

CONSTANTS lab, other, open
=============================================================================
