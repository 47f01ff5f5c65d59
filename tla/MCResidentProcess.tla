------------------------- MODULE MCResidentProcess -------------------------
(* A small instance of ResidentProcess. *)
EXTENDS ResidentProcess
=============================================================================
