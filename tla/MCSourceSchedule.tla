-------------------------- MODULE MCSourceSchedule --------------------------
(* A small instance of SourceSchedule. *)
EXTENDS SourceSchedule
=============================================================================
