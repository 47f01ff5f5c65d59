------------------------------ MODULE MCScratch ------------------------------
(* Two processes and two runs: one dies while it removes what the other left. *)
EXTENDS Scratch

\* The temporary bytes of one run may be on disk before anyone syncs them.
MCEarly == Linked \X {"bytes"}
=============================================================================
