-------------------------- MODULE MCIngestSession --------------------------
(* A small instance of IngestSession. *)
EXTENDS IngestSession
=============================================================================
