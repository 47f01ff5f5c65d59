------------------------ MODULE MCLibraryRelocation ------------------------
(* A small instance of LibraryRelocation. *)
EXTENDS LibraryRelocation
=============================================================================
