------------------------- MODULE MCLibraryActivation -------------------------
(***************************************************************************)
(* Small instances of LibraryActivation.  Token tokRD is issued for        *)
(* resource R and digest D.                                                *)
(***************************************************************************)
EXTENDS LibraryActivation

CONSTANTS a, b, tok1a, tok1aAgain, tok1b, tok2a

MCResOf == [t \in Token |-> IF t = tok2a THEN 2 ELSE 1]
MCDigestOf == [t \in Token |-> IF t = tok1b THEN b ELSE a]
=============================================================================
