------------------------ MODULE MCLibraryProtection ------------------------
(***************************************************************************)
(* Small instances of LibraryProtection: tokens t1 and t2 compete for one  *)
(* storage path, t3 has another; t1 and t3 share a lock stripe.            *)
(***************************************************************************)
EXTENDS LibraryProtection

CONSTANTS p, q, t1, t2, t3, w1, w2

MCPathOf == [t \in Token |-> IF t = t3 THEN q ELSE p]
MCStripeOf == [t \in Token |-> IF t = t2 THEN q ELSE p]
=============================================================================
