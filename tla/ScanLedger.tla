----------------------------- MODULE ScanLedger -----------------------------
(***************************************************************************)
(* What the source scan schedule promises: work noted while a scan runs    *)
(* survives the end of that scan, and work noted before it started does    *)
(* not outlive a scan that needs no successor.                             *)
(***************************************************************************)
VARIABLES
    pending,    \* a scan is wanted
    active      \* a scan holds the ticket

ledger == <<pending, active>>

\* A new schedule wants a scan at once.
LedgerInit == pending = TRUE /\ active = FALSE

Note == pending' = TRUE /\ UNCHANGED active

Start == ~active /\ active' = TRUE /\ pending' = FALSE

\* "again": the scan itself asks for a successor.
Finish(again) == active /\ active' = FALSE /\ pending' = (pending \/ again)

LedgerNext == Note \/ Start \/ \E again \in BOOLEAN : Finish(again)

LedgerSpec == LedgerInit /\ [][LedgerNext]_ledger
=============================================================================
