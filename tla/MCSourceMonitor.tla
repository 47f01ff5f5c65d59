--------------------------- MODULE MCSourceMonitor ---------------------------
(* A small instance of SourceMonitor: one gallery changes again and again,  *)
(* another one once.                                                        *)
EXTENDS SourceMonitor

CONSTANTS g1, g2

BusyAndQuiet == [l \in Locator |-> IF l = g1 THEN 3 ELSE 1]
=============================================================================
