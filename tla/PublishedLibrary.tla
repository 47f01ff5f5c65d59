-------------------------- MODULE PublishedLibrary --------------------------
(***************************************************************************)
(* What the managed library promises its readers.  A reader either finds   *)
(* the maintenance fence or finds exactly the files of the catalog head.   *)
(* The head moves only behind the fence, one whole revision at a time.     *)
(***************************************************************************)
CONSTANTS
    Manifests,      \* what a revision may contain
    NoFiles,        \* the manifest before the first revision
    Maintenance     \* what a fenced reader finds; not a manifest

VARIABLES
    view,       \* what a reader finds now
    headFiles   \* the manifest of the catalog head

pubVars == <<view, headFiles>>

Init == view = NoFiles /\ headFiles = NoFiles

Fence == view # Maintenance /\ view' = Maintenance /\ UNCHANGED headFiles

Advance ==
    /\ view = Maintenance
    /\ headFiles' \in Manifests
    /\ UNCHANGED view

Unfence == view = Maintenance /\ view' = headFiles /\ UNCHANGED headFiles

Next == Fence \/ Advance \/ Unfence

Spec == Init /\ [][Next]_pubVars
=============================================================================
