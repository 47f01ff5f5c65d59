--------------------------- MODULE SourceDiscovery ---------------------------
(***************************************************************************)
(* What one attempt of a source scan takes to be in the download folder    *)
(* (filesystem.py): the inventory that FilesystemSource builds once, by a  *)
(* breadth-first walk over names that may move under it, and the probe     *)
(* gallery_exists by which the core decides that a published gallery which *)
(* the inventory misses is gone.                                           *)
(*                                                                         *)
(* A directory is known by its device and inode, which is the directory.   *)
(* The index is private to the attempt and is lost with it.                *)
(***************************************************************************)
EXTENDS SourceFolder

CONSTANTS
    Published       \* the locators of the catalog before this attempt

\* Galleries are one collection below the root.
Locator == {<<m, n>> : m, n \in Name}

ASSUME DiscoveryAssumption == Published \subseteq Locator /\ None \notin Locator

VARIABLES
    phase,          \* what the attempt is doing
    rootStat,       \* _discovery_root_stat: the root the index was built from
    queue,          \* discovery_directories with visited = 0, in order
    listing,        \* the names scandir has yet to return for the row under way
    locators,       \* the rows of the table locators: path |-> directory, or None
    target,         \* the locator that is being probed
    opened,         \* the descriptors of its ancestors, root first
    checked,        \* how many of their bindings were checked
    answer,         \* what gallery_exists returned
    gone,           \* history: target was away at some time since its lookup failed
    steady          \* history: galleries in their place since discovery began

discovery == <<phase, rootStat, queue, listing, locators>>
probe == <<target, opened, checked, answer, gone>>
attemptVars == <<discovery, probe, steady>>

NoProbe ==
    target' = None /\ opened' = <<>> /\ checked' = 0 /\ answer' = None /\ gone' = FALSE

DiscoveryInit ==
    /\ FolderInit
    /\ phase = "start" /\ rootStat = None /\ queue = <<>> /\ listing = {}
    /\ locators = [l \in Locator |-> None]
    /\ target = None /\ opened = <<>> /\ checked = 0 /\ answer = None /\ gone = FALSE
    /\ steady = {}

\* _require_root_identity: the name of the root leads to the directory discovery began in.
SameRoot == top = rootStat

\* A published locator is gone from the folder the index was built from.
Gone(l) == Below(rootStat, l) = None

\* A gallery with its marker, where discovery would find it.
Complete(l) == Resolve(l) \in Gallery /\ Stat(l, Info) # None
InPlace(l) == [locator |-> l, dir |-> Resolve(l)]

FolderStep ==
    /\ ChangeFolder
    /\ UNCHANGED <<discovery, target, opened, checked, answer>>
    /\ steady' = {s \in steady : Complete(s.locator)' /\ Resolve(s.locator)' = s.dir}
    /\ gone' = (gone \/ (phase = "binding" /\ Gone(target)'))

-----------------------------------------------------------------------------
(* _build_discovery_index and _discover_directory                          *)

Row(path, dir) == [path |-> path, dir |-> dir]

\* The session opens its index: the root is the first row.
BeginDiscovery ==
    /\ phase = "start"
    /\ phase' = "visit"
    /\ rootStat' = top /\ queue' = <<Row(<<>>, top)>>
    /\ locators' = [l \in Locator |-> None]
    /\ steady' = {InPlace(l) : l \in {x \in Locator : Complete(x)}}
    /\ UNCHANGED <<folder, listing, probe>>

\* Mutation: a directory that went away ends the walk.
GiveUp == <<>>
\* The row is marked as visited, the others stay pending.
NextRows == Tail(queue)

Visit ==
    /\ phase = "visit" /\ queue # <<>>
    /\ IF Resolve(Head(queue).path) = Head(queue).dir
       THEN phase' = "marker" /\ UNCHANGED queue
       ELSE queue' = NextRows /\ UNCHANGED phase
    /\ UNCHANGED <<folder, rootStat, listing, locators, probe, steady>>

\* Only a completion marker makes a directory a gallery.
CheckMarker ==
    /\ phase = "marker"
    /\ IF Stat(Head(queue).path, Info) # None
       THEN /\ phase' = "visit" /\ queue' = Tail(queue)
            /\ locators' = [locators EXCEPT ![Head(queue).path] = Head(queue).dir]
       ELSE phase' = "scandir" /\ UNCHANGED <<queue, locators>>
    /\ UNCHANGED <<folder, rootStat, listing, probe, steady>>

\* Other directories are collections, or downloads without a marker yet.
ScanDirectory ==
    /\ phase = "scandir"
    /\ IF Resolve(Head(queue).path) = None
       THEN phase' = "visit" /\ queue' = NextRows /\ UNCHANGED listing
       ELSE /\ phase' = "entries" /\ UNCHANGED queue
            /\ listing' = Children(Resolve(Head(queue).path))
    /\ UNCHANGED <<folder, rootStat, locators, probe, steady>>

StatEntry(n) ==
    /\ phase = "entries" /\ n \in listing
    /\ listing' = listing \ {n}
    /\ LET path == Append(Head(queue).path, n)
       IN  queue' = IF Resolve(path) = None THEN queue ELSE Append(queue, Row(path, Resolve(path)))
    /\ UNCHANGED <<folder, phase, rootStat, locators, probe, steady>>

EndEntries ==
    /\ phase = "entries" /\ listing = {}
    /\ phase' = "visit" /\ queue' = Tail(queue)
    /\ UNCHANGED <<folder, rootStat, listing, locators, probe, steady>>

\* The source is given up: a new attempt has a new index.
Abandon ==
    /\ phase' = "start" /\ rootStat' = None /\ queue' = <<>> /\ listing' = {}
    /\ locators' = [l \in Locator |-> None]
    /\ steady' = {}
    /\ NoProbe

\* The index is committed when the root is still the one the walk began at.
EndDiscovery ==
    /\ phase = "visit" /\ queue = <<>>
    /\ IF SameRoot
       THEN phase' = "ready" /\ UNCHANGED <<rootStat, queue, listing, locators, probe, steady>>
       ELSE Abandon
    /\ UNCHANGED folder

\* list_gallery_locators: the core pages through the inventory.
ListLocators ==
    /\ phase = "ready"
    /\ IF SameRoot
       THEN phase' = "listed" /\ UNCHANGED <<rootStat, queue, listing, locators, probe, steady>>
       ELSE Abandon
    /\ UNCHANGED folder

-----------------------------------------------------------------------------
(* gallery_exists                                                          *)

\* The core asks for a published locator that the inventory has not returned.
BeginProbe(l) ==
    /\ phase = "listed" /\ l \in Published /\ locators[l] = None
    /\ IF SameRoot
       THEN /\ phase' = "lookup" /\ target' = l /\ opened' = <<top>>
            /\ checked' = 0 /\ answer' = None /\ gone' = FALSE
            /\ UNCHANGED <<rootStat, queue, listing, locators, steady>>
       ELSE Abandon
    /\ UNCHANGED folder

\* Each component is looked up and opened in the descriptor of its parent.
LookUp ==
    /\ phase = "lookup" /\ Len(opened) <= Len(target)
    /\ LET found == Child(Last(opened), target[Len(opened)])
       IN  IF found = None
           THEN /\ phase' = "binding" /\ answer' = FALSE /\ gone' = Gone(target)
                /\ UNCHANGED opened
           ELSE opened' = Append(opened, found) /\ UNCHANGED <<phase, answer, gone>>
    /\ UNCHANGED <<folder, rootStat, queue, listing, locators, target, checked, steady>>

AllOpened ==
    /\ phase = "lookup" /\ Len(opened) > Len(target)
    /\ phase' = "binding" /\ answer' = TRUE
    /\ UNCHANGED <<folder, rootStat, queue, listing, locators, target, opened, checked, gone, steady>>

\* Mutation: the descriptors are not compared with the names that led to them.
BindingIgnored(k) == TRUE
Bound(k) ==
    IF k = 1 THEN top = opened[1] /\ SameRoot
             ELSE Child(opened[k - 1], target[k - 1]) = opened[k]

\* _require_directory_bindings: one ancestor after the other.
CheckBinding ==
    /\ phase = "binding" /\ checked < Len(opened)
    /\ \/ /\ Bound(checked + 1)
          /\ checked' = checked + 1
          /\ UNCHANGED <<discovery, target, opened, answer, gone, steady>>
       \/ /\ ~Bound(checked + 1) /\ checked = 0     \* the root has changed: an error
          /\ Abandon
       \/ /\ ~Bound(checked + 1) /\ checked > 0     \* the locator has changed: deferred
          /\ phase' = "listed" /\ NoProbe
          /\ UNCHANGED <<rootStat, queue, listing, locators, steady>>
    /\ UNCHANGED folder

\* A gallery that is there joins the index; absence is returned to the core.
EndProbe ==
    /\ phase = "binding" /\ checked = Len(opened)
    /\ phase' = "answered"
    /\ locators' = IF answer THEN [locators EXCEPT ![target] = Last(opened)] ELSE locators
    /\ UNCHANGED <<folder, rootStat, queue, listing, probe, steady>>

\* The core notes the answer and goes on.
TakeAnswer ==
    /\ phase = "answered"
    /\ phase' = "listed" /\ NoProbe
    /\ UNCHANGED <<folder, rootStat, queue, listing, locators, steady>>

\* The cycle ends, or the process does.
EndAttempt ==
    /\ phase # "start" /\ Abandon
    /\ UNCHANGED folder

DiscoveryNext ==
    \/ BeginDiscovery \/ Visit \/ CheckMarker \/ ScanDirectory
    \/ (\E n \in Name : StatEntry(n)) \/ EndEntries
    \/ EndDiscovery \/ ListLocators
    \/ (\E l \in Locator : BeginProbe(l)) \/ LookUp \/ AllOpened
    \/ CheckBinding \/ EndProbe \/ TakeAnswer \/ EndAttempt
=============================================================================
