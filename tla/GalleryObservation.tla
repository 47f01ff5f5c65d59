------------------------- MODULE GalleryObservation -------------------------
(***************************************************************************)
(* How the core reads one gallery of a folder that changes under it        *)
(* (filesystem.py, core_source.py).  The first call stores a snapshot of   *)
(* the directory in the private index; pages of it are checked against the *)
(* disk as they are returned and their files are hashed; the last probe of *)
(* the completion marker compares the whole directory with the snapshot.   *)
(*                                                                         *)
(* The index holds one snapshot at a time.  That of a gallery the core     *)
(* comes back to is built again and must equal the audit kept of the first.*)
(***************************************************************************)
EXTENDS SourceDiscovery

CONSTANTS
    Rank,           \* the order of the names of entries
    PageLimit       \* entries of one page

Stats == StatRecord \cup {None}
DirStats == [dir : Gallery, stamp : Nat]
SnapshotRecord == [dir : DirStats, rows : [Entry -> Stats]]

ASSUME ObservationAssumption ==
    /\ IsFiniteSet(Entry) /\ Rank \in [Entry -> Nat \ {0}]
    /\ \A e, f \in Entry : Rank[e] = Rank[f] => e = f
    /\ None \notin SnapshotRecord \cup DirStats \cup [Entry -> Stats]
    /\ PageLimit \in Nat \ {0}

VARIABLES
    locator,        \* the gallery being observed, None between observations
    call,           \* the call of the core that is under way
    step,           \* where that call is
    dirStat,        \* the directory and its stamp when the call began
    marker,         \* the stat of galleryinfo.txt whose bytes were parsed
    names,          \* the names scandir has yet to return
    rows,           \* the stats read so far in this walk of the directory
    active,         \* active_gallery_snapshot and gallery_entries, or None
    audit,          \* gallery_audits of this gallery, or None
    unread,         \* entries of the page being returned that are not hashed yet
    draft,          \* what the core has been given of the gallery
    accepted,       \* the last complete observation
    views           \* history: what the locator led to since the last probe began

observation == <<locator, call, step, dirStat, marker, names, rows, active, audit,
                 unread, draft, accepted, views>>
vars == <<folder, attemptVars, observation>>

NoRows == [f \in Entry |-> None]
\* files: stats of the bytes that were hashed; entries: the directory; tags: those of
\* which marker; more: list_files has not returned its terminal page; probed: the
\* completion marker.
NoDraft == [files |-> NoRows, after |-> 0, more |-> TRUE, entries |-> None,
            tags |-> None, probed |-> None]

ObservationInit ==
    /\ locator = None /\ call = "none" /\ step = "none" /\ dirStat = None /\ marker = None
    /\ names = {} /\ rows = NoRows /\ active = None /\ audit = None
    /\ unread = {} /\ draft = NoDraft /\ accepted = None /\ views = {}

Init == DiscoveryInit /\ ObservationInit

DirStat(path) ==
    IF Resolve(path) \in Gallery
    THEN [dir |-> Resolve(path), stamp |-> stamp[Resolve(path)]] ELSE None

-----------------------------------------------------------------------------
(* Ends of a call                                                          *)

CallEnds ==
    /\ call' = "none" /\ step' = "none" /\ dirStat' = None /\ marker' = None
    /\ names' = {} /\ rows' = NoRows /\ unread' = {}

NoObservation ==
    /\ locator' = None /\ active' = None /\ audit' = None
    /\ draft' = NoDraft /\ accepted' = None /\ views' = {}

\* FilesystemSourceChangedError defers the gallery; other errors fail the attempt,
\* which EndAttempt may do next.  Nothing of the observation is used.
Deferred == CallEnds /\ NoObservation

SourceUnchanged == UNCHANGED <<folder, attemptVars>>

\* _read_metadata_path: galleryinfo.txt is read through a descriptor between two equal
\* stats, and hashed again; these are the stats of the bytes that were parsed.
MarkerRead == Stat(locator, Info)

\* What the locator leads to, and whether a page of it is still being downloaded.
Now(l) == [rows |-> View(l), half |-> {p \in Page : <<Resolve(l), p>> \in half}]

-----------------------------------------------------------------------------
(* Calls of the core                                                       *)

\* _gallery_index: the locator leads to the directory of the inventory; the snapshot
\* is used, or built when it is not there.
InInventory(l) == SameRoot /\ DirStat(l) # None /\ DirStat(l).dir = locators[l]

Index(l) ==
    /\ dirStat' = DirStat(l)
    /\ step' = IF active = None THEN "metadata" ELSE "serve"

BeginObservation(l) ==
    /\ phase = "listed" /\ locator = None /\ locators[l] # None
    /\ InInventory(l)
    /\ locator' = l
    /\ call' = "observe" /\ Index(l)
    /\ UNCHANGED <<marker, names, rows, active, audit, unread, draft, accepted, views>>
    /\ SourceUnchanged

\* The core pages through the files, and reads the entries and then the tags.
Wanted(c) ==
    \/ c = "files" /\ draft.more
    \/ c = "entries" /\ ~draft.more /\ draft.entries = None
    \/ c = "tags" /\ draft.entries # None /\ draft.tags = None

BeginCall(c) ==
    /\ locator # None /\ call = "none" /\ accepted = None
    /\ Wanted(c)
    /\ IF InInventory(locator)
       THEN /\ call' = c /\ Index(locator)
            /\ UNCHANGED <<locator, marker, names, rows, active, audit, unread, draft,
                           accepted, views>>
       ELSE Deferred
    /\ SourceUnchanged

\* The core ends with the completion marker (observe_completion_marker), which is
\* read before the observation is audited (revalidate_observed_gallery).
BeginFinal ==
    /\ locator # None /\ call = "none" /\ accepted = None
    /\ \A c \in {"files", "entries", "tags"} : ~Wanted(c)
    /\ IF SameRoot /\ MarkerRead # None
       THEN /\ call' = "final" /\ step' = "index"
            /\ draft' = [draft EXCEPT !.probed = MarkerRead]
            /\ views' = {Now(locator)}
            /\ UNCHANGED <<locator, dirStat, marker, names, rows, active, audit, unread, accepted>>
       ELSE Deferred
    /\ SourceUnchanged

IndexFinal ==
    /\ call = "final" /\ step = "index"
    /\ IF InInventory(locator)
       THEN /\ Index(locator)
            /\ UNCHANGED <<locator, call, marker, names, rows, active, audit, unread, draft,
                           accepted, views>>
       ELSE Deferred
    /\ SourceUnchanged

\* Another gallery is observed in between: its snapshot takes the place of this one.
EvictSnapshot ==
    /\ locator # None /\ call = "none" /\ active # None /\ accepted = None
    /\ active' = None
    /\ UNCHANGED <<locator, call, step, dirStat, marker, names, rows, audit, unread, draft,
                   accepted, views>>
    /\ SourceUnchanged

-----------------------------------------------------------------------------
(* _build_gallery_snapshot                                                 *)

ReadMetadata ==
    /\ step = "metadata"
    /\ IF MarkerRead = None THEN Deferred
       ELSE /\ marker' = MarkerRead /\ step' = "scandir"
            /\ UNCHANGED <<locator, call, dirStat, names, rows, active, audit, unread, draft,
                           accepted, views>>
    /\ SourceUnchanged

OpenDirectory(next) ==
    /\ names' = Entries(locator) /\ rows' = NoRows /\ step' = next
    /\ UNCHANGED <<locator, call, dirStat, marker, active, audit, unread, draft, accepted, views>>

ScanGallery ==
    /\ step = "scandir"
    /\ IF DirStat(locator) = dirStat THEN OpenDirectory("entries") ELSE Deferred
    /\ SourceUnchanged

\* One entry of the open directory after the other, in any order.
StatRow(f) ==
    /\ step \in {"entries", "audit"} /\ f \in names
    /\ IF Stat(locator, f) = None THEN Deferred
       ELSE /\ rows' = [rows EXCEPT ![f] = Stat(locator, f)]
            /\ names' = names \ {f}
            /\ UNCHANGED <<locator, call, step, dirStat, marker, active, audit, unread, draft,
                           accepted, views>>
    /\ SourceUnchanged

Snapshot == [dir |-> dirStat, rows |-> rows]

\* Mutation: a snapshot that is built again is not compared with the first one.
AnySnapshot == TRUE
SameSnapshot == audit = None \/ audit = Snapshot

\* Mutation: pages may be newer than the marker.
NewerPages == {}
\* Pages that were written after the marker: the download has been taken up again.
UnfinishedPages == {p \in Page : rows[p] # None /\ rows[p].modified > marker.modified}

Accept ==
    accepted' = [files |-> draft.files, entries |-> draft.entries, tags |-> draft.tags,
                 marker |-> draft.probed]

StoreSnapshot ==
    /\ step = "entries" /\ names = {}
    /\ IF /\ DirStat(locator) = dirStat /\ SameRoot
          /\ rows[Info] = marker /\ UnfinishedPages = {} /\ SameSnapshot
       THEN /\ active' = Snapshot /\ audit' = Snapshot
            /\ IF call \in {"observe", "final"}
               THEN CallEnds
               ELSE /\ step' = "serve" /\ rows' = NoRows
                    /\ UNCHANGED <<call, dirStat, marker, names, unread>>
            /\ IF call = "final" THEN Accept ELSE UNCHANGED accepted
            /\ UNCHANGED <<locator, draft, views>>
       ELSE Deferred
    /\ SourceUnchanged

-----------------------------------------------------------------------------
(* list_files, list_directories, list_tags                                 *)

\* The first n entries of the snapshot after those already returned.
Following(n) ==
    LET rest == {f \in Entry : active.rows[f] # None /\ Rank[f] > draft.after}
    IN  {f \in rest : Cardinality({e \in rest : Rank[e] <= Rank[f]}) <= n}

\* _require_gallery_metadata_unchanged: the marker still has the stat and the bytes
\* that were parsed.
MarkerUnchanged == Stat(locator, Info) = active.rows[Info]

\* _require_gallery_page_unchanged: the directory, the returned entries with their
\* lookahead, and the marker.  Since no stat comes back, what is unchanged when it is
\* looked at was so when the check began.
PageUnchanged(entries) ==
    /\ SameRoot /\ DirStat(locator) = active.dir
    /\ \A f \in entries : Stat(locator, f) = active.rows[f]
    /\ MarkerUnchanged

ListFiles ==
    /\ call = "files" /\ step = "serve"
    /\ IF PageUnchanged(Following(PageLimit + 1))
       THEN /\ unread' = Following(PageLimit) /\ step' = "read"
            /\ draft' = [draft EXCEPT !.more = Following(PageLimit) # Following(PageLimit + 1)]
            /\ UNCHANGED <<locator, call, dirStat, marker, names, rows, active, audit,
                           accepted, views>>
       ELSE Deferred
    /\ SourceUnchanged

\* content_parts: the bytes between two equal stats of the descriptor.
ReadFile(f) ==
    /\ step = "read" /\ f \in unread
    /\ IF Stat(locator, f) = active.rows[f]
       THEN /\ draft' = [draft EXCEPT !.files[f] = Stat(locator, f),
                                      !.after = IF Rank[f] > @ THEN Rank[f] ELSE @]
            /\ IF unread = {f}
               THEN CallEnds
               ELSE /\ unread' = unread \ {f}
                    /\ UNCHANGED <<call, step, dirStat, marker, names, rows>>
            /\ UNCHANGED <<locator, active, audit, accepted, views>>
       ELSE Deferred
    /\ SourceUnchanged

ListEntries ==
    /\ call = "entries" /\ step = "serve"
    /\ IF PageUnchanged({f \in Entry : active.rows[f] # None})
       THEN /\ draft' = [draft EXCEPT !.entries = active.rows] /\ CallEnds
            /\ UNCHANGED <<locator, active, audit, accepted, views>>
       ELSE Deferred
    /\ SourceUnchanged

ListTags ==
    /\ call = "tags" /\ step = "serve"
    /\ IF PageUnchanged({})
       THEN /\ draft' = [draft EXCEPT !.tags = active.rows[Info]] /\ CallEnds
            /\ UNCHANGED <<locator, active, audit, accepted, views>>
       ELSE Deferred
    /\ SourceUnchanged

-----------------------------------------------------------------------------
(* The last probe: _require_gallery_unchanged                              *)

ScanAudit ==
    /\ call = "final" /\ step = "serve"
    /\ IF SameRoot /\ DirStat(locator) = active.dir
       THEN OpenDirectory("audit") ELSE Deferred
    /\ SourceUnchanged

\* Mutation: only the number of entries is compared, as a page check would.
SameCount == Cardinality({f \in Entry : rows[f] # None})
               = Cardinality({f \in Entry : active.rows[f] # None})
SameEntries == rows = active.rows

EndAudit ==
    /\ step = "audit" /\ names = {}
    /\ IF /\ SameEntries /\ DirStat(locator) = active.dir
          /\ MarkerUnchanged /\ SameRoot
       THEN /\ Accept /\ CallEnds
            /\ UNCHANGED <<locator, active, audit, draft, views>>
       ELSE Deferred
    /\ SourceUnchanged

\* The core keeps the observation and turns to the next gallery.
TakeObservation ==
    /\ accepted # None
    /\ CallEnds /\ NoObservation
    /\ SourceUnchanged

-----------------------------------------------------------------------------

Observe ==
    \/ \E l \in Locator : BeginObservation(l)
    \/ \E c \in {"files", "entries", "tags"} : BeginCall(c)
    \/ BeginFinal \/ IndexFinal \/ EvictSnapshot
    \/ ReadMetadata \/ ScanGallery \/ StoreSnapshot
    \/ ListFiles \/ ListEntries \/ ListTags \/ ScanAudit \/ EndAudit \/ TakeObservation
    \/ \E f \in Entry : StatRow(f) \/ ReadFile(f)

\* The inventory and the probes belong to the core between two observations.
Discover ==
    /\ locator = None
    /\ DiscoveryNext
    /\ UNCHANGED observation

LoseAttempt ==
    /\ locator # None
    /\ EndAttempt
    /\ CallEnds /\ NoObservation

FolderChanges ==
    /\ FolderStep
    /\ UNCHANGED <<locator, call, step, dirStat, marker, names, rows, active, audit, unread,
                   draft, accepted>>
    /\ views' = IF views = {} THEN views ELSE views \cup {Now(locator)'}

Next == Discover \/ Observe \/ LoseAttempt \/ FolderChanges

Spec == Init /\ [][Next]_vars

-----------------------------------------------------------------------------
(* Properties                                                              *)

Snapshots == SnapshotRecord \cup {None}

\* What the attempt, the call under way and the draft of the core may hold.
TypeOK ==
    /\ phase \in {"start", "visit", "marker", "scandir", "entries", "ready", "listed",
                  "lookup", "binding", "answered"}
    /\ rootStat \in {Root, Elsewhere, None} /\ listing \subseteq Name
    /\ locators \in [Locator -> Gallery \cup {None}]
    /\ target \in Locator \cup {None} /\ checked \in 0..Len(opened)
    /\ locator \in Locator \cup {None}
    /\ call \in {"none", "observe", "files", "entries", "tags", "final"}
    /\ step \in {"none", "index", "metadata", "scandir", "entries", "serve", "read", "audit"}
    /\ marker \in Stats /\ names \subseteq Entry /\ unread \subseteq Entry
    /\ rows \in [Entry -> Stats] /\ active \in Snapshots /\ audit \in Snapshots
    /\ locator = None => call = "none" /\ active = None /\ accepted = None
    /\ step # "none" => call # "none"

\* A gallery with its marker that stayed where it was while the index was built is in
\* the inventory, whatever else moved, appeared or disappeared next to it
\* (_discover_directory: one candidate cannot abort its siblings).
SteadyGalleriesFound ==
    phase = "ready" => \A s \in steady : locators[s.locator] = s.dir

\* gallery_exists says that a published gallery is gone, on which the core deletes
\* it, only if its locator led nowhere below the root of the index at some moment
\* since the lookup that failed; a swapped ancestor or a lost mount is not enough.
AbsenceWasReal ==
    phase = "answered" /\ ~answer => gone

\* An observation the core accepts, its hashed files, its directory and its tags,
\* is what the locator led to at one single moment, and that no earlier than the last
\* probe of the marker, although its pages were read at different times and other
\* galleries in between (FilesystemGalleryObservation, revalidate_observed_gallery).
\* The probed marker is the one of that moment too, unless it is of another gallery:
\* nothing compares the two, and a directory may be swapped around the probe.
ObservedAtOnce ==
    accepted # None =>
        \E v \in views :
            /\ accepted.files = v.rows /\ accepted.entries = v.rows
            /\ accepted.tags = v.rows[Info]
            /\ \/ accepted.marker = v.rows[Info]
               \/ accepted.marker.gallery # v.rows[Info].gallery

\* No page of an accepted observation was still being downloaded when it was read
\* (_build_gallery_snapshot: a page newer than its completion marker).
OnlyFinishedDownloads ==
    accepted # None => \E v \in views : accepted.files = v.rows /\ v.half = {}
=============================================================================
