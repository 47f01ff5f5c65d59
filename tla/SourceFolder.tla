---------------------------- MODULE SourceFolder ----------------------------
(***************************************************************************)
(* The download folder while it is being scanned.  It belongs to the       *)
(* downloader and to the owner of the disk: nothing here is code of this   *)
(* repository, except what filesystem.py takes a name and a stat to be.    *)
(*                                                                         *)
(* Every change takes the next value of the clock and stamps what it       *)
(* touched, so a stat (device, inode, size and times) never comes back.    *)
(* The modification time is the time of the last write, unless a tool that *)
(* preserves times has set it back.                                        *)
(***************************************************************************)
EXTENDS Naturals, Sequences, FiniteSets, SequencesExt

CONSTANTS
    Root,           \* the directory the source was opened on
    Elsewhere,      \* an empty directory that can take its place (an unmounted disk)
    Collection,     \* directories that hold galleries
    Gallery,        \* directories that hold files
    Name,           \* names of directories
    Info,           \* galleryinfo.txt, the completion marker
    Page, Other,    \* image files, and files that are neither
    None,
    Edited,         \* bound: the galleries whose files change
    Home, Called,   \* the directory each directory starts in, and its name there
    MaxChanges      \* bound: changes of the folder

Folder == Collection \cup Gallery
Entry == {Info} \cup Page \cup Other

\* The stat of a file of a gallery: its inode, its last change, its modification time.
StatRecord == [gallery : Gallery, stamp : Nat, modified : Nat]

ASSUME FolderAssumption ==
    /\ Root \notin Folder /\ Elsewhere \notin Folder /\ Root # Elsewhere
    /\ Collection \cap Gallery = {} /\ Info \notin Page \cup Other /\ Page \cap Other = {}
    /\ None \notin Folder \cup {Root, Elsewhere} /\ MaxChanges \in Nat
    /\ None \notin StatRecord /\ Edited \subseteq Gallery
    /\ Home \in [Folder -> Collection \cup {Root, None}] /\ Called \in [Folder -> Name]
    /\ \A c \in Collection : Home[c] \in {Root, None}
    /\ \A g \in Gallery : Home[g] \in Collection \cup {None}
    /\ \A c, d \in Folder : Home[c] = Home[d] /\ Called[c] = Called[d] => c = d \/ Home[c] = None

VARIABLES
    top,            \* the directory the name of the root leads to
    parent, label,  \* the directory an entry is in (None: outside), and its name there
    file,           \* each gallery's files: the stamp of the last change, 0 for no file
    mtime,          \* their modification times
    half,           \* pages whose download has not ended
    stamp,          \* the last change of the entries of each gallery
    clock

folder == <<top, parent, label, file, mtime, half, stamp, clock>>

FolderInit ==
    /\ top = Root
    /\ parent = Home /\ label = Called
    /\ file = [g \in Gallery |-> [f \in Entry |-> 1]] /\ mtime = file
    /\ half = {} /\ stamp = [g \in Gallery |-> 1] /\ clock = 1

-----------------------------------------------------------------------------
(* Names                                                                   *)

Children(d) == {label[c] : c \in {x \in Folder : parent[x] = d}}

Child(d, n) ==
    IF n \in Children(d) THEN CHOOSE c \in Folder : parent[c] = d /\ label[c] = n ELSE None

\* The directory a locator leads to below one directory, None when it is not there.
Below(d, path) ==
    LET at[k \in 0..Len(path)] ==
            IF k = 0 THEN d ELSE IF at[k - 1] = None THEN None ELSE Child(at[k - 1], path[k])
    IN  at[Len(path)]
Resolve(path) == Below(top, path)

\* The stat of an entry by the path of its gallery: its inode and its stamp.
StatOf(g, f) ==
    IF file[g][f] = 0 THEN None
    ELSE [gallery |-> g, stamp |-> file[g][f], modified |-> mtime[g][f]]
Stat(path, f) ==
    IF Resolve(path) \in Gallery THEN StatOf(Resolve(path), f) ELSE None

Entries(path) == {f \in Entry : Stat(path, f) # None}
View(path) == [f \in Entry |-> Stat(path, f)]

-----------------------------------------------------------------------------
(* Changes                                                                 *)

Tick == clock <= MaxChanges /\ clock' = clock + 1

\* The stamps of a gallery after an entry of it was written.
Stamped(g, f) ==
    stamp' = IF file[g][f] = 0 THEN [stamp EXCEPT ![g] = clock + 1] ELSE stamp

\* An entry is written in place, by someone or something that dates it m.
Written(g, f, m) ==
    /\ file' = [file EXCEPT ![g][f] = clock + 1]
    /\ mtime' = [mtime EXCEPT ![g][f] = m]
    /\ UNCHANGED <<top, parent, label>>

\* The downloader writes a page; its last write ends the download of it.
BeginPage(g, p) ==
    /\ Tick
    /\ Written(g, p, clock + 1) /\ Stamped(g, p)
    /\ half' = half \cup {<<g, p>>}

EndPage(g, p) ==
    /\ Tick /\ <<g, p>> \in half
    /\ Written(g, p, clock + 1) /\ half' = half \ {<<g, p>>}
    /\ UNCHANGED stamp

\* The marker is written when every page of the gallery is complete.
WriteMarker(g) ==
    /\ Tick /\ \A p \in Page : <<g, p>> \notin half
    /\ Written(g, Info, clock + 1) /\ Stamped(g, Info)
    /\ UNCHANGED half

\* A complete file is edited in place, with or without its old modification time.
EditFile(g, f) ==
    /\ Tick /\ file[g][f] # 0 /\ f # Info /\ <<g, f>> \notin half
    /\ \E m \in {mtime[g][f], clock + 1} : Written(g, f, m)
    /\ UNCHANGED <<half, stamp>>

\* A complete file of any age is renamed to a name, or an entry is deleted.
ReplaceFile(g, f) ==
    /\ Tick /\ f # Info
    /\ \E m \in {mtime[g][f], clock + 1} : Written(g, f, m)
    /\ stamp' = [stamp EXCEPT ![g] = clock + 1] /\ half' = half \ {<<g, f>>}

DropEntry(g, f) ==
    /\ Tick /\ file[g][f] # 0
    /\ file' = [file EXCEPT ![g][f] = 0] /\ stamp' = [stamp EXCEPT ![g] = clock + 1]
    /\ half' = half \ {<<g, f>>}
    /\ UNCHANGED <<top, parent, label, mtime>>

\* A directory is renamed, moved in or moved out; no name is taken over.
Move(c, d, n) ==
    /\ Tick
    /\ d = None \/ (c \in Gallery /\ d \in Collection) \/ (c \in Collection /\ d = Root)
    /\ <<parent[c], label[c]>> # <<d, n>>
    /\ d # None => n \notin Children(d)
    /\ d = None => n = label[c]
    /\ parent' = [parent EXCEPT ![c] = d] /\ label' = [label EXCEPT ![c] = n]
    /\ UNCHANGED <<top, file, mtime, half, stamp>>

\* The disk goes away or comes back.
Remount ==
    /\ Tick
    /\ top' = IF top = Root THEN Elsewhere ELSE Root
    /\ UNCHANGED <<parent, label, file, mtime, half, stamp>>

ChangeFolder ==
    \/ \E g \in Edited, p \in Page : BeginPage(g, p) \/ EndPage(g, p)
    \/ \E g \in Edited : WriteMarker(g)
    \/ \E g \in Edited, f \in Entry : EditFile(g, f) \/ ReplaceFile(g, f) \/ DropEntry(g, f)
    \/ \E c \in Folder, d \in Folder \cup {Root, None}, n \in Name : Move(c, d, n)
    \/ Remount
=============================================================================
