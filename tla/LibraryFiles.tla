---------------------------- MODULE LibraryFiles ----------------------------
(***************************************************************************)
(* The managed directory tree of the library adapter (library.py) as the   *)
(* adapter can rely on it: names, the file each name shows now, and the    *)
(* file each name is certain to show after the machine loses power.        *)
(*                                                                         *)
(* A file is identified by the protection token whose staging write made   *)
(* it, so "same content identity" (library.py 4086) is equality of tokens. *)
(* The ACTIVATING marker is a name whose content is a revision.            *)
(***************************************************************************)
EXTENDS Naturals, Sequences, FiniteSets

CONSTANTS
    NumResource,    \* resources are numbered in publication-key order
    Digest,         \* content digests
    Token,          \* protection tokens
    ResOf, DigestOf,    \* the facts a token was issued for
    MaxRevision,    \* bound: catalog revisions the core issues
    NoFile,         \* what an absent name shows
    Alien           \* a file somebody other than the adapter wrote

Resource == 1..NumResource
Revision == 1..MaxRevision

ASSUME FactsAssumption ==
    /\ NumResource \in Nat \ {0}
    /\ MaxRevision \in Nat \ {0}
    /\ ResOf \in [Token -> Resource]
    /\ DigestOf \in [Token -> Digest]
    /\ Token \cap Nat = {}
    /\ NoFile \notin Token \cup Nat \cup Digest \cup {Alien}
    /\ Alien \notin Token \cup Nat

File == Token \cup {Alien}
Content == File \cup Revision \cup {NoFile}

(***************************************************************************)
(* Names.  A staging leaf is a function of the token (library.py 3911), a  *)
(* quarantine leaf of the storage path and the digest of the bytes it      *)
(* holds (library.py 5109).                                                *)
(***************************************************************************)
Cur(r)     == <<"current", r>>
Quar(r, d) == <<"quarantine", r, d>>
Stage(t)   == <<"staging", t>>
Marker     == <<"coordination">>

CurNames   == {Cur(r) : r \in Resource}
QuarNames  == {Quar(r, d) : r \in Resource, d \in Digest}
StageNames == {Stage(t) : t \in Token}
Name       == CurNames \cup QuarNames \cup StageNames \cup {Marker}

\* current/ has one parent directory per storage object; the others are flat.
DirOf(n) == IF n[1] = "current" THEN n ELSE <<n[1]>>

(***************************************************************************)
(* Filesystem primitives, one system call or one check each.  A function over Name is   *)
(* a directory tree: "live" is what lookups see, "disk" what is durable.   *)
(***************************************************************************)
RenameOp(n, m, f)   == [do |-> "rename", src |-> n, dst |-> m, file |-> f]
CheckOp(n, f)       == [do |-> "check", src |-> n, dst |-> n, file |-> f]
CapturedOp(q, n, f) == [do |-> "captured", src |-> q, dst |-> n, file |-> f]
UnlinkOp(n, f)      == [do |-> "unlink", src |-> n, dst |-> n, file |-> f]
FsyncOp(n)          == [do |-> "fsync", src |-> n, dst |-> n, file |-> NoFile]
CreateOp(n, f)      == [do |-> "create", src |-> n, dst |-> n, file |-> f]
RefuseOp            == [do |-> "refuse", src |-> Marker, dst |-> Marker, file |-> NoFile]

Op == [do: {"rename", "check", "captured", "unlink", "fsync", "create", "refuse"},
       src: Name, dst: Name, file: Content]

Renamed(tree, n, m)  == [tree EXCEPT ![m] = tree[n], ![n] = NoFile]
Unlinked(tree, n)    == [tree EXCEPT ![n] = NoFile]
Created(tree, n, c)  == [tree EXCEPT ![n] = c]
\* fsync of the directory that holds n makes its entries durable.  A rename
\* is atomic towards loss: when the removal of its old name becomes durable
\* so does its new name, in whatever directory that is.
RenamedAway(live, disk, n, c) ==
    c \in File /\ \E m \in Name : DirOf(m) = DirOf(n) /\ disk[m] = c /\ live[m] # c
Synced(live, disk, n) ==
    [m \in Name |-> IF DirOf(m) = DirOf(n) \/ RenamedAway(live, disk, n, live[m])
                   THEN live[m] ELSE disk[m]]

(***************************************************************************)
(* What power loss may leave: every name whose last change was not synced  *)
(* shows either the old or the new file, but a rename never loses its file *)
(* from both names (it may keep it under both, the case that               *)
(* _heal_same_inode_rename_duplicate, library.py 4789, is written for).    *)
(***************************************************************************)
Linked(tree, c) == \E n \in Name : tree[n] = c

PowerLossTrees(live, disk) ==
    { tree \in
        { [n \in Name |-> IF n \in kept THEN live[n] ELSE disk[n]] :
            kept \in SUBSET {n \in Name : live[n] # disk[n]} } :
      \A f \in File : Linked(live, f) /\ Linked(disk, f) => Linked(tree, f) }
=============================================================================
