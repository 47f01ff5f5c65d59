---------------------- MODULE GalleryObservation_proofs ----------------------
(***************************************************************************)
(* Proofs about GalleryObservation and the discovery below it, for any     *)
(* folders, names, entries, order of entries, page size and number of      *)
(* changes of the folder.                                                  *)
(*                                                                         *)
(* The invariant has three layers.  FolderInv: directories keep their own  *)
(* names and stats never come back.  DiscoveryInv: each gallery that stays *)
(* in its place is found or is ahead of the walk, and a component that was *)
(* not found leaves its locator gone unless an ancestor was swapped.       *)
(* ObservationInv: what the core was given is of the snapshot, and what    *)
(* the last walk has read as the snapshot has it was so when it began.     *)
(***************************************************************************)
EXTENDS GalleryObservation, FiniteSetTheorems, SequenceTheorems, NaturalsInduction,
        WellFoundedInduction, TLAPS

-----------------------------------------------------------------------------
(* The folder: directories keep their own names, and stats never come back. *)

FolderTyped ==
    /\ top \in {Root, Elsewhere}
    /\ parent \in [Folder -> Collection \cup {Root, None}] /\ label \in [Folder -> Name]
    /\ file \in [Gallery -> [Entry -> Nat]] /\ mtime \in [Gallery -> [Entry -> Nat]]
    /\ half \subseteq Gallery \X Page
    /\ stamp \in [Gallery -> Nat] /\ clock \in Nat
    /\ \A c \in Collection : parent[c] \in {Root, None}
    /\ \A g \in Gallery : parent[g] \in Collection \cup {None}

NamesApart ==
    \A c, d \in Folder : parent[c] = parent[d] /\ label[c] = label[d] => c = d \/ parent[c] = None

Clocked == \A g \in Gallery, f \in Entry : file[g][f] <= clock /\ mtime[g][f] <= clock

\* A page that is being downloaded is newer than the marker.
HalfIsFresh ==
    \A g \in Gallery, p \in Page :
        <<g, p>> \in half => file[g][p] # 0 /\ mtime[g][p] > mtime[g][Info]

FolderInv == FolderTyped /\ NamesApart /\ Clocked /\ HalfIsFresh

\* What a change of the folder does to the files of galleries.
FilesChange ==
    /\ clock' = clock + 1
    /\ \A g \in Gallery, f \in Entry :
         \/ file'[g][f] = file[g][f] /\ mtime'[g][f] = mtime[g][f]
         \/ file'[g][f] = clock + 1
         \/ file'[g][f] = 0

LEMMA EntriesAre == Info \in Entry /\ Page \subseteq Entry /\ Info \notin Page
BY FolderAssumption DEF Entry

LEMMA InitFolder == FolderInit => FolderInv
BY FolderAssumption DEF FolderInit, FolderInv, FolderTyped, NamesApart, Clocked, HalfIsFresh

\* One file of one gallery is written.
LEMMA WrittenKeeps ==
    ASSUME FolderInv, NEW g \in Gallery, NEW f \in Entry, NEW m \in Nat, Written(g, f, m),
           Tick, m <= clock + 1, half' \subseteq Gallery \X Page, stamp' \in [Gallery -> Nat],
           \A h \in Gallery, p \in Page : <<h, p>> \in half' =>
             \/ <<h, p>> \in half /\ <<h, p>> # <<g, f>> /\ <<h, Info>> # <<g, f>>
             \/ h = g /\ p = f /\ m = clock + 1
    PROVE  FolderInv' /\ FilesChange
<1>1. /\ file' = [file EXCEPT ![g][f] = clock + 1] /\ mtime' = [mtime EXCEPT ![g][f] = m]
      /\ UNCHANGED <<top, parent, label>> /\ clock' = clock + 1 /\ clock \in Nat
  BY DEF Written, Tick, FolderInv, FolderTyped
<1>2. /\ file' \in [Gallery -> [Entry -> Nat]] /\ mtime' \in [Gallery -> [Entry -> Nat]]
      /\ file'[g][f] = clock + 1 /\ mtime'[g][f] = m
      /\ \A h \in Gallery, e \in Entry : <<h, e>> # <<g, f>> =>
           file'[h][e] = file[h][e] /\ mtime'[h][e] = mtime[h][e]
  BY <1>1 DEF FolderInv, FolderTyped
<1>3. FolderTyped' /\ NamesApart'
  BY <1>1, <1>2 DEF FolderInv, FolderTyped, NamesApart
<1>4. Clocked'
  <2>1. ASSUME NEW h \in Gallery, NEW e \in Entry
        PROVE  file'[h][e] <= clock' /\ mtime'[h][e] <= clock'
    <3>1. file[h][e] <= clock /\ mtime[h][e] <= clock /\ file[h][e] \in Nat /\ mtime[h][e] \in Nat
      BY DEF FolderInv, Clocked, FolderTyped
    <3>2. QED
      BY <1>1, <1>2, <3>1
  <2>2. QED
    BY <2>1 DEF Clocked
<1>5. HalfIsFresh'
  <2>1. SUFFICES ASSUME NEW h \in Gallery, NEW p \in Page, <<h, p>> \in half'
                 PROVE  file'[h][p] # 0 /\ mtime'[h][p] > mtime'[h][Info]
    BY DEF HalfIsFresh
  <2>2. CASE <<h, p>> \in half /\ <<h, p>> # <<g, f>> /\ <<h, Info>> # <<g, f>>
    BY <1>2, <2>2, EntriesAre DEF FolderInv, HalfIsFresh
  <2>3. CASE h = g /\ p = f /\ m = clock + 1
    <3>1. mtime'[h][Info] = mtime[h][Info] /\ mtime[h][Info] <= clock /\ mtime[h][Info] \in Nat
      BY <1>2, <2>3, EntriesAre DEF FolderInv, Clocked, FolderTyped
    <3>2. QED
      BY <1>1, <1>2, <2>3, <3>1
  <2>4. QED
    BY <2>1, <2>2, <2>3
<1>6. FilesChange
  BY <1>1, <1>2 DEF FilesChange
<1>7. QED
  BY <1>3, <1>4, <1>5, <1>6 DEF FolderInv

LEMMA MoveKeeps ==
    ASSUME FolderInv, NEW c \in Folder, NEW d \in Folder \cup {Root, None}, NEW n \in Name,
           Move(c, d, n)
    PROVE  FolderInv' /\ FilesChange
<1>1. /\ parent' = [parent EXCEPT ![c] = d] /\ label' = [label EXCEPT ![c] = n]
      /\ clock' = clock + 1 /\ clock \in Nat
      /\ UNCHANGED <<top, file, mtime, half, stamp>>
      /\ d \in Collection \cup {Root, None} /\ (d # None => n \notin Children(d))
  BY DEF Move, Tick, FolderInv, FolderTyped
<1>2. FolderTyped' /\ Clocked' /\ HalfIsFresh'
  <2>1. /\ c \in Gallery => d \in Collection \cup {None}
        /\ c \in Collection => d \in {Root, None}
    BY FolderAssumption DEF Move
  <2>2. \A x \in Folder : parent'[x] = IF x = c THEN d ELSE parent[x]
    BY <1>1 DEF FolderInv, FolderTyped
  <2>3. /\ \A x \in Collection : parent'[x] \in {Root, None}
        /\ \A x \in Gallery : parent'[x] \in Collection \cup {None}
    BY <2>1, <2>2 DEF Folder, FolderInv, FolderTyped
  <2>4. QED
    BY <1>1, <2>3 DEF FolderInv, FolderTyped, Clocked, HalfIsFresh
<1>3. NamesApart'
  <2>1. \A x \in Folder : parent[x] = d /\ label[x] = n => d = None
    BY <1>1 DEF Children
  <2>2. /\ parent'[c] = d /\ label'[c] = n
        /\ \A x \in Folder : x # c => parent'[x] = parent[x] /\ label'[x] = label[x]
    BY <1>1 DEF FolderInv, FolderTyped
  <2>3. QED
    BY <2>1, <2>2 DEF FolderInv, NamesApart
<1>4. FilesChange
  BY <1>1 DEF FilesChange
<1>5. QED
  BY <1>2, <1>3, <1>4 DEF FolderInv

LEMMA ChangeKeeps ==
    ASSUME FolderInv, ChangeFolder
    PROVE  FolderInv' /\ FilesChange
<1> USE EntriesAre
<1>1. clock \in Nat /\ clock + 1 \in Nat /\ clock + 1 <= clock + 1
  BY DEF FolderInv, FolderTyped
<1>2. \A g \in Gallery, f \in Entry :
        mtime[g][f] \in Nat /\ mtime[g][f] <= clock + 1
  BY <1>1 DEF FolderInv, FolderTyped, Clocked
<1>3. half \subseteq Gallery \X Page /\ stamp \in [Gallery -> Nat] /\ Edited \subseteq Gallery
  BY FolderAssumption DEF FolderInv, FolderTyped
<1>4. \A g \in Gallery, f \in Entry : Stamped(g, f) => stamp' \in [Gallery -> Nat]
  BY <1>1, <1>3 DEF Stamped
<1>5. ASSUME NEW g \in Gallery, NEW p \in Page, BeginPage(g, p)
      PROVE  FolderInv' /\ FilesChange
  <2>1. Tick /\ Written(g, p, clock + 1) /\ half' = half \cup {<<g, p>>}
    BY <1>5 DEF BeginPage
  <2>2. stamp' \in [Gallery -> Nat] /\ half' \subseteq Gallery \X Page
    BY <1>3, <1>4, <1>5, <2>1 DEF BeginPage
  <2>3. \A h \in Gallery, q \in Page : <<h, q>> \in half' =>
             \/ <<h, q>> \in half /\ <<h, q>> # <<g, p>> /\ <<h, Info>> # <<g, p>>
             \/ h = g /\ q = p /\ clock + 1 = clock + 1
    BY <2>1
  <2>4. QED
    BY <1>1, <2>1, <2>2, <2>3, WrittenKeeps
<1>6. ASSUME NEW g \in Gallery, NEW p \in Page, EndPage(g, p)
      PROVE  FolderInv' /\ FilesChange
  <2>1. Tick /\ Written(g, p, clock + 1) /\ half' = half \ {<<g, p>>} /\ UNCHANGED stamp
    BY <1>6 DEF EndPage
  <2>2. \A h \in Gallery, q \in Page : <<h, q>> \in half' =>
             \/ <<h, q>> \in half /\ <<h, q>> # <<g, p>> /\ <<h, Info>> # <<g, p>>
             \/ h = g /\ q = p /\ clock + 1 = clock + 1
    BY <2>1
  <2>3. stamp' \in [Gallery -> Nat] /\ half' \subseteq Gallery \X Page
    BY <1>3, <2>1
  <2>4. QED
    BY <1>1, <2>1, <2>2, <2>3, WrittenKeeps
<1>7. ASSUME NEW g \in Gallery, WriteMarker(g)
      PROVE  FolderInv' /\ FilesChange
  <2>1. /\ Tick /\ Written(g, Info, clock + 1) /\ half' = half /\ stamp' \in [Gallery -> Nat]
        /\ \A p \in Page : <<g, p>> \notin half
    BY <1>4, <1>7 DEF WriteMarker
  <2>2. \A h \in Gallery, q \in Page : <<h, q>> \in half' =>
             \/ <<h, q>> \in half /\ <<h, q>> # <<g, Info>> /\ <<h, Info>> # <<g, Info>>
             \/ h = g /\ q = Info /\ clock + 1 = clock + 1
    BY <2>1
  <2>3. half' \subseteq Gallery \X Page
    BY <1>3, <2>1
  <2>4. QED
    BY <1>1, <2>1, <2>2, <2>3, WrittenKeeps
<1>8. ASSUME NEW g \in Gallery, NEW f \in Entry, EditFile(g, f)
      PROVE  FolderInv' /\ FilesChange
  <2>1. PICK m \in {mtime[g][f], clock + 1} : Written(g, f, m)
    BY <1>8 DEF EditFile
  <2>2. Tick /\ f # Info /\ <<g, f>> \notin half /\ half' = half /\ stamp' = stamp
    BY <1>8 DEF EditFile
  <2>3. m \in Nat /\ m <= clock + 1
    BY <1>1, <1>2, <2>1
  <2>4. \A h \in Gallery, q \in Page : <<h, q>> \in half' =>
             \/ <<h, q>> \in half /\ <<h, q>> # <<g, f>> /\ <<h, Info>> # <<g, f>>
             \/ h = g /\ q = f /\ m = clock + 1
    BY <2>2
  <2>5. stamp' \in [Gallery -> Nat] /\ half' \subseteq Gallery \X Page
    BY <1>3, <2>2
  <2>6. QED
    BY <2>1, <2>2, <2>3, <2>4, <2>5, WrittenKeeps
<1>9. ASSUME NEW g \in Gallery, NEW f \in Entry, ReplaceFile(g, f)
      PROVE  FolderInv' /\ FilesChange
  <2>1. PICK m \in {mtime[g][f], clock + 1} : Written(g, f, m)
    BY <1>9 DEF ReplaceFile
  <2>2. Tick /\ f # Info /\ half' = half \ {<<g, f>>} /\ stamp' = [stamp EXCEPT ![g] = clock + 1]
    BY <1>9 DEF ReplaceFile
  <2>3. m \in Nat /\ m <= clock + 1
    BY <1>1, <1>2, <2>1
  <2>4. \A h \in Gallery, q \in Page : <<h, q>> \in half' =>
             \/ <<h, q>> \in half /\ <<h, q>> # <<g, f>> /\ <<h, Info>> # <<g, f>>
             \/ h = g /\ q = f /\ m = clock + 1
    BY <2>2
  <2>5. stamp' \in [Gallery -> Nat] /\ half' \subseteq Gallery \X Page
    BY <1>1, <1>3, <2>2
  <2>6. QED
    BY <2>1, <2>2, <2>3, <2>4, <2>5, WrittenKeeps
<1>10. ASSUME NEW g \in Gallery, NEW f \in Entry, DropEntry(g, f)
       PROVE  FolderInv' /\ FilesChange
  <2>1. /\ file' = [file EXCEPT ![g][f] = 0] /\ stamp' = [stamp EXCEPT ![g] = clock + 1]
        /\ half' = half \ {<<g, f>>} /\ clock' = clock + 1
        /\ UNCHANGED <<top, parent, label, mtime>>
    BY <1>10 DEF DropEntry, Tick
  <2>2. /\ file' \in [Gallery -> [Entry -> Nat]] /\ file'[g][f] = 0
        /\ \A h \in Gallery, e \in Entry : <<h, e>> # <<g, f>> => file'[h][e] = file[h][e]
    BY <2>1 DEF FolderInv, FolderTyped
  <2>3. FolderTyped' /\ NamesApart'
    BY <1>1, <2>1, <2>2 DEF FolderInv, FolderTyped, NamesApart
  <2>4. Clocked'
    <3>1. \A h \in Gallery, e \in Entry :
            /\ file[h][e] <= clock /\ mtime[h][e] <= clock
            /\ file[h][e] \in Nat /\ mtime[h][e] \in Nat
      BY DEF FolderInv, Clocked, FolderTyped
    <3>2. QED
      BY <1>1, <2>1, <2>2, <3>1 DEF Clocked
  <2>5. HalfIsFresh'
    BY <2>1, <2>2 DEF FolderInv, HalfIsFresh
  <2>6. FilesChange
    BY <2>1, <2>2 DEF FilesChange
  <2>7. QED
    BY <2>3, <2>4, <2>5, <2>6 DEF FolderInv
<1>11. CASE Remount
  BY <1>1, <1>11 DEF Remount, Tick, FolderInv, FolderTyped, NamesApart, Clocked, HalfIsFresh,
     FilesChange
<1>12. QED
  BY <1>3, <1>5, <1>6, <1>7, <1>8, <1>9, <1>10, <1>11, MoveKeeps DEF ChangeFolder

-----------------------------------------------------------------------------
(* Names: what a path leads to.                                            *)

Directory == Folder \cup {Root, Elsewhere}

ChildrenAre ==
    /\ \A d \in Directory, n \in Name :
         /\ Child(d, n) \in Folder \cup {None}
         /\ Child(d, n) # None => parent[Child(d, n)] = d /\ label[Child(d, n)] = n
         /\ \A c \in Folder : parent[c] = d /\ label[c] = n => Child(d, n) = c
    /\ \A n \in Name : Child(Root, n) \in Collection \cup {None} /\ Child(Elsewhere, n) = None
    /\ \A c \in Collection, n \in Name : Child(c, n) \in Gallery \cup {None}
    /\ \A g \in Gallery : Children(g) = {}
    /\ \A d \in Directory : Children(d) \subseteq Name

PathsAre ==
    /\ \A d \in Directory : Below(d, <<>>) = d
    /\ \A d \in Directory, m \in Name : Below(d, <<m>>) = Child(d, m)
    /\ \A d \in Directory, m, n \in Name :
         Below(d, <<m, n>>) = IF Child(d, m) = None THEN None ELSE Child(Child(d, m), n)

LEMMA ChildrenKnown == FolderInv => ChildrenAre
<1> SUFFICES ASSUME FolderInv
             PROVE  ChildrenAre
  OBVIOUS
<1>1. \A d \in Directory : d # None
  BY FolderAssumption DEF Directory, Folder
<1>2. ASSUME NEW d \in Directory, NEW n \in Name
      PROVE  /\ Child(d, n) \in Folder \cup {None}
             /\ Child(d, n) # None => parent[Child(d, n)] = d /\ label[Child(d, n)] = n
             /\ \A c \in Folder : parent[c] = d /\ label[c] = n => Child(d, n) = c
  <2>1. \A c \in Folder : parent[c] = d /\ label[c] = n => n \in Children(d)
    BY DEF Children
  <2>2. CASE n \in Children(d)
    <3>1. \E c \in Folder : parent[c] = d /\ label[c] = n
      BY <2>2 DEF Children
    <3>2. Child(d, n) \in Folder /\ parent[Child(d, n)] = d /\ label[Child(d, n)] = n
      BY <2>2, <3>1 DEF Child
    <3>3. QED
      BY <1>1, <3>2 DEF FolderInv, NamesApart
  <2>3. CASE n \notin Children(d)
    BY <2>1, <2>3 DEF Child
  <2>4. QED
    BY <2>2, <2>3
<1>3. \A d \in Directory, n \in Name :
        Child(d, n) # None => Child(d, n) \in Folder /\ parent[Child(d, n)] = d
  BY <1>2
<1>4. /\ \A c \in Folder : parent[c] # Elsewhere
      /\ \A c \in Folder : parent[c] = Root => c \in Collection
      /\ \A c \in Folder : parent[c] \in Collection => c \in Gallery
      /\ \A c \in Folder : parent[c] \notin Gallery
  BY FolderAssumption DEF FolderInv, FolderTyped, Folder
<1>5. \A n \in Name : Child(Root, n) \in Collection \cup {None} /\ Child(Elsewhere, n) = None
  BY <1>3, <1>4 DEF Directory
<1>6. \A c \in Collection, n \in Name : Child(c, n) \in Gallery \cup {None}
  BY <1>3, <1>4 DEF Directory, Folder
<1>7. \A g \in Gallery : Children(g) = {}
  BY <1>4 DEF Children
<1>8. \A d \in Directory : Children(d) \subseteq Name
  BY DEF Children, FolderInv, FolderTyped
<1>9. QED
  BY <1>2, <1>5, <1>6, <1>7, <1>8 DEF ChildrenAre

LEMMA PathsKnown == FolderInv => PathsAre
<1> SUFFICES ASSUME FolderInv
             PROVE  PathsAre
  OBVIOUS
<1>1. \A d \in Directory : d # None
  BY FolderAssumption DEF Directory, Folder
<1>2. ASSUME NEW d \in Directory
      PROVE  Below(d, <<>>) = d
  <2> DEFINE At(at) == at = [k \in 0..Len(<<>>) |->
        IF k = 0 THEN d ELSE IF at[k - 1] = None THEN None ELSE Child(at[k - 1], <<>>[k])]
  <2>1. At([k \in 0..0 |-> d])
    OBVIOUS
  <2>2. At(CHOOSE at : At(at))
    BY <2>1
  <2>3. QED
    BY <2>2 DEF Below
<1>3. ASSUME NEW d \in Directory, NEW m \in Name
      PROVE  Below(d, <<m>>) = Child(d, m)
  <2> DEFINE path == <<m>>
  <2> DEFINE At(at) == at = [k \in 0..Len(path) |->
        IF k = 0 THEN d ELSE IF at[k - 1] = None THEN None ELSE Child(at[k - 1], path[k])]
  <2>1. At([k \in 0..1 |-> IF k = 0 THEN d ELSE Child(d, m)])
    BY <1>1
  <2>2. PICK at : at = (CHOOSE x : At(x))
    OBVIOUS
  <2>3. At(at)
    BY <2>1, <2>2
  <2>4. at[0] = d /\ at[1] = Child(d, m) /\ Len(path) = 1
    BY <1>1, <2>3
  <2>5. QED
    BY <2>2, <2>4 DEF Below
<1>4. ASSUME NEW d \in Directory, NEW m \in Name, NEW n \in Name
      PROVE  Below(d, <<m, n>>) = IF Child(d, m) = None THEN None ELSE Child(Child(d, m), n)
  <2> DEFINE path == <<m, n>>
  <2> DEFINE last == IF Child(d, m) = None THEN None ELSE Child(Child(d, m), n)
  <2> DEFINE At(at) == at = [k \in 0..Len(path) |->
        IF k = 0 THEN d ELSE IF at[k - 1] = None THEN None ELSE Child(at[k - 1], path[k])]
  <2>1. At([k \in 0..2 |-> IF k = 0 THEN d ELSE IF k = 1 THEN Child(d, m) ELSE last])
    BY <1>1
  <2>2. PICK at : at = (CHOOSE x : At(x))
    OBVIOUS
  <2>3. At(at)
    BY <2>1, <2>2
  <2>4. at[0] = d /\ at[1] = Child(d, m) /\ at[2] = last /\ Len(path) = 2
    BY <1>1, <2>3
  <2>5. QED
    BY <2>2, <2>4 DEF Below
<1>5. QED
  BY <1>2, <1>3, <1>4 DEF PathsAre

-----------------------------------------------------------------------------
(* The inventory.  Whatever the walk has yet to visit, each steady gallery *)
(* is in the index already or a row is ahead through which it is reached:  *)
(* its own, its collection's, or the root's.                               *)

Paths == {<<>>} \cup {<<m>> : m \in Name} \cup Locator
Walking == {"visit", "marker", "scandir", "entries"}
Probing == {"lookup", "binding", "answered"}

RowFits(r) ==
    \/ r.path = <<>> /\ r.dir = rootStat
    \/ (\E m \in Name : r.path = <<m>>) /\ r.dir \in Collection
    \/ r.path \in Locator /\ r.dir \in Gallery

WalkTyped ==
    /\ phase \in Walking \cup Probing \cup {"start", "ready", "listed"}
    /\ rootStat \in {Root, Elsewhere, None} /\ (phase # "start" => rootStat # None)
    /\ queue \in Seq([path : Paths, dir : Directory])
    /\ \A i \in 1..Len(queue) : RowFits(queue[i])
    /\ listing \subseteq Name
    /\ locators \in [Locator -> Gallery \cup {None}]
    /\ phase \in {"marker", "scandir", "entries"} => queue # <<>>
    /\ phase \notin Walking => queue = <<>>
    /\ phase = "entries" /\ queue[1].path \in Locator => listing = {}
    /\ steady \subseteq [locator : Locator, dir : Gallery]
    /\ phase = "start" => steady = {}

Ahead(s) ==
    \/ locators[s.locator] = s.dir
    \/ \E i \in 1..Len(queue) :
         \/ queue[i] = Row(s.locator, s.dir) /\ (i = 1 => phase \in {"visit", "marker"})
         \/ /\ queue[i] = Row(<<s.locator[1]>>, parent[s.dir])
            /\ i = 1 /\ phase = "entries" => s.locator[2] \in listing
         \/ /\ queue[i] = Row(<<>>, Root)
            /\ i = 1 /\ phase = "entries" => s.locator[1] \in listing

SteadyKept ==
    \A s \in steady : Complete(s.locator) /\ Resolve(s.locator) = s.dir /\ rootStat = Root

SteadyAhead ==
    /\ phase \in Walking \cup {"ready"} => \A s \in steady : Ahead(s)
    /\ phase = "marker" =>
         \A s \in steady : queue[1].path = s.locator => queue[1].dir = s.dir

WalkInv == WalkTyped /\ SteadyKept /\ SteadyAhead

(* The probe.  A component that was not found makes its locator gone,      *)
(* unless the ancestor it was looked up in is not the one the name leads   *)
(* to; once it is not, it is not again before the name has led nowhere.    *)

ProbeTyped ==
    /\ opened \in Seq(Directory) /\ checked \in 0..Len(opened) /\ gone \in BOOLEAN
    /\ target \in Locator \cup {None} /\ (phase = "lookup" => checked = 0)
    /\ phase \in Probing =>
         /\ target \in Locator /\ Len(opened) \in 1..3
         /\ opened[1] = rootStat
         /\ Len(opened) >= 2 => opened[2] \in Collection
         /\ Len(opened) = 3 => opened[3] \in Gallery
    /\ phase \in {"binding", "answered"} =>
         \/ answer = TRUE /\ Len(opened) = 3
         \/ answer = FALSE /\ Len(opened) \in 1..2

AbsenceKept ==
    phase \in {"binding", "answered"} /\ answer = FALSE =>
        \/ gone
        \/ /\ phase = "binding" /\ Len(opened) = 2 /\ checked < 2
           /\ Child(rootStat, target[1]) \notin {None, opened[2]}

ProbeInv == ProbeTyped /\ AbsenceKept

DiscoveryInv == FolderInv /\ WalkInv /\ ProbeInv

LEMMA FolderStays ==
    ASSUME UNCHANGED folder
    PROVE  /\ \A d, n : Child(d, n)' = Child(d, n)
           /\ \A d, p : Below(d, p)' = Below(d, p)
           /\ \A p : Resolve(p)' = Resolve(p)
           /\ \A p, f : Stat(p, f)' = Stat(p, f)
           /\ \A p : Complete(p)' = Complete(p)
           /\ FolderInv => FolderInv'
<1>1. \A d, n : Child(d, n)' = Child(d, n)
  BY DEF folder, Child, Children
<1>2. \A d, p : Below(d, p)' = Below(d, p)
  BY <1>1 DEF Below
<1>3. \A p : Resolve(p)' = Resolve(p)
  BY <1>2 DEF folder, Resolve
<1>4. \A p, f : Stat(p, f)' = Stat(p, f)
  BY <1>3 DEF folder, Stat, StatOf
<1>5. \A p : Complete(p)' = Complete(p)
  BY <1>3, <1>4 DEF Complete
<1>6. FolderInv => FolderInv'
  BY DEF folder, FolderInv, FolderTyped, NamesApart, Clocked, HalfIsFresh
<1>7. QED
  BY <1>1, <1>2, <1>3, <1>4, <1>5, <1>6

\* At most one directory moves, and takes no name that is in use.
LEMMA OneMoves ==
    ASSUME FolderInv, ChangeFolder
    PROVE  \/ UNCHANGED <<parent, label>>
           \/ \E c \in Folder :
                /\ \A x \in Folder : x # c => parent'[x] = parent[x] /\ label'[x] = label[x]
                /\ \/ parent'[c] = None
                   \/ \A x \in Folder : parent[x] = parent'[c] => label[x] # label'[c]
<1>1. ASSUME NEW c \in Folder, NEW d \in Folder \cup {Root, None}, NEW n \in Name, Move(c, d, n)
      PROVE  /\ \A x \in Folder : x # c => parent'[x] = parent[x] /\ label'[x] = label[x]
             /\ \/ parent'[c] = None
                \/ \A x \in Folder : parent[x] = parent'[c] => label[x] # label'[c]
  BY <1>1 DEF Move, Children, FolderInv, FolderTyped
<1>2. CASE \E c \in Folder, d \in Folder \cup {Root, None}, n \in Name : Move(c, d, n)
  BY <1>1, <1>2
<1>3. CASE UNCHANGED <<parent, label>>
  BY <1>3
<1>4. QED
  BY <1>2, <1>3 DEF ChangeFolder, BeginPage, EndPage, WriteMarker, EditFile, ReplaceFile,
     DropEntry, Remount, Written

\* Where a steady gallery is.
SteadyPlace(s) ==
    /\ s.locator[1] \in Name /\ s.locator[2] \in Name
    /\ s.locator = <<s.locator[1], s.locator[2]>>
    /\ s.dir \in Gallery /\ top = Root
    /\ parent[s.dir] \in Collection /\ label[s.dir] = s.locator[2]
    /\ parent[parent[s.dir]] = Root /\ label[parent[s.dir]] = s.locator[1]
    /\ Resolve(<<>>) = Root /\ Resolve(<<s.locator[1]>>) = parent[s.dir]

LEMMA PlaceOfSteady ==
    FolderInv =>
        \A s \in [locator : Locator, dir : Gallery] :
            Complete(s.locator) /\ Resolve(s.locator) = s.dir => SteadyPlace(s)
<1> SUFFICES ASSUME FolderInv, NEW s \in [locator : Locator, dir : Gallery],
                    Resolve(s.locator) = s.dir
             PROVE  SteadyPlace(s)
  OBVIOUS
<1>0. ChildrenAre /\ PathsAre
  BY ChildrenKnown, PathsKnown
<1>1. PICK m \in Name, n \in Name : s.locator = <<m, n>>
  BY DEF Locator
<1>2. s.locator[1] = m /\ s.locator[2] = n /\ s.dir \in Gallery /\ s.dir # None
  BY <1>1, FolderAssumption DEF Folder
<1>3. top \in Directory /\ Root \in Directory /\ top \in {Root, Elsewhere}
  BY DEF Directory, FolderInv, FolderTyped
<1>4. Child(top, m) # None /\ Child(Child(top, m), n) = s.dir
  BY <1>0, <1>1, <1>2, <1>3 DEF PathsAre, Resolve
<1>5. top = Root
  BY <1>0, <1>3, <1>4 DEF ChildrenAre
<1>6. PICK c \in Collection : c = Child(top, m)
  BY <1>0, <1>4, <1>5 DEF ChildrenAre
<1>7. c \in Directory /\ parent[c] = Root /\ label[c] = m
  BY <1>0, <1>3, <1>4, <1>5, <1>6 DEF ChildrenAre, Directory, Folder
<1>8. parent[s.dir] = c /\ label[s.dir] = n
  BY <1>0, <1>2, <1>4, <1>6, <1>7 DEF ChildrenAre
<1>9. Resolve(<<>>) = Root /\ Resolve(<<m>>) = c
  BY <1>0, <1>3, <1>5, <1>6 DEF PathsAre, Resolve
<1>10. QED
  BY <1>1, <1>2, <1>5, <1>6, <1>7, <1>8, <1>9 DEF SteadyPlace

\* A gallery that still is where a locator leads has not changed its collection.
LEMMA CollectionStays ==
    ASSUME FolderInv, ChangeFolder, NEW s, SteadyPlace(s), SteadyPlace(s)'
    PROVE  parent'[s.dir] = parent[s.dir]
<1>1. FolderInv'
  BY ChangeKeeps
<1>2. PICK a \in Collection : a = parent[s.dir]
  BY DEF SteadyPlace
<1>3. PICK b \in Collection : b = parent'[s.dir]
  BY DEF SteadyPlace
<1>4. /\ s.dir \in Gallery /\ a \in Folder /\ b \in Folder /\ s.dir \in Folder
      /\ a # s.dir /\ b # s.dir
  BY <1>2, <1>3, FolderAssumption DEF SteadyPlace, Folder
<1>5. /\ parent[a] = Root /\ label[a] = s.locator[1]
      /\ parent'[b] = Root /\ label'[b] = s.locator[1]
  BY <1>2, <1>3 DEF SteadyPlace
<1>6. CASE UNCHANGED <<parent, label>>
  BY <1>6
<1>7. ASSUME NEW c \in Folder,
             \A x \in Folder : x # c => parent'[x] = parent[x] /\ label'[x] = label[x]
      PROVE  parent'[s.dir] = parent[s.dir]
  <2>1. CASE c # s.dir
    BY <1>4, <1>7, <2>1
  <2>2. CASE c = s.dir
    <3>1. parent[b] = Root /\ label[b] = s.locator[1]
      BY <1>4, <1>5, <1>7, <2>2
    <3>2. Root # None
      BY FolderAssumption
    <3>3. a = b
      BY <1>4, <1>5, <3>1, <3>2 DEF FolderInv, NamesApart
    <3>4. QED
      BY <1>2, <1>3, <3>3
  <2>3. QED
    BY <2>1, <2>2
<1>8. QED
  BY <1>6, <1>7, OneMoves

\* An inventory whose rows are all there keeps its steady galleries.
LEMMA SteadyStay ==
    ASSUME SteadyKept, UNCHANGED folder, rootStat' = rootStat, steady' = steady
    PROVE  SteadyKept'
BY FolderStays DEF SteadyKept

\* The row under way is taken off, once none of the galleries needs it.
LEMMA RowDone ==
    ASSUME FolderInv, WalkInv, UNCHANGED folder, phase \in Walking, queue # <<>>,
           queue' = Tail(queue), phase' = "visit", rootStat' = rootStat, steady' = steady,
           listing' \subseteq Name, locators' \in [Locator -> Gallery \cup {None}],
           \A s \in steady :
             /\ locators[s.locator] = s.dir => locators'[s.locator] = s.dir
             /\ \/ locators'[s.locator] = s.dir
                \/ /\ queue[1] = Row(s.locator, s.dir) => phase \notin {"visit", "marker"}
                   /\ queue[1] = Row(<<s.locator[1]>>, parent[s.dir]) =>
                        phase = "entries" /\ s.locator[2] \notin listing
                   /\ queue[1] = Row(<<>>, Root) =>
                        phase = "entries" /\ s.locator[1] \notin listing
    PROVE  WalkInv'
<1> DEFINE R == [path : Paths, dir : Directory]
<1>1. queue \in Seq(R)
  BY DEF WalkInv, WalkTyped
<1>2. PICK q \in Seq(R) : q = queue
  BY <1>1
<1>3. PICK t \in Seq(R) : t = Tail(q)
  BY <1>2, HeadTailProperties
<1>4. Len(t) = Len(q) - 1 /\ (\A i \in 1..Len(t) : t[i] = q[i + 1]) /\ Len(q) \in Nat /\ Len(t) \in Nat
  BY <1>2, <1>3, HeadTailProperties, LenProperties
<1>5. queue = q /\ queue' = t
  BY <1>2, <1>3
<1> HIDE DEF R
<1>6. \A i \in 1..Len(t) : RowFits(queue[i])'
  <2>1. \A i \in 1..Len(t) : i + 1 \in 1..Len(q)
    BY <1>4
  <2>2. \A i \in 1..Len(q) : RowFits(q[i])
    BY <1>5 DEF WalkInv, WalkTyped
  <2>3. QED
    BY <1>4, <1>5, <2>1, <2>2 DEF RowFits
<1>7. WalkTyped'
  <2>1. queue' \in Seq([path : Paths, dir : Directory])
    BY <1>5 DEF R
  <2>2. QED
    BY <1>5, <1>6, <2>1 DEF WalkInv, WalkTyped, Walking
<1>8. SteadyAhead'
  <2>1. SUFFICES ASSUME NEW s \in steady
                 PROVE  Ahead(s)'
    BY DEF SteadyAhead
  <2>2. CASE locators'[s.locator] = s.dir
    BY <2>2 DEF Ahead
  <2>3. CASE locators'[s.locator] # s.dir
    <3>1. Ahead(s) /\ locators[s.locator] # s.dir
      BY <2>3 DEF WalkInv, SteadyAhead
    <3>2. PICK i \in 1..Len(q) :
            \/ q[i] = Row(s.locator, s.dir) /\ (i = 1 => phase \in {"visit", "marker"})
            \/ /\ q[i] = Row(<<s.locator[1]>>, parent[s.dir])
               /\ i = 1 /\ phase = "entries" => s.locator[2] \in listing
            \/ /\ q[i] = Row(<<>>, Root)
               /\ i = 1 /\ phase = "entries" => s.locator[1] \in listing
      BY <1>5, <3>1 DEF Ahead
    <3>3. i # 1
      BY <1>5, <2>3, <3>2
    <3>4. i - 1 \in 1..Len(t) /\ t[i - 1] = q[i]
      BY <1>4, <3>2, <3>3
    <3>5. PICK j \in 1..Len(t) : t[j] = q[i]
      BY <3>4
    <3>6. \/ t[j] = Row(s.locator, s.dir)
          \/ t[j] = Row(<<s.locator[1]>>, parent[s.dir])
          \/ t[j] = Row(<<>>, Root)
      BY <3>2, <3>5
    <3>7. parent' = parent
      BY DEF folder
    <3>8. QED
      BY <1>5, <3>6, <3>7 DEF Ahead, Row
  <2>4. QED
    BY <2>2, <2>3
<1>9. QED
  BY <1>7, <1>8, SteadyStay DEF WalkInv

\* The row under way stays, in the same directory, and its phase goes on.
LEMMA RowStays ==
    ASSUME FolderInv, WalkInv, UNCHANGED folder, phase \in Walking, queue # <<>>,
           queue' = queue, phase' \in Walking \ {"visit"}, rootStat' = rootStat,
           steady' = steady, locators' = locators, listing' \subseteq Name,
           phase' = "entries" /\ queue[1].path \in Locator => listing' = {},
           \A s \in steady :
             /\ queue[1] = Row(s.locator, s.dir) /\ phase \in {"visit", "marker"} =>
                  phase' = "marker"
             /\ queue[1] = Row(<<s.locator[1]>>, parent[s.dir]) /\ phase' = "entries" =>
                  s.locator[2] \in listing'
             /\ queue[1] = Row(<<>>, Root) /\ phase' = "entries" => s.locator[1] \in listing'
             /\ phase' = "marker" /\ queue[1].path = s.locator => queue[1].dir = s.dir
    PROVE  WalkInv'
<1>1. WalkTyped'
  BY DEF WalkInv, WalkTyped, Walking, Probing, RowFits
<1>2. SteadyAhead'
  <2>1. ASSUME NEW s \in steady
        PROVE  Ahead(s)'
    <3>0. parent' = parent
      BY DEF folder
    <3>1. Ahead(s)
      BY DEF WalkInv, SteadyAhead
    <3>2. CASE locators[s.locator] = s.dir
      BY <3>2 DEF Ahead
    <3>3. CASE locators[s.locator] # s.dir
      <4>1. PICK i \in 1..Len(queue) :
            \/ queue[i] = Row(s.locator, s.dir) /\ (i = 1 => phase \in {"visit", "marker"})
            \/ /\ queue[i] = Row(<<s.locator[1]>>, parent[s.dir])
               /\ i = 1 /\ phase = "entries" => s.locator[2] \in listing
            \/ /\ queue[i] = Row(<<>>, Root)
               /\ i = 1 /\ phase = "entries" => s.locator[1] \in listing
        BY <3>1, <3>3 DEF Ahead
      <4>2. \/ queue[i] = Row(s.locator, s.dir) /\ (i = 1 => phase' \in {"visit", "marker"})
            \/ /\ queue[i] = Row(<<s.locator[1]>>, parent[s.dir])
               /\ i = 1 /\ phase' = "entries" => s.locator[2] \in listing'
            \/ /\ queue[i] = Row(<<>>, Root)
               /\ i = 1 /\ phase' = "entries" => s.locator[1] \in listing'
        BY <4>1
      <4>3. QED
        BY <3>0, <4>2 DEF Ahead, Row
    <3>4. QED
      BY <3>2, <3>3
  <2>2. QED
    BY <2>1 DEF SteadyAhead
<1>3. QED
  BY <1>1, <1>2, SteadyStay DEF WalkInv

LEMMA SteadyHere ==
    FolderInv /\ WalkInv =>
        \A s \in steady : SteadyPlace(s) /\ Resolve(s.locator) = s.dir /\ Complete(s.locator)
BY PlaceOfSteady DEF WalkInv, WalkTyped, SteadyKept

LEMMA HeadRow ==
    ASSUME WalkInv, queue # <<>>
    PROVE  /\ Head(queue) = queue[1] /\ RowFits(queue[1]) /\ queue[1].dir # None
           /\ queue[1] \in [path : Paths, dir : Directory]
<1>1. queue \in Seq([path : Paths, dir : Directory]) /\ \A i \in 1..Len(queue) : RowFits(queue[i])
  BY DEF WalkInv, WalkTyped
<1>2. 1 \in 1..Len(queue)
  BY <1>1, EmptySeq, LenProperties
<1>3. queue[1] \in [path : Paths, dir : Directory]
  BY <1>1, <1>2, ElementOfSeq
<1>4. QED
  BY <1>1, <1>2, <1>3, FolderAssumption DEF Directory, Folder

\* What a row under way leads to, by the length of its path.
LEMMA RowLeads ==
    ASSUME FolderInv, WalkInv, queue # <<>>, phase \in Walking
    PROVE  /\ queue[1].path = <<>> => Resolve(queue[1].path) \in {Root, Elsewhere}
           /\ (\E m \in Name : queue[1].path = <<m>>) =>
                Resolve(queue[1].path) \in Collection \cup {None}
           /\ queue[1].path \in Locator => Resolve(queue[1].path) \in Gallery \cup {None}
           /\ Stat(queue[1].path, Info) # None => queue[1].path \in Locator
           /\ Resolve(queue[1].path) \in Directory \cup {None}
<1>0. ChildrenAre /\ PathsAre
  BY ChildrenKnown, PathsKnown
<1>1. top \in Directory /\ top \in {Root, Elsewhere}
  BY DEF Directory, FolderInv, FolderTyped
<1>2. queue[1].path = <<>> => Resolve(queue[1].path) \in {Root, Elsewhere}
  BY <1>0, <1>1 DEF PathsAre, Resolve
<1>3. ASSUME NEW m \in Name
      PROVE  Resolve(<<m>>) \in Collection \cup {None}
  BY <1>0, <1>1 DEF PathsAre, ChildrenAre, Resolve
<1>4. ASSUME NEW m \in Name, NEW n \in Name
      PROVE  Resolve(<<m, n>>) \in Gallery \cup {None}
  BY <1>0, <1>1 DEF PathsAre, ChildrenAre, Resolve
<1>5. queue[1].path \in Locator => Resolve(queue[1].path) \in Gallery \cup {None}
  BY <1>4 DEF Locator
<1>6. queue[1].path \in Paths
  BY HeadRow
<1>7. Stat(queue[1].path, Info) # None => queue[1].path \in Locator
  BY <1>2, <1>3, <1>6, FolderAssumption DEF Paths, Stat, Folder
<1>8. QED
  BY <1>2, <1>3, <1>5, <1>6, <1>7 DEF Paths, Directory, Folder

LEMMA VisitKeeps ==
    ASSUME FolderInv, WalkInv, Visit
    PROVE  WalkInv'
<1>1. /\ phase = "visit" /\ queue # <<>>
      /\ UNCHANGED <<folder, rootStat, listing, locators, probe, steady>>
      /\ listing \subseteq Name /\ locators \in [Locator -> Gallery \cup {None}]
  BY DEF Visit, WalkInv, WalkTyped
<1>2. Head(queue) = queue[1]
  BY <1>1, HeadRow
<1>3. CASE Resolve(queue[1].path) = queue[1].dir
  <2>1. phase' = "marker" /\ queue' = queue
    BY <1>2, <1>3 DEF Visit
  <2>2. \A s \in steady : queue[1].path = s.locator => queue[1].dir = s.dir
    BY <1>3, SteadyHere
  <2>3. QED
    BY <1>1, <2>1, <2>2, RowStays DEF Walking
<1>4. CASE Resolve(queue[1].path) # queue[1].dir
  <2>1. phase' = "visit" /\ queue' = Tail(queue)
    BY <1>1, <1>2, <1>4 DEF Visit, NextRows
  <2>2. ASSUME NEW s \in steady
        PROVE  /\ queue[1] # Row(s.locator, s.dir)
               /\ queue[1] # Row(<<s.locator[1]>>, parent[s.dir])
               /\ queue[1] # Row(<<>>, Root)
    <3>1. SteadyPlace(s) /\ Resolve(s.locator) = s.dir
      BY SteadyHere
    <3>2. QED
      BY <1>4, <3>1 DEF Row, SteadyPlace
  <2>3. QED
    BY <1>1, <2>1, <2>2, RowDone DEF Walking
<1>5. QED
  BY <1>3, <1>4

LEMMA CheckMarkerKeeps ==
    ASSUME FolderInv, WalkInv, CheckMarker
    PROVE  WalkInv'
<1>1. /\ phase = "marker" /\ queue # <<>> /\ rootStat' = rootStat /\ steady' = steady
      /\ listing' = listing /\ UNCHANGED folder
      /\ listing \subseteq Name /\ locators \in [Locator -> Gallery \cup {None}]
  BY DEF CheckMarker, WalkInv, WalkTyped
<1>2. Head(queue) = queue[1] /\ phase \in Walking
  BY <1>1, HeadRow DEF Walking
<1>3. CASE Stat(queue[1].path, Info) # None
  <2>1. /\ phase' = "visit" /\ queue' = Tail(queue)
        /\ locators' = [locators EXCEPT ![queue[1].path] = queue[1].dir]
    BY <1>2, <1>3 DEF CheckMarker
  <2>2. queue[1].path \in Locator
    BY <1>1, <1>2, <1>3, RowLeads
  <2>3. RowFits(queue[1])
    BY <1>1, HeadRow
  <2>4. queue[1].dir \in Gallery
    BY <2>2, <2>3 DEF RowFits, Locator
  <2>5. locators' \in [Locator -> Gallery \cup {None}]
    BY <1>1, <2>1, <2>4
  <2>6. ASSUME NEW s \in steady
        PROVE  /\ locators[s.locator] = s.dir => locators'[s.locator] = s.dir
               /\ queue[1] = Row(s.locator, s.dir) => locators'[s.locator] = s.dir
               /\ queue[1] # Row(<<s.locator[1]>>, parent[s.dir])
               /\ queue[1] # Row(<<>>, Root)
    <3>1. s.locator \in Locator
      BY DEF WalkInv, WalkTyped
    <3>2. queue[1].path = s.locator => queue[1].dir = s.dir
      BY <1>1 DEF WalkInv, SteadyAhead
    <3>3. locators'[s.locator] = IF s.locator = queue[1].path THEN queue[1].dir ELSE locators[s.locator]
      BY <1>1, <2>1, <3>1
    <3>4. queue[1].path # <<>> /\ queue[1].path # <<s.locator[1]>>
      BY <2>2 DEF Locator
    <3>5. QED
      BY <3>2, <3>3, <3>4 DEF Row
  <2>7. QED
    BY <1>1, <1>2, <2>1, <2>5, <2>6, RowDone
<1>4. CASE Stat(queue[1].path, Info) = None
  <2>1. phase' = "scandir" /\ queue' = queue /\ locators' = locators
    BY <1>2, <1>4 DEF CheckMarker
  <2>2. ASSUME NEW s \in steady
        PROVE  queue[1] # Row(s.locator, s.dir)
    <3>1. Complete(s.locator)
      BY SteadyHere
    <3>2. QED
      BY <1>4, <3>1 DEF Complete, Row
  <2>3. phase' \in Walking \ {"visit"}
    BY <2>1 DEF Walking
  <2>4. QED
    BY <1>1, <1>2, <2>1, <2>2, <2>3, RowStays
<1>5. QED
  BY <1>3, <1>4

LEMMA ScanDirectoryKeeps ==
    ASSUME FolderInv, WalkInv, ScanDirectory
    PROVE  WalkInv'
<1>1. /\ phase = "scandir" /\ queue # <<>> /\ rootStat' = rootStat /\ steady' = steady
      /\ locators' = locators /\ UNCHANGED folder
      /\ listing \subseteq Name /\ locators \in [Locator -> Gallery \cup {None}]
  BY DEF ScanDirectory, WalkInv, WalkTyped
<1>2. Head(queue) = queue[1] /\ phase \in Walking
  BY <1>1, HeadRow DEF Walking
<1>3. CASE Resolve(queue[1].path) = None
  <2>1. phase' = "visit" /\ queue' = Tail(queue) /\ listing' = listing
    BY <1>2, <1>3 DEF ScanDirectory, NextRows
  <2>2. ASSUME NEW s \in steady
        PROVE  /\ queue[1] # Row(<<s.locator[1]>>, parent[s.dir])
               /\ queue[1] # Row(<<>>, Root)
    <3>1. SteadyPlace(s)
      BY SteadyHere
    <3>2. QED
      BY <1>3, <3>1, FolderAssumption DEF Row, SteadyPlace, Folder
  <2>3. QED
    BY <1>1, <1>2, <2>1, <2>2, RowDone
<1>4. CASE Resolve(queue[1].path) # None
  <2>1. phase' = "entries" /\ queue' = queue /\ listing' = Children(Resolve(queue[1].path))
    BY <1>2, <1>4 DEF ScanDirectory
  <2>2. ChildrenAre
    BY ChildrenKnown
  <2>3. listing' \subseteq Name
    BY <1>1, <1>2, <1>4, <2>1, <2>2, RowLeads DEF ChildrenAre
  <2>4. queue[1].path \in Locator => listing' = {}
    BY <1>1, <1>2, <1>4, <2>1, <2>2, RowLeads DEF ChildrenAre
  <2>5. ASSUME NEW s \in steady
        PROVE  /\ queue[1] = Row(<<s.locator[1]>>, parent[s.dir]) => s.locator[2] \in listing'
               /\ queue[1] = Row(<<>>, Root) => s.locator[1] \in listing'
    <3>1. SteadyPlace(s)
      BY SteadyHere
    <3>2. /\ s.locator[2] \in Children(parent[s.dir]) /\ s.locator[1] \in Children(Root)
      BY <3>1 DEF SteadyPlace, Children, Folder
    <3>3. QED
      BY <2>1, <3>1, <3>2 DEF Row, SteadyPlace
  <2>6. phase' \in Walking \ {"visit"}
    BY <2>1 DEF Walking
  <2>7. QED
    BY <1>1, <1>2, <2>1, <2>3, <2>4, <2>5, <2>6, RowStays
<1>5. QED
  BY <1>3, <1>4

LEMMA EndEntriesKeeps ==
    ASSUME FolderInv, WalkInv, EndEntries
    PROVE  WalkInv'
<1>1. /\ phase = "entries" /\ queue # <<>> /\ rootStat' = rootStat /\ steady' = steady
      /\ listing = {} /\ listing' = listing /\ locators' = locators /\ UNCHANGED folder
      /\ phase' = "visit" /\ queue' = Tail(queue) /\ phase \in Walking
      /\ locators \in [Locator -> Gallery \cup {None}]
  BY DEF EndEntries, WalkInv, WalkTyped, Walking
<1>2. QED
  BY <1>1, RowDone

LEMMA StatEntryKeeps ==
    ASSUME FolderInv, WalkInv, NEW n \in Name, StatEntry(n)
    PROVE  WalkInv'
<1>1. /\ phase = "entries" /\ phase' = phase /\ queue # <<>> /\ rootStat' = rootStat
      /\ steady' = steady /\ n \in listing /\ listing' = listing \ {n} /\ locators' = locators
      /\ UNCHANGED folder /\ listing \subseteq Name
  BY DEF StatEntry, WalkInv, WalkTyped
<1>2. Head(queue) = queue[1] /\ queue[1] \in [path : Paths, dir : Directory]
  BY <1>1, HeadRow
<1> DEFINE R == [path : Paths, dir : Directory]
<1>0. PICK path : path = Append(queue[1].path, n)
  OBVIOUS
<1>3. queue' = IF Resolve(path) = None THEN queue ELSE Append(queue, Row(path, Resolve(path)))
  BY <1>0, <1>2 DEF StatEntry
<1>4. PICK here \in Paths : here = queue[1].path
  BY <1>2
<1>5. here \notin Locator
  BY <1>1, <1>4 DEF WalkInv, WalkTyped
<1>6. \/ here = <<>> /\ path = <<n>>
      \/ \E m \in Name : here = <<m>> /\ path = <<m, n>>
  <2>1. here = <<>> \/ \E m \in Name : here = <<m>>
    BY <1>5 DEF Paths
  <2>2. Append(<<>>, n) = <<n>>
    OBVIOUS
  <2>3. ASSUME NEW m \in Name
        PROVE  Append(<<m>>, n) = <<m, n>>
    <3>1. <<m>> \in Seq(Name) /\ <<m, n>> \in Seq(Name) /\ Len(<<m>>) = 1 /\ Len(<<m, n>>) = 2
      OBVIOUS
    <3>2. PICK a : a = Append(<<m>>, n)
      OBVIOUS
    <3>3. a \in Seq(Name) /\ Len(a) = 2 /\ a[1] = m /\ a[2] = n
      BY <3>1, <3>2, AppendProperties
    <3>4. \A i \in 1..Len(a) : a[i] = <<m, n>>[i]
      BY <3>3
    <3>5. QED
      BY <3>1, <3>2, <3>3, <3>4, SeqEqual
  <2>4. QED
    BY <1>0, <1>4, <2>1, <2>2, <2>3
<1>7. ChildrenAre /\ PathsAre /\ top \in Directory /\ top \in {Root, Elsewhere}
  BY ChildrenKnown, PathsKnown DEF Directory, FolderInv, FolderTyped
<1>8. /\ here = <<>> => path = <<n>> /\ Resolve(path) \in Collection \cup {None}
      /\ here # <<>> => path \in Locator /\ Resolve(path) \in Gallery \cup {None}
  <2>1. CASE here = <<>>
    <3>1. path = <<n>>
      BY <1>6, <2>1
    <3>2. Resolve(<<n>>) \in Collection \cup {None}
      BY <1>7 DEF PathsAre, ChildrenAre, Resolve
    <3>3. QED
      BY <2>1, <3>1, <3>2
  <2>2. CASE here # <<>>
    <3>1. PICK m \in Name : here = <<m>> /\ path = <<m, n>>
      BY <1>6, <2>2
    <3>2. Resolve(<<m, n>>) \in Gallery \cup {None}
      BY <1>7 DEF PathsAre, ChildrenAre, Resolve
    <3>3. QED
      BY <2>2, <3>1, <3>2 DEF Locator
  <2>3. QED
    BY <2>1, <2>2
<1>9. /\ queue \in Seq(R) /\ \A i \in 1..Len(queue) : RowFits(queue[i])
  BY DEF WalkInv, WalkTyped
<1>10. Resolve(path) # None =>
         /\ Row(path, Resolve(path)) \in R
         /\ RowFits(Row(path, Resolve(path)))
  BY <1>8 DEF Row, RowFits, Paths, Directory, Folder
<1>11. /\ queue' \in Seq(R) /\ Len(queue') >= Len(queue) /\ Len(queue) \in Nat /\ Len(queue) >= 1
       /\ \A i \in 1..Len(queue) : i \in 1..Len(queue') /\ queue'[i] = queue[i]
       /\ \A i \in 1..Len(queue') : RowFits(queue'[i])
       /\ Resolve(path) # None =>
            /\ Len(queue) + 1 \in 1..Len(queue')
            /\ queue'[Len(queue) + 1] = Row(path, Resolve(path))
  <2>1. PICK q \in Seq(R) : q = queue
    BY <1>9
  <2>2. PICK r : r = Row(path, Resolve(path))
    OBVIOUS
  <2> HIDE DEF R
  <2>3. Len(q) \in Nat /\ Len(q) >= 1
    BY <1>1, <2>1, EmptySeq, LenProperties
  <2>4. CASE Resolve(path) = None
    BY <1>3, <1>9, <2>1, <2>3, <2>4
  <2>5. CASE Resolve(path) # None
    <3>1. r \in R /\ RowFits(r)
      BY <1>10, <2>2, <2>5
    <3>2. PICK a : a = Append(q, r)
      OBVIOUS
    <3>3. /\ a \in Seq(R) /\ Len(a) = Len(q) + 1 /\ a[Len(q) + 1] = r
          /\ \A i \in 1..Len(q) : a[i] = q[i]
      BY <3>1, <3>2, AppendProperties
    <3>4. \A i \in 1..Len(a) : i \in 1..Len(q) \/ i = Len(q) + 1
      BY <2>3, <3>3
    <3>5. \A i \in 1..Len(a) : RowFits(a[i])
      BY <1>9, <2>1, <3>1, <3>3, <3>4
    <3>6. queue' = a
      BY <1>3, <2>1, <2>2, <2>5, <3>2
    <3>7. \A i \in 1..Len(q) : i \in 1..Len(a)
      BY <2>3, <3>3
    <3>8. Len(q) + 1 \in 1..Len(a)
      BY <2>3, <3>3
    <3>9. Len(a) >= Len(q)
      BY <2>3, <3>3
    <3>10. QED
      BY <2>1, <2>2, <2>3, <3>3, <3>5, <3>6, <3>7, <3>8, <3>9
  <2>6. QED
    BY <2>4, <2>5
<1>12. WalkTyped'
  <2>1. \A i \in 1..Len(queue') : RowFits(queue[i])'
    BY <1>1, <1>11 DEF RowFits
  <2>2. queue' # <<>>
    BY <1>11, EmptySeq
  <2>3. 1 \in 1..Len(queue)
    BY <1>11
  <2>4. queue'[1] = queue[1]
    BY <1>11, <2>3
  <2>5. QED
    BY <1>1, <1>4, <1>5, <1>11, <2>1, <2>2, <2>4 DEF WalkInv, WalkTyped, Walking
<1>13. SteadyAhead'
  <2>1. ASSUME NEW s \in steady
        PROVE  Ahead(s)'
    <3>0. parent' = parent
      BY <1>1 DEF folder
    <3>1. Ahead(s)
      BY <1>1 DEF WalkInv, SteadyAhead, Walking
    <3>2. CASE locators[s.locator] = s.dir
      BY <1>1, <3>2 DEF Ahead
    <3>3. CASE locators[s.locator] # s.dir
      <4>1. PICK i \in 1..Len(queue) :
            \/ queue[i] = Row(s.locator, s.dir) /\ (i = 1 => phase \in {"visit", "marker"})
            \/ /\ queue[i] = Row(<<s.locator[1]>>, parent[s.dir])
               /\ i = 1 /\ phase = "entries" => s.locator[2] \in listing
            \/ /\ queue[i] = Row(<<>>, Root)
               /\ i = 1 /\ phase = "entries" => s.locator[1] \in listing
        BY <3>1, <3>3 DEF Ahead
      <4>2. i \in 1..Len(queue') /\ queue'[i] = queue[i]
        BY <1>11
      <4>3. PICK j \in 1..Len(queue') : j = i /\ queue'[j] = queue[i]
        BY <4>2
      <4>4. SteadyPlace(s) /\ Resolve(s.locator) = s.dir
        BY SteadyHere
      <4>5. CASE i = 1 /\ queue[1] = Row(<<s.locator[1]>>, parent[s.dir]) /\ n = s.locator[2]
        <5>1. here = <<s.locator[1]>> /\ path = s.locator
          BY <1>4, <1>6, <4>4, <4>5 DEF Row, SteadyPlace
        <5>2. Resolve(path) = s.dir /\ s.dir # None
          BY <4>4, <5>1, FolderAssumption DEF SteadyPlace, Folder
        <5>3. Len(queue) + 1 \in 1..Len(queue') /\ queue'[Len(queue) + 1] = Row(s.locator, s.dir)
              /\ Len(queue) + 1 # 1
          BY <1>11, <5>1, <5>2
        <5>4. QED
          BY <5>3 DEF Ahead, Row
      <4>6. CASE i = 1 /\ queue[1] = Row(<<>>, Root) /\ n = s.locator[1]
        <5>1. here = <<>> /\ path = <<s.locator[1]>>
          BY <1>4, <1>6, <4>4, <4>6 DEF Row, SteadyPlace
        <5>2. Resolve(path) = parent[s.dir] /\ parent[s.dir] # None
          BY <4>4, <5>1, FolderAssumption DEF SteadyPlace, Folder
        <5>3. /\ Len(queue) + 1 \in 1..Len(queue') /\ Len(queue) + 1 # 1
              /\ queue'[Len(queue) + 1] = Row(<<s.locator[1]>>, parent[s.dir])
          BY <1>11, <5>1, <5>2
        <5>4. QED
          BY <3>0, <5>3 DEF Ahead, Row
      <4>7. CASE /\ ~(i = 1 /\ queue[1] = Row(<<s.locator[1]>>, parent[s.dir]) /\ n = s.locator[2])
                 /\ ~(i = 1 /\ queue[1] = Row(<<>>, Root) /\ n = s.locator[1])
        <5>1. \/ queue'[j] = Row(s.locator, s.dir) /\ (j = 1 => phase' \in {"visit", "marker"})
              \/ /\ queue'[j] = Row(<<s.locator[1]>>, parent[s.dir])
                 /\ j = 1 /\ phase' = "entries" => s.locator[2] \in listing'
              \/ /\ queue'[j] = Row(<<>>, Root)
                 /\ j = 1 /\ phase' = "entries" => s.locator[1] \in listing'
          BY <1>1, <4>1, <4>3, <4>7
        <5>2. QED
          BY <3>0, <5>1 DEF Ahead, Row
      <4>8. QED
        BY <4>5, <4>6, <4>7
    <3>4. QED
      BY <3>2, <3>3
  <2>2. QED
    BY <1>1, <2>1 DEF SteadyAhead
<1>14. QED
  BY <1>1, <1>12, <1>13, SteadyStay DEF WalkInv

LEMMA BeginDiscoveryKeeps ==
    ASSUME FolderInv, WalkInv, BeginDiscovery
    PROVE  WalkInv'
<1>1. /\ phase' = "visit" /\ rootStat' = top /\ queue' = <<Row(<<>>, top)>>
      /\ locators' = [l \in Locator |-> None] /\ UNCHANGED folder /\ listing' = listing
      /\ steady' = {InPlace(l) : l \in {x \in Locator : Complete(x)}}
      /\ listing \subseteq Name /\ top \in {Root, Elsewhere}
  BY DEF BeginDiscovery, WalkInv, WalkTyped, FolderInv, FolderTyped
<1>2. Row(<<>>, top) \in [path : Paths, dir : Directory]
  BY <1>1 DEF Row, Paths, Directory
<1>3. WalkTyped'
  <2>1. queue' \in Seq([path : Paths, dir : Directory]) /\ Len(queue') = 1 /\ queue'[1] = Row(<<>>, top)
    BY <1>1, <1>2
  <2>2. \A i \in 1..Len(queue') : RowFits(queue[i])'
    BY <1>1, <2>1 DEF RowFits, Row
  <2>3. steady' \subseteq [locator : Locator, dir : Gallery]
    BY <1>1 DEF InPlace, Complete
  <2>4. QED
    BY <1>1, <2>1, <2>2, <2>3, FolderAssumption DEF WalkTyped, Walking
<1>4. \A s \in steady' : SteadyPlace(s) /\ Resolve(s.locator) = s.dir /\ Complete(s.locator)
  <2>1. \A s \in steady' : /\ s \in [locator : Locator, dir : Gallery]
                           /\ Complete(s.locator) /\ Resolve(s.locator) = s.dir
    BY <1>1 DEF InPlace, Complete
  <2>2. QED
    BY <2>1, PlaceOfSteady
<1>5. SteadyKept'
  BY <1>1, <1>4, FolderStays DEF SteadyKept, SteadyPlace
<1>6. SteadyAhead'
  <2>1. \A s \in steady' : queue'[1] = Row(<<>>, Root) /\ 1 \in 1..Len(queue')
    <3>1. \A s \in steady' : top = Root
      BY <1>4 DEF SteadyPlace
    <3>2. queue'[1] = Row(<<>>, top) /\ 1 \in 1..Len(queue')
      BY <1>1
    <3>3. QED
      BY <3>1, <3>2
  <2>2. \A s \in steady' : Ahead(s)'
    BY <1>1, <2>1 DEF Ahead, Row
  <2>3. QED
    BY <1>1, <2>2 DEF SteadyAhead
<1>7. QED
  BY <1>3, <1>5, <1>6 DEF WalkInv

LEMMA NoProbeFits ==
    ASSUME NoProbe, phase' \in {"start", "listed"}
    PROVE  ProbeInv'
<1>1. opened' = <<>> /\ checked' = 0 /\ gone' = FALSE /\ target' = None
  BY DEF NoProbe
<1>2. opened' \in Seq(Directory) /\ Len(opened') = 0
  BY <1>1
<1>3. checked' \in 0..Len(opened')
  BY <1>1, <1>2
<1>4. ProbeTyped'
  BY <1>1, <1>2, <1>3 DEF ProbeTyped, Probing
<1>5. AbsenceKept'
  BY DEF AbsenceKept
<1>6. QED
  BY <1>4, <1>5 DEF ProbeInv

LEMMA AbandonKeeps ==
    ASSUME Abandon
    PROVE  WalkInv' /\ ProbeInv'
<1>1. WalkTyped'
  BY DEF Abandon, WalkTyped, Walking
<1>2. SteadyKept' /\ SteadyAhead'
  BY DEF Abandon, SteadyKept, SteadyAhead, Walking
<1>3. ProbeInv'
  BY NoProbeFits DEF Abandon
<1>4. QED
  BY <1>1, <1>2, <1>3 DEF WalkInv

\* Outside the walk the inventory only takes what a probe has found.
LEMMA WalkRests ==
    ASSUME WalkInv, UNCHANGED folder, phase' \in Probing \cup {"ready", "listed"},
           phase \notin {"start"}, queue = <<>>,
           phase' = "ready" => phase = "visit" /\ locators' = locators,
           UNCHANGED <<rootStat, queue, listing, steady>>,
           locators' \in [Locator -> Gallery \cup {None}]
    PROVE  WalkInv'
<1>1. WalkTyped'
  BY DEF WalkInv, WalkTyped, Walking, Probing
<1>2. SteadyAhead'
  <2>1. ASSUME phase' = "ready", NEW s \in steady
        PROVE  Ahead(s)'
    <3>1. Ahead(s) /\ Len(queue) = 0
      BY <2>1 DEF WalkInv, SteadyAhead, Walking
    <3>2. locators[s.locator] = s.dir
      BY <3>1 DEF Ahead
    <3>3. QED
      BY <2>1, <3>2 DEF Ahead
  <2>2. QED
    BY <2>1 DEF SteadyAhead, Walking, Probing
<1>3. QED
  BY <1>1, <1>2, SteadyStay DEF WalkInv

LEMMA DiscoveryFolderStep ==
    ASSUME DiscoveryInv, FolderStep
    PROVE  DiscoveryInv' /\ FilesChange
<1>1. /\ FolderInv /\ FolderInv' /\ FilesChange /\ ChangeFolder
      /\ UNCHANGED <<discovery, target, opened, checked, answer>>
      /\ steady' = {s \in steady : Complete(s.locator)' /\ Resolve(s.locator)' = s.dir}
      /\ gone' = (gone \/ (phase = "binding" /\ Gone(target)'))
  BY ChangeKeeps DEF FolderStep, DiscoveryInv
<1>2. WalkTyped'
  BY <1>1 DEF DiscoveryInv, WalkInv, WalkTyped, discovery, RowFits
<1>3. \A s \in steady' : s \in steady /\ SteadyPlace(s) /\ SteadyPlace(s)'
  <2>1. (\A s \in [locator : Locator, dir : Gallery] :
            Complete(s.locator) /\ Resolve(s.locator) = s.dir => SteadyPlace(s))'
    BY <1>1, PlaceOfSteady, PTL
  <2>2. QED
    BY <1>1, <2>1, SteadyHere DEF DiscoveryInv, WalkInv, WalkTyped
<1>4. SteadyKept'
  BY <1>1 DEF SteadyKept, DiscoveryInv, WalkInv, discovery
<1>5. SteadyAhead'
  <2>1. ASSUME NEW s \in steady'
        PROVE  parent'[s.dir] = parent[s.dir]
    BY <1>1, <1>3, CollectionStays
  <2>2. ASSUME NEW s \in steady', phase \in Walking \cup {"ready"}
        PROVE  Ahead(s)'
    <3>1. Ahead(s)
      BY <1>3, <2>2 DEF DiscoveryInv, WalkInv, SteadyAhead
    <3>2. QED
      BY <1>1, <2>1, <3>1 DEF Ahead, Row, discovery
  <2>3. QED
    BY <1>1, <1>3, <2>2 DEF SteadyAhead, DiscoveryInv, WalkInv, discovery
<1>6. ProbeTyped'
  BY <1>1 DEF DiscoveryInv, ProbeInv, ProbeTyped, discovery
<1>7. AbsenceKept'
  <2>1. SUFFICES ASSUME phase \in {"binding", "answered"}, answer = FALSE, ~gone'
                 PROVE  /\ phase = "binding" /\ Len(opened) = 2 /\ checked < 2
                        /\ Child(rootStat, target[1])' \notin {None, opened[2]}
    BY <1>1 DEF AbsenceKept, discovery
  <2>2. /\ phase = "binding" /\ Len(opened) = 2 /\ checked < 2 /\ ~Gone(target)'
        /\ Child(rootStat, target[1]) \notin {None, opened[2]}
    BY <1>1, <2>1 DEF DiscoveryInv, ProbeInv, AbsenceKept
  <2>3. /\ target \in Locator /\ opened[2] \in Collection /\ opened[2] \in Folder
        /\ rootStat \in {Root, Elsewhere} /\ rootStat \in Directory
    BY <2>2 DEF DiscoveryInv, ProbeInv, ProbeTyped, WalkInv, WalkTyped, Probing, Folder, Directory
  <2>4. PICK m \in Name, n \in Name : target = <<m, n>>
    BY <2>3 DEF Locator
  <2>5. target' = <<m, n>> /\ rootStat' = rootStat /\ target[1] = m /\ opened' = opened
    BY <1>1, <2>4 DEF discovery
  <2>6. PICK r \in {Root, Elsewhere} : r = rootStat
    BY <2>3
  <2>7. r \in Directory /\ r # None
    BY FolderAssumption DEF Directory
  <2>8. PathsAre' /\ ChildrenAre' /\ ChildrenAre
    BY <1>1, PathsKnown, ChildrenKnown, PTL
  <2>9. Child(r, m)' # None
    <3>1. Below(r, <<m, n>>)' # None
      BY <2>2, <2>5, <2>6 DEF Gone
    <3>2. QED
      BY <2>7, <2>8, <3>1 DEF PathsAre
  <2>10. PICK x : x = Child(r, m)
    OBVIOUS
  <2>11. x \in Folder /\ parent[x] = r /\ label[x] = m /\ x # opened[2]
    BY <2>2, <2>5, <2>6, <2>7, <2>8, <2>10 DEF ChildrenAre
  <2>12. ASSUME Child(r, m)' = opened[2]
         PROVE  FALSE
    <3>1. PICK y \in Folder : y = opened[2]
      BY <2>3
    <3>2. parent'[y] = r /\ label'[y] = m
      BY <2>7, <2>8, <2>9, <2>12, <3>1 DEF ChildrenAre
    <3>3. CASE UNCHANGED <<parent, label>>
      BY <2>7, <2>11, <3>1, <3>2, <3>3 DEF DiscoveryInv, FolderInv, NamesApart
    <3>4. ASSUME NEW c \in Folder,
                 \A z \in Folder : z # c => parent'[z] = parent[z] /\ label'[z] = label[z],
                 \/ parent'[c] = None
                 \/ \A z \in Folder : parent[z] = parent'[c] => label[z] # label'[c]
          PROVE  FALSE
      <4>1. CASE c = y
        BY <2>7, <2>11, <3>2, <3>4, <4>1
      <4>2. CASE c # y
        <5>1. parent[y] = r /\ label[y] = m
          BY <3>2, <3>4, <4>2
        <5>2. QED
          BY <2>7, <2>11, <3>1, <5>1 DEF DiscoveryInv, FolderInv, NamesApart
      <4>3. QED
        BY <4>1, <4>2
    <3>5. QED
      BY <1>1, <3>3, <3>4, OneMoves
  <2>13. Child(rootStat, target[1])' = Child(r, m)'
    BY <2>4, <2>5, <2>6
  <2>14. QED
    BY <2>2, <2>9, <2>12, <2>13
<1>8. QED
  BY <1>1, <1>2, <1>4, <1>5, <1>6, <1>7 DEF DiscoveryInv, WalkInv, ProbeInv

LEMMA ProbeRests ==
    ASSUME ProbeInv, UNCHANGED probe, phase' \notin Probing
    PROVE  ProbeInv'
BY DEF ProbeInv, ProbeTyped, AbsenceKept, probe, Probing

LEMMA BeginProbeKeeps ==
    ASSUME DiscoveryInv, NEW l \in Locator, BeginProbe(l), SameRoot
    PROVE  DiscoveryInv'
<1>1. /\ phase = "listed" /\ phase' = "lookup" /\ target' = l /\ opened' = <<top>>
      /\ checked' = 0 /\ gone' = FALSE /\ top = rootStat
      /\ UNCHANGED <<rootStat, queue, listing, locators, steady>> /\ UNCHANGED folder
  BY DEF BeginProbe, SameRoot
<1>2. WalkInv /\ queue = <<>> /\ locators \in [Locator -> Gallery \cup {None}]
  BY <1>1 DEF DiscoveryInv, WalkInv, WalkTyped, Walking
<1>3. WalkInv'
  BY <1>1, <1>2, WalkRests DEF Probing
<1>4. opened' \in Seq(Directory) /\ Len(opened') = 1 /\ opened'[1] = rootStat
  BY <1>1 DEF Directory, DiscoveryInv, FolderInv, FolderTyped
<1>5. ProbeInv'
  <2>1. Len(opened') \in 1..3 /\ checked' \in 0..Len(opened') /\ opened'[1] = rootStat'
    BY <1>1, <1>4
  <2>2. /\ target' \in Locator /\ checked' = 0 /\ gone' \in BOOLEAN /\ phase' = "lookup"
    BY <1>1
  <2>20. opened' \in Seq(Directory) /\ ~(Len(opened') >= 2) /\ Len(opened') # 3
    BY <1>4
  <2>22. ProbeTyped'
    BY <2>1, <2>2, <2>20 DEF ProbeTyped
  <2>3. AbsenceKept'
    BY <1>1 DEF AbsenceKept
  <2>4. QED
    BY <2>22, <2>3 DEF ProbeInv
<1>6. QED
  BY <1>1, <1>3, <1>5, FolderStays DEF DiscoveryInv

LEMMA LookUpKeeps ==
    ASSUME DiscoveryInv, LookUp
    PROVE  DiscoveryInv'
<1>1. /\ phase = "lookup" /\ Len(opened) <= Len(target) /\ target' = target
      /\ UNCHANGED <<rootStat, queue, listing, locators, steady>> /\ UNCHANGED folder
      /\ phase' \in Probing /\ phase \in Probing /\ checked' = checked
  BY DEF LookUp, Probing
<1>2. WalkInv /\ queue = <<>> /\ locators \in [Locator -> Gallery \cup {None}]
  BY <1>1 DEF DiscoveryInv, WalkInv, WalkTyped, Walking
<1>3. WalkInv'
  BY <1>1, <1>2, WalkRests DEF Probing
<1>4. /\ target \in Locator /\ Len(opened) \in 1..3 /\ opened[1] = rootStat
      /\ (Len(opened) >= 2 => opened[2] \in Collection) /\ opened \in Seq(Directory)
      /\ checked \in 0..Len(opened) /\ gone \in BOOLEAN
      /\ rootStat \in {Root, Elsewhere}
  BY <1>1 DEF DiscoveryInv, ProbeInv, ProbeTyped, WalkInv, WalkTyped
<1>5. PICK m \in Name, n \in Name : target = <<m, n>>
  BY <1>4 DEF Locator
<1>6. target[1] = m /\ target[2] = n /\ Len(target) = 2
  BY <1>5
<1>7. PICK seen \in Seq(Directory) : seen = opened
  BY <1>4
<1>8. PICK len \in 1..2 : len = Len(seen)
  <2>1. Len(seen) \in 1..3 /\ Len(seen) <= 2
    <3>1. Len(opened) \in 1..3
      BY <1>4
    <3>2. Len(opened) <= 2
      BY <1>1, <1>6
    <3>3. QED
      BY <1>7, <3>1, <3>2
  <2>2. QED
    BY <2>1
<1>9. Last(opened) = seen[len]
  BY <1>7, <1>8 DEF Last
<1>10. PathsAre /\ ChildrenAre /\ rootStat \in Directory
  BY <1>4, PathsKnown, ChildrenKnown DEF DiscoveryInv, Directory
<1>11. PICK found : found = Child(seen[len], target[len])
  OBVIOUS
<1>12. /\ len = 1 => found = Child(rootStat, m)
       /\ len = 2 => found = Child(opened[2], n) /\ opened[2] \in Collection
  BY <1>4, <1>6, <1>7, <1>8, <1>11
<1>13. CASE found = None
  <2>1. phase' = "binding" /\ answer' = FALSE /\ gone' = Gone(target) /\ opened' = opened
    BY <1>7, <1>8, <1>9, <1>11, <1>13 DEF LookUp
  <2>2. Gone(target) <=> Child(rootStat, m) = None \/ Child(Child(rootStat, m), n) = None
    BY <1>5, <1>10 DEF Gone, PathsAre
  <2>3. gone' \in BOOLEAN
    BY <2>1 DEF Gone
  <2>4. ProbeTyped'
    <3>1. /\ target' \in Locator /\ checked' \in 0..Len(opened) /\ opened' = opened
          /\ phase' = "binding" /\ answer' = FALSE /\ opened[1] = rootStat'
      BY <1>1, <1>4, <2>1
    <3>2. Len(opened) \in 1..2
      BY <1>7, <1>8
    <3>3. QED
      BY <1>4, <2>3, <3>1, <3>2 DEF ProbeTyped
  <2>5. checked < 2
    BY <1>1, <1>4 DEF DiscoveryInv, ProbeInv, ProbeTyped
  <2>6. AbsenceKept'
    <3>1. CASE len = 1
      BY <1>12, <1>13, <2>1, <2>2, <3>1 DEF AbsenceKept
    <3>2. CASE len = 2
      <4>1. Child(rootStat, m) \in {None, opened[2]} => gone'
        BY <1>12, <1>13, <2>1, <2>2, <3>2
      <4>2. Child(rootStat, target[1])' = Child(rootStat, m)
        BY <1>1, <1>6, FolderStays
      <4>3. Len(opened') = 2
        BY <1>7, <1>8, <2>1, <3>2
      <4>4. QED
        BY <1>1, <2>1, <2>5, <4>1, <4>2, <4>3 DEF AbsenceKept
    <3>3. QED
      BY <1>8, <3>1, <3>2
  <2>7. QED
    BY <1>1, <1>3, <2>4, <2>6, FolderStays DEF DiscoveryInv, ProbeInv
<1>14. CASE found # None
  <2>1. opened' = Append(seen, found) /\ phase' = phase /\ answer' = answer /\ gone' = gone
    BY <1>7, <1>8, <1>9, <1>11, <1>14 DEF LookUp
  <2>2. /\ len = 1 => found \in Collection
        /\ len = 2 => found \in Gallery
    BY <1>4, <1>10, <1>12, <1>14, FolderAssumption DEF ChildrenAre
  <2>3. found \in Directory
    BY <1>8, <2>2 DEF Directory, Folder
  <2>4. PICK now : now = Append(seen, found)
    OBVIOUS
  <2>5. /\ now \in Seq(Directory) /\ Len(now) = len + 1 /\ now[len + 1] = found
        /\ \A i \in 1..len : now[i] = seen[i]
    BY <1>8, <2>3, <2>4, AppendProperties
  <2>6. /\ Len(now) \in 1..3 /\ now[1] = rootStat
        /\ (Len(now) >= 2 => now[2] \in Collection) /\ (Len(now) = 3 => now[3] \in Gallery)
    <3>1. CASE len = 1
      BY <1>4, <1>7, <2>2, <2>5, <3>1
    <3>2. CASE len = 2
      BY <1>4, <1>7, <1>8, <2>2, <2>5, <3>2
    <3>3. QED
      BY <1>8, <3>1, <3>2
  <2>7. checked \in 0..Len(now)
    BY <1>4, <1>7, <1>8, <2>5
  <2>8. ProbeInv'
    <3>1. /\ target' \in Locator /\ checked' = 0 /\ gone' \in BOOLEAN
          /\ phase' = "lookup" /\ opened' = now
      BY <1>1, <1>4, <2>1, <2>4 DEF DiscoveryInv, ProbeInv, ProbeTyped
    <3>2. now[1] = rootStat'
      BY <1>1, <2>6
    <3>3. ProbeTyped'
      <4>1. opened' \in Seq(Directory) /\ checked' \in 0..Len(opened')
        BY <1>4, <2>5, <2>7, <3>1
      <4>2. /\ Len(opened') \in 1..3 /\ opened'[1] = rootStat'
            /\ (Len(opened') >= 2 => opened'[2] \in Collection)
            /\ (Len(opened') = 3 => opened'[3] \in Gallery)
        BY <2>6, <3>1, <3>2
      <4>3. /\ target' \in Locator /\ checked' = 0 /\ gone' \in BOOLEAN /\ phase' = "lookup"
        BY <3>1
      <4>4. QED
        BY <4>1, <4>2, <4>3 DEF ProbeTyped
    <3>4. QED
      BY <3>1, <3>3 DEF ProbeInv, AbsenceKept
  <2>9. QED
    BY <1>1, <1>3, <2>8, FolderStays DEF DiscoveryInv
<1>15. QED
  BY <1>13, <1>14

LEMMA ProbeMovesOn ==
    ASSUME DiscoveryInv, AllOpened \/ CheckBinding \/ EndProbe \/ TakeAnswer
    PROVE  DiscoveryInv'
<1>1. phase \in Probing /\ UNCHANGED folder /\ FolderInv'
  BY FolderStays DEF AllOpened, CheckBinding, EndProbe, TakeAnswer, Probing, DiscoveryInv
<1>2. /\ target \in Locator /\ Len(opened) \in 1..3 /\ opened[1] = rootStat
      /\ (Len(opened) >= 2 => opened[2] \in Collection) /\ opened \in Seq(Directory)
      /\ (Len(opened) = 3 => opened[3] \in Gallery)
      /\ checked \in 0..Len(opened) /\ gone \in BOOLEAN
      /\ WalkInv /\ queue = <<>> /\ locators \in [Locator -> Gallery \cup {None}]
  BY <1>1 DEF DiscoveryInv, ProbeInv, ProbeTyped, WalkInv, WalkTyped, Probing, Walking
<1>3. CASE AllOpened
  <2>1. /\ phase' = "binding" /\ answer' = TRUE /\ Len(opened) > Len(target)
        /\ UNCHANGED <<rootStat, queue, listing, locators, target, opened, checked, gone, steady>>
    BY <1>3 DEF AllOpened
  <2>2. Len(opened) = 3
    BY <1>2, <2>1 DEF Locator
  <2>3. WalkInv'
    BY <1>1, <1>2, <2>1, WalkRests DEF Probing
  <2>4. ProbeInv'
    BY <1>2, <2>1, <2>2 DEF ProbeInv, ProbeTyped, AbsenceKept
  <2>5. QED
    BY <1>1, <2>3, <2>4 DEF DiscoveryInv
<1>4. CASE CheckBinding
  <2>1. phase = "binding" /\ checked < Len(opened)
    BY <1>4 DEF CheckBinding
  <2>2. CASE /\ Bound(checked + 1) /\ checked' = checked + 1
             /\ UNCHANGED <<discovery, target, opened, answer, gone, steady>>
    <3>1. WalkInv'
      BY <1>1, <1>2, <2>1, <2>2, WalkRests DEF discovery
    <3>2. checked' \in 0..Len(opened)
      BY <1>2, <2>1, <2>2
    <3>3. ProbeTyped'
      <4>1. /\ phase' = "binding" /\ rootStat' = rootStat /\ target' = target
            /\ opened' = opened /\ answer' = answer /\ gone' = gone
        BY <2>1, <2>2 DEF discovery
      <4>2. \/ answer = TRUE /\ Len(opened) = 3
            \/ answer = FALSE /\ Len(opened) \in 1..2
        BY <2>1 DEF DiscoveryInv, ProbeInv, ProbeTyped
      <4>3. QED
        BY <1>2, <3>2, <4>1, <4>2 DEF ProbeTyped
    <3>4. AbsenceKept'
      <4>1. CASE gone \/ answer # FALSE
        BY <2>2, <4>1 DEF AbsenceKept
      <4>2. CASE ~gone /\ answer = FALSE
        <5>1. /\ Len(opened) = 2 /\ checked < 2
              /\ Child(rootStat, target[1]) \notin {None, opened[2]}
          BY <2>1, <4>2 DEF DiscoveryInv, ProbeInv, AbsenceKept
        <5>2. checked # 1
          BY <1>2, <2>2, <5>1 DEF Bound
        <5>3. checked' < 2
          BY <1>2, <2>2, <5>1, <5>2
        <5>4. Child(rootStat, target[1])' = Child(rootStat, target[1])
          BY <1>1, <2>2, FolderStays DEF discovery
        <5>5. QED
          BY <2>1, <2>2, <5>1, <5>3, <5>4 DEF AbsenceKept, discovery
      <4>3. QED
        BY <4>1, <4>2
    <3>5. QED
      BY <1>1, <3>1, <3>3, <3>4 DEF DiscoveryInv, ProbeInv
  <2>3. CASE Abandon
    BY <1>1, <2>3, AbandonKeeps DEF DiscoveryInv
  <2>4. CASE phase' = "listed" /\ NoProbe /\ UNCHANGED <<rootStat, queue, listing, locators, steady>>
    <3>1. WalkInv'
      BY <1>1, <1>2, <2>1, <2>4, WalkRests
    <3>2. opened' = <<>> /\ opened' \in Seq(Directory) /\ Len(opened') = 0
      BY <2>4 DEF NoProbe
    <3>3. ProbeInv'
      BY <2>4, <3>2, NoProbeFits
    <3>4. QED
      BY <1>1, <3>1, <3>3 DEF DiscoveryInv
  <2>5. QED
    BY <1>4, <2>2, <2>3, <2>4 DEF CheckBinding
<1>5. CASE EndProbe
  <2>1. /\ phase = "binding" /\ checked = Len(opened) /\ phase' = "answered"
        /\ UNCHANGED <<rootStat, queue, listing, probe, steady>>
        /\ locators' = IF answer THEN [locators EXCEPT ![target] = Last(opened)] ELSE locators
    BY <1>5 DEF EndProbe
  <2>2. \/ answer = TRUE /\ Len(opened) = 3
        \/ answer = FALSE /\ Len(opened) \in 1..2
    BY <2>1 DEF DiscoveryInv, ProbeInv, ProbeTyped
  <2>3. locators' \in [Locator -> Gallery \cup {None}]
    <3>1. answer = TRUE => Last(opened) \in Gallery
      BY <1>2, <2>2 DEF Last
    <3>2. QED
      BY <1>2, <2>1, <2>2, <3>1
  <2>4. WalkInv'
    BY <1>1, <1>2, <2>1, <2>3, WalkRests DEF Probing
  <2>5. ProbeTyped'
    BY <1>2, <2>1, <2>2 DEF ProbeTyped, probe
  <2>6. AbsenceKept'
    BY <2>1 DEF DiscoveryInv, ProbeInv, AbsenceKept, probe
  <2>7. QED
    BY <1>1, <2>4, <2>5, <2>6 DEF DiscoveryInv, ProbeInv
<1>6. CASE TakeAnswer
  <2>1. /\ phase = "answered" /\ phase' = "listed" /\ NoProbe
        /\ UNCHANGED <<rootStat, queue, listing, locators, steady>>
    BY <1>6 DEF TakeAnswer
  <2>2. WalkInv'
    BY <1>1, <1>2, <2>1, WalkRests
  <2>3. opened' = <<>> /\ opened' \in Seq(Directory) /\ Len(opened') = 0
    BY <2>1 DEF NoProbe
  <2>4. ProbeInv'
    BY <2>1, <2>3, NoProbeFits
  <2>5. QED
    BY <1>1, <2>2, <2>4 DEF DiscoveryInv
<1>7. QED
  BY <1>3, <1>4, <1>5, <1>6

LEMMA DiscoveryKeeps ==
    ASSUME DiscoveryInv, DiscoveryNext
    PROVE  DiscoveryInv' /\ UNCHANGED folder
<1>0. FolderInv /\ WalkInv /\ ProbeInv
  BY DEF DiscoveryInv
<1>1. CASE Visit
  <2>1. UNCHANGED <<folder, probe>> /\ phase' \in Walking
    BY <1>1 DEF Visit, Walking
  <2>2. QED
    BY <1>0, <1>1, <2>1, VisitKeeps, ProbeRests, FolderStays DEF DiscoveryInv, Walking, Probing
<1>2. CASE CheckMarker
  <2>1. UNCHANGED <<folder, probe>> /\ phase' \in Walking
    BY <1>2 DEF CheckMarker, Walking
  <2>2. QED
    BY <1>0, <1>2, <2>1, CheckMarkerKeeps, ProbeRests, FolderStays DEF DiscoveryInv, Walking, Probing
<1>3. CASE ScanDirectory
  <2>1. UNCHANGED <<folder, probe>> /\ phase' \in Walking
    BY <1>3 DEF ScanDirectory, Walking
  <2>2. QED
    BY <1>0, <1>3, <2>1, ScanDirectoryKeeps, ProbeRests, FolderStays
       DEF DiscoveryInv, Walking, Probing
<1>4. CASE \E n \in Name : StatEntry(n)
  <2>1. UNCHANGED <<folder, probe>> /\ phase' \in Walking
    BY <1>4 DEF StatEntry, Walking
  <2>2. QED
    BY <1>0, <1>4, <2>1, StatEntryKeeps, ProbeRests, FolderStays DEF DiscoveryInv, Walking, Probing
<1>5. CASE EndEntries
  <2>1. UNCHANGED <<folder, probe>> /\ phase' \in Walking
    BY <1>5 DEF EndEntries, Walking
  <2>2. QED
    BY <1>0, <1>5, <2>1, EndEntriesKeeps, ProbeRests, FolderStays DEF DiscoveryInv, Walking, Probing
<1>6. CASE BeginDiscovery
  <2>1. UNCHANGED <<folder, probe>> /\ phase' = "visit"
    BY <1>6 DEF BeginDiscovery
  <2>2. QED
    BY <1>0, <1>6, <2>1, BeginDiscoveryKeeps, ProbeRests, FolderStays DEF DiscoveryInv, Probing
<1>7. ASSUME UNCHANGED folder, Abandon
      PROVE  DiscoveryInv'
  BY <1>0, <1>7, AbandonKeeps, FolderStays DEF DiscoveryInv
<1>8. CASE EndDiscovery \/ ListLocators
  <2>1. UNCHANGED folder
    BY <1>8 DEF EndDiscovery, ListLocators
  <2>2. CASE ~Abandon
    <3>1. /\ \/ phase = "visit" /\ phase' = "ready" /\ queue = <<>>
             \/ phase = "ready" /\ phase' = "listed"
          /\ UNCHANGED <<rootStat, queue, listing, locators, probe, steady>>
      BY <1>8, <2>2 DEF EndDiscovery, ListLocators
    <3>2. queue = <<>> /\ locators \in [Locator -> Gallery \cup {None}]
      BY <1>0, <3>1 DEF WalkInv, WalkTyped, Walking
    <3>3. WalkInv'
      BY <1>0, <2>1, <3>1, <3>2, WalkRests
    <3>4. ProbeInv'
      BY <1>0, <3>1, ProbeRests DEF Probing
    <3>5. QED
      BY <1>0, <2>1, <3>3, <3>4, FolderStays DEF DiscoveryInv
  <2>3. QED
    BY <1>7, <2>1, <2>2
<1>9. CASE \E l \in Locator : BeginProbe(l)
  <2>1. PICK l \in Locator : BeginProbe(l)
    BY <1>9
  <2>2. UNCHANGED folder /\ (SameRoot \/ Abandon)
    BY <2>1 DEF BeginProbe
  <2>3. QED
    BY <1>7, <2>1, <2>2, BeginProbeKeeps
<1>10. CASE LookUp
  BY <1>10, LookUpKeeps DEF LookUp
<1>11. CASE AllOpened \/ CheckBinding \/ EndProbe \/ TakeAnswer
  BY <1>11, ProbeMovesOn DEF AllOpened, CheckBinding, EndProbe, TakeAnswer
<1>12. CASE EndAttempt
  BY <1>7, <1>12 DEF EndAttempt
<1>13. QED
  BY <1>1, <1>2, <1>3, <1>4, <1>5, <1>6, <1>8, <1>9, <1>10, <1>11, <1>12 DEF DiscoveryNext

LEMMA InitDiscovery == DiscoveryInit => DiscoveryInv
<1> SUFFICES ASSUME DiscoveryInit
             PROVE  DiscoveryInv
  OBVIOUS
<1>1. /\ FolderInit /\ phase = "start" /\ rootStat = None /\ queue = <<>> /\ listing = {}
      /\ locators = [l \in Locator |-> None] /\ steady = {}
      /\ target = None /\ opened = <<>> /\ checked = 0 /\ gone = FALSE
  BY DEF DiscoveryInit
<1>2. queue \in Seq([path : Paths, dir : Directory]) /\ Len(queue) = 0
  BY <1>1
<1>3. opened \in Seq(Directory) /\ Len(opened) = 0
  BY <1>1
<1>4. WalkTyped
  BY <1>1, <1>2 DEF WalkTyped, Walking
<1>5. SteadyKept /\ SteadyAhead
  BY <1>1 DEF SteadyKept, SteadyAhead
<1>6. checked \in 0..Len(opened)
  BY <1>1, <1>3
<1>7. ProbeTyped /\ AbsenceKept
  BY <1>1, <1>3, <1>6 DEF ProbeTyped, AbsenceKept, Probing
<1>8. QED
  BY <1>1, <1>4, <1>5, <1>7, InitFolder DEF DiscoveryInv, WalkInv, ProbeInv

-----------------------------------------------------------------------------
(* The observation.  Stats never come back: a stat that was read is not    *)
(* newer than what the file is now, and is what the file is now when it is *)
(* of the same age.                                                        *)

Past(s, f) ==
    s # None =>
        /\ 0 < s.stamp /\ s.stamp <= clock
        /\ file[s.gallery][f] # 0 => s.stamp <= file[s.gallery][f]
        /\ file[s.gallery][f] = s.stamp => mtime[s.gallery][f] = s.modified

Before(s, t) ==
    s # None /\ t # None /\ s.gallery = t.gallery =>
        s.stamp <= t.stamp /\ (s.stamp = t.stamp => s = t)

Drafts == [files : [Entry -> Stats], after : Nat, more : BOOLEAN,
           entries : [Entry -> Stats] \cup {None}, tags : Stats, probed : Stats]

ObservationTyped ==
    /\ locator \in Locator \cup {None}
    /\ call \in {"none", "observe", "files", "entries", "tags", "final"}
    /\ step \in {"none", "index", "metadata", "scandir", "entries", "serve", "read", "audit"}
    /\ dirStat \in DirStats \cup {None}
    /\ marker \in Stats /\ names \subseteq Entry /\ unread \subseteq Entry
    /\ rows \in [Entry -> Stats] /\ active \in Snapshots /\ audit \in Snapshots
    /\ draft \in Drafts
    /\ views \subseteq [rows : [Entry -> Stats], half : SUBSET Page]

\* What each call has done by the time it is at a step.
CallShape ==
    /\ locator = None => call = "none" /\ audit = None /\ accepted = None
    /\ call = "none" => step = "none" /\ rows = NoRows /\ names = {}
    /\ step = "none" => call = "none"
    /\ unread # {} => step = "read"
    /\ step = "read" => call = "files"
    /\ step = "index" => call = "final" /\ rows = NoRows
    /\ step \in {"metadata", "scandir", "entries"} => dirStat # None
    /\ step \in {"scandir", "entries"} => marker # None
    /\ step = "audit" => call = "final"
    /\ step \in {"serve", "read", "audit"} => active # None
    /\ step \in {"metadata", "scandir", "serve", "read"} => rows = NoRows
    /\ active # None => active = audit
    /\ audit = None => draft = NoDraft
    /\ call = "final" => ~draft.more /\ draft.entries # None /\ draft.tags # None
    /\ accepted # None => call = "none"

AllPast ==
    /\ \A f \in Entry : Past(rows[f], f) /\ (audit # None => Past(audit.rows[f], f))
    /\ Past(marker, Info) /\ Past(draft.probed, Info)
    /\ \A v \in views, f \in Entry : Past(v.rows[f], f)

\* The snapshot is of a complete download, and what the core has been given is of it.
SnapshotFits ==
    /\ audit # None =>
         /\ audit.rows[Info] # None
         /\ \A p \in Page :
              audit.rows[p] # None => audit.rows[p].modified <= audit.rows[Info].modified
    /\ draft.entries # None =>
         /\ draft.entries = audit.rows
         /\ \A f \in Entry : audit.rows[f] # None => audit.rows[f].gallery = audit.dir.dir
    /\ draft.tags # None => draft.tags = audit.rows[Info]

\* Entries of the snapshot whose bytes were not hashed yet are on the page under way
\* or behind it.
Undone(f) == audit.rows[f] # None /\ draft.files[f] # audit.rows[f]

Paged ==
    audit # None => \A f \in Entry :
        /\ draft.files[f] \in {None, audit.rows[f]}
        /\ Undone(f) =>
             \/ f \in unread
             \/ draft.more /\ Rank[f] > draft.after /\ \A u \in unread : Rank[f] > Rank[u]

ProbedFits ==
    call = "final" =>
        /\ draft.probed # None /\ Before(audit.rows[Info], draft.probed)
        /\ Before(draft.probed, rows[Info])

\* A page that was being downloaded was newer than the marker.
ViewsFit ==
    /\ call = "final" => Now(locator) \in views
    /\ \A v \in views : \A p \in v.half :
         /\ v.rows[p] # None
         /\ v.rows[Info] # None => v.rows[p].modified > v.rows[Info].modified

\* The moment the last walk opened the directory: an entry that is read as the
\* snapshot has it was so then.
WasSo(v) ==
    \A f \in Entry :
        /\ v.rows[f] = None => f \notin names /\ rows[f] = None
        /\ v.rows[f] # None =>
             /\ v.rows[f].gallery = audit.dir.dir /\ Before(audit.rows[f], v.rows[f])
             /\ f \in names \/ rows[f] # None
        /\ rows[f] # None /\ rows[f] = audit.rows[f] => v.rows[f] = audit.rows[f]

Moment ==
    call = "final" /\ (step = "audit" \/ (step = "entries" /\ dirStat = audit.dir)) =>
        \E v \in views : WasSo(v)

AcceptedFits ==
    accepted # None =>
        \E v \in views :
            /\ accepted.files = v.rows /\ accepted.entries = v.rows
            /\ accepted.tags = v.rows[Info] /\ v.half = {}
            /\ \/ accepted.marker = v.rows[Info]
               \/ accepted.marker.gallery # v.rows[Info].gallery

ObservationInv ==
    /\ ObservationTyped /\ CallShape /\ AllPast /\ SnapshotFits /\ Paged
    /\ ProbedFits /\ ViewsFit /\ Moment /\ AcceptedFits

IInv == DiscoveryInv /\ ObservationInv

LEMMA StatsNow ==
    FolderInv =>
        \A p : \A f \in Entry :
            /\ Stat(p, f) \in Stats
            /\ Stat(p, f) # None => Stat(p, f).gallery = Resolve(p) /\ Resolve(p) \in Gallery
            /\ Past(Stat(p, f), f)
            /\ \A s \in Stats : Past(s, f) => Before(s, Stat(p, f))
<1> SUFFICES ASSUME FolderInv, NEW p, NEW f \in Entry
             PROVE  /\ Stat(p, f) \in Stats
                    /\ Stat(p, f) # None => Stat(p, f).gallery = Resolve(p) /\ Resolve(p) \in Gallery
                    /\ Past(Stat(p, f), f)
                    /\ \A s \in Stats : Past(s, f) => Before(s, Stat(p, f))
  OBVIOUS
<1>1. None \notin StatRecord
  BY FolderAssumption
<1>2. CASE Stat(p, f) = None
  BY <1>2 DEF Stats, Past, Before
<1>3. CASE Stat(p, f) # None
  <2>1. PICK g \in Gallery : g = Resolve(p)
    BY <1>3 DEF Stat
  <2>2. /\ file[g][f] \in Nat /\ mtime[g][f] \in Nat /\ file[g][f] <= clock /\ clock \in Nat
        /\ file[g][f] # 0
    BY <1>3, <2>1 DEF FolderInv, FolderTyped, Clocked, Stat, StatOf
  <2>3. PICK t \in StatRecord :
          t.gallery = g /\ t.stamp = file[g][f] /\ t.modified = mtime[g][f] /\ t = Stat(p, f)
    BY <1>3, <2>1, <2>2 DEF Stat, StatOf, StatRecord
  <2>4. Past(t, f)
    BY <2>2, <2>3 DEF Past
  <2>5. ASSUME NEW s \in StatRecord, Past(s, f), s.gallery = t.gallery
        PROVE  s.stamp <= t.stamp /\ (s.stamp = t.stamp => s = t)
    <3>1. s # None
      BY <1>1
    <3>2. s.stamp <= t.stamp /\ (s.stamp = t.stamp => s.modified = t.modified)
      BY <2>2, <2>3, <2>5, <3>1 DEF Past
    <3>3. QED
      BY <2>5, <3>2 DEF StatRecord
  <2>6. \A s \in Stats : Past(s, f) => Before(s, t)
    BY <2>5 DEF Stats, Before
  <2>7. QED
    BY <2>1, <2>3, <2>4, <2>6 DEF Stats
<1>4. QED
  BY <1>2, <1>3

\* Two stats of one file, neither of them newer than the other.
LEMMA BeforeBoth ==
    ASSUME NEW s \in StatRecord, NEW t \in StatRecord, Before(s, t), Before(t, s),
           s.gallery = t.gallery
    PROVE  s = t
BY FolderAssumption DEF Before, StatRecord

LEMMA PastStays ==
    ASSUME FolderInv, FilesChange, NEW s \in Stats, NEW f \in Entry, Past(s, f)
    PROVE  Past(s, f)'
<1> SUFFICES ASSUME s # None
             PROVE  /\ 0 < s.stamp /\ s.stamp <= clock'
                    /\ file'[s.gallery][f] # 0 => s.stamp <= file'[s.gallery][f]
                    /\ file'[s.gallery][f] = s.stamp => mtime'[s.gallery][f] = s.modified
  BY DEF Past
<1>1. s.gallery \in Gallery /\ s.stamp \in Nat /\ clock \in Nat
  BY DEF Stats, StatRecord, FolderInv, FolderTyped
<1>2. /\ 0 < s.stamp /\ s.stamp <= clock
      /\ file[s.gallery][f] # 0 => s.stamp <= file[s.gallery][f]
      /\ file[s.gallery][f] = s.stamp => mtime[s.gallery][f] = s.modified
  BY DEF Past
<1>3. PICK was, now : was = file[s.gallery][f] /\ now = file'[s.gallery][f]
  OBVIOUS
<1>4. /\ clock' = clock + 1
      /\ \/ now = was /\ mtime'[s.gallery][f] = mtime[s.gallery][f]
         \/ now = clock + 1
         \/ now = 0
  BY <1>1, <1>3 DEF FilesChange
<1>5. /\ s.stamp <= clock + 1 /\ s.stamp # clock + 1 /\ s.stamp # 0
  BY <1>1, <1>2
<1>6. QED
  BY <1>2, <1>3, <1>4, <1>5

LEMMA PastSame ==
    ASSUME UNCHANGED folder
    PROVE  /\ \A s, f : Past(s, f) => Past(s, f)'
           /\ \A l : Now(l)' = Now(l)
<1>1. \A s, f : Past(s, f) => Past(s, f)'
  BY DEF folder, Past
<1>2. \A l : Now(l)' = Now(l)
  <2>1. half' = half /\ (\A l : Resolve(l)' = Resolve(l)) /\ (\A l, f : Stat(l, f)' = Stat(l, f))
    BY FolderStays DEF folder
  <2>2. \A l : View(l)' = View(l)
    BY <2>1 DEF View
  <2>3. QED
    BY <2>1, <2>2 DEF Now
<1>3. QED
  BY <1>1, <1>2

LEMMA DraftsAre ==
    /\ NoRows \in [Entry -> Stats] /\ NoDraft \in Drafts
    /\ None \in Stats /\ None \in Snapshots /\ None \notin [Entry -> Stats]
    /\ \A d \in Drafts : d.files \in [Entry -> Stats] /\ d.after \in Nat /\ d.more \in BOOLEAN
                         /\ d.entries \in [Entry -> Stats] \cup {None}
                         /\ d.tags \in Stats /\ d.probed \in Stats
    /\ NoDraft.entries = None /\ NoDraft.tags = None /\ NoDraft.probed = None
    /\ \A f \in Entry : NoRows[f] = None /\ NoDraft.files[f] = None
    /\ NoDraft.after = 0 /\ NoDraft.more = TRUE
BY ObservationAssumption DEF NoRows, NoDraft, Drafts, Stats, Snapshots

\* An attempt that is given up keeps nothing of the gallery.
LEMMA NothingFits ==
    ASSUME FolderInv, CallEnds, NoObservation
    PROVE  ObservationInv'
<1>1. /\ locator' = None /\ call' = "none" /\ step' = "none" /\ dirStat' = None
      /\ marker' = None /\ names' = {} /\ rows' = NoRows /\ unread' = {}
      /\ active' = None /\ audit' = None /\ draft' = NoDraft /\ accepted' = None /\ views' = {}
  BY DEF CallEnds, NoObservation
<1>2. ObservationTyped' /\ CallShape'
  BY <1>1, DraftsAre DEF ObservationTyped, CallShape
<1>3. AllPast' /\ SnapshotFits' /\ Paged'
  BY <1>1, DraftsAre DEF AllPast, SnapshotFits, Paged, Past
<1>4. ProbedFits' /\ ViewsFit' /\ Moment' /\ AcceptedFits'
  BY <1>1 DEF ProbedFits, ViewsFit, Moment, AcceptedFits
<1>5. QED
  BY <1>2, <1>3, <1>4 DEF ObservationInv

LEMMA ObservationFolderStep ==
    ASSUME DiscoveryInv, ObservationInv, FolderChanges
    PROVE  ObservationInv'
<1>1. /\ FolderInv /\ FolderInv' /\ FilesChange
      /\ UNCHANGED <<locator, call, step, dirStat, marker, names, rows, active, audit, unread,
                     draft, accepted>>
      /\ views' = IF views = {} THEN views ELSE views \cup {Now(locator)'}
  BY DiscoveryFolderStep DEF FolderChanges, DiscoveryInv
<1>2. \A p : \A f \in Entry : Stat(p, f)' \in Stats /\ Past(Stat(p, f), f)'
  <2>1. (\A p : \A f \in Entry :
            /\ Stat(p, f) \in Stats
            /\ Stat(p, f) # None => Stat(p, f).gallery = Resolve(p) /\ Resolve(p) \in Gallery
            /\ Past(Stat(p, f), f)
            /\ \A s \in Stats : Past(s, f) => Before(s, Stat(p, f)))'
    BY <1>1, StatsNow, PTL
  <2>2. QED
    BY <2>1
<1>3. PICK now : now = Now(locator)'
  OBVIOUS
<1>4. now.rows = View(locator)' /\ now.half = {p \in Page : <<Resolve(locator)', p>> \in half'}
  BY <1>1, <1>3 DEF Now
<1>5. /\ now \in [rows : [Entry -> Stats], half : SUBSET Page]
      /\ \A f \in Entry : now.rows[f] = Stat(locator, f)'
      /\ \A f \in Entry : Past(now.rows[f], f)'
  <2>1. \A f \in Entry : now.rows[f] = Stat(locator, f)'
    BY <1>1, <1>4 DEF View
  <2>2. now.rows \in [Entry -> Stats]
    BY <1>1, <1>2, <1>4 DEF View
  <2>3. \A f \in Entry : Past(now.rows[f], f)'
    <3>1. ASSUME NEW f \in Entry, NEW s, s = Stat(locator, f)'
          PROVE  Past(s, f)'
      BY <1>1, <1>2, <3>1 DEF Past
    <3>2. QED
      BY <2>1, <3>1
  <2>4. QED
    BY <1>3, <2>1, <2>2, <2>3 DEF Now
<1>6. ObservationTyped'
  BY <1>1, <1>3, <1>5 DEF ObservationInv, ObservationTyped
<1>7. CallShape' /\ SnapshotFits' /\ ProbedFits'
  BY <1>1 DEF ObservationInv, CallShape, SnapshotFits, ProbedFits
<1>8. Paged'
  BY <1>1 DEF ObservationInv, Paged, Undone
<1>9. Moment'
  <2>1. \A v : WasSo(v)' <=> WasSo(v)
    BY <1>1 DEF WasSo
  <2>2. views \subseteq views'
    BY <1>1
  <2>3. QED
    BY <1>1, <2>1, <2>2 DEF ObservationInv, Moment
<1>10. AcceptedFits'
  <2>1. views \subseteq views'
    BY <1>1
  <2>2. QED
    BY <1>1, <2>1 DEF ObservationInv, AcceptedFits
<1>11. AllPast'
  <2>1. \A s \in Stats : \A f \in Entry : Past(s, f) => Past(s, f)'
    BY <1>1, PastStays
  <2>2. \A f \in Entry : rows[f] \in Stats /\ (audit # None => audit.rows[f] \in Stats)
    BY DEF ObservationInv, ObservationTyped, Snapshots, SnapshotRecord
  <2>3. Info \in Entry /\ marker \in Stats /\ draft.probed \in Stats
    BY EntriesAre, DraftsAre DEF ObservationInv, ObservationTyped
  <2>4. \A v \in views, f \in Entry : v.rows[f] \in Stats
    BY DEF ObservationInv, ObservationTyped
  <2>5. /\ \A f \in Entry : Past(rows[f], f)' /\ (audit # None => Past(audit.rows[f], f)')
        /\ Past(marker, Info)' /\ Past(draft.probed, Info)'
    <3>1. /\ \A f \in Entry : Past(rows[f], f) /\ (audit # None => Past(audit.rows[f], f))
          /\ Past(marker, Info) /\ Past(draft.probed, Info)
      BY DEF ObservationInv, AllPast
    <3>2. PICK m, d, a, r : m = marker /\ d = draft /\ a = audit /\ r = rows
      OBVIOUS
    <3>3. /\ \A f \in Entry : Past(r[f], f)' /\ (a # None => Past(a.rows[f], f)')
          /\ Past(m, Info)' /\ Past(d.probed, Info)'
      BY <2>1, <2>2, <2>3, <3>1, <3>2
    <3>4. QED
      BY <1>1, <3>2, <3>3 DEF Past
  <2>6. \A v \in views', f \in Entry : Past(v.rows[f], f)'
    <3>1. \A v \in views, f \in Entry : Past(v.rows[f], f)'
      BY <2>1, <2>4 DEF ObservationInv, AllPast
    <3>2. QED
      BY <1>1, <1>3, <1>5, <3>1
  <2>7. QED
    BY <1>1, <2>5, <2>6 DEF AllPast
<1>12. ViewsFit'
  <2>1. call' = "final" => Now(locator)' \in views'
    BY <1>1 DEF ObservationInv, ViewsFit
  <2>2. ASSUME NEW p \in now.half
        PROVE  /\ now.rows[p] # None
               /\ now.rows[Info] # None => now.rows[p].modified > now.rows[Info].modified
    <3>1. PICK g : g = Resolve(locator)'
      OBVIOUS
    <3>2. p \in Page /\ <<g, p>> \in half'
      BY <1>4, <2>2, <3>1
    <3>3. g \in Gallery /\ file'[g][p] # 0 /\ mtime'[g][p] > mtime'[g][Info]
      BY <1>1, <3>2 DEF FolderInv, FolderTyped, HalfIsFresh
    <3>4. \A f \in Entry : now.rows[f] = StatOf(g, f)'
      BY <1>5, <3>1, <3>3 DEF Stat, StatOf
    <3>5. p \in Entry /\ Info \in Entry
      BY <3>2, EntriesAre
    <3>6. now.rows[p] = [gallery |-> g, stamp |-> file'[g][p], modified |-> mtime'[g][p]]
      BY <3>3, <3>4, <3>5 DEF StatOf
    <3>7. now.rows[p] \in StatRecord
      BY <1>1, <3>3, <3>5, <3>6 DEF FolderInv, FolderTyped, StatRecord
    <3>8. now.rows[Info] # None => now.rows[Info].modified = mtime'[g][Info]
      <4>1. PICK t : t = [gallery |-> g, stamp |-> file'[g][Info], modified |-> mtime'[g][Info]]
        OBVIOUS
      <4>2. now.rows[Info] = StatOf(g, Info)'
        BY <3>4, <3>5
      <4>3. now.rows[Info] = IF file'[g][Info] = 0 THEN None ELSE t
        BY <4>1, <4>2 DEF StatOf
      <4>4. t.modified = mtime'[g][Info]
        BY <4>1
      <4>5. QED
        BY <4>3, <4>4
    <3>9. QED
      BY <3>3, <3>6, <3>7, <3>8, FolderAssumption
  <2>3. QED
    BY <1>1, <1>3, <2>1, <2>2 DEF ObservationInv, ViewsFit
<1>13. QED
  BY <1>6, <1>7, <1>8, <1>9, <1>10, <1>11, <1>12 DEF ObservationInv

LEMMA PartsStay ==
    ASSUME ObservationInv, SourceUnchanged
    PROVE  /\ UNCHANGED <<rows, audit, marker, draft, views>> => AllPast'
           /\ UNCHANGED <<audit, draft>> => SnapshotFits'
           /\ UNCHANGED <<audit, draft, unread>> => Paged'
           /\ call' # "final" \/ UNCHANGED <<call, draft, audit, rows>> => ProbedFits'
           /\ UNCHANGED views /\ (call' # "final" \/ UNCHANGED <<call, locator>>) => ViewsFit'
           /\ call' # "final" \/ step' \notin {"entries", "audit"} => Moment'
           /\ UNCHANGED <<accepted, views>> => AcceptedFits'
<1>1. UNCHANGED <<rows, audit, marker, draft, views>> => AllPast'
  BY PastSame DEF ObservationInv, AllPast, SourceUnchanged
<1>2. UNCHANGED <<audit, draft>> => SnapshotFits'
  BY DEF ObservationInv, SnapshotFits
<1>3. UNCHANGED <<audit, draft, unread>> => Paged'
  BY DEF ObservationInv, Paged, Undone
<1>4. call' # "final" \/ UNCHANGED <<call, draft, audit, rows>> => ProbedFits'
  BY DEF ObservationInv, ProbedFits
<1>5. UNCHANGED views /\ (call' # "final" \/ UNCHANGED <<call, locator>>) => ViewsFit'
  <2>1. \A l : Now(l)' = Now(l)
    BY PastSame DEF SourceUnchanged
  <2>2. QED
    BY <2>1 DEF ObservationInv, ViewsFit
<1>6. call' # "final" \/ step' \notin {"entries", "audit"} => Moment'
  BY DEF Moment
<1>7. UNCHANGED <<accepted, views>> => AcceptedFits'
  BY DEF ObservationInv, AcceptedFits
<1>8. QED
  BY <1>1, <1>2, <1>3, <1>4, <1>5, <1>6, <1>7

LEMMA DirStatIs == FolderInv => \A p : DirStat(p) \in DirStats \cup {None}
BY DEF FolderInv, FolderTyped, DirStat, DirStats

LEMMA BeginObservationKeeps ==
    ASSUME FolderInv, ObservationInv, NEW l \in Locator, BeginObservation(l)
    PROVE  ObservationInv'
<1>1. /\ locator = None /\ locator' = l /\ call' = "observe" /\ dirStat' = DirStat(l)
      /\ DirStat(l) # None /\ step' = (IF active = None THEN "metadata" ELSE "serve")
      /\ UNCHANGED <<marker, names, rows, active, audit, unread, draft, accepted, views>>
      /\ SourceUnchanged
  BY DEF BeginObservation, InInventory, Index
<1>2. ObservationTyped'
  BY <1>1, DirStatIs DEF ObservationInv, ObservationTyped
<1>3. CallShape'
  BY <1>1, DiscoveryAssumption DEF ObservationInv, CallShape
<1>4. QED
  BY <1>1, <1>2, <1>3, PartsStay DEF ObservationInv

LEMMA BeginCallKeeps ==
    ASSUME FolderInv, ObservationInv, NEW c \in {"files", "entries", "tags"}, BeginCall(c)
    PROVE  ObservationInv'
<1>1. locator # None /\ call = "none" /\ accepted = None /\ SourceUnchanged
  BY DEF BeginCall
<1>2. CASE InInventory(locator)
  <2>1. /\ call' = c /\ dirStat' = DirStat(locator)
        /\ DirStat(locator) # None /\ step' = (IF active = None THEN "metadata" ELSE "serve")
        /\ UNCHANGED <<locator, marker, names, rows, active, audit, unread, draft, accepted,
                       views>>
    BY <1>2 DEF BeginCall, InInventory, Index
  <2>2. ObservationTyped'
    BY <2>1, DirStatIs DEF ObservationInv, ObservationTyped
  <2>3. CallShape'
    BY <1>1, <2>1 DEF ObservationInv, CallShape
  <2>4. QED
    BY <1>1, <2>1, <2>2, <2>3, PartsStay DEF ObservationInv
<1>3. CASE ~InInventory(locator)
  BY <1>3, NothingFits DEF BeginCall, Deferred
<1>4. QED
  BY <1>2, <1>3

LEMMA BeginFinalKeeps ==
    ASSUME FolderInv, ObservationInv, BeginFinal
    PROVE  ObservationInv'
<1>1. /\ locator # None /\ call = "none" /\ accepted = None /\ SourceUnchanged
      /\ \A c \in {"files", "entries", "tags"} : ~Wanted(c)
  BY DEF BeginFinal
<1>2. CASE SameRoot /\ MarkerRead # None
  <2>1. /\ call' = "final" /\ step' = "index"
        /\ draft' = [draft EXCEPT !.probed = MarkerRead] /\ views' = {Now(locator)}
        /\ UNCHANGED <<locator, dirStat, marker, names, rows, active, audit, unread, accepted>>
    BY <1>2 DEF BeginFinal
  <2>2. ~draft.more /\ draft.entries # None /\ draft.tags # None
    BY <1>1 DEF Wanted
  <2>3. PICK t : t = Stat(locator, Info)
    OBVIOUS
  <2>4. /\ t \in Stats /\ t # None /\ Past(t, Info)
        /\ \A s \in Stats : Past(s, Info) => Before(s, t)
    BY <1>2, <2>3, StatsNow, EntriesAre DEF MarkerRead
  <2>5. /\ draft' \in Drafts /\ draft'.probed = t /\ draft'.files = draft.files
        /\ draft'.after = draft.after /\ draft'.more = draft.more
        /\ draft'.entries = draft.entries /\ draft'.tags = draft.tags
    BY <2>1, <2>3, <2>4 DEF MarkerRead, ObservationInv, ObservationTyped, Drafts
  <2>6. PICK now : now = Now(locator)
    OBVIOUS
  <2>7. now.rows = View(locator) /\ now.half = {p \in Page : <<Resolve(locator), p>> \in half}
    BY <2>6 DEF Now
  <2>8. /\ now \in [rows : [Entry -> Stats], half : SUBSET Page]
        /\ \A f \in Entry : now.rows[f] = Stat(locator, f) /\ Past(now.rows[f], f)
    BY <2>6, <2>7, StatsNow DEF Now, View
  <2>9. ObservationTyped'
    BY <2>1, <2>5, <2>6, <2>8 DEF ObservationInv, ObservationTyped
  <2>10. audit # None
    BY <2>2, DraftsAre DEF ObservationInv, CallShape
  <2>11. CallShape'
    BY <1>1, <2>1, <2>2, <2>5, <2>10 DEF ObservationInv, CallShape
  <2>12. AllPast'
    <3>1. /\ \A f \in Entry : Past(rows[f], f)' /\ (audit # None => Past(audit.rows[f], f)')
          /\ Past(marker, Info)'
      BY <1>1, <2>1, PastSame DEF ObservationInv, AllPast, SourceUnchanged, Past, folder
    <3>2. Past(t, Info)' /\ \A f \in Entry : Past(now.rows[f], f)'
      BY <1>1, <2>4, <2>8, PastSame DEF SourceUnchanged
    <3>3. PICK d : d = draft'
      OBVIOUS
    <3>4. Past(draft.probed, Info)'
      BY <2>5, <3>2 DEF Past
    <3>5. views' = {now}
      BY <2>1, <2>6
    <3>6. QED
      BY <2>1, <3>1, <3>2, <3>4, <3>5 DEF AllPast
  <2>13. SnapshotFits'
    BY <2>1, <2>5 DEF ObservationInv, SnapshotFits
  <2>14. Paged'
    BY <2>1, <2>5 DEF ObservationInv, Paged, Undone
  <2>15. ProbedFits'
    <3>1. audit.rows[Info] \in Stats /\ Past(audit.rows[Info], Info)
      BY <2>10, EntriesAre DEF ObservationInv, ObservationTyped, AllPast, Snapshots, SnapshotRecord
    <3>2. rows[Info] = None
      BY <1>1, EntriesAre, DraftsAre DEF ObservationInv, CallShape
    <3>3. Before(audit.rows[Info], t) /\ Before(t, rows[Info])
      BY <2>4, <3>1, <3>2 DEF Before
    <3>4. QED
      BY <2>1, <2>4, <2>5, <3>3 DEF ProbedFits, Before
  <2>16. ViewsFit'
    <3>1. Now(locator)' = Now(locator)
      BY <1>1, <2>1, PastSame DEF SourceUnchanged
    <3>2. ASSUME NEW p \in now.half
          PROVE  /\ now.rows[p] # None
                 /\ now.rows[Info] # None => now.rows[p].modified > now.rows[Info].modified
      <4>1. PICK g : g = Resolve(locator)
        OBVIOUS
      <4>2. p \in Page /\ <<g, p>> \in half
        BY <2>7, <3>2, <4>1
      <4>3. g \in Gallery /\ file[g][p] # 0 /\ mtime[g][p] > mtime[g][Info]
        BY <4>2 DEF FolderInv, FolderTyped, HalfIsFresh
      <4>4. \A f \in Entry : now.rows[f] = StatOf(g, f)
        BY <2>8, <4>1, <4>3 DEF Stat
      <4>5. p \in Entry /\ Info \in Entry
        BY <4>2, EntriesAre
      <4>6. PICK u : u = [gallery |-> g, stamp |-> file[g][p], modified |-> mtime[g][p]]
        OBVIOUS
      <4>7. PICK w : w = [gallery |-> g, stamp |-> file[g][Info], modified |-> mtime[g][Info]]
        OBVIOUS
      <4>8. now.rows[p] = u /\ u \in StatRecord
        BY <4>3, <4>4, <4>5, <4>6 DEF StatOf, FolderInv, FolderTyped, StatRecord
      <4>9. now.rows[Info] = IF file[g][Info] = 0 THEN None ELSE w
        BY <4>4, <4>5, <4>7 DEF StatOf
      <4>10. u.modified = mtime[g][p] /\ w.modified = mtime[g][Info]
        BY <4>6, <4>7
      <4>11. QED
        BY <4>3, <4>8, <4>9, <4>10, FolderAssumption
    <3>3. QED
      BY <2>1, <2>6, <3>1, <3>2 DEF ViewsFit
  <2>17. Moment' /\ AcceptedFits'
    BY <1>1, <2>1 DEF Moment, AcceptedFits
  <2>18. QED
    BY <2>9, <2>11, <2>12, <2>13, <2>14, <2>15, <2>16, <2>17 DEF ObservationInv
<1>3. CASE ~(SameRoot /\ MarkerRead # None)
  BY <1>3, NothingFits DEF BeginFinal, Deferred
<1>4. QED
  BY <1>2, <1>3

LEMMA IndexFinalKeeps ==
    ASSUME FolderInv, ObservationInv, IndexFinal
    PROVE  ObservationInv'
<1>1. call = "final" /\ step = "index" /\ SourceUnchanged
  BY DEF IndexFinal
<1>2. CASE InInventory(locator)
  <2>1. /\ dirStat' = DirStat(locator)
        /\ DirStat(locator) # None /\ step' = (IF active = None THEN "metadata" ELSE "serve")
        /\ UNCHANGED <<locator, call, marker, names, rows, active, audit, unread, draft, accepted,
                       views>>
    BY <1>2 DEF IndexFinal, InInventory, Index
  <2>2. ObservationTyped'
    BY <2>1, DirStatIs DEF ObservationInv, ObservationTyped
  <2>3. CallShape'
    BY <1>1, <2>1 DEF ObservationInv, CallShape
  <2>4. QED
    BY <1>1, <2>1, <2>2, <2>3, PartsStay DEF ObservationInv
<1>3. CASE ~InInventory(locator)
  BY <1>3, NothingFits DEF IndexFinal, Deferred
<1>4. QED
  BY <1>2, <1>3

LEMMA EvictSnapshotKeeps ==
    ASSUME FolderInv, ObservationInv, EvictSnapshot
    PROVE  ObservationInv'
<1>1. /\ call = "none" /\ active' = None /\ SourceUnchanged
      /\ UNCHANGED <<locator, call, step, dirStat, marker, names, rows, audit, unread, draft,
                     accepted, views>>
  BY DEF EvictSnapshot
<1>2. ObservationTyped' /\ CallShape'
  BY <1>1, DraftsAre DEF ObservationInv, ObservationTyped, CallShape
<1>3. QED
  BY <1>1, <1>2, PartsStay DEF ObservationInv

LEMMA ReadMetadataKeeps ==
    ASSUME FolderInv, ObservationInv, ReadMetadata
    PROVE  ObservationInv'
<1>1. step = "metadata" /\ SourceUnchanged
  BY DEF ReadMetadata
<1>2. CASE MarkerRead # None
  <2>1. /\ marker' = Stat(locator, Info) /\ marker' # None /\ step' = "scandir"
        /\ UNCHANGED <<locator, call, dirStat, names, rows, active, audit, unread, draft,
                       accepted, views>>
    BY <1>2 DEF ReadMetadata, MarkerRead
  <2>2. PICK t \in Stats : t = marker' /\ Past(t, Info)
    BY <2>1, StatsNow, EntriesAre
  <2>3. ObservationTyped' /\ CallShape'
    BY <1>1, <2>1, <2>2 DEF ObservationInv, ObservationTyped, CallShape
  <2>4. AllPast'
    <3>1. Past(t, Info)'
      BY <1>1, <2>2, PastSame DEF SourceUnchanged
    <3>2. Past(marker, Info)'
      BY <2>2, <3>1 DEF Past
    <3>3. QED
      BY <1>1, <2>1, <3>2, PastSame DEF ObservationInv, AllPast, SourceUnchanged
  <2>5. QED
    BY <1>1, <2>1, <2>3, <2>4, PartsStay DEF ObservationInv
<1>3. CASE MarkerRead = None
  BY <1>3, NothingFits DEF ReadMetadata, Deferred
<1>4. QED
  BY <1>2, <1>3

\* A directory that is opened is that of a view, and all its entries are to be read.
LEMMA OpenKeeps ==
    ASSUME FolderInv, ObservationInv, SourceUnchanged, NEW next \in {"entries", "audit"},
           OpenDirectory(next), DirStat(locator) # None,
           next = "entries" => step = "scandir",
           next = "audit" => step = "serve" /\ call = "final",
           call = "final" /\ (next = "audit" \/ dirStat = audit.dir) => DirStat(locator) = audit.dir
    PROVE  ObservationInv'
<1>1. /\ names' = Entries(locator) /\ rows' = NoRows /\ step' = next
      /\ UNCHANGED <<locator, call, dirStat, marker, active, audit, unread, draft, accepted, views>>
  BY DEF OpenDirectory
<1>2. ObservationTyped'
  BY <1>1, DraftsAre DEF ObservationInv, ObservationTyped, Entries
<1>3. CallShape'
  BY <1>1 DEF ObservationInv, CallShape
<1>4. rows = NoRows
  BY DEF ObservationInv, CallShape
<1>5. AllPast' /\ SnapshotFits' /\ Paged' /\ ProbedFits' /\ ViewsFit' /\ AcceptedFits'
  BY <1>1, <1>4, PartsStay
<1>6. Moment'
  <2>1. SUFFICES ASSUME call = "final", step' = "audit" \/ dirStat = audit.dir
                 PROVE  \E v \in views : WasSo(v)'
    BY <1>1 DEF Moment
  <2>2. PICK v \in views : v = Now(locator)
    BY <2>1 DEF ObservationInv, ViewsFit
  <2>3. \A f \in Entry : v.rows[f] = Stat(locator, f)
    BY <2>2 DEF Now, View
  <2>4. audit # None
    BY <2>1, DraftsAre DEF ObservationInv, CallShape
  <2>5. ASSUME NEW f \in Entry
        PROVE  /\ v.rows[f] = None => f \notin names' /\ rows'[f] = None
               /\ v.rows[f] # None =>
                    /\ v.rows[f].gallery = audit'.dir.dir /\ Before(audit.rows[f], v.rows[f])'
                    /\ f \in names' \/ rows'[f] # None
               /\ rows'[f] # None /\ rows'[f] = audit'.rows[f] => v.rows[f] = audit'.rows[f]
    <3>1. rows'[f] = None /\ (f \in names' <=> v.rows[f] # None)
      BY <1>1, <2>3, DraftsAre DEF Entries
    <3>2. audit.rows[f] \in Stats /\ Past(audit.rows[f], f)
      BY <2>4 DEF ObservationInv, ObservationTyped, AllPast, Snapshots, SnapshotRecord
    <3>3. Before(audit.rows[f], v.rows[f])
      BY <2>3, <3>2, StatsNow
    <3>4. v.rows[f] # None => v.rows[f].gallery = Resolve(locator)
      BY <2>3, StatsNow
    <3>5. Resolve(locator) = audit.dir.dir
      BY <1>1, <2>1 DEF DirStat
    <3>6. QED
      BY <1>1, <3>1, <3>3, <3>4, <3>5 DEF Before
  <2>6. WasSo(v)'
    BY <2>5 DEF WasSo
  <2>7. QED
    BY <2>6
<1>7. QED
  BY <1>2, <1>3, <1>5, <1>6 DEF ObservationInv

LEMMA ScanKeeps ==
    ASSUME FolderInv, ObservationInv, ScanGallery \/ ScanAudit
    PROVE  ObservationInv'
<1>1. CASE ScanGallery /\ DirStat(locator) = dirStat
  <2>1. OpenDirectory("entries") /\ SourceUnchanged /\ step = "scandir" /\ dirStat # None
    BY <1>1 DEF ScanGallery, ObservationInv, CallShape
  <2>2. QED
    BY <1>1, <2>1, OpenKeeps
<1>2. CASE ScanAudit /\ SameRoot /\ DirStat(locator) = active.dir
  <2>1. /\ OpenDirectory("audit") /\ SourceUnchanged /\ step = "serve" /\ call = "final"
        /\ active # None /\ active = audit
    BY <1>2 DEF ScanAudit, ObservationInv, CallShape
  <2>2. DirStat(locator) # None
    BY <1>2, <2>1, ObservationAssumption
       DEF ObservationInv, ObservationTyped, Snapshots, SnapshotRecord
  <2>3. QED
    BY <1>2, <2>1, <2>2, OpenKeeps
<1>3. CASE Deferred
  BY <1>3, NothingFits DEF Deferred
<1>4. QED
  BY <1>1, <1>2, <1>3 DEF ScanGallery, ScanAudit

LEMMA StatRowKeeps ==
    ASSUME FolderInv, ObservationInv, NEW f \in Entry, StatRow(f)
    PROVE  ObservationInv'
<1>1. step \in {"entries", "audit"} /\ f \in names /\ SourceUnchanged
  BY DEF StatRow
<1>2. CASE Stat(locator, f) # None
  <2>1. PICK t \in Stats : t = Stat(locator, f)
    BY StatsNow
  <2>2. t # None /\ Past(t, f) /\ \A s \in Stats : Past(s, f) => Before(s, t)
    BY <1>2, <2>1, StatsNow
  <2>3. /\ rows' = [rows EXCEPT ![f] = t] /\ names' = names \ {f}
        /\ UNCHANGED <<locator, call, step, dirStat, marker, active, audit, unread, draft,
                       accepted, views>>
    BY <1>2, <2>1 DEF StatRow
  <2>4. /\ rows \in [Entry -> Stats] /\ rows'[f] = t
        /\ \A e \in Entry : e # f => rows'[e] = rows[e]
        /\ rows' \in [Entry -> Stats]
    BY <2>3 DEF ObservationInv, ObservationTyped
  <2>5. ObservationTyped' /\ CallShape'
    BY <1>1, <2>3, <2>4 DEF ObservationInv, ObservationTyped, CallShape
  <2>6. SnapshotFits' /\ Paged' /\ ViewsFit' /\ AcceptedFits'
    BY <1>1, <2>3, PartsStay
  <2>7. AllPast'
    <3>1. \A s, e : Past(s, e) => Past(s, e)'
      BY <1>1, PastSame DEF SourceUnchanged
    <3>2. PICK r : r = rows'
      OBVIOUS
    <3>3. \A e \in Entry : Past(r[e], e)
      BY <2>2, <2>4, <3>2 DEF ObservationInv, AllPast
    <3>4. \A e \in Entry : Past(r[e], e)'
      BY <3>1, <3>3
    <3>5. \A e \in Entry : Past(rows[e], e)'
      BY <3>2, <3>4 DEF Past
    <3>6. QED
      BY <2>3, <3>1, <3>5 DEF ObservationInv, AllPast
  <2>8. ProbedFits'
    <3>1. SUFFICES ASSUME call = "final"
                   PROVE  /\ draft.probed # None /\ Before(audit.rows[Info], draft.probed)
                          /\ Before(draft.probed, rows'[Info])
      BY <2>3 DEF ProbedFits, Before
    <3>2. /\ draft.probed # None /\ Before(audit.rows[Info], draft.probed)
          /\ Before(draft.probed, rows[Info])
      BY <3>1 DEF ObservationInv, ProbedFits
    <3>3. draft.probed \in Stats /\ Past(draft.probed, Info)
      BY DraftsAre DEF ObservationInv, ObservationTyped, AllPast
    <3>4. f = Info => Before(draft.probed, t)
      BY <2>2, <3>3
    <3>5. QED
      BY <2>4, <3>2, <3>4, EntriesAre
  <2>9. Moment'
    <3>1. SUFFICES ASSUME call = "final", step = "audit" \/ (step = "entries" /\ dirStat = audit.dir)
                   PROVE  \E v \in views : WasSo(v)'
      BY <2>3 DEF Moment
    <3>2. PICK v \in views : WasSo(v)
      BY <3>1 DEF ObservationInv, Moment
    <3>3. /\ v.rows[f] # None /\ v.rows[f] \in Stats /\ Past(v.rows[f], f)
          /\ v.rows[f].gallery = audit.dir.dir /\ Before(audit.rows[f], v.rows[f])
      BY <1>1, <3>2 DEF WasSo, ObservationInv, ObservationTyped, AllPast
    <3>4. Before(v.rows[f], t)
      BY <2>2, <3>3
    <3>5. t = audit.rows[f] => v.rows[f] = t
      <4>1. ASSUME t = audit.rows[f]
            PROVE  v.rows[f] = t
        <5>1. draft.entries # None /\ audit # None
          BY <3>1, DraftsAre DEF ObservationInv, CallShape
        <5>2. t.gallery = audit.dir.dir
          BY <2>2, <4>1, <5>1 DEF ObservationInv, SnapshotFits
        <5>3. t \in StatRecord /\ v.rows[f] \in StatRecord
          BY <2>2, <3>3 DEF Stats
        <5>4. PICK w : w = v.rows[f]
          OBVIOUS
        <5>5. QED
          BY <3>3, <3>4, <4>1, <5>2, <5>3, <5>4, BeforeBoth
      <4>2. QED
        BY <4>1
    <3>6. ASSUME NEW e \in Entry
          PROVE  /\ v.rows[e] = None => e \notin names' /\ rows'[e] = None
                 /\ v.rows[e] # None =>
                      /\ v.rows[e].gallery = audit.dir.dir /\ Before(audit.rows[e], v.rows[e])
                      /\ e \in names' \/ rows'[e] # None
                 /\ rows'[e] # None /\ rows'[e] = audit.rows[e] => v.rows[e] = audit.rows[e]
      <4>1. /\ v.rows[e] = None => e \notin names /\ rows[e] = None
            /\ v.rows[e] # None =>
                 /\ v.rows[e].gallery = audit.dir.dir /\ Before(audit.rows[e], v.rows[e])
                 /\ e \in names \/ rows[e] # None
            /\ rows[e] # None /\ rows[e] = audit.rows[e] => v.rows[e] = audit.rows[e]
        BY <3>2 DEF WasSo
      <4>2. CASE e = f
        BY <2>2, <2>3, <2>4, <3>3, <3>5, <4>1, <4>2
      <4>3. CASE e # f
        BY <2>3, <2>4, <4>1, <4>3
      <4>4. QED
        BY <4>2, <4>3
    <3>7. WasSo(v)'
      BY <2>3, <3>6 DEF WasSo, Before
    <3>8. QED
      BY <3>7
  <2>10. QED
    BY <2>5, <2>6, <2>7, <2>8, <2>9 DEF ObservationInv
<1>3. CASE Stat(locator, f) = None
  BY <1>3, NothingFits DEF StatRow, Deferred
<1>4. QED
  BY <1>2, <1>3

\* What is accepted is what the locator led to when the last walk opened the directory.
LEMMA AcceptFits ==
    ASSUME FolderInv, ObservationInv, Accept, views' = views, call = "final", names = {},
           step = "audit" \/ (step = "entries" /\ dirStat = audit.dir), rows = audit.rows
    PROVE  AcceptedFits'
<1>1. PICK v \in views : WasSo(v)
  BY DEF ObservationInv, Moment
<1>2. /\ ~draft.more /\ draft.entries # None /\ draft.tags # None /\ unread = {}
      /\ audit # None
  BY DraftsAre DEF ObservationInv, CallShape
<1>3. /\ draft.entries = audit.rows /\ draft.tags = audit.rows[Info] /\ audit.rows[Info] # None
      /\ \A p \in Page :
           audit.rows[p] # None => audit.rows[p].modified <= audit.rows[Info].modified
  BY <1>2 DEF ObservationInv, SnapshotFits
<1>4. audit.rows \in [Entry -> Stats] /\ v.rows \in [Entry -> Stats] /\ draft.files \in [Entry -> Stats]
  BY <1>2, DraftsAre DEF ObservationInv, ObservationTyped, Snapshots, SnapshotRecord
<1>5. draft.files = audit.rows
  <2>1. \A f \in Entry : draft.files[f] \in {None, audit.rows[f]} /\ ~Undone(f)
    BY <1>2 DEF ObservationInv, Paged
  <2>2. \A f \in Entry : draft.files[f] = audit.rows[f]
    BY <2>1 DEF Undone
  <2>3. QED
    BY <1>4, <2>2
<1>6. v.rows = audit.rows
  <2>1. ASSUME NEW f \in Entry
        PROVE  v.rows[f] = audit.rows[f]
    BY <1>1 DEF WasSo
  <2>2. QED
    BY <1>4, <2>1
<1>7. v.half = {}
  <2>1. ASSUME NEW p \in v.half
        PROVE  FALSE
    <3>1. p \in Page /\ v.rows[p] # None /\ v.rows[p].modified > v.rows[Info].modified
      BY <1>3, <1>6 DEF ObservationInv, ViewsFit, ObservationTyped
    <3>2. v.rows[p] \in StatRecord /\ v.rows[Info] \in StatRecord
      BY <1>3, <1>4, <1>6, <3>1, EntriesAre DEF Stats
    <3>3. v.rows[p].modified \in Nat /\ v.rows[Info].modified \in Nat
      BY <3>2 DEF StatRecord
    <3>4. v.rows[p].modified <= v.rows[Info].modified
      BY <1>3, <1>6, <3>1
    <3>5. QED
      BY <3>1, <3>3, <3>4
  <2>2. QED
    BY <2>1
<1>8. draft.probed.gallery = v.rows[Info].gallery => draft.probed = v.rows[Info]
  <2>1. /\ draft.probed # None /\ Before(audit.rows[Info], draft.probed)
        /\ Before(draft.probed, rows[Info])
    BY DEF ObservationInv, ProbedFits
  <2>2. PICK s \in StatRecord, t \in StatRecord : s = draft.probed /\ t = audit.rows[Info]
    BY <1>3, <1>4, <2>1, EntriesAre, DraftsAre DEF ObservationInv, ObservationTyped, Stats
  <2>3. Before(s, t) /\ Before(t, s)
    BY <2>1, <2>2
  <2>4. QED
    BY <1>6, <2>2, <2>3, BeforeBoth
<1>9. /\ accepted'.files = v.rows /\ accepted'.entries = v.rows /\ accepted'.tags = v.rows[Info]
      /\ accepted'.marker = draft.probed
  BY <1>3, <1>5, <1>6 DEF Accept
<1>10. QED
  BY <1>7, <1>8, <1>9 DEF AcceptedFits

LEMMA PastAtEnd ==
    ASSUME ObservationInv, SourceUnchanged, rows' = NoRows, marker' = None, audit' = audit,
           views' = views, Past(draft.probed, Info)'
    PROVE  AllPast'
<1>1. \A s, f : Past(s, f) => Past(s, f)'
  BY PastSame DEF SourceUnchanged
<1>2. \A f \in Entry : Past(rows[f], f)'
  BY DraftsAre DEF Past
<1>3. Past(marker, Info)'
  BY DEF Past
<1>4. \A f \in Entry : audit # None => Past(audit.rows[f], f)'
  BY <1>1 DEF ObservationInv, AllPast
<1>5. QED
  BY <1>1, <1>2, <1>3, <1>4 DEF ObservationInv, AllPast

LEMMA EndAuditKeeps ==
    ASSUME FolderInv, ObservationInv, EndAudit
    PROVE  ObservationInv'
<1>1. step = "audit" /\ names = {} /\ call = "final" /\ active = audit /\ SourceUnchanged
  BY DEF EndAudit, ObservationInv, CallShape
<1>2. CASE Deferred
  BY <1>2, NothingFits DEF Deferred
<1>3. CASE ~Deferred
  <2>1. /\ rows = active.rows /\ Accept
        /\ UNCHANGED <<locator, active, audit, draft, views>>
        /\ call' = "none" /\ step' = "none" /\ dirStat' = None /\ marker' = None
        /\ names' = {} /\ rows' = NoRows /\ unread' = {}
    BY <1>3 DEF EndAudit, SameEntries, CallEnds
  <2>2. AcceptedFits'
    BY <1>1, <2>1, AcceptFits
  <2>3. ObservationTyped'
    BY <2>1, DraftsAre DEF ObservationInv, ObservationTyped
  <2>4. CallShape'
    <3>1. locator # None /\ unread = {}
      BY <1>1 DEF ObservationInv, CallShape
    <3>2. QED
      BY <1>1, <2>1, <3>1 DEF ObservationInv, CallShape
  <2>5. AllPast'
    <3>1. Past(draft.probed, Info)'
      BY <1>1, <2>1, PastSame DEF ObservationInv, AllPast, SourceUnchanged
    <3>2. QED
      BY <1>1, <2>1, <3>1, PastAtEnd
  <2>6. Paged'
    <3>1. unread = {}
      BY <1>1 DEF ObservationInv, CallShape
    <3>2. QED
      BY <1>1, <2>1, <3>1, PartsStay
  <2>7. QED
    BY <1>1, <2>1, <2>2, <2>3, <2>4, <2>5, <2>6, PartsStay DEF ObservationInv
<1>4. QED
  BY <1>2, <1>3

LEMMA StoreSnapshotKeeps ==
    ASSUME FolderInv, ObservationInv, StoreSnapshot
    PROVE  ObservationInv'
<1>1. /\ step = "entries" /\ names = {} /\ SourceUnchanged /\ dirStat # None /\ marker # None
      /\ call # "none" /\ unread = {} /\ locator # None /\ accepted = None
  BY DEF StoreSnapshot, ObservationInv, CallShape
<1>2. CASE Deferred
  BY <1>2, NothingFits DEF Deferred
<1>3. CASE ~Deferred
  <2>1. /\ rows[Info] = marker /\ UnfinishedPages = {} /\ SameSnapshot
        /\ active' = Snapshot /\ audit' = Snapshot /\ UNCHANGED <<locator, draft, views>>
        /\ IF call = "final" THEN Accept ELSE UNCHANGED accepted
        /\ IF call \in {"observe", "final"}
           THEN CallEnds
           ELSE /\ step' = "serve" /\ rows' = NoRows
                /\ UNCHANGED <<call, dirStat, marker, names, unread>>
    BY <1>3 DEF StoreSnapshot
  <2>2. PICK new : new = Snapshot
    OBVIOUS
  <2>3. /\ new \in SnapshotRecord /\ new.rows = rows /\ new.dir = dirStat
        /\ rows \in [Entry -> Stats] /\ marker \in StatRecord /\ audit \in {None, new}
    BY <1>1, <2>1, <2>2 DEF ObservationInv, ObservationTyped, Snapshot, SnapshotRecord, Stats,
       SameSnapshot
  <2>4. /\ active' = new /\ audit' = new /\ new # None /\ unread' = {} /\ names' = {}
        /\ rows' = NoRows /\ marker' \in {None, marker}
        /\ \/ call' = "none" /\ step' = "none" /\ dirStat' = None
           \/ /\ call \notin {"observe", "final"} /\ call' = call
              /\ step' = "serve" /\ dirStat' = dirStat
    BY <1>1, <2>1, <2>2, <2>3, ObservationAssumption DEF CallEnds
  <2>5. ObservationTyped'
    BY <2>1, <2>3, <2>4, DraftsAre DEF ObservationInv, ObservationTyped, Snapshots
  <2>6. CallShape'
    <3>1. accepted' # None => call' = "none"
      BY <1>1, <2>1 DEF CallEnds
    <3>2. QED
      BY <1>1, <2>1, <2>4, <3>1 DEF ObservationInv, CallShape
  <2>7. AllPast'
    <3>1. \A s, e : Past(s, e) => Past(s, e)'
      BY <1>1, PastSame DEF SourceUnchanged
    <3>2. \A f \in Entry : Past(new.rows[f], f)'
      BY <2>3, <3>1 DEF ObservationInv, AllPast
    <3>3. \A f \in Entry : rows'[f] = None
      BY <2>4, DraftsAre
    <3>4. PICK m : m = marker'
      OBVIOUS
    <3>5. Past(m, Info)
      BY <2>4, <3>4 DEF ObservationInv, AllPast, Past
    <3>6. Past(marker, Info)'
      BY <3>1, <3>4, <3>5 DEF Past
    <3>7. \A f \in Entry : Past(rows[f], f)' /\ Past(audit.rows[f], f)'
      BY <2>4, <3>2, <3>3 DEF Past
    <3>8. QED
      BY <2>1, <3>1, <3>6, <3>7 DEF ObservationInv, AllPast
  <2>8. SnapshotFits'
    <3>1. new.rows[Info] # None
      BY <1>1, <2>1, <2>3
    <3>2. ASSUME NEW p \in Page, new.rows[p] # None
          PROVE  new.rows[p].modified <= new.rows[Info].modified
      <4>1. ~(rows[p].modified > marker.modified)
        BY <2>1, <2>3, <3>2 DEF UnfinishedPages
      <4>2. rows[p] \in StatRecord
        BY <2>3, <3>2, EntriesAre DEF Stats
      <4>3. QED
        BY <2>1, <2>3, <4>1, <4>2 DEF StatRecord
    <3>3. audit = None => draft.entries = None /\ draft.tags = None
      BY DraftsAre DEF ObservationInv, CallShape
    <3>4. QED
      BY <2>1, <2>3, <2>4, <3>1, <3>2, <3>3 DEF ObservationInv, SnapshotFits
  <2>9. Paged'
    <3>1. CASE audit = None
      <4>1. draft = NoDraft
        BY <3>1 DEF ObservationInv, CallShape
      <4>2. \A f \in Entry : Rank[f] > 0
        BY ObservationAssumption
      <4>3. QED
        BY <2>1, <2>4, <4>1, <4>2, DraftsAre DEF Paged, Undone
    <3>2. CASE audit # None
      <4>1. audit' = audit /\ draft' = draft /\ unread' = unread
        BY <1>1, <2>1, <2>3, <2>4, <3>2
      <4>2. QED
        BY <1>1, <4>1, PartsStay
    <3>3. QED
      BY <3>1, <3>2
  <2>10. AcceptedFits'
    <3>1. CASE call = "final"
      <4>1. audit # None
        BY <3>1, DraftsAre DEF ObservationInv, CallShape
      <4>2. dirStat = audit.dir /\ rows = audit.rows
        BY <2>3, <4>1
      <4>3. QED
        BY <1>1, <2>1, <3>1, <4>2, AcceptFits
    <3>2. CASE call # "final"
      BY <1>1, <2>1, <3>2, PartsStay
    <3>3. QED
      BY <3>1, <3>2
  <2>11. call' # "final"
    BY <2>4
  <2>12. ProbedFits' /\ ViewsFit' /\ Moment'
    BY <1>1, <2>1, <2>11, PartsStay
  <2>13. QED
    BY <2>5, <2>6, <2>7, <2>8, <2>9, <2>10, <2>12 DEF ObservationInv
<1>4. QED
  BY <1>2, <1>3

\* The core is given the directory and the tags of the snapshot.
LEMMA ListKeeps ==
    ASSUME FolderInv, ObservationInv, ListEntries \/ ListTags
    PROVE  ObservationInv'
<1>1. /\ step = "serve" /\ call \in {"entries", "tags"} /\ SourceUnchanged
      /\ active # None /\ active = audit /\ locator # None
  BY DEF ListEntries, ListTags, ObservationInv, CallShape
<1>2. CASE Deferred
  BY <1>2, NothingFits DEF Deferred
<1>3. CASE ~Deferred
  <2>1. /\ \/ /\ draft' = [draft EXCEPT !.entries = active.rows]
              /\ PageUnchanged({f \in Entry : active.rows[f] # None})
           \/ draft' = [draft EXCEPT !.tags = active.rows[Info]]
        /\ UNCHANGED <<locator, active, audit, accepted, views>>
        /\ call' = "none" /\ step' = "none" /\ dirStat' = None /\ marker' = None
        /\ names' = {} /\ rows' = NoRows /\ unread' = {}
    BY <1>3 DEF ListEntries, ListTags, CallEnds
  <2>2. /\ audit \in SnapshotRecord /\ audit.rows \in [Entry -> Stats]
        /\ audit.rows[Info] \in Stats
    BY <1>1, EntriesAre DEF ObservationInv, ObservationTyped, Snapshots, SnapshotRecord
  <2>3. /\ draft' \in Drafts /\ draft'.files = draft.files /\ draft'.after = draft.after
        /\ draft'.more = draft.more /\ draft'.probed = draft.probed
        /\ \/ /\ draft'.entries = audit.rows /\ draft'.tags = draft.tags
              /\ PageUnchanged({f \in Entry : active.rows[f] # None})
           \/ draft'.entries = draft.entries /\ draft'.tags = audit.rows[Info]
    BY <1>1, <2>1, <2>2 DEF ObservationInv, ObservationTyped, Drafts
  <2>4. ObservationTyped'
    BY <2>1, <2>3, DraftsAre DEF ObservationInv, ObservationTyped
  <2>5. CallShape'
    BY <1>1, <2>1 DEF ObservationInv, CallShape
  <2>6. AllPast'
    <3>1. \A s, e : Past(s, e) => Past(s, e)'
      BY <1>1, PastSame DEF SourceUnchanged
    <3>2. PICK d : d = draft'
      OBVIOUS
    <3>3. Past(d.probed, Info)
      BY <2>3, <3>2 DEF ObservationInv, AllPast
    <3>4. Past(draft.probed, Info)'
      BY <3>1, <3>2, <3>3 DEF Past
    <3>5. QED
      BY <1>1, <2>1, <3>4, PastAtEnd
  <2>7. SnapshotFits'
    <3>1. PageUnchanged({f \in Entry : active.rows[f] # None}) =>
            \A f \in Entry : audit.rows[f] # None => audit.rows[f].gallery = audit.dir.dir
      <4>1. ASSUME PageUnchanged({f \in Entry : active.rows[f] # None}),
                   NEW f \in Entry, audit.rows[f] # None
            PROVE  audit.rows[f].gallery = audit.dir.dir
        <5>1. DirStat(locator) = audit.dir /\ Stat(locator, f) = audit.rows[f]
          BY <1>1, <4>1 DEF PageUnchanged
        <5>2. audit.rows[f].gallery = Resolve(locator) /\ Resolve(locator) \in Gallery
          BY <4>1, <5>1, StatsNow
        <5>3. QED
          BY <5>1, <5>2 DEF DirStat
      <4>2. QED
        BY <4>1
    <3>2. QED
      BY <2>1, <2>3, <3>1 DEF ObservationInv, SnapshotFits
  <2>8. Paged'
    <3>1. unread = {}
      BY <1>1 DEF ObservationInv, CallShape
    <3>2. QED
      BY <2>1, <2>3, <3>1 DEF ObservationInv, Paged, Undone
  <2>9. QED
    BY <1>1, <2>1, <2>4, <2>5, <2>6, <2>7, <2>8, PartsStay DEF ObservationInv
<1>4. QED
  BY <1>2, <1>3

-----------------------------------------------------------------------------
(* Pages.  A page is the first entries of those that are left, and one     *)
(* that its lookahead does not exceed is the last.                         *)

Firsts(rest, n) == {f \in rest : Cardinality({e \in rest : Rank[e] <= Rank[f]}) <= n}

LEMMA LeastOf ==
    ASSUME NEW S \in SUBSET Nat, S # {}
    PROVE  \E x \in S : \A y \in S : x <= y
<1> DEFINE Less == {p \in Nat \X Nat : p[1] < p[2]}
<1>1. IsWellFoundedOn(Less, Nat)
  BY NatLessThanWellFounded DEF OpToRel
<1>2. PICK x \in S : \A y \in S : ~(<<y, x>> \in Less)
  <2> HIDE DEF Less
  <2>1. QED
    BY <1>1, WFMin
<1>3. ASSUME NEW y \in S
      PROVE  x <= y
  <2>1. x \in Nat /\ y \in Nat
    OBVIOUS
  <2>2. y < x => <<y, x>> \in Less
    BY <2>1
  <2>3. QED
    BY <1>2, <2>1, <2>2
<1>4. QED
  BY <1>3

LEMMA FirstsOrdered ==
    ASSUME NEW rest \in SUBSET Entry, NEW n \in Nat,
           NEW h \in rest \ Firsts(rest, n), NEW u \in Firsts(rest, n)
    PROVE  Rank[h] > Rank[u]
<1>1. SUFFICES ASSUME ~(Rank[h] > Rank[u])
               PROVE  FALSE
  OBVIOUS
<1>2. u \in rest /\ \A e \in rest : Rank[e] \in Nat
  BY ObservationAssumption DEF Firsts
<1> DEFINE H == {e \in rest : Rank[e] <= Rank[h]}
           U == {e \in rest : Rank[e] <= Rank[u]}
<1>3. H \subseteq U
  BY <1>1, <1>2
<1>4. IsFiniteSet(U)
  BY FS_Subset, ObservationAssumption
<1>5. Cardinality(H) <= Cardinality(U) /\ Cardinality(H) \in Nat /\ Cardinality(U) \in Nat
  BY <1>3, <1>4, FS_Subset, FS_CardinalityType
<1>6. Cardinality(U) <= n /\ ~(Cardinality(H) <= n)
  BY DEF Firsts
<1>7. QED
  BY <1>5, <1>6

LEMMA FirstsEnd ==
    ASSUME NEW rest \in SUBSET Entry, NEW n \in Nat, Firsts(rest, n) = Firsts(rest, n + 1)
    PROVE  Firsts(rest, n) = rest
<1>1. SUFFICES ASSUME rest \ Firsts(rest, n) # {}
               PROVE  FALSE
  BY DEF Firsts
<1>2. \A e \in rest : Rank[e] \in Nat
  BY ObservationAssumption
<1>3. PICK h \in rest \ Firsts(rest, n) : \A e \in rest \ Firsts(rest, n) : Rank[h] <= Rank[e]
  <2> DEFINE S == {Rank[e] : e \in rest \ Firsts(rest, n)}
  <2>1. S \in SUBSET Nat /\ S # {}
    BY <1>1, <1>2
  <2>2. PICK x \in S : \A y \in S : x <= y
    <3> HIDE DEF S
    <3>1. QED
      BY <2>1, LeastOf
  <2>3. QED
    BY <2>2
<1> DEFINE H == {e \in rest : Rank[e] <= Rank[h]}
           B == H \ {h}
<1>4. h \in H /\ IsFiniteSet(H) /\ IsFiniteSet(B) /\ B \subseteq H
  BY <1>2, FS_Subset, ObservationAssumption
<1>5. \A e \in B : e \in Firsts(rest, n) /\ Rank[e] < Rank[h]
  <2>1. ASSUME NEW e \in B
        PROVE  e \in Firsts(rest, n) /\ Rank[e] < Rank[h]
    <3>1. Rank[e] # Rank[h] /\ Rank[e] <= Rank[h] /\ e \in rest
      BY ObservationAssumption
    <3>2. QED
      BY <1>2, <1>3, <3>1
  <2>2. QED
    BY <2>1
<1>6. Cardinality(B) <= n /\ Cardinality(B) \in Nat
  <2>1. CASE B = {}
    BY <2>1, FS_EmptySet
  <2>2. CASE B # {}
    <3> DEFINE S == {Rank[h] - Rank[e] : e \in B}
    <3>1. S \in SUBSET Nat /\ S # {}
      BY <1>2, <1>5, <2>2
    <3>2. PICK x \in S : \A y \in S : x <= y
      <4> HIDE DEF S
      <4>1. QED
        BY <3>1, LeastOf
    <3>3. PICK m \in B : \A e \in B : Rank[h] - Rank[m] <= Rank[h] - Rank[e]
      BY <3>2
    <3>4. \A e \in B : Rank[e] <= Rank[m]
      <4>1. \A e \in B : Rank[e] \in Nat /\ Rank[h] \in Nat
        BY <1>2
      <4>2. QED
        BY <3>3, <4>1
    <3> DEFINE M == {e \in rest : Rank[e] <= Rank[m]}
    <3>5. B \subseteq M
      BY <3>4
    <3>6. Cardinality(M) <= n
      BY <1>5 DEF Firsts
    <3>7. IsFiniteSet(M)
      BY FS_Subset, ObservationAssumption
    <3> HIDE DEF B, M
    <3>8. Cardinality(B) <= Cardinality(M) /\ Cardinality(B) \in Nat /\ Cardinality(M) \in Nat
      BY <3>5, <3>7, <1>4, FS_Subset, FS_CardinalityType
    <3>9. QED
      BY <3>6, <3>8
  <2>3. QED
    BY <2>1, <2>2
<1>7. Cardinality(H) = Cardinality(B) + 1
  <2>1. H = B \cup {h} /\ h \notin B
    BY <1>4
  <2> HIDE DEF H, B
  <2>2. QED
    BY <1>4, <2>1, FS_AddElement
<1>8. Cardinality(H) <= n + 1
  BY <1>6, <1>7
<1>9. h \in Firsts(rest, n + 1)
  BY <1>8 DEF Firsts
<1>10. QED
  BY <1>3, <1>9

LEMMA ListFilesKeeps ==
    ASSUME FolderInv, ObservationInv, ListFiles
    PROVE  ObservationInv'
<1>1. /\ step = "serve" /\ call = "files" /\ SourceUnchanged
      /\ active # None /\ active = audit /\ locator # None /\ unread = {} /\ accepted = None
  BY DEF ListFiles, ObservationInv, CallShape
<1>2. CASE Deferred
  BY <1>2, NothingFits DEF Deferred
<1>3. CASE ~Deferred
  <2>1. /\ unread' = Following(PageLimit) /\ step' = "read"
        /\ draft' = [draft EXCEPT !.more = Following(PageLimit) # Following(PageLimit + 1)]
        /\ UNCHANGED <<locator, call, dirStat, marker, names, rows, active, audit,
                       accepted, views>>
    BY <1>3 DEF ListFiles
  <2>2. PICK rest \in SUBSET Entry :
          rest = {f \in Entry : audit.rows[f] # None /\ Rank[f] > draft.after}
    OBVIOUS
  <2>3. \A n : Following(n) = Firsts(rest, n)
    BY <1>1, <2>2 DEF Following, Firsts
  <2>4. /\ unread' = Firsts(rest, PageLimit) /\ unread' \subseteq rest
        /\ draft' \in Drafts /\ draft'.files = draft.files /\ draft'.after = draft.after
        /\ draft'.entries = draft.entries /\ draft'.tags = draft.tags
        /\ draft'.probed = draft.probed
        /\ draft'.more = (Firsts(rest, PageLimit) # Firsts(rest, PageLimit + 1))
    BY <2>1, <2>3 DEF ObservationInv, ObservationTyped, Drafts, Firsts
  <2>5. ObservationTyped'
    BY <2>1, <2>2, <2>4 DEF ObservationInv, ObservationTyped
  <2>6. CallShape'
    BY <1>1, <2>1 DEF ObservationInv, CallShape
  <2>7. AllPast'
    <3>1. \A s, e : Past(s, e) => Past(s, e)'
      BY <1>1, PastSame DEF SourceUnchanged
    <3>2. PICK d : d = draft'
      OBVIOUS
    <3>3. Past(d.probed, Info)
      BY <2>4, <3>2 DEF ObservationInv, AllPast
    <3>4. Past(draft.probed, Info)'
      BY <3>1, <3>2, <3>3 DEF Past
    <3>5. QED
      BY <2>1, <3>1, <3>4 DEF ObservationInv, AllPast
  <2>8. SnapshotFits'
    BY <2>1, <2>4 DEF ObservationInv, SnapshotFits
  <2>9. Paged'
    <3>1. ASSUME NEW f \in Entry
          PROVE  /\ draft'.files[f] \in {None, audit'.rows[f]}
                 /\ Undone(f)' =>
                      \/ f \in unread'
                      \/ draft'.more /\ Rank[f] > draft'.after /\ \A u \in unread' : Rank[f] > Rank[u]
      <4>1. /\ draft.files[f] \in {None, audit.rows[f]}
            /\ Undone(f) => Rank[f] > draft.after
        BY <1>1 DEF ObservationInv, Paged
      <4>2. Undone(f)' <=> Undone(f)
        BY <2>1, <2>4 DEF Undone
      <4>3. ASSUME Undone(f), f \notin unread'
            PROVE  draft'.more /\ Rank[f] > draft'.after /\ \A u \in unread' : Rank[f] > Rank[u]
        <5>1. f \in rest \ Firsts(rest, PageLimit)
          BY <2>2, <2>4, <4>1, <4>3 DEF Undone
        <5>2. PageLimit \in Nat
          BY ObservationAssumption
        <5>3. \A u \in unread' : Rank[f] > Rank[u]
          BY <2>4, <5>1, <5>2, FirstsOrdered
        <5>4. Firsts(rest, PageLimit) # Firsts(rest, PageLimit + 1)
          BY <5>1, <5>2, FirstsEnd
        <5>5. QED
          BY <2>4, <4>1, <4>3, <5>3, <5>4
      <4>4. QED
        BY <2>1, <2>4, <4>1, <4>2, <4>3
    <3>2. QED
      BY <3>1 DEF Paged
  <2>10. call' # "final"
    BY <1>1, <2>1
  <2>11. QED
    BY <1>1, <2>1, <2>5, <2>6, <2>7, <2>8, <2>9, <2>10, PartsStay DEF ObservationInv
<1>4. QED
  BY <1>2, <1>3

LEMMA ReadFileKeeps ==
    ASSUME FolderInv, ObservationInv, NEW f \in Entry, ReadFile(f)
    PROVE  ObservationInv'
<1>1. /\ step = "read" /\ f \in unread /\ call = "files" /\ SourceUnchanged
      /\ active # None /\ active = audit /\ locator # None /\ accepted = None
      /\ rows = NoRows
  BY DEF ReadFile, ObservationInv, CallShape
<1>2. CASE Deferred
  BY <1>2, NothingFits DEF Deferred
<1>3. CASE ~Deferred
  <2>1. /\ Stat(locator, f) = audit.rows[f]
        /\ draft' = [draft EXCEPT !.files[f] = Stat(locator, f),
                                  !.after = IF Rank[f] > @ THEN Rank[f] ELSE @]
        /\ UNCHANGED <<locator, active, audit, accepted, views>>
        /\ IF unread = {f}
           THEN CallEnds
           ELSE unread' = unread \ {f} /\ UNCHANGED <<call, step, dirStat, marker, names, rows>>
    BY <1>1, <1>3 DEF ReadFile
  <2>2. PICK t \in Stats : t = Stat(locator, f)
    BY StatsNow
  <2>3. /\ unread' = unread \ {f} /\ rows' = NoRows /\ names' \subseteq Entry
        /\ names' \in {{}, names} /\ marker' \in {None, marker} /\ dirStat' \in {None, dirStat}
        /\ \/ call' = "none" /\ step' = "none" /\ unread' = {} /\ names' = {}
           \/ call' = call /\ step' = step
    BY <1>1, <2>1 DEF CallEnds, ObservationInv, ObservationTyped
  <2>4. Rank[f] \in Nat /\ draft.after \in Nat /\ draft.files \in [Entry -> Stats]
    BY ObservationAssumption, DraftsAre DEF ObservationInv, ObservationTyped
  <2>5. PICK after \in Nat : after = IF Rank[f] > draft.after THEN Rank[f] ELSE draft.after
    BY <2>4
  <2>6. /\ draft' \in Drafts /\ draft'.files = [draft.files EXCEPT ![f] = t]
        /\ draft'.after = after /\ draft'.more = draft.more
        /\ draft'.entries = draft.entries /\ draft'.tags = draft.tags
        /\ draft'.probed = draft.probed
    BY <2>1, <2>2, <2>4, <2>5 DEF ObservationInv, ObservationTyped, Drafts
  <2>7. ObservationTyped'
    BY <2>1, <2>3, <2>6, DraftsAre DEF ObservationInv, ObservationTyped
  <2>8. CallShape'
    BY <1>1, <2>1, <2>3 DEF ObservationInv, CallShape
  <2>9. AllPast'
    <3>1. \A s, e : Past(s, e) => Past(s, e)'
      BY <1>1, PastSame DEF SourceUnchanged
    <3>2. PICK d, m : d = draft' /\ m = marker'
      OBVIOUS
    <3>3. Past(d.probed, Info) /\ Past(m, Info)
      BY <2>3, <2>6, <3>2 DEF ObservationInv, AllPast, Past
    <3>4. Past(draft.probed, Info)' /\ Past(marker, Info)'
      BY <3>1, <3>2, <3>3 DEF Past
    <3>5. rows' = rows
      BY <1>1, <2>3
    <3>6. QED
      BY <2>1, <3>1, <3>4, <3>5 DEF ObservationInv, AllPast
  <2>10. SnapshotFits'
    BY <2>1, <2>6 DEF ObservationInv, SnapshotFits
  <2>11. Paged'
    <3>1. ASSUME NEW e \in Entry
          PROVE  /\ draft'.files[e] \in {None, audit'.rows[e]}
                 /\ Undone(e)' =>
                      \/ e \in unread'
                      \/ draft'.more /\ Rank[e] > draft'.after /\ \A u \in unread' : Rank[e] > Rank[u]
      <4>1. /\ draft.files[e] \in {None, audit.rows[e]}
            /\ Undone(e) =>
                 \/ e \in unread
                 \/ draft.more /\ Rank[e] > draft.after /\ \A u \in unread : Rank[e] > Rank[u]
        BY <1>1 DEF ObservationInv, Paged
      <4>2. CASE e = f
        <5>1. draft'.files[e] = audit.rows[e]
          BY <2>1, <2>2, <2>4, <2>6, <4>2
        <5>2. QED
          BY <2>1, <5>1 DEF Undone
      <4>3. CASE e # f
        <5>1. draft'.files[e] = draft.files[e]
          BY <2>4, <2>6, <4>3
        <5>2. Undone(e)' <=> Undone(e)
          BY <2>1, <5>1 DEF Undone
        <5>3. ASSUME Undone(e), e \notin unread
              PROVE  draft'.more /\ Rank[e] > draft'.after /\ \A u \in unread' : Rank[e] > Rank[u]
          <6>1. draft.more /\ Rank[e] > draft.after /\ \A u \in unread : Rank[e] > Rank[u]
            BY <4>1, <5>3
          <6>2. Rank[e] > after
            BY <1>1, <2>5, <6>1
          <6>3. QED
            BY <2>3, <2>6, <6>1, <6>2
        <5>4. QED
          BY <2>1, <2>3, <4>1, <4>3, <5>1, <5>2, <5>3
      <4>4. QED
        BY <4>2, <4>3
    <3>2. QED
      BY <3>1 DEF Paged
  <2>12. call' # "final"
    BY <1>1, <2>3
  <2>13. QED
    BY <1>1, <2>1, <2>7, <2>8, <2>9, <2>10, <2>11, <2>12, PartsStay DEF ObservationInv
<1>4. QED
  BY <1>2, <1>3

-----------------------------------------------------------------------------
(* Every step.                                                             *)

LEMMA ObservationRests ==
    ASSUME ObservationInv, UNCHANGED folder, UNCHANGED observation
    PROVE  ObservationInv'
<1>1. ObservationTyped' /\ CallShape' /\ SnapshotFits' /\ Paged' /\ ProbedFits'
  BY DEF observation, ObservationInv, ObservationTyped, CallShape, SnapshotFits, Paged, Undone,
     ProbedFits
<1>2. AllPast'
  BY PastSame DEF observation, ObservationInv, AllPast
<1>3. ViewsFit'
  <2>1. \A l : Now(l)' = Now(l)
    BY PastSame
  <2>2. QED
    BY <2>1 DEF observation, ObservationInv, ViewsFit
<1>4. Moment'
  <2>1. \A v : WasSo(v)' <=> WasSo(v)
    BY DEF observation, WasSo
  <2>2. QED
    BY <2>1 DEF observation, ObservationInv, Moment
<1>5. AcceptedFits'
  BY DEF observation, ObservationInv, AcceptedFits
<1>6. QED
  BY <1>1, <1>2, <1>3, <1>4, <1>5 DEF ObservationInv

LEMMA DiscoveryRests ==
    ASSUME DiscoveryInv, UNCHANGED folder, UNCHANGED attemptVars
    PROVE  DiscoveryInv'
<1>1. /\ UNCHANGED <<phase, rootStat, queue, listing, locators, steady>>
      /\ UNCHANGED <<target, opened, checked, answer, gone>>
  BY DEF attemptVars, discovery, probe
<1>2. WalkTyped' /\ SteadyAhead'
  <2>1. parent' = parent
    BY DEF folder
  <2>2. \A s : Ahead(s)' <=> Ahead(s)
    BY <1>1, <2>1 DEF Ahead, Row
  <2>3. QED
    BY <1>1, <2>2 DEF DiscoveryInv, WalkInv, WalkTyped, SteadyAhead, RowFits
<1>3. SteadyKept'
  BY <1>1, SteadyStay DEF DiscoveryInv, WalkInv
<1>4. ProbeTyped'
  BY <1>1 DEF DiscoveryInv, ProbeInv, ProbeTyped
<1>5. AbsenceKept'
  <2>1. \A d, n : Child(d, n)' = Child(d, n)
    BY FolderStays
  <2>2. PICK d, n : d = rootStat /\ n = target[1]
    OBVIOUS
  <2>3. Child(rootStat, target[1])' = Child(rootStat, target[1])
    BY <1>1, <2>1, <2>2
  <2>4. QED
    BY <1>1, <2>3 DEF DiscoveryInv, ProbeInv, AbsenceKept
<1>6. QED
  BY <1>2, <1>3, <1>4, <1>5, FolderStays DEF DiscoveryInv, WalkInv, ProbeInv

LEMMA ObserveKeeps ==
    ASSUME IInv, Observe
    PROVE  IInv'
<1>1. DiscoveryInv /\ FolderInv /\ ObservationInv
  BY DEF IInv, DiscoveryInv
<1>2. SourceUnchanged
  BY DEF Observe, BeginObservation, BeginCall, BeginFinal, IndexFinal, EvictSnapshot,
     ReadMetadata, ScanGallery, StoreSnapshot, ListFiles, ListEntries, ListTags, ScanAudit,
     EndAudit, TakeObservation, StatRow, ReadFile
<1>3. DiscoveryInv'
  BY <1>1, <1>2, DiscoveryRests DEF SourceUnchanged
<1>4. ObservationInv'
  <2>1. CASE \E l \in Locator : BeginObservation(l)
    BY <1>1, <2>1, BeginObservationKeeps
  <2>2. CASE \E c \in {"files", "entries", "tags"} : BeginCall(c)
    BY <1>1, <2>2, BeginCallKeeps
  <2>3. CASE BeginFinal
    BY <1>1, <2>3, BeginFinalKeeps
  <2>4. CASE IndexFinal
    BY <1>1, <2>4, IndexFinalKeeps
  <2>5. CASE EvictSnapshot
    BY <1>1, <2>5, EvictSnapshotKeeps
  <2>6. CASE ReadMetadata
    BY <1>1, <2>6, ReadMetadataKeeps
  <2>7. CASE ScanGallery \/ ScanAudit
    BY <1>1, <2>7, ScanKeeps
  <2>8. CASE StoreSnapshot
    BY <1>1, <2>8, StoreSnapshotKeeps
  <2>9. CASE ListFiles
    BY <1>1, <2>9, ListFilesKeeps
  <2>10. CASE ListEntries \/ ListTags
    BY <1>1, <2>10, ListKeeps
  <2>11. CASE EndAudit
    BY <1>1, <2>11, EndAuditKeeps
  <2>12. CASE TakeObservation
    BY <1>1, <2>12, NothingFits DEF TakeObservation
  <2>13. CASE \E f \in Entry : StatRow(f)
    BY <1>1, <2>13, StatRowKeeps
  <2>14. CASE \E f \in Entry : ReadFile(f)
    BY <1>1, <2>14, ReadFileKeeps
  <2>15. QED
    BY <2>1, <2>2, <2>3, <2>4, <2>5, <2>6, <2>7, <2>8, <2>9, <2>10, <2>11, <2>12, <2>13, <2>14
       DEF Observe
<1>5. QED
  BY <1>3, <1>4 DEF IInv

LEMMA InitFits == Init => IInv
<1> SUFFICES ASSUME Init
             PROVE  IInv
  OBVIOUS
<1>1. DiscoveryInv
  BY InitDiscovery DEF Init
<1>2. /\ locator = None /\ call = "none" /\ step = "none" /\ dirStat = None /\ marker = None
      /\ names = {} /\ rows = NoRows /\ active = None /\ audit = None
      /\ unread = {} /\ draft = NoDraft /\ accepted = None /\ views = {}
  BY DEF Init, ObservationInit
<1>3. ObservationTyped /\ CallShape
  BY <1>2, DraftsAre DEF ObservationTyped, CallShape
<1>4. AllPast /\ SnapshotFits /\ Paged
  BY <1>2, DraftsAre DEF AllPast, SnapshotFits, Paged, Past
<1>5. ProbedFits /\ ViewsFit /\ Moment /\ AcceptedFits
  BY <1>2 DEF ProbedFits, ViewsFit, Moment, AcceptedFits
<1>6. QED
  BY <1>1, <1>3, <1>4, <1>5 DEF IInv, ObservationInv

LEMMA NextFits == IInv /\ [Next]_vars => IInv'
<1> SUFFICES ASSUME IInv, [Next]_vars
             PROVE  IInv'
  OBVIOUS
<1>1. DiscoveryInv /\ FolderInv /\ ObservationInv
  BY DEF IInv, DiscoveryInv
<1>2. CASE Discover
  BY <1>1, <1>2, DiscoveryKeeps, ObservationRests DEF Discover, IInv
<1>3. CASE Observe
  BY <1>3, ObserveKeeps
<1>4. CASE LoseAttempt
  <2>1. DiscoveryInv'
    BY <1>1, <1>4, DiscoveryKeeps DEF LoseAttempt, DiscoveryNext
  <2>2. ObservationInv'
    BY <1>1, <1>4, NothingFits DEF LoseAttempt
  <2>3. QED
    BY <2>1, <2>2 DEF IInv
<1>5. CASE FolderChanges
  BY <1>1, <1>5, DiscoveryFolderStep, ObservationFolderStep DEF FolderChanges, IInv
<1>6. CASE UNCHANGED vars
  BY <1>1, <1>6, DiscoveryRests, ObservationRests DEF vars, IInv
<1>7. QED
  BY <1>2, <1>3, <1>4, <1>5, <1>6 DEF Next

\* The folder keeps its names and clocks; the walk, the probe and the observation
\* under way fit it as the parts of IInv say, whatever changes in between.
THEOREM ObservationInvariance == Spec => []IInv
<1>1. QED
  BY InitFits, NextFits, PTL DEF Spec

\* The attempt, the call under way and the draft of the core hold values of their kinds.
THEOREM ObservationTypeCorrectness == Spec => []TypeOK
<1>1. IInv => TypeOK
  BY DEF IInv, DiscoveryInv, WalkInv, WalkTyped, ProbeInv, ProbeTyped, ObservationInv,
     ObservationTyped, CallShape, TypeOK, Walking, Probing
<1>2. QED
  BY <1>1, ObservationInvariance, PTL

\* A gallery with its marker that stayed where it was while the index was built is in
\* the inventory, whatever else moved, appeared or disappeared next to it.
THEOREM InventoryComplete == Spec => []SteadyGalleriesFound
<1>1. IInv => SteadyGalleriesFound
  <2>1. SUFFICES ASSUME IInv, phase = "ready", NEW s \in steady
                 PROVE  locators[s.locator] = s.dir
    BY DEF SteadyGalleriesFound
  <2>2. Ahead(s) /\ queue = <<>>
    BY <2>1 DEF IInv, DiscoveryInv, WalkInv, WalkTyped, SteadyAhead, Walking
  <2>3. Len(queue) = 0
    BY <2>2
  <2>4. QED
    BY <2>2, <2>3 DEF Ahead
<1>2. QED
  BY <1>1, ObservationInvariance, PTL

\* gallery_exists says that a published gallery is gone only if its locator led nowhere
\* below the root of the index at some moment since the lookup that failed.
THEOREM AbsenceTrue == Spec => []AbsenceWasReal
<1>1. IInv => AbsenceWasReal
  <2>1. SUFFICES ASSUME IInv, phase = "answered", ~answer
                 PROVE  gone
    BY DEF AbsenceWasReal
  <2>2. answer = FALSE
    BY <2>1 DEF IInv, DiscoveryInv, ProbeInv, ProbeTyped
  <2>3. QED
    BY <2>1, <2>2 DEF IInv, DiscoveryInv, ProbeInv, AbsenceKept
<1>2. QED
  BY <1>1, ObservationInvariance, PTL

\* An observation the core accepts is what its locator led to at one moment, and that
\* no earlier than the last probe of the marker.
THEOREM ObservationAtOnce == Spec => []ObservedAtOnce
<1>1. IInv => ObservedAtOnce
  BY DEF IInv, ObservationInv, AcceptedFits, ObservedAtOnce
<1>2. QED
  BY <1>1, ObservationInvariance, PTL

\* No page of an accepted observation was still being downloaded when it was read.
THEOREM DownloadsFinished == Spec => []OnlyFinishedDownloads
<1>1. IInv => OnlyFinishedDownloads
  BY DEF IInv, ObservationInv, AcceptedFits, OnlyFinishedDownloads
<1>2. QED
  BY <1>1, ObservationInvariance, PTL
=============================================================================
