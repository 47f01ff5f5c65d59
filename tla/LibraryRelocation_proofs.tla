---------------------- MODULE LibraryRelocation_proofs ----------------------
(***************************************************************************)
(* Proofs about LibraryRelocation: readers are fenced, and what is         *)
(* certified was true, for any library, any page size and any number of    *)
(* kills, power losses, changes of files and moves.                        *)
(*                                                                         *)
(* The inductive invariant Inv follows the marker through the steps of the *)
(* command, and says that the marker of an unfinished publication is never *)
(* replaced by one of the session's own.  CertInv adds what the command    *)
(* has on record: the rows behind the cursor are bound to files on record, *)
(* a file on record has the bytes its rows name, and what was wrong when   *)
(* an audit began is still ahead of the cursor of the audit.               *)
(***************************************************************************)
EXTENDS LibraryRelocation, WellFoundedInduction, NaturalsInduction, TLAPS

Verifying == phase \in {"SCAN", "TOKENS", "AUDIT"}
Fencing == marker = Wanted /\ durable = Wanted

\* The marker at each step, and the phases in which a step occurs.
MarkerFollowsStep ==
    /\ step \in {"writing", "syncing"} => ~original /\ ~Verifying
    /\ step = "writing" => marker = "partial"
    /\ step = "syncing" => marker = "ours"
    /\ step = "fenced" => Fencing
    /\ step \in {"working", "verified"} => phase = "FINALIZING" \/ Fencing
    /\ step \in {"unlinked", "finalized"} => phase = "FINALIZING"

\* A marker that guards an unfinished publication is left alone.
PublicationGuarded ==
    (\E i \in Item : Publishing(i)) => marker = "publication" /\ durable = "publication"

\* There is one row for each item.
RowsAreThere == row = [i \in Item |-> row[i]]

Inv == RowsAreThere /\ (Verifying => Fencing) /\ MarkerFollowsStep /\ PublicationGuarded

-----------------------------------------------------------------------------
LEMMA InitInv == Init => Inv
<1> SUFFICES ASSUME Init PROVE Inv
  OBVIOUS
<1>1. RowsAreThere
  BY DEF Init, RowsAreThere
<1>2. phase = "none" /\ step = "off"
  BY DEF Init
<1>3. PublicationGuarded
  BY DEF Init, PublicationGuarded
<1>4. QED
  BY <1>1, <1>2, <1>3 DEF Inv, Verifying, MarkerFollowsStep

\* A step that changes no row has to leave the marker of a publication alone.
LEMMA RowsKept ==
    ASSUME Inv, UNCHANGED row,
           marker = "publication" /\ durable = "publication" => UNCHANGED fence
    PROVE  RowsAreThere' /\ PublicationGuarded'
BY DEF Inv, RowsAreThere, PublicationGuarded, Publishing, fence

\* Binding the rows of an item changes their signatures only.
LEMMA BoundKeepsStates ==
    ASSUME RowsAreThere, NEW i \in Item, row' = [row EXCEPT ![i] = Bound(i)]
    PROVE  RowsAreThere' /\ \A j \in Item : Publishing(j)' = Publishing(j)
<1>1. RowsAreThere'
  BY DEF RowsAreThere
<1>2. \A j \in Item : j # i => row'[j] = row[j]
  BY DEF RowsAreThere
<1>3. row'[i] = Bound(i)
  BY DEF RowsAreThere
<1>4. /\ Bound(i).pending.state = row[i].pending.state
      /\ Bound(i).removal.state = row[i].removal.state
  BY DEF Bound, Bind
<1>5. QED
  BY <1>1, <1>2, <1>3, <1>4 DEF Publishing

LEMMA CommandInv == Inv /\ CommandNext => Inv'
<1> SUFFICES ASSUME Inv, CommandNext PROVE Inv'
  OBVIOUS
<1> USE DEF Inv, Verifying, Fencing, Wanted, MarkerFollowsStep, library, session, records,
            fence, world
<1>1. CASE Run
  BY <1>1, RowsKept DEF Run
<1>2. CASE Begin
  BY <1>2, RowsKept DEF Begin, Goto, Ended, Gone, BeginsSession
<1>3. CASE Continue
  BY <1>3, RowsKept DEF Continue, Goto, Ended, Gone
<1>4. CASE MarkerFound
  BY <1>4, RowsKept DEF MarkerFound, Goto
<1>5. CASE CreateMarker
  BY <1>5, RowsKept DEF CreateMarker, Goto, Ended, Gone
<1>6. CASE WriteMarker
  BY <1>6, RowsKept DEF WriteMarker, Goto, AfterWrite
<1>7. CASE SyncMarker
  BY <1>7, RowsKept DEF SyncMarker, Goto
<1>8. CASE Fenced
  BY <1>8, RowsKept DEF Fenced, Enter, RestartsAudit
<1>9. CASE Cleanup
  BY <1>9, RowsKept DEF Cleanup, Enter, StepDone
<1>10. CASE Verify
  BY <1>10, RowsKept DEF Verify, Ended, Gone
<1>11. CASE Record
  <2>1. RowsAreThere' /\ \A j \in Item : Publishing(j)' = Publishing(j)
    <3>1. CASE UNCHANGED row
      BY <3>1 DEF RowsAreThere, Publishing
    <3>2. CASE row' # row
      <4>1. PICK i : i = Min(Ahead) /\ row' = [row EXCEPT ![i] = Bound(i)]
        BY <1>11, <3>2 DEF Record
      <4>2. i \in Item
        BY <3>2, <4>1 DEF RowsAreThere
      <4>3. QED
        BY <4>1, <4>2, BoundKeepsStates
    <3>3. QED
      BY <3>1, <3>2
  <2>2. MarkerFollowsStep' /\ (Verifying => Fencing)'
    BY <1>11 DEF Record, Ended, Gone
  <2>3. PublicationGuarded'
    BY <1>11, <2>1 DEF Record, PublicationGuarded
  <2>4. QED
    BY <2>1, <2>2, <2>3
<1>12. CASE Audit
  BY <1>12, RowsKept DEF Audit, Ended, Gone
<1>13. CASE PageDone
  BY <1>13, RowsKept DEF PageDone, Enter, Following
<1>14. CASE Finalize
  BY <1>14, RowsKept DEF Finalize, Goto, Ended, Gone
<1>15. CASE Unlinked
  BY <1>15, RowsKept DEF Unlinked, Goto
<1>16. CASE Completed
  BY <1>16, RowsKept DEF Completed, StepDone
<1>17. QED
  BY <1>1, <1>2, <1>3, <1>4, <1>5, <1>6, <1>7, <1>8, <1>9, <1>10, <1>11, <1>12, <1>13,
     <1>14, <1>15, <1>16 DEF CommandNext

LEMMA NextInv == Inv /\ [Next]_vars => Inv'
<1> SUFFICES ASSUME Inv, [Next]_vars PROVE Inv'
  OBVIOUS
<1> USE DEF Inv, Verifying, Fencing, Wanted, MarkerFollowsStep, library, session, records,
            fence, world
<1>1. CASE CommandNext
  BY <1>1, CommandInv
<1>2. CASE Kill
  BY <1>2, RowsKept DEF Kill, Gone
\* A power loss changes a marker that was not synced, and then no phase and
\* no publication relies on it.
<1>3. CASE PowerLoss
  BY <1>3, RowsKept DEF PowerLoss, Gone
<1>4. CASE Move
  BY <1>4, RowsKept DEF Move, command
<1>5. ASSUME NEW i \in Item, NEW p \in Looked(i), Tamper(i, p) PROVE Inv'
  BY <1>5, RowsKept DEF Tamper, command
<1>6. CASE UNCHANGED vars
  BY <1>6, RowsKept DEF vars, command
<1>7. QED
  BY <1>1, <1>2, <1>3, <1>4, <1>5, <1>6 DEF Next

\* The marker follows the steps of the command in every reachable state.
THEOREM Invariance == Spec => []Inv
BY InitInv, NextInv, PTL DEF Spec

\* From the first row that is bound to the last that is audited a complete
\* and durable marker keeps readers out, and that of an unfinished publication
\* stays (_ensure_marker and _finalize, library_relocation.py).
THEOREM FencedReaders == Spec => []ReadersFenced
<1>1. Inv => ReadersFenced
  BY DEF Inv, Verifying, Fencing, PublicationGuarded, ReadersFenced
<1>2. QED
  BY <1>1, Invariance, PTL

-----------------------------------------------------------------------------
(* What is certified.  A file is known by its inode and the count of its   *)
(* changes; as long as it is on record and unchanged its bytes are those   *)
(* of the rows that were bound to it.                                      *)

FileRecords == [inode : Nat, data : {"none", "a", "b", "part", "other"}, change : Nat]
Signatures == [inode : Nat, change : Nat, root : Nat]
RowValues == [digest : {"none", "a", "b"}, sig : Signatures,
              state : {"none", "current", "listed", "started", "WRITING", "STAGED", "RELEASED"}]
Kind == {"current", "pending", "removal", "token"}

RelocationTyped ==
    /\ row \in [Item -> [current : RowValues, pending : RowValues,
                         removal : RowValues, token : RowValues]]
    /\ at \in [Item -> [Place -> FileRecords]] /\ saved \in [Item -> [Place -> Signatures]]
    /\ seen \in [Place -> Signatures]
    /\ root \in Nat \ {0} /\ authority \in Nat /\ cursor \in Nat /\ changes \in Nat

\* A signature of something that exists was there at some time.
Among(s, n) == s.inode \in 1..(2 + n) /\ s.change \in 0..n
Known(s) == Among(s, changes)

FilesApart ==
    \A i \in Item : \A p \in Place :
        /\ at[i][p].inode = 0 <=> at[i][p] = NoFile
        /\ at[i][p] # NoFile => Known(at[i][p])
        /\ \A q \in Place : p # q /\ at[i][p] # NoFile => at[i][p].inode # at[i][q].inode

\* Which rows an item can have together.
RowsFit ==
    \A i \in Item :
        /\ \A t \in Kind : Sealed(row[i][t]) => Has(row[i][t]) /\ Known(row[i][t].sig)
        /\ Has(row[i].current) => Sealed(row[i].current)
        /\ row[i].token.state = "STAGED" => Sealed(row[i].token)
        /\ Sealed(row[i].token) => row[i].token.state \in {"STAGED", "RELEASED"}
        /\ IsReleased(i) => ~Has(row[i].current) /\ ~Has(row[i].pending) /\ ~Has(row[i].removal)
        /\ row[i].removal.state = "started" => Has(row[i].removal)
        /\ Has(row[i].removal) => /\ Has(row[i].current) /\ ~Has(row[i].pending)
                                  /\ ~Has(row[i].token)
                                  /\ row[i].removal.digest = row[i].current.digest

IsFile(s, f) == s.inode = f.inode /\ s.change = f.change

\* A file that a row was bound to has the bytes the row names.
RowsName ==
    \A i \in Item, t \in Kind, p \in Place :
        Sealed(row[i][t]) /\ IsFile(row[i][t].sig, at[i][p]) =>
            at[i][p].data = row[i][t].digest

OnFile(i, p) == saved[i][p] \notin {Unlooked, NoSig}
Lost(i, p) == OnFile(i, p) /\ ~IsFile(saved[i][p], at[i][p])

RecordsFit ==
    \A i \in Item, p \in Place :
        OnFile(i, p) => Known(saved[i][p]) /\ saved[i][p].root = authority

\* The rows of an item as the record has them.
BoundTo(i, t, places) == \E p \in places : OnFile(i, p) /\ row[i][t].sig = saved[i][p]

RetiredOnRecord(i) ==
    /\ Absent(i, "quarantine")
    /\ IF row[i].removal.state = "started" THEN Absent(i, "current")
       ELSE Active(i) /\ Sealed(row[i].token) /\ BoundTo(i, "token", {"current"})

Verified(i) ==
    /\ Sealed(row[i].current) =>
         BoundTo(i, "current", {"quarantine", "current"}) \/ RetiredOnRecord(i)
    /\ Sealed(row[i].removal) =>
         BoundTo(i, "removal", {"quarantine", "current"}) \/ RetiredOnRecord(i)
    /\ Sealed(row[i].pending) => BoundTo(i, "pending", {"current"})
    /\ Sealed(row[i].token) =>
         \/ BoundTo(i, "token", Place)
         \/ IsReleased(i) /\ Absent(i, "stage") /\ Absent(i, "temp")
    /\ Sealed(row[i].current) /\ Sealed(row[i].token) =>
         row[i].current.sig # row[i].token.sig

ItemsVerified ==
    \A i \in Item :
        \/ phase = "SCAN" /\ i <= cursor /\ ~IsReleased(i)
        \/ phase = "TOKENS" /\ (i <= cursor \/ ~IsReleased(i))
        \/ phase \in {"AUDIT", "FINALIZING"}
        => Verified(i)

\* What Verify has seen in the files of an item, as long as they are the same.
Same(i, p) == at[i][p] # NoFile /\ seen[p] = Sig(i, p)
Holds(i, p, digest) == Same(i, p) => at[i][p].data = digest
Empty(p) == seen[p] = NoSig
Arrived(i) == Sealed(row[i].token) /\ Empty("stage")

ReleasedSeen(i) ==
    Sealed(row[i].token) => \A p \in {"stage", "temp"} : Holds(i, p, row[i].token.digest)

PublishedSeen(i) ==
    LET r == row[i] IN
    /\ Sealed(r.pending) => ~Empty("current") /\ Holds(i, "current", r.pending.digest)
    /\ Sealed(r.token) /\ ~Empty("stage") => Holds(i, "stage", r.token.digest)
    /\ Arrived(i) => /\ Empty("temp") /\ ~Empty("current") /\ Active(i)
                     /\ r.token.digest = r.pending.digest
                     /\ Holds(i, "current", r.token.digest)
    /\ Sealed(r.current) =>
         /\ ~Empty("quarantine") => Holds(i, "quarantine", r.current.digest)
         /\ Empty("quarantine") /\ ~Empty("current") /\ ~Arrived(i) =>
              Holds(i, "current", r.current.digest)
         /\ Empty("quarantine") /\ Empty("current") => r.removal.state = "started"
         /\ Empty("quarantine") /\ Arrived(i) /\ Same(i, "current")
              /\ at[i]["current"].data = r.current.digest =>
                 ~SameInode(seen["current"], r.current.sig)

SeenFits ==
    step = "verified" =>
        /\ Ahead # {} /\ phase \in {"SCAN", "TOKENS"}
        /\ \A p \in Place : seen[p] \notin {Unlooked, NoSig} => Known(seen[p])
        /\ IF IsReleased(Min(Ahead)) THEN ReleasedSeen(Min(Ahead))
           ELSE PublishedSeen(Min(Ahead))

InCommand == step \notin {"off", "killed"}

\* An audit that began when something was wrong still has to find it.
AuditFinds ==
    /\ InCommand /\ step # "idle" => authority = root
    /\ step \in {"working", "verified", "unlinked", "finalized"} => ~first
    /\ phase = "AUDIT" /\ InCommand /\ ~first =>
         whole \/ \E i \in Item, p \in Place : Lost(i, p) /\ Key(i, p) > cursor
    /\ phase = "FINALIZING" /\ InCommand /\ ~first => whole

CertInv ==
    /\ Inv /\ RelocationTyped /\ FilesApart /\ RowsFit /\ RowsName /\ RecordsFit
    /\ ItemsVerified /\ SeenFits /\ AuditFinds

-----------------------------------------------------------------------------
(* The rows that are ahead of a cursor. *)

LEMMA MinIs ==
    ASSUME NEW S \in SUBSET Nat, S # {}
    PROVE  Min(S) \in S /\ \A y \in S : Min(S) <= y
<1> DEFINE Before == {ss \in Nat \X Nat : ss[1] < ss[2]}
<1>1. IsWellFoundedOn(Before, Nat)
  BY NatLessThanWellFounded DEF OpToRel
<1>2. PICK x \in S : \A y \in S : ~(<<y, x>> \in Before)
  <2> HIDE DEF Before
  <2>1. QED
    BY <1>1, WFMin
<1>3. ASSUME NEW y \in S PROVE x <= y
  <2>1. x \in Nat /\ y \in Nat
    OBVIOUS
  <2>2. y < x => <<y, x>> \in Before
    BY <2>1
  <2>3. QED
    BY <1>2, <2>1, <2>2
<1>4. QED
  BY <1>3 DEF Min

LEMMA RankIs ==
    /\ Rank["quarantine"] = 0 /\ Rank["temp"] = 1 /\ Rank["stage"] = 2 /\ Rank["current"] = 3
BY DEF Rank, Place

LEMMA KeyIsNat ==
    ASSUME NEW i \in Item, NEW p \in Place
    PROVE  Key(i, p) \in Nat \ {0}
<1> USE RelocationAssumption DEF Item, Key
<1>1. CASE p = "quarantine"
  BY <1>1, RankIs
<1>2. CASE p = "temp"
  BY <1>2, RankIs
<1>3. CASE p = "stage"
  BY <1>3, RankIs
<1>4. CASE p = "current"
  BY <1>4, RankIs
<1>5. QED
  BY <1>1, <1>2, <1>3, <1>4 DEF Place

\* A number has one rank and one position.
LEMMA RanksDiffer ==
    ASSUME NEW N \in Nat, NEW i \in 1..N, NEW j \in 1..N,
           NEW k \in {0, 1, 2, 3}, NEW m \in {0, 1, 2, 3}, k * N + i = m * N + j
    PROVE  k = m
<1>1. CASE k = 0
  <2>1. CASE m = 0
    BY <1>1, <2>1
  <2>2. CASE m = 1
    BY <1>1, <2>2
  <2>3. CASE m = 2
    BY <1>1, <2>3
  <2>4. CASE m = 3
    BY <1>1, <2>4
  <2>5. QED
    BY <2>1, <2>2, <2>3, <2>4
<1>2. CASE k = 1
  <2>1. CASE m = 0
    BY <1>2, <2>1
  <2>2. CASE m = 1
    BY <1>2, <2>2
  <2>3. CASE m = 2
    BY <1>2, <2>3
  <2>4. CASE m = 3
    BY <1>2, <2>4
  <2>5. QED
    BY <2>1, <2>2, <2>3, <2>4
<1>3. CASE k = 2
  <2>1. CASE m = 0
    BY <1>3, <2>1
  <2>2. CASE m = 1
    BY <1>3, <2>2
  <2>3. CASE m = 2
    BY <1>3, <2>3
  <2>4. CASE m = 3
    BY <1>3, <2>4
  <2>5. QED
    BY <2>1, <2>2, <2>3, <2>4
<1>4. CASE k = 3
  <2>1. CASE m = 0
    BY <1>4, <2>1
  <2>2. CASE m = 1
    BY <1>4, <2>2
  <2>3. CASE m = 2
    BY <1>4, <2>3
  <2>4. CASE m = 3
    BY <1>4, <2>4
  <2>5. QED
    BY <2>1, <2>2, <2>3, <2>4
<1>5. QED
  BY <1>1, <1>2, <1>3, <1>4

\* Every key belongs to one place of one item.
LEMMA KeysDiffer ==
    ASSUME NEW i \in Item, NEW p \in Place, NEW j \in Item, NEW q \in Place,
           Key(i, p) = Key(j, q)
    PROVE  i = j /\ p = q
<1>1. NumItems \in Nat /\ i \in 1..NumItems /\ j \in 1..NumItems
  BY RelocationAssumption DEF Item
<1>2. Rank[p] * NumItems + i = Rank[q] * NumItems + j
  BY DEF Key
<1>3. Rank[p] \in {0, 1, 2, 3} /\ Rank[q] \in {0, 1, 2, 3}
  BY RankIs DEF Place
<1>4. Rank[p] = Rank[q]
  BY <1>1, <1>2, <1>3, RanksDiffer
<1>5. p = q
  BY <1>4, RankIs DEF Place
<1>6. Rank[q] * NumItems \in Int
  BY <1>1, <1>3
<1>7. i = j
  <2> DEFINE base == Rank[q] * NumItems
  <2>1. base + i = base + j /\ base \in Int /\ i \in Int /\ j \in Int
    BY <1>1, <1>2, <1>4, <1>6
  <2> HIDE DEF base
  <2>2. QED
    BY <2>1
<1>8. QED
  BY <1>5, <1>7

LEMMA AheadIsNat == Ahead \in SUBSET Nat
<1>1. Item \subseteq Nat
  BY RelocationAssumption DEF Item
<1>2. \A f \in OnRecord : f[1] \in Item /\ f[2] \in Place
  BY DEF OnRecord
<1>3. \A f \in OnRecord : Key(f[1], f[2]) \in Nat
  BY <1>2, KeyIsNat
<1>4. QED
  BY <1>1, <1>3 DEF Ahead

LEMMA NextAhead ==
    ASSUME Ahead # {}
    PROVE  Min(Ahead) \in Ahead /\ \A k \in Ahead : Min(Ahead) <= k
BY AheadIsNat, MinIs

-----------------------------------------------------------------------------
(* What a publication leaves. *)

\* The facts about one item, with its rows and files.
ItemFits(rows, files) ==
    /\ rows \in [current : RowValues, pending : RowValues, removal : RowValues, token : RowValues]
    /\ files \in [Place -> FileRecords]
    /\ \A p \in Place :
        /\ files[p].inode = 0 <=> files[p] = NoFile
        /\ files[p].inode <= 2 /\ files[p].change = 0
        /\ \A q \in Place : p # q /\ files[p] # NoFile => files[p].inode # files[q].inode
    /\ \A t \in Kind :
        /\ Sealed(rows[t]) => Has(rows[t]) /\ rows[t].sig.inode \in {1, 2} /\ rows[t].sig.change = 0
        /\ \A p \in Place :
             Sealed(rows[t]) /\ IsFile(rows[t].sig, files[p]) => files[p].data = rows[t].digest
    /\ Has(rows.current) => Sealed(rows.current)
    /\ rows.token.state = "STAGED" => Sealed(rows.token)
    /\ Sealed(rows.token) => rows.token.state \in {"STAGED", "RELEASED"}
    /\ rows.token.state = "RELEASED" =>
         ~Has(rows.current) /\ ~Has(rows.pending) /\ ~Has(rows.removal)
    /\ rows.removal.state = "started" => Has(rows.removal)
    /\ Has(rows.removal) => /\ Has(rows.current) /\ ~Has(rows.pending) /\ ~Has(rows.token)
                            /\ rows.removal.digest = rows.current.digest

LEMMA SituationFits ==
    ASSUME NEW s \in Situation
    PROVE  ItemFits(s.rows, s.files)
<1> USE DEF ItemFits, Keeping, Fresh, Files, Rows, Row, NoRow, NoFile, OldFile, NewFile, SigAt,
            NoSig, Place, Kind, RowValues, FileRecords, Signatures, Sealed, Has, IsFile
<1>1. CASE s = Published
  BY <1>1 DEF Published
<1>2. CASE s \in Protecting
  BY <1>2 DEF Protecting
<1>3. CASE s \in Installing
  <2> DEFINE staged(d) == Row(d, NewFile(d), "STAGED")
             started(d) == Row(d, NoFile, "started")
  <2>1. PICK d \in {"a", "b"} :
           \/ s = Keeping(Files(NoFile, NewFile(d), NoFile, OldFile), Row(d, NoFile, "listed"),
                         staged(d))
           \/ \E fs \in {Files(NoFile, NewFile(d), NoFile, OldFile),
                         Files(OldFile, NewFile(d), NoFile, NoFile),
                         Files(OldFile, NoFile, NoFile, NewFile(d)),
                         Files(NoFile, NoFile, NoFile, NewFile(d))} :
                s = Keeping(fs, started(d), staged(d))
           \/ \E fs \in {Files(NoFile, NewFile(d), NoFile, NoFile),
                         Files(NoFile, NoFile, NoFile, NewFile(d))} :
                s = Fresh(fs, started(d), staged(d))
    BY <1>3 DEF Installing
  <2>2. CASE s = Keeping(Files(NoFile, NewFile(d), NoFile, OldFile), Row(d, NoFile, "listed"),
                         staged(d))
    BY <2>2
  <2>3. ASSUME NEW fs \in {Files(NoFile, NewFile(d), NoFile, OldFile),
                          Files(OldFile, NewFile(d), NoFile, NoFile),
                          Files(OldFile, NoFile, NoFile, NewFile(d)),
                          Files(NoFile, NoFile, NoFile, NewFile(d))},
               s = Keeping(fs, started(d), staged(d))
        PROVE  ItemFits(s.rows, s.files)
    BY <2>3
  <2>4. ASSUME NEW fs \in {Files(NoFile, NewFile(d), NoFile, NoFile),
                          Files(NoFile, NoFile, NoFile, NewFile(d))},
               s = Fresh(fs, started(d), staged(d))
        PROVE  ItemFits(s.rows, s.files)
    BY <2>4
  <2>5. QED
    BY <2>1, <2>2, <2>3, <2>4
<1>4. CASE s \in Activated
  BY <1>4 DEF Activated
<1>5. CASE s \in Removing
  BY <1>5 DEF Removing, Published
<1>6. CASE s \in Released
  BY <1>6 DEF Released
<1>7. QED
  BY <1>1, <1>2, <1>3, <1>4, <1>5, <1>6 DEF Situation

LEMMA InitCert == Init => CertInv
<1> SUFFICES ASSUME Init PROVE CertInv
  OBVIOUS
<1>1. PICK chosen \in [Item -> Situation] :
        /\ row = [i \in Item |-> chosen[i].rows] /\ at = [i \in Item |-> chosen[i].files]
  BY DEF Init
<1>2. \A i \in Item : ItemFits(row[i], at[i])
  BY <1>1, SituationFits
<1>3. /\ root = 2 /\ phase = "none" /\ cursor = 0 /\ authority = 0 /\ step = "off"
      /\ saved = [i \in Item |-> Nothing] /\ seen = Nothing /\ changes = 0
  BY DEF Init
<1>4. Nothing \in [Place -> Signatures] /\ \A p \in Place : Nothing[p] = Unlooked
  BY DEF Nothing, Unlooked, NoSig, Signatures
<1>5. RelocationTyped
  <2>1. row \in [Item -> [current : RowValues, pending : RowValues,
                         removal : RowValues, token : RowValues]]
    BY <1>1, <1>2 DEF ItemFits
  <2>2. at \in [Item -> [Place -> FileRecords]]
    BY <1>1, <1>2 DEF ItemFits
  <2>3. saved \in [Item -> [Place -> Signatures]] /\ seen \in [Place -> Signatures]
    BY <1>3, <1>4
  <2>4. QED
    BY <1>3, <2>1, <2>2, <2>3 DEF RelocationTyped
<1>6. FilesApart
  <2>1. ASSUME NEW i \in Item, NEW p \in Place, at[i][p] # NoFile PROVE Known(at[i][p])
    <3>1. at[i][p] \in FileRecords
      BY <1>2 DEF ItemFits
    <3>2. at[i][p].inode \in Nat /\ at[i][p].change = 0
          /\ at[i][p].inode # 0 /\ at[i][p].inode <= 2
      BY <1>2, <2>1, <3>1 DEF ItemFits, FileRecords
    <3>3. QED
      BY <1>3, <3>2 DEF Known, Among
  <2>2. QED
    BY <1>2, <2>1 DEF FilesApart, ItemFits
<1>7. RowsFit
  <2>1. ASSUME NEW i \in Item, NEW t \in Kind, Sealed(row[i][t])
        PROVE  Has(row[i][t]) /\ Known(row[i][t].sig)
    BY <1>2, <1>3, <2>1 DEF ItemFits, Known, Among
  <2>2. QED
    BY <1>2, <2>1 DEF RowsFit, ItemFits, IsReleased
<1>8. RowsName
  BY <1>2 DEF RowsName, ItemFits
<1>9. RecordsFit
  BY <1>3, <1>4 DEF RecordsFit, OnFile
<1>10. ItemsVerified /\ SeenFits /\ AuditFinds
  BY <1>3 DEF ItemsVerified, SeenFits, AuditFinds, InCommand
<1>11. QED
  BY <1>5, <1>6, <1>7, <1>8, <1>9, <1>10, InitInv DEF CertInv

-----------------------------------------------------------------------------
(* Files change. *)

\* Whatever somebody does to a file, it is none that was there before.
LEMMA TamperedFile ==
    ASSUME CertInv, NEW i \in Item, NEW p \in Place, Tamper(i, p)
    PROVE  /\ changes' = changes + 1
           /\ \A j \in Item, q \in Place : j # i \/ q # p => at'[j][q] = at[j][q]
           /\ at' \in [Item -> [Place -> FileRecords]]
           /\ at'[i][p].inode = 0 <=> at'[i][p] = NoFile
           /\ at'[i][p] # at[i][p]
           /\ at'[i][p] # NoFile =>
                /\ \/ at'[i][p].inode = changes + 3
                   \/ /\ at'[i][p].inode = at[i][p].inode /\ at[i][p] # NoFile
                      /\ at'[i][p].change = changes + 1
                /\ at'[i][p].inode \in 1..(3 + changes) /\ at'[i][p].change <= changes + 1
           /\ \A s : Known(s) => ~IsFile(s, at'[i][p])
<1> DEFINE f == at[i][p]
           n == changes + 1
<1>1. /\ changes \in Nat /\ f \in FileRecords /\ at \in [Item -> [Place -> FileRecords]]
      /\ f.inode = 0 <=> f = NoFile
      /\ f # NoFile => Known(f)
  BY DEF CertInv, RelocationTyped, FilesApart
<1>2. PICK g : /\ g \in IF f = NoFile THEN {Foreigner(n, data) : data \in {"a", "b"}}
                        ELSE {NoFile, [f EXCEPT !.change = n],
                              Foreigner(n, f.data), Foreigner(n, "other")}
               /\ at' = [at EXCEPT ![i][p] = g]
  BY DEF Tamper
<1>3. changes' = n
  BY DEF Tamper
<1>4. /\ g \in FileRecords
      /\ \/ g = NoFile /\ f # NoFile
         \/ g.inode = changes + 3 /\ g.change = 0
         \/ g.inode = f.inode /\ g.change = n /\ f # NoFile
  BY <1>1, <1>2 DEF Foreigner, FileRecords, NoFile
<1>5. at'[i][p] = g /\ \A j \in Item, q \in Place : j # i \/ q # p => at'[j][q] = at[j][q]
  BY <1>1, <1>2
<1>6. at' \in [Item -> [Place -> FileRecords]]
  BY <1>1, <1>2, <1>4
<1>7. f # NoFile => f.inode \in 1..(2 + changes) /\ f.change <= changes
  BY <1>1 DEF Known, Among
<1>8. NoFile.inode = 0 /\ NoFile.change = 0
  BY DEF NoFile
<1>9. g # f
  BY <1>1, <1>4, <1>7, <1>8 DEF FileRecords
<1>10. g # NoFile => g.inode \in 1..(3 + changes) /\ g.change <= changes + 1
  BY <1>1, <1>4, <1>7, <1>8 DEF FileRecords
<1>11. g.inode = 0 <=> g = NoFile
  BY <1>1, <1>4, <1>7, <1>8 DEF FileRecords
<1>12. ASSUME NEW s, Known(s) PROVE ~IsFile(s, g)
  <2>1. s.inode \in 1..(2 + changes) /\ s.change <= changes
    BY <1>12 DEF Known, Among
  <2>2. CASE g = NoFile
    BY <1>8, <2>1, <2>2 DEF IsFile
  <2>3. CASE g.inode = changes + 3
    BY <1>1, <2>1, <2>3 DEF IsFile
  <2>4. CASE g.change = n
    BY <1>1, <2>1, <2>4 DEF IsFile
  <2>5. QED
    BY <1>4, <2>2, <2>3, <2>4
<1>13. g # NoFile => \/ g.inode = changes + 3
                     \/ g.inode = f.inode /\ f # NoFile /\ g.change = changes + 1
  BY <1>4
<1>14. QED
  BY <1>3, <1>5, <1>6, <1>9, <1>10, <1>11, <1>12, <1>13

LEMMA KnownStays ==
    ASSUME NEW n \in Nat, NEW s, Among(s, n)
    PROVE  Among(s, n + 1)
BY DEF Among

\* The rows ahead and what the record makes of them depend on no file.
LEMMA RecordDecides ==
    ASSUME UNCHANGED <<row, saved>>
    PROVE  \A j \in Item : /\ Verified(j)' = Verified(j)
                           /\ IsReleased(j)' = IsReleased(j)
                           /\ \A q \in Place : OnFile(j, q)' = OnFile(j, q)
BY DEF Verified, BoundTo, RetiredOnRecord, Absent, OnFile, Active, IsReleased

LEMMA AheadStays ==
    ASSUME UNCHANGED <<row, saved, phase, cursor>>
    PROVE  Ahead' = Ahead
<1>1. OnRecord' = OnRecord
  BY DEF OnRecord
<1>2. \A i \in Item : IsReleased(i)' = IsReleased(i)
  BY RecordDecides
<1>3. QED
  BY <1>1, <1>2 DEF Ahead

LEMMA TamperCert ==
    ASSUME CertInv, Inv', NEW i \in Item, NEW p \in Place, Tamper(i, p)
    PROVE  CertInv'
<1>1. UNCHANGED <<row, root, phase, cursor, authority, saved, step, first, seen, whole>>
  BY DEF Tamper, session, records, command
<1>2. /\ changes' = changes + 1 /\ changes \in Nat
      /\ \A s : Among(s, changes) => Among(s, changes') /\ ~IsFile(s, at'[i][p])
  BY TamperedFile, KnownStays DEF CertInv, RelocationTyped, Known
<1>3. \A j \in Item, q \in Place : j # i \/ q # p => at'[j][q] = at[j][q]
  BY TamperedFile
<1>4. RelocationTyped'
  BY <1>1, <1>2, TamperedFile DEF CertInv, RelocationTyped
<1>5. FilesApart'
  <2>1. ASSUME NEW j \in Item, NEW q \in Place
        PROVE  /\ at'[j][q].inode = 0 <=> at'[j][q] = NoFile
               /\ at'[j][q] # NoFile => Among(at'[j][q], changes')
    <3>1. CASE j = i /\ q = p
      BY <1>2, <3>1, TamperedFile DEF Among, FileRecords
    <3>2. CASE j # i \/ q # p
      BY <1>2, <1>3, <3>2 DEF CertInv, FilesApart, Known
    <3>3. QED
      BY <3>1, <3>2
  <2>2. ASSUME NEW j \in Item, NEW q \in Place, NEW r \in Place, q # r, at'[j][q] # NoFile
        PROVE  at'[j][q].inode # at'[j][r].inode
    <3>1. \A x \in Place : at[j][x] # NoFile => at[j][x].inode \in 1..(2 + changes)
      BY DEF CertInv, FilesApart, Known, Among
    <3>2. \A x \in Place : at[j][x] = NoFile => at[j][x].inode = 0
      BY DEF CertInv, FilesApart
    <3>3. CASE j = i /\ q = p
      <4>1. at'[j][r] = at[j][r]
        BY <1>3, <2>2, <3>3
      <4>2. CASE at'[i][p].inode = changes + 3
        BY <1>2, <3>1, <3>2, <3>3, <4>1, <4>2
      <4>3. CASE at'[i][p].inode = at[i][p].inode /\ at[i][p] # NoFile
        BY <2>2, <3>3, <4>1, <4>3 DEF CertInv, FilesApart
      <4>4. QED
        BY <2>2, <3>3, <4>2, <4>3, TamperedFile
    <3>4. CASE j = i /\ r = p
      <4>1. at'[j][q] = at[j][q]
        BY <1>3, <2>2, <3>4
      <4>2. CASE at'[i][p] = NoFile
        BY <2>2, <3>1, <3>4, <4>1, <4>2, TamperedFile
      <4>3. CASE at'[i][p].inode = changes + 3
        BY <1>2, <2>2, <3>1, <3>4, <4>1, <4>3
      <4>4. CASE at'[i][p].inode = at[i][p].inode
        BY <2>2, <3>4, <4>1, <4>4 DEF CertInv, FilesApart
      <4>5. QED
        BY <4>2, <4>3, <4>4, TamperedFile
    <3>5. CASE j # i \/ (q # p /\ r # p)
      BY <1>3, <2>2, <3>5 DEF CertInv, FilesApart
    <3>6. QED
      BY <3>3, <3>4, <3>5
  <2>3. QED
    BY <2>1, <2>2 DEF FilesApart, Known
<1>6. RowsFit'
  <2>1. \A j \in Item, t \in Kind : Sealed(row[j][t]) => Among(row[j][t].sig, changes')
    BY <1>2 DEF CertInv, RowsFit, Known
  <2>2. QED
    BY <1>1, <2>1 DEF CertInv, RowsFit, IsReleased, Known
<1>7. RowsName'
  <2>1. ASSUME NEW j \in Item, NEW t \in Kind, NEW q \in Place,
               Sealed(row[j][t]), IsFile(row[j][t].sig, at'[j][q])
        PROVE  at'[j][q].data = row[j][t].digest
    <3>1. Known(row[j][t].sig)
      BY <2>1 DEF CertInv, RowsFit
    <3>2. at'[j][q] = at[j][q]
      BY <1>2, <1>3, <2>1, <3>1 DEF Known
    <3>3. QED
      BY <2>1, <3>2 DEF CertInv, RowsName
  <2>2. QED
    BY <1>1, <2>1 DEF RowsName
<1>8. RecordsFit'
  BY <1>1, <1>2, RecordDecides DEF CertInv, RecordsFit, Known
<1>9. ItemsVerified'
  BY <1>1, RecordDecides DEF CertInv, ItemsVerified
<1>10. SeenFits'
  <2>1. SUFFICES ASSUME step = "verified" PROVE SeenFits'
    BY <1>1 DEF SeenFits
  <2>2. Ahead' = Ahead
    BY <1>1, AheadStays
  <2>3. PICK m \in Item : m = Min(Ahead)
    BY <2>1, NextAhead DEF CertInv, SeenFits, Ahead
  <2>4. \A q \in Place : seen[q] \notin {Unlooked, NoSig} =>
                  Among(seen[q], changes) /\ Among(seen[q], changes')
    BY <1>2, <2>1 DEF CertInv, SeenFits, Known
  <2>5. ASSUME NEW q \in Place, Same(m, q)'
        PROVE  at'[m][q] = at[m][q] /\ Same(m, q)
    <3>1. CASE m = i /\ q = p
      <4>1. at'[i][p] # NoFile /\ seen[p] = SigAt(at'[i][p], root)
        BY <1>1, <2>5, <3>1 DEF Same, Sig
      <4>2. IsFile(seen[p], at'[i][p]) /\ seen[p].inode # 0
        BY <4>1, TamperedFile DEF SigAt, IsFile
      <4>3. Among(seen[p], changes)
        BY <2>4, <4>2 DEF Unlooked, NoSig
      <4>4. QED
        BY <1>2, <4>2, <4>3
    <3>2. CASE m # i \/ q # p
      BY <1>1, <1>3, <2>3, <2>5, <3>2 DEF Same, Sig
    <3>3. QED
      BY <3>1, <3>2
  <2>6. \A q \in Place : \A d : Holds(m, q, d) => Holds(m, q, d)'
    BY <2>5 DEF Holds
  <2>7. ReleasedSeen(m) => ReleasedSeen(m)'
    BY <1>1, <2>6 DEF ReleasedSeen, Place
  <2>8. PublishedSeen(m) => PublishedSeen(m)'
    BY <1>1, <2>5, <2>6 DEF PublishedSeen, Arrived, Empty, Active, Place
  <2>9. Ahead # {} /\ phase \in {"SCAN", "TOKENS"}
        /\ (IF IsReleased(m) THEN ReleasedSeen(m) ELSE PublishedSeen(m))
    BY <2>1, <2>3 DEF CertInv, SeenFits
  <2>10. IsReleased(m)' = IsReleased(m)
    BY <1>1 DEF IsReleased
  <2>11. QED
    BY <1>1, <2>2, <2>3, <2>4, <2>7, <2>8, <2>9, <2>10 DEF SeenFits, Known
<1>11. AuditFinds'
  <2>1. ASSUME NEW j \in Item, NEW q \in Place, Lost(j, q) PROVE Lost(j, q)'
    <3>1. Known(saved[j][q])
      BY <2>1 DEF CertInv, RecordsFit, Lost
    <3>2. ~IsFile(saved[j][q], at'[j][q])
      BY <1>2, <1>3, <2>1, <3>1 DEF Lost, Known
    <3>3. QED
      BY <1>1, <2>1, <3>2, RecordDecides DEF Lost
  <2>2. \A j \in Item, q \in Place : Key(j, q)' = Key(j, q)
    BY DEF Key
  <2>3. QED
    BY <1>1, <2>1, <2>2 DEF CertInv, AuditFinds, InCommand
<1>12. QED
  BY <1>4, <1>5, <1>6, <1>7, <1>8, <1>9, <1>10, <1>11 DEF CertInv

-----------------------------------------------------------------------------
(* Verify and Record. *)

LEMMA Observed ==
    ASSUME CertInv, NEW i \in Item
    PROVE  /\ Observation(i) \in [Place -> Signatures]
           /\ \A p \in Place :
                /\ p \in Looked(i) => Observation(i)[p] = Sig(i, p)
                /\ p \notin Looked(i) => Observation(i)[p] = Unlooked
                /\ Sig(i, p) # Unlooked
                /\ Sig(i, p) = NoSig <=> at[i][p] = NoFile
                /\ at[i][p] # NoFile => /\ Sig(i, p).inode = at[i][p].inode
                                        /\ Sig(i, p).change = at[i][p].change
                                        /\ Sig(i, p).root = root
<1>1. /\ at[i] \in [Place -> FileRecords] /\ root \in Nat
      /\ \A p \in Place : at[i][p].inode = 0 <=> at[i][p] = NoFile
  BY DEF CertInv, RelocationTyped, FilesApart
<1>2. NoSig.inode = 0 /\ NoSig.change = 0 /\ Unlooked.inode = 0 /\ Unlooked.change = 1
      /\ NoSig \in Signatures /\ Unlooked \in Signatures
  BY DEF NoSig, Unlooked, Signatures
<1>3. ASSUME NEW p \in Place
      PROVE  /\ Sig(i, p) \in Signatures
             /\ Sig(i, p) # Unlooked
             /\ Sig(i, p) = NoSig <=> at[i][p] = NoFile
             /\ at[i][p] # NoFile => /\ Sig(i, p).inode = at[i][p].inode
                                     /\ Sig(i, p).change = at[i][p].change
                                     /\ Sig(i, p).root = root
  BY <1>1, <1>2 DEF Sig, SigAt, Signatures, FileRecords
<1>4. QED
  BY <1>2, <1>3 DEF Observation

\* What Verify accepts of an item at rest.
LEMMA VerifyReleased ==
    ASSUME CertInv, NEW i \in Item, IsReleased(i), ~Refused(i),
           seen' = Observation(i), UNCHANGED <<row, at, root>>
    PROVE  ReleasedSeen(i)'
BY DEF Refused, ReleasedRefused, ReleasedSeen, Holds, Same, Matches

LEMMA VerifyPublished ==
    ASSUME CertInv, NEW i \in Item, ~IsReleased(i), ~Refused(i),
           seen' = Observation(i), UNCHANGED <<row, at, root>>
    PROVE  PublishedSeen(i)'
<1> DEFINE r == row[i]
           f == at[i]
<1>1. ~StagingRefused(i) /\ ~CurrentRefused(i)
      /\ (Sealed(r.pending) => Matches(f["current"], r.pending))
  BY DEF Refused
<1>2. /\ Sealed(r.token) => Has(r.token) /\ r.token.state = "STAGED"
      /\ r.token.state = "STAGED" => Sealed(r.token)
      /\ Sealed(r.current) => Has(r.current)
  BY DEF CertInv, RowsFit, Kind, IsReleased
<1>3. \A p \in Place : /\ p \in Looked(i) => seen'[p] = Sig(i, p)
                       /\ p \in Looked(i) => (seen'[p] = NoSig <=> f[p] = NoFile)
                       /\ seen'[p] = NoSig => f[p] = NoFile
  BY Observed DEF Unlooked, NoSig
<1>4. /\ "current" \in Looked(i)
      /\ Sealed(r.current) => "quarantine" \in Looked(i)
      /\ Sealed(r.token) => "stage" \in Looked(i) /\ "temp" \in Looked(i)
  BY <1>2 DEF Looked, Place
<1>5. Sealed(r.token) /\ f["stage"] = NoFile <=> Installed(i)
  BY <1>1, <1>2 DEF StagingRefused, Installed
<1>6. Arrived(i)' <=> Installed(i)
  BY <1>3, <1>4, <1>5 DEF Arrived, Empty, Place
<1>7. Sealed(r.pending) => ~Empty("current")' /\ Holds(i, "current", r.pending.digest)'
  BY <1>1, <1>3, <1>4 DEF Matches, Empty, Holds, Same, Place
<1>8. Sealed(r.token) /\ ~Empty("stage")' => Holds(i, "stage", r.token.digest)'
  BY <1>1, <1>2 DEF Holds, Same, StagingRefused, Matches
<1>9. Arrived(i)' => /\ Empty("temp")' /\ ~Empty("current")' /\ Active(i)
                     /\ r.token.digest = r.pending.digest
                     /\ Holds(i, "current", r.token.digest)'
  <2>1. SUFFICES ASSUME Installed(i)
                 PROVE  /\ Empty("temp")' /\ ~Empty("current")' /\ Active(i)
                        /\ r.token.digest = r.pending.digest
                        /\ Holds(i, "current", r.token.digest)'
    BY <1>6
  <2>2. Sealed(r.token)
    BY <1>5, <2>1
  <2>3. QED
    BY <1>3, <1>4, <2>1, <2>2 DEF Installed, Matches, Empty, Holds, Same, Place
<1>10. Sealed(r.current) =>
         /\ ~Empty("quarantine")' => Holds(i, "quarantine", r.current.digest)'
         /\ Empty("quarantine")' /\ ~Empty("current")' /\ ~Arrived(i)' =>
              Holds(i, "current", r.current.digest)'
         /\ Empty("quarantine")' /\ Empty("current")' => r.removal.state = "started"
         /\ Empty("quarantine")' /\ Arrived(i)' /\ Same(i, "current")'
              /\ f["current"].data = r.current.digest =>
                 ~SameInode(seen'["current"], r.current.sig)
  <2>1. SUFFICES ASSUME Sealed(r.current)
                 PROVE  /\ ~Empty("quarantine")' => Holds(i, "quarantine", r.current.digest)'
                        /\ Empty("quarantine")' /\ ~Empty("current")' /\ ~Arrived(i)' =>
                             Holds(i, "current", r.current.digest)'
                        /\ Empty("quarantine")' /\ Empty("current")' =>
                             r.removal.state = "started"
                        /\ Empty("quarantine")' /\ Arrived(i)' /\ Same(i, "current")'
                             /\ f["current"].data = r.current.digest =>
                                ~SameInode(seen'["current"], r.current.sig)
    OBVIOUS
  <2>2. Has(r.current) /\ "quarantine" \in Looked(i)
    BY <1>2, <1>4, <2>1
  <2>3. /\ Empty("quarantine")' <=> f["quarantine"] = NoFile
        /\ Empty("current")' <=> f["current"] = NoFile
    BY <1>3, <1>4, <2>2 DEF Empty, Place
  <2>4. Installed(i) => f["current"] # NoFile
    BY DEF Installed, Matches
  <2>5. CurrentAt(i) # "nowhere" => Matches(f[CurrentAt(i)], r.current)
    BY <1>1, <2>2 DEF CurrentRefused
  <2>6. f["quarantine"] # NoFile => CurrentAt(i) = "quarantine"
    BY <2>2 DEF CurrentAt
  <2>7. f["quarantine"] = NoFile /\ f["current"] # NoFile /\ ~Installed(i) =>
          CurrentAt(i) = "current"
    BY <2>2 DEF CurrentAt
  <2>8. f["quarantine"] = NoFile /\ f["current"] = NoFile => CurrentAt(i) = "nowhere"
    BY <2>2 DEF CurrentAt
  <2>9. ~Empty("quarantine")' => Holds(i, "quarantine", r.current.digest)'
    BY <2>3, <2>5, <2>6 DEF Holds, Matches
  <2>10. Empty("quarantine")' /\ ~Empty("current")' /\ ~Arrived(i)' =>
           Holds(i, "current", r.current.digest)'
    BY <1>6, <2>3, <2>5, <2>7 DEF Holds, Matches
  <2>11. Empty("quarantine")' /\ Empty("current")' => r.removal.state = "started"
    BY <1>1, <2>2, <2>3, <2>4, <2>8 DEF CurrentRefused
  <2>12. ~Ambiguous(i)
    BY <1>1, <2>2 DEF CurrentRefused
  <2>13. Empty("quarantine")' /\ Arrived(i)' /\ Same(i, "current")'
           /\ f["current"].data = r.current.digest =>
              ~SameInode(seen'["current"], r.current.sig)
    BY <1>3, <1>4, <1>6, <2>2, <2>3, <2>4, <2>12 DEF Ambiguous, Matches, Place
  <2>14. QED
    BY <2>9, <2>10, <2>11, <2>13
<1>11. QED
  <2>1. Active(i)' = Active(i) /\ row' = row /\ at' = at
    BY DEF Active
  <2>2. QED
    BY <1>7, <1>8, <1>9, <1>10, <2>1 DEF PublishedSeen

\* A row is bound to a file that has its bytes, or stays as it was.
BoundAt(i, t, q) ==
    /\ q \in Looked(i) /\ at[i][q] # NoFile
    /\ Bound(i)[t].sig = Sig(i, q) /\ at[i][q].data = row[i][t].digest

LEMMA BoundKeeps ==
    ASSUME CertInv, NEW i \in Item, NEW t \in Kind
    PROVE  /\ Bound(i)[t].digest = row[i][t].digest /\ Bound(i)[t].state = row[i][t].state
           /\ Sealed(Bound(i)[t]) <=> Sealed(row[i][t])
           /\ ~Sealed(row[i][t]) => Bound(i)[t].sig = row[i][t].sig
           /\ Bound(i)[t].sig = row[i][t].sig \/ \E p \in Place : Bound(i)[t].sig = Sig(i, p)
<1>1. \A p \in Place : at[i][p] # NoFile => Sig(i, p) # NoSig
  BY Observed
<1>2. CurrentAt(i) \in Place \cup {"nowhere"} /\ TokenAt(i) \in Place
  BY DEF CurrentAt, TokenAt, ReleasedAt, Place
<1>3. ASSUME NEW r, NEW p \in Place \cup {"nowhere"}
      PROVE  /\ Bind(r, i, p).digest = r.digest /\ Bind(r, i, p).state = r.state
             /\ Sealed(Bind(r, i, p)) <=> Sealed(r)
             /\ ~Sealed(r) => Bind(r, i, p).sig = r.sig
             /\ Bind(r, i, p).sig = r.sig \/ \E q \in Place : Bind(r, i, p).sig = Sig(i, q)
  <2>1. /\ Bind(r, i, p).digest = r.digest /\ Bind(r, i, p).state = r.state
        /\ Bind(r, i, p).sig = IF Sealed(r) /\ p # "nowhere" /\ at[i][p] # NoFile
                               THEN Sig(i, p) ELSE r.sig
    BY DEF Bind
  <2>2. "nowhere" \notin Place
    BY DEF Place
  <2>3. QED
    BY <1>1, <2>1, <2>2 DEF Sealed
<1>4. "current" \in Place
  BY DEF Place
<1>5. /\ Bound(i)["current"] = Bind(row[i]["current"], i, CurrentAt(i))
      /\ Bound(i)["pending"] = Bind(row[i]["pending"], i, "current")
      /\ Bound(i)["removal"] = Bind(row[i]["removal"], i, CurrentAt(i))
      /\ Bound(i)["token"] = Bind(row[i]["token"], i, TokenAt(i))
  BY DEF Bound
<1>6. QED
  BY <1>2, <1>3, <1>4, <1>5 DEF Kind

LEMMA BindReleased ==
    ASSUME CertInv, NEW i \in Item, IsReleased(i), ReleasedSeen(i), Observation(i) = seen
    PROVE  /\ \A t \in Kind \ {"token"} : ~Sealed(row[i][t])
           /\ Sealed(row[i].token) =>
                \/ \E q \in Place : BoundAt(i, "token", q)
                \/ /\ Bound(i).token.sig = row[i].token.sig
                   /\ seen["stage"] = NoSig /\ seen["temp"] = NoSig
<1> DEFINE r == row[i]
           f == at[i]
<1>1. \A t \in Kind \ {"token"} : ~Sealed(row[i][t])
  BY DEF CertInv, RowsFit, Kind
<1>2. SUFFICES ASSUME Sealed(r.token)
               PROVE  \/ \E q \in Place : BoundAt(i, "token", q)
                      \/ /\ Bound(i).token.sig = r.token.sig
                         /\ seen["stage"] = NoSig /\ seen["temp"] = NoSig
  BY <1>1
<1>3. Has(r.token) /\ "stage" \in Looked(i) /\ "temp" \in Looked(i)
  BY <1>2 DEF CertInv, RowsFit, Kind, Looked, Place
<1>4. \A p \in {"stage", "temp"} : seen[p] = Sig(i, p) /\ (f[p] # NoFile => Same(i, p))
  BY <1>3, Observed DEF Same, Place
<1>5. \A p \in {"stage", "temp"} : f[p] # NoFile => f[p].data = r.token.digest
  BY <1>2, <1>4 DEF ReleasedSeen, Holds
<1>6. Bound(i).token.sig = IF f[ReleasedAt(i)] # NoFile THEN Sig(i, ReleasedAt(i)) ELSE r.token.sig
  BY <1>2 DEF Bound, Bind, TokenAt, ReleasedAt
<1>7. CASE f["stage"] # NoFile
  BY <1>3, <1>5, <1>6, <1>7 DEF ReleasedAt, BoundAt, Place
<1>8. CASE f["stage"] = NoFile /\ f["temp"] # NoFile
  BY <1>3, <1>5, <1>6, <1>8 DEF ReleasedAt, BoundAt, Place
<1>9. CASE f["stage"] = NoFile /\ f["temp"] = NoFile
  BY <1>4, <1>6, <1>9, Observed DEF ReleasedAt, Place
<1>10. QED
  BY <1>7, <1>8, <1>9

LEMMA BindPublished ==
    ASSUME CertInv, NEW i \in Item, ~IsReleased(i), PublishedSeen(i), Observation(i) = seen
    PROVE  /\ Sealed(row[i].pending) => BoundAt(i, "pending", "current")
           /\ Sealed(row[i].token) =>
                IF at[i]["stage"] # NoFile THEN BoundAt(i, "token", "stage")
                ELSE BoundAt(i, "token", "current") /\ Installed(i)
           /\ \A t \in {"current", "removal"} : Sealed(row[i][t]) =>
                \/ at[i]["quarantine"] # NoFile /\ BoundAt(i, t, "quarantine")
                \/ /\ at[i]["quarantine"] = NoFile /\ ~Installed(i)
                   /\ BoundAt(i, t, "current")
                \/ /\ Bound(i)[t].sig = row[i][t].sig /\ seen["quarantine"] = NoSig
                   /\ \/ seen["current"] = NoSig /\ row[i].removal.state = "started"
                      \/ Installed(i)
           /\ Installed(i) => Active(i) /\ Sealed(row[i].token) /\ at[i]["stage"] = NoFile
           /\ Installed(i) /\ Sealed(row[i].current) /\ at[i]["quarantine"] = NoFile
                /\ at[i]["current"].data = row[i].current.digest =>
                   row[i].current.sig # Sig(i, "current")
<1> DEFINE r == row[i]
           f == at[i]
<1>1. /\ Sealed(r.token) => Has(r.token) /\ r.token.state = "STAGED"
      /\ r.token.state = "STAGED" => Sealed(r.token)
      /\ Sealed(r.current) => Has(r.current)
      /\ Has(r.current) => Sealed(r.current)
      /\ Sealed(r.removal) => Has(r.current) /\ r.removal.digest = r.current.digest
  BY DEF CertInv, RowsFit, Kind, IsReleased
<1>2. /\ "current" \in Looked(i)
      /\ Sealed(r.current) => "quarantine" \in Looked(i)
      /\ Sealed(r.token) => "stage" \in Looked(i) /\ "temp" \in Looked(i)
  BY <1>1 DEF Looked, Place
<1>3. \A p \in Place : p \in Looked(i) => /\ seen[p] = Sig(i, p)
                                          /\ Empty(p) <=> f[p] = NoFile
                                          /\ f[p] # NoFile => Same(i, p)
  BY Observed DEF Empty, Same
<1>4. Arrived(i) <=> Installed(i)
  <2>1. Installed(i) => Sealed(r.token) /\ f["stage"] = NoFile
    BY <1>1 DEF Installed
  <2>2. Installed(i) => Arrived(i)
    BY <1>2, <1>3, <2>1 DEF Arrived, Place
  <2>3. ASSUME Arrived(i) PROVE Installed(i)
    <3>1. Sealed(r.token) /\ Empty("stage") /\ Empty("temp") /\ ~Empty("current")
          /\ Active(i) /\ r.token.digest = r.pending.digest
          /\ Holds(i, "current", r.token.digest)
      BY <2>3 DEF Arrived, PublishedSeen
    <3>2. f["stage"] = NoFile /\ f["temp"] = NoFile /\ f["current"] # NoFile
      BY <1>2, <1>3, <3>1 DEF Place
    <3>3. f["current"].data = r.token.digest
      BY <1>2, <1>3, <3>1, <3>2 DEF Holds, Place
    <3>4. QED
      BY <1>1, <3>1, <3>2, <3>3 DEF Installed, Matches
  <2>4. QED
    BY <2>2, <2>3
<1>5. Sealed(r.pending) => BoundAt(i, "pending", "current")
  <2>1. SUFFICES ASSUME Sealed(r.pending) PROVE BoundAt(i, "pending", "current")
    OBVIOUS
  <2>2. f["current"] # NoFile /\ f["current"].data = r.pending.digest
    BY <1>2, <1>3, <2>1 DEF PublishedSeen, Holds, Place
  <2>3. Bound(i)["pending"].sig = Sig(i, "current")
    BY <2>1, <2>2 DEF Bound, Bind
  <2>4. QED
    BY <1>2, <2>2, <2>3 DEF BoundAt
<1>6. Sealed(r.token) => IF f["stage"] # NoFile THEN BoundAt(i, "token", "stage")
                         ELSE BoundAt(i, "token", "current") /\ Installed(i)
  <2>1. SUFFICES ASSUME Sealed(r.token)
                 PROVE  IF f["stage"] # NoFile THEN BoundAt(i, "token", "stage")
                        ELSE BoundAt(i, "token", "current") /\ Installed(i)
    OBVIOUS
  <2>2. Bound(i)["token"].sig =
          IF f[TokenAt(i)] # NoFile THEN Sig(i, TokenAt(i)) ELSE r.token.sig
    BY <2>1 DEF Bound, Bind, TokenAt, ReleasedAt
  <2>3. TokenAt(i) = IF Installed(i) THEN "current" ELSE "stage"
    BY DEF TokenAt
  <2>4. CASE f["stage"] # NoFile
    <3>1. ~Installed(i)
      BY <2>4 DEF Installed
    <3>2. f["stage"].data = r.token.digest
      BY <1>2, <1>3, <2>1, <2>4 DEF PublishedSeen, Holds, Place
    <3>3. QED
      BY <1>2, <2>1, <2>2, <2>3, <2>4, <3>1, <3>2 DEF BoundAt
  <2>5. CASE f["stage"] = NoFile
    <3>1. Installed(i)
      BY <1>2, <1>3, <1>4, <2>1, <2>5 DEF Arrived, Place
    <3>2. f["current"] # NoFile /\ f["current"].data = r.token.digest
      BY <3>1 DEF Installed, Matches
    <3>3. QED
      BY <1>2, <2>2, <2>3, <2>5, <3>1, <3>2 DEF BoundAt
  <2>6. QED
    BY <2>4, <2>5
<1>7. ASSUME NEW t \in {"current", "removal"}, Sealed(r[t])
      PROVE  \/ f["quarantine"] # NoFile /\ BoundAt(i, t, "quarantine")
             \/ f["quarantine"] = NoFile /\ ~Installed(i) /\ BoundAt(i, t, "current")
             \/ /\ Bound(i)[t].sig = r[t].sig /\ seen["quarantine"] = NoSig
                /\ \/ seen["current"] = NoSig /\ r.removal.state = "started"
                   \/ Installed(i)
  <2>1. Has(r.current) /\ Sealed(r.current) /\ r[t].digest = r.current.digest
    BY <1>1, <1>7
  <2>2. "quarantine" \in Looked(i) /\ "current" \in Looked(i)
    BY <1>2, <2>1
  <2>3. Bound(i)[t].sig = IF CurrentAt(i) # "nowhere" /\ f[CurrentAt(i)] # NoFile
                          THEN Sig(i, CurrentAt(i)) ELSE r[t].sig
    BY <1>7 DEF Bound, Bind
  <2>4. CASE f["quarantine"] # NoFile
    <3>1. CurrentAt(i) = "quarantine"
      BY <2>1, <2>4 DEF CurrentAt
    <3>2. f["quarantine"].data = r.current.digest
      BY <1>3, <2>1, <2>2, <2>4 DEF PublishedSeen, Holds, Place
    <3>3. QED
      BY <2>1, <2>2, <2>3, <2>4, <3>1, <3>2 DEF BoundAt
  <2>5. CASE f["quarantine"] = NoFile /\ f["current"] # NoFile /\ ~Installed(i)
    <3>1. CurrentAt(i) = "current"
      BY <2>1, <2>5 DEF CurrentAt
    <3>2. f["current"].data = r.current.digest
      BY <1>3, <1>4, <2>1, <2>2, <2>5 DEF PublishedSeen, Holds, Place
    <3>3. QED
      BY <2>1, <2>2, <2>3, <2>5, <3>1, <3>2 DEF BoundAt
  <2>6. CASE f["quarantine"] = NoFile /\ (f["current"] = NoFile \/ Installed(i))
    <3>1. CurrentAt(i) = "nowhere"
      BY <2>1, <2>6 DEF CurrentAt
    <3>2. seen["quarantine"] = NoSig
      BY <1>3, <2>2, <2>6 DEF Empty, Place
    <3>3. f["current"] = NoFile => seen["current"] = NoSig /\ r.removal.state = "started"
      BY <1>3, <2>1, <2>2, <2>6 DEF PublishedSeen, Empty, Place
    <3>4. QED
      BY <2>3, <2>6, <3>1, <3>2, <3>3
  <2>7. QED
    BY <2>4, <2>5, <2>6
<1>8. Installed(i) => Active(i) /\ Sealed(r.token) /\ f["stage"] = NoFile
  BY <1>1 DEF Installed
<1>9. ASSUME Installed(i), Sealed(r.current), f["quarantine"] = NoFile,
             f["current"].data = r.current.digest
      PROVE  r.current.sig # Sig(i, "current")
  <2>1. f["current"] # NoFile
    BY <1>9 DEF Installed, Matches
  <2>2. ~SameInode(seen["current"], r.current.sig)
    BY <1>2, <1>3, <1>4, <1>9, <2>1 DEF PublishedSeen, Place
  <2>3. QED
    BY <1>2, <1>3, <2>2 DEF SameInode, Place
<1>10. QED
  BY <1>5, <1>6, <1>7, <1>8, <1>9

\* After the transaction of Record the rows of its item are verified.
LEMMA RecordedItem ==
    ASSUME CertInv, NEW i \in Item, Observation(i) = seen,
           IF IsReleased(i) THEN ReleasedSeen(i) ELSE PublishedSeen(i),
           row' = [row EXCEPT ![i] = Bound(i)], saved' = [saved EXCEPT ![i] = seen],
           UNCHANGED <<at, root>>
    PROVE  Verified(i)'
<1> DEFINE r == row[i]
           f == at[i]
           b == Bound(i)
<1>1. row'[i] = b /\ saved'[i] = seen
  BY DEF CertInv, RelocationTyped
<1>2. \A t \in Kind : /\ b[t].digest = r[t].digest /\ b[t].state = r[t].state
                      /\ Sealed(b[t]) <=> Sealed(r[t])
                      /\ ~Sealed(r[t]) => b[t].sig = r[t].sig
  BY BoundKeeps
<1>3. ASSUME NEW t \in Kind, NEW q \in Place, NEW places, q \in places, BoundAt(i, t, q)
      PROVE  BoundTo(i, t, places)'
  <2>1. seen[q] = Sig(i, q) /\ seen[q] \notin {Unlooked, NoSig} /\ b[t].sig = Sig(i, q)
    BY <1>3, Observed DEF BoundAt
  <2>2. QED
    BY <1>1, <1>3, <2>1 DEF BoundTo, OnFile
<1>4. IsReleased(i)' <=> IsReleased(i)
  BY <1>1, <1>2 DEF IsReleased, Kind
<1>5. Active(i)' <=> Active(i)
  BY <1>1, <1>2 DEF Active, Has, Kind
<1>6. CASE IsReleased(i)
  <2>1. /\ \A t \in Kind \ {"token"} : ~Sealed(r[t])
        /\ Sealed(r.token) =>
             \/ \E q \in Place : BoundAt(i, "token", q)
             \/ b.token.sig = r.token.sig /\ seen["stage"] = NoSig /\ seen["temp"] = NoSig
    BY <1>6, BindReleased
  <2>2. \A t \in Kind \ {"token"} : ~Sealed(b[t])
    BY <1>2, <2>1
  <2>3. Sealed(b.token) => \/ BoundTo(i, "token", Place)'
                           \/ IsReleased(i)' /\ Absent(i, "stage")' /\ Absent(i, "temp")'
    BY <1>1, <1>2, <1>3, <1>4, <1>6, <2>1 DEF Absent, Kind
  <2>4. QED
    BY <1>1, <2>2, <2>3 DEF Verified, Kind
<1>7. CASE ~IsReleased(i)
  <2>1. /\ Sealed(r.pending) => BoundAt(i, "pending", "current")
        /\ Sealed(r.token) =>
             IF f["stage"] # NoFile THEN BoundAt(i, "token", "stage")
             ELSE BoundAt(i, "token", "current") /\ Installed(i)
        /\ \A t \in {"current", "removal"} : Sealed(r[t]) =>
             \/ f["quarantine"] # NoFile /\ BoundAt(i, t, "quarantine")
             \/ /\ f["quarantine"] = NoFile /\ ~Installed(i)
                /\ BoundAt(i, t, "current")
             \/ /\ b[t].sig = r[t].sig /\ seen["quarantine"] = NoSig
                /\ \/ seen["current"] = NoSig /\ r.removal.state = "started"
                   \/ Installed(i)
        /\ Installed(i) => Active(i) /\ Sealed(r.token) /\ f["stage"] = NoFile
        /\ Installed(i) /\ Sealed(r.current) /\ f["quarantine"] = NoFile
             /\ f["current"].data = r.current.digest => r.current.sig # Sig(i, "current")
    BY <1>7, BindPublished
  <2>2. Sealed(b.pending) => BoundTo(i, "pending", {"current"})'
    BY <1>2, <1>3, <2>1 DEF Kind, Place
  <2>3. Sealed(b.token) => BoundTo(i, "token", Place)'
    BY <1>2, <1>3, <2>1 DEF Kind, Place
  <2>4. /\ Active(i) => Has(r.pending)
        /\ r.removal.state = "started" => ~Has(r.pending) /\ ~Has(r.token)
        /\ Sealed(r.token) => Has(r.token)
    BY DEF Active, CertInv, RowsFit, Kind
  <2>5. ASSUME seen["quarantine"] = NoSig,
               \/ seen["current"] = NoSig /\ r.removal.state = "started"
               \/ Installed(i)
        PROVE  RetiredOnRecord(i)'
    <3>1. Absent(i, "quarantine")'
      BY <1>1, <2>5 DEF Absent
    <3>2. b.removal.state = r.removal.state
      BY <1>2 DEF Kind
    <3>3. CASE r.removal.state = "started"
      BY <1>1, <2>1, <2>4, <2>5, <3>1, <3>2, <3>3 DEF RetiredOnRecord, Absent
    <3>4. CASE r.removal.state # "started"
      <4>1. Installed(i) /\ Active(i) /\ Sealed(r.token) /\ BoundAt(i, "token", "current")
        BY <2>1, <2>5, <3>4
      <4>2. Active(i)' /\ Sealed(b.token) /\ BoundTo(i, "token", {"current"})'
        BY <1>2, <1>3, <1>5, <4>1 DEF Kind, Place
      <4>3. QED
        BY <1>1, <3>1, <3>2, <3>4, <4>2 DEF RetiredOnRecord
    <3>5. QED
      BY <3>3, <3>4
  <2>6. ASSUME NEW t \in {"current", "removal"}, Sealed(b[t])
        PROVE  BoundTo(i, t, {"quarantine", "current"})' \/ RetiredOnRecord(i)'
    <3>1. t \in Kind /\ Sealed(r[t])
      BY <1>2, <2>6 DEF Kind
    <3>2. \A q \in {"quarantine", "current"} :
            BoundAt(i, t, q) => BoundTo(i, t, {"quarantine", "current"})'
      BY <1>3, <3>1 DEF Place
    <3>3. QED
      BY <2>1, <2>5, <3>1, <3>2
  <2>7. ASSUME Sealed(b.current), Sealed(b.token) PROVE b.current.sig # b.token.sig
    <3>1. Sealed(r.current) /\ Sealed(r.token)
      BY <1>2, <2>7 DEF Kind
    <3>2. ASSUME NEW q \in Place, NEW q2 \in Place, q # q2, f[q] # NoFile, f[q2] # NoFile
          PROVE  Sig(i, q) # Sig(i, q2)
      BY <3>2, Observed DEF CertInv, FilesApart
    <3>3. CASE f["stage"] # NoFile
      <4>1. b.token.sig = Sig(i, "stage") /\ ~Installed(i)
        BY <2>1, <3>1, <3>3 DEF BoundAt
      <4>2. r.removal.state # "started"
        BY <2>4, <3>1
      <4>3. \E q \in {"quarantine", "current"} : BoundAt(i, "current", q)
        BY <2>1, <3>1, <4>1, <4>2
      <4>4. QED
        BY <3>2, <3>3, <4>1, <4>3 DEF BoundAt, Place
    <3>4. CASE f["stage"] = NoFile
      <4>1. b.token.sig = Sig(i, "current") /\ Installed(i) /\ f["current"] # NoFile
        BY <2>1, <3>1, <3>4 DEF BoundAt
      <4>2. CASE f["quarantine"] # NoFile /\ BoundAt(i, "current", "quarantine")
        BY <3>2, <4>1, <4>2 DEF BoundAt, Place
      <4>3. CASE b.current.sig = r.current.sig /\ seen["quarantine"] = NoSig
        <5>1. "quarantine" \in Looked(i) /\ f["quarantine"] = NoFile
          <6>1. Has(r.current)
            BY <3>1 DEF CertInv, RowsFit, Kind
          <6>2. "quarantine" \in Looked(i)
            BY <6>1 DEF Looked, Place
          <6>3. QED
            BY <4>3, <6>2, Observed DEF Place
        <5>2. r.current.sig = Sig(i, "current") => IsFile(r.current.sig, f["current"])
          BY <4>1, Observed DEF IsFile, Place
        <5>3. r.current.sig = Sig(i, "current") => f["current"].data = r.current.digest
          BY <3>1, <5>2 DEF CertInv, RowsName, Kind, Place
        <5>4. QED
          BY <2>1, <3>1, <4>1, <4>3, <5>1, <5>3
      <4>4. QED
        BY <2>1, <3>1, <4>1, <4>2, <4>3
    <3>5. QED
      BY <3>3, <3>4
  <2>8. QED
    BY <1>1, <2>2, <2>3, <2>6, <2>7 DEF Verified
<1>8. QED
  BY <1>6, <1>7

-----------------------------------------------------------------------------
(* The steps that bind no row. *)

LEMMA Steady ==
    ASSUME CertInv, UNCHANGED <<row, at, saved, authority, changes>>,
           root' \in Nat \ {0}, cursor' \in Nat, seen' \in [Place -> Signatures]
    PROVE  /\ RelocationTyped' /\ FilesApart' /\ RowsFit' /\ RowsName' /\ RecordsFit'
           /\ \A i \in Item : /\ Verified(i)' = Verified(i)
                              /\ IsReleased(i)' = IsReleased(i)
                              /\ \A p \in Place : Lost(i, p)' = Lost(i, p)
<1>1. RelocationTyped'
  BY DEF CertInv, RelocationTyped
<1>2. FilesApart'
  BY DEF CertInv, FilesApart, Known
<1>3. RowsFit'
  BY DEF CertInv, RowsFit, Known, IsReleased
<1>4. RowsName'
  BY DEF CertInv, RowsName
<1>5. RecordsFit'
  BY RecordDecides DEF CertInv, RecordsFit, Known
<1>6. \A i \in Item : \A p \in Place : Lost(i, p)' = Lost(i, p)
  BY DEF Lost, OnFile
<1>7. QED
  BY <1>1, <1>2, <1>3, <1>4, <1>5, <1>6, RecordDecides

LEMMA NothingTyped == Nothing \in [Place -> Signatures]
BY DEF Nothing, Unlooked, NoSig, Signatures

\* A command that has ended has verified what it had verified.
LEMMA EndedCert ==
    ASSUME CertInv, Inv', UNCHANGED <<library, session, saved, changes>>,
           step' \in {"off", "killed"}, Gone
    PROVE  CertInv'
<1>1. UNCHANGED <<row, at, root, saved, authority, changes, cursor, phase>> /\ cursor' \in Nat
      /\ root' \in Nat \ {0}
  BY DEF library, session, CertInv, RelocationTyped
<1>2. seen' \in [Place -> Signatures]
  BY NothingTyped DEF Gone
<1>3. /\ RelocationTyped' /\ FilesApart' /\ RowsFit' /\ RowsName' /\ RecordsFit'
      /\ \A i \in Item : Verified(i)' = Verified(i) /\ IsReleased(i)' = IsReleased(i)
  BY <1>1, <1>2, Steady
<1>4. ItemsVerified'
  BY <1>1, <1>3 DEF CertInv, ItemsVerified
<1>5. SeenFits' /\ AuditFinds'
  BY DEF SeenFits, AuditFinds, InCommand
<1>6. QED
  BY <1>3, <1>4, <1>5 DEF CertInv

\* Each row of the item is bound to its bytes, or as before.
LEMMA BoundFits ==
    ASSUME CertInv, NEW i \in Item, Observation(i) = seen,
           IF IsReleased(i) THEN ReleasedSeen(i) ELSE PublishedSeen(i),
           NEW t \in Kind, Sealed(row[i][t])
    PROVE  \/ \E q \in Place : BoundAt(i, t, q)
           \/ Bound(i)[t].sig = row[i][t].sig
<1>1. CASE IsReleased(i)
  BY <1>1, BindReleased DEF Kind
<1>2. CASE ~IsReleased(i)
  <2>1. t = "pending" => BoundAt(i, t, "current")
    BY <1>2, BindPublished
  <2>2. t = "token" => BoundAt(i, t, "stage") \/ BoundAt(i, t, "current")
    BY <1>2, BindPublished
  <2>3. t \in {"current", "removal"} =>
          BoundAt(i, t, "quarantine") \/ BoundAt(i, t, "current")
          \/ Bound(i)[t].sig = row[i][t].sig
    BY <1>2, BindPublished
  <2>4. {"current", "stage", "quarantine"} \subseteq Place
    BY DEF Place
  <2>5. QED
    BY <2>1, <2>2, <2>3, <2>4 DEF Kind
<1>3. QED
  BY <1>1, <1>2

LEMMA RecordCert ==
    ASSUME CertInv, Inv', Record
    PROVE  CertInv'
<1>1. step = "verified" /\ Ahead # {} /\ phase \in {"SCAN", "TOKENS"}
      /\ UNCHANGED <<at, root, phase, authority, original, old, fence, world>>
  BY DEF Record, CertInv, SeenFits
<1>2. PICK i \in Item : i = Min(Ahead)
  BY <1>1, NextAhead DEF Ahead
<1>3. /\ i > cursor /\ \A j \in Ahead : i <= j
      /\ IF IsReleased(i) THEN ReleasedSeen(i) ELSE PublishedSeen(i)
      /\ \A p \in Place : seen[p] \notin {Unlooked, NoSig} => Known(seen[p])
      /\ phase = "SCAN" => ~IsReleased(i)
  BY <1>1, <1>2, NextAhead DEF CertInv, SeenFits, Ahead
<1>4. CASE Observation(i) # seen
  <2>1. Ended /\ UNCHANGED <<library, session, saved, changes>>
    BY <1>1, <1>2, <1>4 DEF Record, library, session, world
  <2>2. QED
    BY <2>1, EndedCert DEF Ended
<1>5. CASE Observation(i) = seen
  <2>1. /\ row' = [row EXCEPT ![i] = Bound(i)] /\ saved' = [saved EXCEPT ![i] = seen]
        /\ cursor' = i /\ step' = "working" /\ seen' = Nothing
        /\ UNCHANGED <<first, whole, changes>>
    BY <1>2, <1>5 DEF Record, world
  <2>2. /\ row \in [Item -> [current : RowValues, pending : RowValues,
                         removal : RowValues, token : RowValues]]
        /\ saved \in [Item -> [Place -> Signatures]] /\ seen \in [Place -> Signatures]
        /\ root \in Nat \ {0} /\ authority \in Nat /\ cursor \in Nat /\ changes \in Nat
        /\ at \in [Item -> [Place -> FileRecords]]
    BY DEF CertInv, RelocationTyped
  <2>3. /\ row'[i] = Bound(i) /\ saved'[i] = seen
        /\ \A j \in Item : j # i => row'[j] = row[j] /\ saved'[j] = saved[j]
    BY <2>1, <2>2
  <2>4. \A t \in Kind : /\ Bound(i)[t].digest = row[i][t].digest
                        /\ Bound(i)[t].state = row[i][t].state
                        /\ Sealed(Bound(i)[t]) <=> Sealed(row[i][t])
                        /\ ~Sealed(row[i][t]) => Bound(i)[t].sig = row[i][t].sig
                        /\ \/ Bound(i)[t].sig = row[i][t].sig
                           \/ \E p \in Place : Bound(i)[t].sig = Sig(i, p)
    BY BoundKeeps
  <2>5. ASSUME NEW p \in Place, Sig(i, p) # NoSig
        PROVE  Known(Sig(i, p)) /\ Sig(i, p).root = authority
    <3>1. at[i][p] # NoFile /\ Known(at[i][p])
      BY <2>5, Observed DEF CertInv, FilesApart
    <3>2. Sig(i, p).inode = at[i][p].inode /\ Sig(i, p).change = at[i][p].change
          /\ Sig(i, p).root = root
      BY <3>1, Observed
    <3>3. authority = root
      BY <1>1 DEF CertInv, AuditFinds, InCommand
    <3>4. QED
      BY <3>1, <3>2, <3>3 DEF Known, Among
  <2>6. \A j \in Item : IsReleased(j)' = IsReleased(j)
    BY <2>3, <2>4 DEF IsReleased, Kind
  <2>7. RelocationTyped'
    <3>1. Bound(i) \in [current : RowValues, pending : RowValues,
                        removal : RowValues, token : RowValues]
      <4>1. \A p \in Place : Sig(i, p) \in Signatures
        BY <2>2 DEF Sig, SigAt, Signatures, NoSig, FileRecords
      <4>2. \A t \in Kind : row[i][t] \in RowValues
        BY <2>2 DEF Kind
      <4>3. \A t \in Kind : Bound(i)[t].sig \in Signatures
        BY <2>4, <4>1, <4>2 DEF RowValues
      <4>4. \A r, q : Bind(r, i, q) = [digest |-> Bind(r, i, q).digest,
                                       sig |-> Bind(r, i, q).sig, state |-> Bind(r, i, q).state]
        BY DEF Bind
      <4>5. \A t \in Kind : Bound(i)[t] = [digest |-> Bound(i)[t].digest,
                                       sig |-> Bound(i)[t].sig, state |-> Bound(i)[t].state]
        BY <4>4 DEF Kind, Bound
      <4>6. ASSUME NEW t \in Kind PROVE Bound(i)[t] \in RowValues
        <5>1. /\ Bound(i)[t].digest \in {"none", "a", "b"}
              /\ Bound(i)[t].state \in {"none", "current", "listed", "started", "WRITING",
                                       "STAGED", "RELEASED"}
          BY <2>4, <4>2 DEF RowValues
        <5>2. Bound(i)[t] = [digest |-> Bound(i)[t].digest,
                             sig |-> Bound(i)[t].sig, state |-> Bound(i)[t].state]
          BY <4>5
        <5>3. QED
          BY <4>3, <5>1, <5>2 DEF RowValues
      <4>7. QED
        BY <4>6 DEF Kind, Bound
    <3>2. cursor' \in Nat
      BY <2>1, RelocationAssumption DEF Item
    <3>3. QED
      BY <1>1, <2>1, <2>2, <3>1, <3>2, NothingTyped DEF RelocationTyped
  <2>8. FilesApart'
    BY <1>1, <2>1 DEF CertInv, FilesApart, Known
  <2>9. RowsFit'
    <3>1. \A t \in Kind : Has(row'[i][t]) <=> Has(row[i][t])
      BY <2>3, <2>4 DEF Has
    <3>2. \A t \in Kind : Sealed(row'[i][t]) => Has(row'[i][t]) /\ Known(row'[i][t].sig)
      <4>1. \A t \in Kind : Sealed(row[i][t]) => Has(row[i][t]) /\ Known(row[i][t].sig)
        BY DEF CertInv, RowsFit
      <4>2. QED
        BY <2>3, <2>4, <2>5, <3>1, <4>1 DEF Sealed
    <3>3. ASSUME NEW j \in Item
          PROVE  /\ \A t \in Kind : Sealed(row'[j][t]) => Has(row'[j][t]) /\ Known(row'[j][t].sig)
                 /\ Has(row'[j].current) => Sealed(row'[j].current)
                 /\ row'[j].token.state = "STAGED" => Sealed(row'[j].token)
                 /\ Sealed(row'[j].token) => row'[j].token.state \in {"STAGED", "RELEASED"}
                 /\ IsReleased(j)' => /\ ~Has(row'[j].current) /\ ~Has(row'[j].pending)
                                      /\ ~Has(row'[j].removal)
                 /\ row'[j].removal.state = "started" => Has(row'[j].removal)
                 /\ Has(row'[j].removal) => /\ Has(row'[j].current) /\ ~Has(row'[j].pending)
                                            /\ ~Has(row'[j].token)
                                            /\ row'[j].removal.digest = row'[j].current.digest
      <4>1. CASE j = i
        BY <2>3, <2>4, <2>6, <3>1, <3>2, <4>1 DEF CertInv, RowsFit, Kind
      <4>2. CASE j # i
        BY <2>3, <2>6, <4>2 DEF CertInv, RowsFit
      <4>3. QED
        BY <4>1, <4>2
    <3>4. \A s : Known(s)' = Known(s)
      BY <2>1 DEF Known, Among
    <3>5. QED
      BY <3>3, <3>4 DEF RowsFit
  <2>10. RowsName'
    <3>1. ASSUME NEW t \in Kind, NEW p \in Place,
                 Sealed(Bound(i)[t]), IsFile(Bound(i)[t].sig, at[i][p])
          PROVE  at[i][p].data = row[i][t].digest
      <4>1. Sealed(row[i][t])
        BY <2>4, <3>1
      <4>2. CASE Bound(i)[t].sig = row[i][t].sig
        BY <3>1, <4>1, <4>2 DEF CertInv, RowsName
      <4>3. ASSUME NEW q \in Place, BoundAt(i, t, q)
            PROVE  at[i][p].data = row[i][t].digest
        <5>1. at[i][q] # NoFile /\ Bound(i)[t].sig.inode = at[i][q].inode
              /\ at[i][q].data = row[i][t].digest
          BY <4>3, Observed DEF BoundAt
        <5>2. p = q
          BY <3>1, <5>1 DEF IsFile, CertInv, FilesApart
        <5>3. QED
          BY <5>1, <5>2
      <4>4. QED
        BY <1>3, <1>5, <4>1, <4>2, <4>3, BoundFits
    <3>2. QED
      BY <1>1, <2>3, <2>4, <3>1 DEF CertInv, RowsName
  <2>11. RecordsFit'
    <3>1. ASSUME NEW p \in Place, seen[p] \notin {Unlooked, NoSig}
          PROVE  Known(seen[p]) /\ seen[p].root = authority
      <4>1. seen[p] = Sig(i, p)
        BY <1>5, <3>1, Observed
      <4>2. QED
        BY <2>5, <3>1, <4>1
    <3>2. \A j \in Item, p \in Place :
            saved'[j][p] \notin {Unlooked, NoSig} =>
              Known(saved'[j][p]) /\ saved'[j][p].root = authority
      BY <2>3, <3>1 DEF CertInv, RecordsFit, OnFile
    <3>3. QED
      BY <1>1, <2>1, <3>2 DEF RecordsFit, OnFile, Known, Among
  <2>12. ItemsVerified'
    <3>1. Verified(i)'
      BY <1>1, <1>3, <1>5, <2>1, RecordedItem
    <3>2. ASSUME NEW j \in Item, j # i PROVE Verified(j)' = Verified(j)
      BY <2>3, <3>2 DEF Verified, BoundTo, RetiredOnRecord, Absent, OnFile, Active, IsReleased
    <3>3. ASSUME NEW j \in Item, j # i,
                 \/ phase = "SCAN" /\ j <= i /\ ~IsReleased(j)
                 \/ phase = "TOKENS" /\ (j <= i \/ ~IsReleased(j))
          PROVE  Verified(j)
      <4>1. CASE j > cursor /\ j <= i
        <5>1. j \notin Ahead
          BY <1>3, <3>3, <4>1, RelocationAssumption DEF Item
        <5>2. phase = "TOKENS" /\ ~IsReleased(j)
          BY <3>3, <4>1, <5>1 DEF Ahead
        <5>3. QED
          BY <5>2 DEF CertInv, ItemsVerified
      <4>2. CASE j <= cursor
        BY <3>3, <4>2 DEF CertInv, ItemsVerified
      <4>3. CASE ~(j <= i)
        BY <3>3, <4>3 DEF CertInv, ItemsVerified
      <4>4. QED
        BY <2>2, <4>1, <4>2, <4>3, RelocationAssumption DEF Item
    <3>4. QED
      BY <1>1, <2>1, <2>6, <3>1, <3>2, <3>3 DEF ItemsVerified
  <2>13. SeenFits'
    BY <2>1 DEF SeenFits
  <2>14. AuditFinds'
    BY <1>1, <2>1 DEF AuditFinds, InCommand, CertInv
  <2>15. QED
    BY <2>7, <2>8, <2>9, <2>10, <2>11, <2>12, <2>13, <2>14 DEF CertInv
<1>6. QED
  BY <1>4, <1>5

LEMMA VerifyCert ==
    ASSUME CertInv, Inv', Verify
    PROVE  CertInv'
<1>1. /\ step = "working" /\ phase \in {"SCAN", "TOKENS"} /\ Ahead # {}
      /\ UNCHANGED <<library, session, records, fence, world>>
  BY DEF Verify
<1>2. PICK i \in Item : i = Min(Ahead)
  BY <1>1, NextAhead DEF Ahead
<1>3. CASE Refused(i)
  <2>1. Ended
    BY <1>2, <1>3 DEF Verify
  <2>2. QED
    BY <1>1, <2>1, EndedCert DEF Ended, records, world
<1>4. CASE ~Refused(i)
  <2>1. step' = "verified" /\ seen' = Observation(i) /\ UNCHANGED <<first, budget, whole>>
    BY <1>2, <1>4 DEF Verify
  <2>2. UNCHANGED <<row, at, root, saved, authority, changes, cursor, phase>>
    BY <1>1 DEF library, session, records, world
  <2>3. cursor' \in Nat /\ root' \in Nat \ {0} /\ seen' \in [Place -> Signatures]
    BY <2>1, <2>2, Observed DEF CertInv, RelocationTyped
  <2>4. /\ RelocationTyped' /\ FilesApart' /\ RowsFit' /\ RowsName' /\ RecordsFit'
        /\ \A j \in Item : /\ Verified(j)' = Verified(j)
                           /\ IsReleased(j)' = IsReleased(j)
    BY <2>2, <2>3, Steady
  <2>5. ItemsVerified'
    BY <2>2, <2>4 DEF CertInv, ItemsVerified
  <2>6. SeenFits'
    <3>1. Ahead' = Ahead
      BY <2>2, AheadStays
    <3>2. ASSUME NEW p \in Place, seen'[p] \notin {Unlooked, NoSig}
          PROVE  Among(seen'[p], changes')
      <4>1. seen'[p] = Sig(i, p) /\ at[i][p] # NoFile
        BY <2>1, <3>2, Observed
      <4>2. Known(at[i][p])
        BY <4>1 DEF CertInv, FilesApart
      <4>3. QED
        BY <2>2, <4>1, <4>2, Observed DEF Known, Among
    <3>3. CASE IsReleased(i)
      <4>1. ReleasedSeen(i)'
        BY <1>4, <2>1, <2>2, <3>3, VerifyReleased
      <4>2. QED
        BY <1>1, <1>2, <2>2, <2>4, <3>1, <3>2, <3>3, <4>1 DEF SeenFits, Known
    <3>4. CASE ~IsReleased(i)
      <4>1. PublishedSeen(i)'
        BY <1>4, <2>1, <2>2, <3>4, VerifyPublished
      <4>2. QED
        BY <1>1, <1>2, <2>2, <2>4, <3>1, <3>2, <3>4, <4>1 DEF SeenFits, Known
    <3>5. QED
      BY <3>3, <3>4
  <2>7. AuditFinds'
    BY <1>1, <2>1, <2>2 DEF CertInv, AuditFinds, InCommand
  <2>8. QED
    BY <2>4, <2>5, <2>6, <2>7 DEF CertInv
<1>5. QED
  BY <1>3, <1>4

-----------------------------------------------------------------------------
(* The audit. *)

\* A file on record that is not lost is the one that was recorded.
LEMMA StillHere ==
    ASSUME CertInv, authority = root, NEW i \in Item, NEW p \in Place,
           OnFile(i, p), ~Lost(i, p)
    PROVE  saved[i][p] = Sig(i, p)
<1>1. /\ saved[i][p] \in Signatures /\ Known(saved[i][p]) /\ saved[i][p].root = root
      /\ IsFile(saved[i][p], at[i][p])
  BY DEF CertInv, RelocationTyped, RecordsFit, Lost
<1>2. at[i][p].inode # 0 /\ at[i][p] # NoFile
  BY <1>1 DEF Known, Among, IsFile, NoFile
<1>3. Sig(i, p) = [inode |-> at[i][p].inode, change |-> at[i][p].change, root |-> root]
  BY <1>2 DEF Sig, SigAt
<1>4. saved[i][p] = [inode |-> saved[i][p].inode, change |-> saved[i][p].change,
                     root |-> saved[i][p].root]
  BY <1>1 DEF Signatures
<1>5. QED
  BY <1>1, <1>3, <1>4 DEF IsFile

\* When every item is verified and no file on record is lost, all is as the
\* audit wants it.
LEMMA WholeOrLost ==
    ASSUME CertInv, authority = root, \A i \in Item : Verified(i)
    PROVE  Whole \/ \E i \in Item, p \in Place : Lost(i, p)
<1>1. SUFFICES ASSUME \A i \in Item, p \in Place : ~Lost(i, p) PROVE Whole
  OBVIOUS
<1>2. ASSUME NEW i \in Item
      PROVE  /\ \A p \in Place : saved[i][p] \in {Unlooked, NoSig, Sig(i, p)}
             /\ Follows(row[i].current, i) \/ Retired(i)
             /\ Follows(row[i].removal, i) \/ Retired(i)
             /\ Follows(row[i].pending, i)
             /\ \/ Follows(row[i].token, i)
                \/ IsReleased(i) /\ Absent(i, "stage") /\ Absent(i, "temp")
             /\ Sealed(row[i].current) /\ Sealed(row[i].token) =>
                  row[i].current.sig # row[i].token.sig
  <2>1. \A p \in Place : OnFile(i, p) => saved[i][p] = Sig(i, p)
    BY <1>1, StillHere
  <2>2. ASSUME NEW t \in Kind, NEW places \in SUBSET Place, Sealed(row[i][t]),
               BoundTo(i, t, places)
        PROVE  Follows(row[i][t], i)
    <3>1. PICK q \in places : OnFile(i, q) /\ row[i][t].sig = saved[i][q]
      BY <2>2 DEF BoundTo
    <3>2. row[i][t].sig = Sig(i, q) /\ IsFile(row[i][t].sig, at[i][q])
      BY <1>1, <2>1, <3>1 DEF Lost
    <3>3. at[i][q].data = row[i][t].digest
      BY <2>2, <3>1, <3>2 DEF CertInv, RowsName
    <3>4. QED
      BY <3>1, <3>2, <3>3 DEF Follows
  <2>3. RetiredOnRecord(i) => Retired(i)
    BY <2>1 DEF RetiredOnRecord, Retired, BoundTo, Place
  <2>4. \A t \in Kind : ~Sealed(row[i][t]) => Follows(row[i][t], i)
    BY DEF Follows
  <2>5. Verified(i)
    OBVIOUS
  <2>6. Follows(row[i].current, i) \/ Retired(i)
    BY <2>2, <2>3, <2>4, <2>5 DEF Verified, Kind, Place
  <2>7. Follows(row[i].removal, i) \/ Retired(i)
    BY <2>2, <2>3, <2>4, <2>5 DEF Verified, Kind, Place
  <2>8. Follows(row[i].pending, i)
    BY <2>2, <2>4, <2>5 DEF Verified, Kind, Place
  <2>9. \/ Follows(row[i].token, i)
        \/ IsReleased(i) /\ Absent(i, "stage") /\ Absent(i, "temp")
    BY <2>2, <2>4, <2>5 DEF Verified, Kind, Place
  <2>10. QED
    BY <2>1, <2>5, <2>6, <2>7, <2>8, <2>9 DEF Verified, OnFile
<1>3. QED
  BY <1>2 DEF Whole

LEMMA LostIsAhead ==
    ASSUME CertInv, phase = "AUDIT", NEW i \in Item, NEW p \in Place,
           Lost(i, p), Key(i, p) > cursor
    PROVE  Key(i, p) \in Ahead
<1>1. <<i, p>> \in OnRecord
  BY DEF Lost, OnFile, OnRecord
<1>2. Key(i, p) \in {Key(f[1], f[2]) : f \in OnRecord}
  BY <1>1
<1>3. QED
  BY <1>2 DEF Ahead

LEMMA AuditCert ==
    ASSUME CertInv, Inv', Audit
    PROVE  CertInv'
<1>1. /\ step = "working" /\ phase = "AUDIT" /\ Ahead # {}
      /\ UNCHANGED <<library, phase, authority, original, records, fence, world>>
  BY DEF Audit
<1>2. PICK i \in Item, p \in Place :
        /\ Key(i, p) = Min(Ahead)
        /\ IF Unchanged(i, p)
           THEN cursor' = Min(Ahead) /\ UNCHANGED <<step, first, seen, whole>>
           ELSE Ended /\ UNCHANGED cursor
  BY DEF Audit
<1>3. CASE ~Unchanged(i, p)
  BY <1>1, <1>2, <1>3, EndedCert DEF Ended, records, world, session
<1>4. CASE Unchanged(i, p)
  <2>1. cursor' = Key(i, p) /\ UNCHANGED <<step, first, seen, whole>>
    BY <1>2, <1>4
  <2>2. UNCHANGED <<row, at, root, saved, authority, changes, phase>>
    BY <1>1 DEF library, records, world
  <2>3. cursor' \in Nat /\ root' \in Nat \ {0} /\ seen' \in [Place -> Signatures]
    BY <2>1, <2>2, KeyIsNat DEF CertInv, RelocationTyped
  <2>4. /\ RelocationTyped' /\ FilesApart' /\ RowsFit' /\ RowsName' /\ RecordsFit'
        /\ \A j \in Item : /\ Verified(j)' = Verified(j)
                           /\ IsReleased(j)' = IsReleased(j)
                           /\ \A q \in Place : Lost(j, q)' = Lost(j, q)
    BY <2>2, <2>3, Steady
  <2>5. ItemsVerified'
    BY <1>1, <2>2, <2>4 DEF CertInv, ItemsVerified
  <2>6. SeenFits'
    BY <1>1, <2>1 DEF SeenFits
  <2>7. ~Lost(i, p)
    <3>1. saved[i][p] = Sig(i, p)
      BY <1>4 DEF Unchanged
    <3>2. QED
      BY <3>1, Observed DEF Lost, OnFile, IsFile
  <2>8. ASSUME NEW j \in Item, NEW q \in Place, Lost(j, q), Key(j, q) > cursor
        PROVE  Key(j, q) > cursor'
    <3>1. Key(i, p) <= Key(j, q)
      BY <1>1, <1>2, <2>8, LostIsAhead, NextAhead
    <3>2. Key(j, q) # Key(i, p)
      BY <2>7, <2>8, KeysDiffer
    <3>3. Key(i, p) \in Nat /\ Key(j, q) \in Nat
      BY KeyIsNat
    <3>4. QED
      BY <2>1, <3>1, <3>2, <3>3
  <2>9. AuditFinds'
    <3>1. authority = root /\ ~first
          /\ (whole \/ \E j \in Item, q \in Place : Lost(j, q) /\ Key(j, q) > cursor)
      BY <1>1 DEF CertInv, AuditFinds, InCommand
    <3>2. \A j \in Item, q \in Place : Key(j, q)' = Key(j, q)
      BY DEF Key
    <3>3. (whole \/ \E j \in Item, q \in Place : Lost(j, q) /\ Key(j, q) > cursor)'
      BY <2>1, <2>4, <2>8, <3>1, <3>2
    <3>4. QED
      BY <1>1, <2>1, <2>2, <3>1, <3>3 DEF AuditFinds, InCommand
  <2>10. QED
    BY <2>4, <2>5, <2>6, <2>9 DEF CertInv
<1>5. QED
  BY <1>3, <1>4

-----------------------------------------------------------------------------
(* The other steps of the command. *)

\* Steps that touch neither the journal of the session nor the files.
LEMMA GoesOn ==
    ASSUME CertInv, Inv', UNCHANGED <<library, session, saved, changes, first, seen, whole>>,
           step' # "verified", InCommand,
           step' \in {"working", "unlinked", "finalized"} => ~first,
           step' # "idle" => authority = root
    PROVE  CertInv'
<1>1. UNCHANGED <<row, at, root, saved, authority, changes, cursor, phase>> /\ cursor' \in Nat
      /\ root' \in Nat \ {0} /\ seen' \in [Place -> Signatures]
  BY DEF library, session, CertInv, RelocationTyped
<1>2. /\ RelocationTyped' /\ FilesApart' /\ RowsFit' /\ RowsName' /\ RecordsFit'
      /\ \A i \in Item : /\ Verified(i)' = Verified(i) /\ IsReleased(i)' = IsReleased(i)
                         /\ \A p \in Place : Lost(i, p)' = Lost(i, p)
  BY <1>1, Steady
<1>3. ItemsVerified'
  BY <1>1, <1>2 DEF CertInv, ItemsVerified
<1>4. SeenFits'
  BY DEF SeenFits
<1>5. AuditFinds'
  <2>1. \A i \in Item, p \in Place : Key(i, p)' = Key(i, p)
    BY DEF Key
  <2>2. QED
    BY <1>1, <1>2, <2>1 DEF CertInv, AuditFinds, InCommand
<1>6. QED
  BY <1>2, <1>3, <1>4, <1>5 DEF CertInv

LEMMA RunCert == ASSUME CertInv, Inv', Run PROVE CertInv'
<1>1. /\ step' = "idle" /\ first' = TRUE
      /\ UNCHANGED <<row, at, root, saved, authority, changes, cursor, phase, seen>>
  BY DEF Run, library, session, records, world
<1>2. cursor' \in Nat /\ root' \in Nat \ {0} /\ seen' \in [Place -> Signatures]
  BY <1>1 DEF CertInv, RelocationTyped
<1>3. /\ RelocationTyped' /\ FilesApart' /\ RowsFit' /\ RowsName' /\ RecordsFit'
      /\ \A i \in Item : Verified(i)' = Verified(i) /\ IsReleased(i)' = IsReleased(i)
  BY <1>1, <1>2, Steady
<1>4. ItemsVerified'
  BY <1>1, <1>3 DEF CertInv, ItemsVerified
<1>5. SeenFits' /\ AuditFinds'
  BY <1>1 DEF SeenFits, AuditFinds
<1>6. QED
  BY <1>3, <1>4, <1>5 DEF CertInv

\* A new session has nothing on record yet.
LEMMA BeginCert == ASSUME CertInv, Inv', Begin PROVE CertInv'
<1>1. step = "idle" /\ UNCHANGED <<library, marker, world>>
  BY DEF Begin
<1>2. CASE marker \notin {"none", "publication"}
  <2>1. Ended /\ UNCHANGED <<session, records>>
    BY <1>2 DEF Begin
  <2>2. QED
    BY <1>1, <2>1, EndedCert DEF Ended, records, world
<1>3. CASE marker \in {"none", "publication"}
  <2>1. /\ phase' = "CLEANUP" /\ cursor' = 0 /\ authority' = root
        /\ saved' = [i \in Item |-> Nothing] /\ step' = "marking"
        /\ UNCHANGED <<row, at, root, changes, seen>>
    BY <1>1, <1>3 DEF Begin, Goto, library, world
  <2>2. RelocationTyped'
    BY <2>1, NothingTyped DEF CertInv, RelocationTyped
  <2>3. FilesApart'
    BY <2>1 DEF CertInv, FilesApart, Known
  <2>4. RowsFit'
    BY <2>1 DEF CertInv, RowsFit, Known, IsReleased
  <2>5. RowsName'
    BY <2>1 DEF CertInv, RowsName
  <2>6. RecordsFit'
    BY <2>1 DEF RecordsFit, OnFile, Nothing
  <2>7. ItemsVerified' /\ SeenFits' /\ AuditFinds'
    BY <2>1 DEF ItemsVerified, SeenFits, AuditFinds
  <2>8. QED
    BY <2>2, <2>3, <2>4, <2>5, <2>6, <2>7 DEF CertInv
<1>4. QED
  BY <1>2, <1>3

LEMMA ContinueCert == ASSUME CertInv, Inv', Continue PROVE CertInv'
<1>1. step = "idle" /\ UNCHANGED <<library, session, records, fence, world>>
  BY DEF Continue
<1>2. CASE authority # root \/ phase = "COMPLETE"
  BY <1>1, <1>2, EndedCert DEF Continue, Ended, records, world
<1>3. CASE ~(authority # root \/ phase = "COMPLETE")
  <2>1. /\ step' \in {"marking", "working"} /\ UNCHANGED <<first, seen, whole>>
        /\ step' = "working" => phase = "FINALIZING" /\ ~RestartsAudit
    BY <1>3 DEF Continue, Goto
  <2>2. step' = "working" => ~first
    BY <2>1 DEF RestartsAudit
  <2>3. UNCHANGED <<library, session, saved, changes, first, seen, whole>> /\ InCommand
    BY <1>1, <2>1 DEF InCommand, records, world
  <2>4. QED
    BY <1>3, <2>1, <2>2, <2>3, GoesOn
<1>4. QED
  BY <1>2, <1>3

LEMMA MarkingCert ==
    ASSUME CertInv, Inv', MarkerFound \/ CreateMarker \/ WriteMarker \/ SyncMarker
    PROVE  CertInv'
<1>1. /\ step \in {"marking", "writing", "syncing"}
      /\ UNCHANGED <<library, session, records, world>>
  BY DEF MarkerFound, CreateMarker, WriteMarker, SyncMarker
<1>2. CASE Ended
  BY <1>1, <1>2, EndedCert DEF Ended, records, world
<1>3. CASE ~Ended
  <2>1. step' \in {"fenced", "writing", "syncing"} /\ UNCHANGED <<first, seen, whole>>
    BY <1>3 DEF MarkerFound, CreateMarker, WriteMarker, SyncMarker, Goto, AfterWrite
  <2>2. InCommand /\ authority = root
    BY <1>1 DEF InCommand, CertInv, AuditFinds
  <2>3. UNCHANGED <<library, session, saved, changes, first, seen, whole>>
    BY <1>1, <2>1 DEF records, world
  <2>4. QED
    BY <2>1, <2>2, <2>3, GoesOn
<1>4. QED
  BY <1>2, <1>3

\* An audit begins, or begins again: what is wrong is still ahead of it.
LEMMA AuditBegins ==
    ASSUME CertInv, authority = root, \A i \in Item : Verified(i)
    PROVE  Whole \/ \E i \in Item, p \in Place : Lost(i, p) /\ Key(i, p) > 0
<1>1. \A i \in Item, p \in Place : Key(i, p) > 0
  BY KeyIsNat
<1>2. QED
  BY <1>1, WholeOrLost

LEMMA FencedCert == ASSUME CertInv, Inv', Fenced PROVE CertInv'
<1>1. /\ step = "fenced" /\ step' = "working" /\ first' = FALSE
      /\ UNCHANGED <<library, authority, records, world, seen>>
      /\ IF RestartsAudit THEN phase' = "AUDIT" /\ cursor' = 0 /\ whole' = Whole
         ELSE UNCHANGED <<phase, cursor, whole>>
  BY DEF Fenced, Enter, session
<1>2. UNCHANGED <<row, at, root, saved, authority, changes>> /\ authority = root
  BY <1>1 DEF library, records, world, CertInv, AuditFinds, InCommand
<1>3. cursor' \in Nat /\ root' \in Nat \ {0} /\ seen' \in [Place -> Signatures]
  BY <1>1, <1>2 DEF CertInv, RelocationTyped
<1>4. /\ RelocationTyped' /\ FilesApart' /\ RowsFit' /\ RowsName' /\ RecordsFit'
      /\ \A i \in Item : /\ Verified(i)' = Verified(i) /\ IsReleased(i)' = IsReleased(i)
                         /\ \A p \in Place : Lost(i, p)' = Lost(i, p)
  BY <1>2, <1>3, Steady
<1>5. SeenFits'
  BY <1>1 DEF SeenFits
<1>6. \A i \in Item, p \in Place : Key(i, p)' = Key(i, p)
  BY DEF Key
<1>7. CASE RestartsAudit
  <2>1. first /\ phase \in {"AUDIT", "FINALIZING"}
    BY <1>7 DEF RestartsAudit
  <2>2. \A i \in Item : Verified(i)
    BY <2>1 DEF CertInv, ItemsVerified
  <2>3. ItemsVerified'
    BY <1>4, <2>2 DEF ItemsVerified
  <2>4. Whole \/ \E i \in Item, p \in Place : Lost(i, p) /\ Key(i, p) > 0
    BY <1>2, <2>2, AuditBegins
  <2>5. AuditFinds'
    BY <1>1, <1>2, <1>4, <1>6, <1>7, <2>4 DEF AuditFinds
  <2>6. QED
    BY <1>4, <1>5, <2>3, <2>5 DEF CertInv
<1>8. CASE ~RestartsAudit
  <2>1. ItemsVerified'
    BY <1>1, <1>4, <1>8 DEF CertInv, ItemsVerified
  <2>2. phase \in {"AUDIT", "FINALIZING"} => ~first
    BY <1>8 DEF RestartsAudit
  <2>3. phase = "AUDIT" =>
          whole \/ \E i \in Item, p \in Place : Lost(i, p) /\ Key(i, p) > cursor
    BY <1>1, <2>2 DEF CertInv, AuditFinds, InCommand
  <2>4. phase = "FINALIZING" => whole
    BY <1>1, <2>2 DEF CertInv, AuditFinds, InCommand
  <2>5. AuditFinds'
    BY <1>1, <1>2, <1>4, <1>6, <1>8, <2>3, <2>4 DEF AuditFinds
  <2>6. QED
    BY <1>4, <1>5, <2>1, <2>5 DEF CertInv
<1>9. QED
  BY <1>7, <1>8

LEMMA CleanupCert == ASSUME CertInv, Inv', Cleanup PROVE CertInv'
<1>1. /\ step = "working" /\ phase = "CLEANUP" /\ step' = "idle"
      /\ UNCHANGED <<row, at, root, saved, authority, changes, first, seen, whole>>
      /\ \/ phase' = "SCAN" /\ cursor' = 0
         \/ phase' = "CLEANUP" /\ cursor' = cursor
  BY DEF Cleanup, Enter, StepDone, library, session, world
<1>2. cursor' \in Nat /\ root' \in Nat \ {0} /\ seen' \in [Place -> Signatures]
  BY <1>1 DEF CertInv, RelocationTyped
<1>3. /\ RelocationTyped' /\ FilesApart' /\ RowsFit' /\ RowsName' /\ RecordsFit'
  BY <1>1, <1>2, Steady
<1>4. ItemsVerified'
  BY <1>1 DEF ItemsVerified, Item
<1>5. SeenFits' /\ AuditFinds'
  BY <1>1 DEF SeenFits, AuditFinds, CertInv, InCommand
<1>6. QED
  BY <1>3, <1>4, <1>5 DEF CertInv

LEMMA PageDoneCert == ASSUME CertInv, Inv', PageDone PROVE CertInv'
<1>1. /\ step = "working" /\ phase \in {"SCAN", "TOKENS", "AUDIT"} /\ step' = "idle"
      /\ UNCHANGED <<row, at, root, saved, authority, changes, first, seen>>
      /\ \/ UNCHANGED <<phase, cursor>>
         \/ Ahead = {} /\ phase' = Following[phase] /\ cursor' = 0
      /\ whole' = IF phase = "TOKENS" THEN Whole ELSE whole
  BY DEF PageDone, Following, Enter, library, session, records, world
<1>2. cursor' \in Nat /\ root' \in Nat \ {0} /\ seen' \in [Place -> Signatures]
  BY <1>1 DEF CertInv, RelocationTyped
<1>3. /\ RelocationTyped' /\ FilesApart' /\ RowsFit' /\ RowsName' /\ RecordsFit'
      /\ \A i \in Item : /\ Verified(i)' = Verified(i) /\ IsReleased(i)' = IsReleased(i)
                         /\ \A p \in Place : Lost(i, p)' = Lost(i, p)
  BY <1>1, <1>2, Steady
<1>4. \A i \in Item, p \in Place : Key(i, p)' = Key(i, p)
  BY DEF Key
<1>5. SeenFits' /\ authority = root /\ ~first
  BY <1>1 DEF SeenFits, CertInv, AuditFinds, InCommand
<1>6. CASE UNCHANGED <<phase, cursor>>
  <2>1. ItemsVerified'
    BY <1>3, <1>6 DEF CertInv, ItemsVerified
  <2>2. AuditFinds'
    BY <1>1, <1>3, <1>4, <1>5, <1>6 DEF CertInv, AuditFinds, InCommand
  <2>3. QED
    BY <1>3, <1>5, <2>1, <2>2 DEF CertInv
<1>7. CASE Ahead = {} /\ phase' = Following[phase] /\ cursor' = 0
  <2>1. CASE phase = "SCAN"
    <3>1. phase' = "TOKENS"
      BY <1>7, <2>1 DEF Following
    <3>2. ASSUME NEW i \in Item, ~IsReleased(i) PROVE Verified(i)
      <4>1. ~(i > cursor)
        BY <1>7, <2>1, <3>2 DEF Ahead
      <4>2. i <= cursor
        BY <4>1, RelocationAssumption DEF Item, CertInv, RelocationTyped
      <4>3. QED
        BY <2>1, <3>2, <4>2 DEF CertInv, ItemsVerified
    <3>3. ItemsVerified'
      BY <1>3, <1>7, <3>1, <3>2 DEF ItemsVerified, Item
    <3>4. AuditFinds'
      BY <1>1, <3>1 DEF AuditFinds
    <3>5. QED
      BY <1>3, <1>5, <3>3, <3>4 DEF CertInv
  <2>2. CASE phase = "TOKENS"
    <3>1. phase' = "AUDIT" /\ whole' = Whole
      BY <1>1, <1>7, <2>2 DEF Following
    <3>2. ASSUME NEW i \in Item PROVE Verified(i)
      <4>1. i > cursor => ~IsReleased(i)
        BY <1>7, <2>2 DEF Ahead
      <4>2. i <= cursor \/ ~IsReleased(i)
        BY <4>1, RelocationAssumption DEF Item, CertInv, RelocationTyped
      <4>3. QED
        BY <2>2, <4>2 DEF CertInv, ItemsVerified
    <3>3. ItemsVerified'
      BY <1>3, <3>2 DEF ItemsVerified
    <3>4. Whole \/ \E i \in Item, p \in Place : Lost(i, p) /\ Key(i, p) > 0
      BY <1>5, <3>2, AuditBegins
    <3>5. AuditFinds'
      BY <1>1, <1>3, <1>4, <1>7, <3>1, <3>4 DEF AuditFinds
    <3>6. QED
      BY <1>3, <1>5, <3>3, <3>5 DEF CertInv
  \* What was wrong when the audit began would be ahead.
  <2>3. CASE phase = "AUDIT"
    <3>1. phase' = "FINALIZING" /\ whole' = whole
      BY <1>1, <1>7, <2>3 DEF Following
    <3>2. whole
      BY <1>1, <1>5, <1>7, <2>3, LostIsAhead DEF CertInv, AuditFinds, InCommand
    <3>3. ItemsVerified'
      BY <1>3, <2>3 DEF CertInv, ItemsVerified
    <3>4. AuditFinds'
      BY <1>1, <3>1, <3>2 DEF AuditFinds
    <3>5. QED
      BY <1>3, <1>5, <3>3, <3>4 DEF CertInv
  <2>4. QED
    BY <1>1, <2>1, <2>2, <2>3
<1>8. QED
  BY <1>1, <1>6, <1>7

LEMMA FinalizeCert == ASSUME CertInv, Inv', Finalize \/ Unlinked PROVE CertInv'
<1>1. /\ step \in {"working", "unlinked"}
      /\ UNCHANGED <<library, session, records, world>>
  BY DEF Finalize, Unlinked
<1>2. CASE Ended
  BY <1>1, <1>2, EndedCert DEF Ended, records, world
<1>3. CASE ~Ended
  <2>1. step' \in {"unlinked", "finalized"} /\ UNCHANGED <<first, seen, whole>>
    BY <1>3 DEF Finalize, Unlinked, Goto
  <2>2. InCommand /\ authority = root /\ ~first
    BY <1>1 DEF InCommand, CertInv, AuditFinds
  <2>3. UNCHANGED <<library, session, saved, changes, first, seen, whole>>
    BY <1>1, <2>1 DEF records, world
  <2>4. QED
    BY <2>1, <2>2, <2>3, GoesOn
<1>4. QED
  BY <1>2, <1>3

LEMMA CompletedCert == ASSUME CertInv, Inv', Completed PROVE CertInv'
<1>1. /\ step' = "idle" /\ phase' = "COMPLETE"
      /\ UNCHANGED <<row, at, root, saved, authority, changes, cursor, seen>>
  BY DEF Completed, StepDone, library, session, records, world
<1>2. cursor' \in Nat /\ root' \in Nat \ {0} /\ seen' \in [Place -> Signatures]
  BY <1>1 DEF CertInv, RelocationTyped
<1>3. /\ RelocationTyped' /\ FilesApart' /\ RowsFit' /\ RowsName' /\ RecordsFit'
  BY <1>1, <1>2, Steady
<1>4. ItemsVerified' /\ SeenFits'
  BY <1>1 DEF ItemsVerified, SeenFits
<1>5. AuditFinds'
  BY <1>1 DEF AuditFinds
<1>6. QED
  BY <1>3, <1>4, <1>5 DEF CertInv

-----------------------------------------------------------------------------
(* The environment, and all steps. *)

\* A moved library is at another root; what it was bound to is on record.
LEMMA MoveCert == ASSUME CertInv, Inv', Move PROVE CertInv'
<1>1. /\ step \in {"off", "killed"} /\ root' \in {2, 3}
      /\ UNCHANGED <<row, at, saved, authority, changes, cursor, phase, seen, step>>
  BY DEF Move, session, records, command
<1>2. cursor' \in Nat /\ root' \in Nat \ {0} /\ seen' \in [Place -> Signatures]
  BY <1>1 DEF CertInv, RelocationTyped
<1>3. /\ RelocationTyped' /\ FilesApart' /\ RowsFit' /\ RowsName' /\ RecordsFit'
      /\ \A i \in Item : Verified(i)' = Verified(i) /\ IsReleased(i)' = IsReleased(i)
  BY <1>1, <1>2, Steady
<1>4. ItemsVerified'
  BY <1>1, <1>3 DEF CertInv, ItemsVerified
<1>5. SeenFits' /\ AuditFinds'
  BY <1>1 DEF SeenFits, AuditFinds, InCommand
<1>6. QED
  BY <1>3, <1>4, <1>5 DEF CertInv

LEMMA StutterCert == ASSUME CertInv, Inv', UNCHANGED vars PROVE CertInv'
<1>1. UNCHANGED <<row, at, root, saved, authority, changes, cursor, phase, seen, step, first,
                  whole>>
  BY DEF vars, library, session, records, command, world
<1>2. cursor' \in Nat /\ root' \in Nat \ {0} /\ seen' \in [Place -> Signatures]
  BY <1>1 DEF CertInv, RelocationTyped
<1>3. /\ RelocationTyped' /\ FilesApart' /\ RowsFit' /\ RowsName' /\ RecordsFit'
      /\ \A i \in Item : /\ Verified(i)' = Verified(i) /\ IsReleased(i)' = IsReleased(i)
                         /\ \A p \in Place : Lost(i, p)' = Lost(i, p)
  BY <1>1, <1>2, Steady
<1>4. ItemsVerified'
  BY <1>1, <1>3 DEF CertInv, ItemsVerified
<1>5. SeenFits'
  <2>1. SUFFICES ASSUME step = "verified" PROVE SeenFits'
    BY <1>1 DEF SeenFits
  <2>2. Ahead' = Ahead
    BY <1>1, AheadStays
  <2>3. PICK m \in Item : m = Min(Ahead)
    BY <2>1, NextAhead DEF CertInv, SeenFits, Ahead
  <2>4. \A p \in Place : Same(m, p)' = Same(m, p)
    BY <1>1 DEF Same, Sig
  <2>5. \A p \in Place : \A d : Holds(m, p, d)' = Holds(m, p, d)
    BY <1>1, <2>4 DEF Holds
  <2>6. ReleasedSeen(m)' = ReleasedSeen(m)
    BY <1>1, <2>5 DEF ReleasedSeen, Place
  <2>7. PublishedSeen(m) => PublishedSeen(m)'
    BY <1>1, <2>4, <2>5 DEF PublishedSeen, Arrived, Empty, Active, Place
  <2>8. QED
    BY <1>1, <1>3, <2>1, <2>2, <2>3, <2>6, <2>7 DEF CertInv, SeenFits, Known
<1>6. AuditFinds'
  <2>1. \A i \in Item, p \in Place : Key(i, p)' = Key(i, p)
    BY DEF Key
  <2>2. QED
    BY <1>1, <1>3, <2>1 DEF CertInv, AuditFinds, InCommand
<1>7. QED
  BY <1>3, <1>4, <1>5, <1>6 DEF CertInv

LEMMA NextCert == CertInv /\ [Next]_vars => CertInv'
<1> SUFFICES ASSUME CertInv, [Next]_vars PROVE CertInv'
  OBVIOUS
<1>1. Inv'
  BY NextInv DEF CertInv
<1>2. CASE CommandNext
  BY <1>1, <1>2, RunCert, BeginCert, ContinueCert, MarkingCert, FencedCert, CleanupCert,
     VerifyCert, RecordCert, AuditCert, PageDoneCert, FinalizeCert, CompletedCert
     DEF CommandNext
<1>3. CASE Kill
  BY <1>1, <1>3, EndedCert DEF Kill, records, world
<1>4. CASE PowerLoss
  BY <1>1, <1>4, EndedCert DEF PowerLoss, records, world
<1>5. CASE Move
  BY <1>1, <1>5, MoveCert
<1>6. ASSUME NEW i \in Item, NEW p \in Looked(i), Tamper(i, p) PROVE CertInv'
  <2>1. p \in Place
    BY DEF Looked
  <2>2. QED
    BY <1>1, <1>6, <2>1, TamperCert
<1>7. CASE UNCHANGED vars
  BY <1>1, <1>7, StutterCert
<1>8. QED
  BY <1>2, <1>3, <1>4, <1>5, <1>6, <1>7 DEF Next

\* What is on record and what the rows name agree, and what is wrong when an
\* audit begins is ahead of it until it is found.
THEOREM CertificateInvariance == Spec => []CertInv
BY InitCert, NextCert, PTL DEF Spec

LEMMA CompletedWhole ==
    ASSUME CertInv, [Next]_vars, phase' = "COMPLETE", phase # "COMPLETE"
    PROVE  whole
<1>1. ~UNCHANGED session
  BY DEF session
<1>2. CASE Completed
  BY <1>2 DEF Completed, CertInv, Inv, MarkerFollowsStep, AuditFinds, InCommand
<1>3. CASE Begin \/ Fenced \/ Cleanup \/ PageDone
  BY <1>1, <1>3 DEF Begin, Fenced, Cleanup, PageDone, Enter, Following, session, Ended
<1>4. CASE Record \/ Audit
  BY <1>4 DEF Record, Audit
<1>5. QED
  BY <1>1, <1>2, <1>3, <1>4 DEF Next, CommandNext, Run, Continue, MarkerFound, CreateMarker,
     WriteMarker, SyncMarker, Verify, Finalize, Unlinked, Kill, PowerLoss, Move, Tamper, vars

\* A relocation is completed only by a command during which, at one moment,
\* every file on record was there as recorded and every row was bound to the
\* bytes it names (_audit and _finalize, library_relocation.py), whoever
\* changes files meanwhile and however often.
THEOREM CertificateIsTrue == Spec => CertifiedIsTrue
<1>1. CertInv /\ [Next]_vars => [phase' = "COMPLETE" /\ phase # "COMPLETE" => whole]_vars
  BY CompletedWhole
<1>2. QED
  BY <1>1, CertificateInvariance, PTL DEF Spec, CertifiedIsTrue
=============================================================================
