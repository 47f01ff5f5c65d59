---------------------- MODULE LibraryActivation_proofs ----------------------
(***************************************************************************)
(* Proofs about LibraryActivation, for every number of resources, tokens,  *)
(* digests and revisions, every page size and any number of faults.        *)
(*                                                                         *)
(* The first inductive invariant, Inv, adds to the type invariant how far  *)
(* a call can be in each journal phase (ControlInv) and, for every point   *)
(* of the marker's script, what the directory already shows (FenceInv).    *)
(*                                                                         *)
(* The second, ReadersInv, is about what readers find and about the bytes  *)
(* activation leaves behind, when nobody else writes below current/.  It   *)
(* adds which names an unfinished row may have changed (OpenNames), that   *)
(* every other name is durable and shows what its row says (AtRest), that  *)
(* a page of plans still fits its rows (PagesFitRows), what the rest of a  *)
(* script is certain to achieve (ScriptSettles), and how the rows of a     *)
(* revision compare with what the catalog shows (RowsFitCatalog).          *)
(*                                                                         *)
(* The third, ReplayInv, adds to ReadersInv that the two trees of every    *)
(* unfinished row stand at stations of one replacement, the disk never     *)
(* further behind than Lags (TreesFit), that what is left of a script      *)
(* leads from the present station to the end (ScriptRuns), that a page     *)
(* whose scripts have not begun has moved nothing (FreshUntouched), that   *)
(* what the catalog and the rows name agrees (EntriesFit), that the bytes  *)
(* of a publication are there (Supplied), what the marker is in each phase *)
(* (MarkerFits), and what a reconciliation has left to do (WorkLeft).  So  *)
(* no replay is refused and no replaced bytes are lost too early.          *)
(*                                                                         *)
(* The fourth, AlienInv, holds whoever else writes below current/.  It     *)
(* says where the files of somebody else may be (AliensHeld), that one     *)
(* that is seen is also durable, if not at its name then at the one a      *)
(* capture has moved it away from (Backed), and that whatever is left of   *)
(* a script is gentle (Gentle): nothing in it is meant to unlink them, and *)
(* every move into current/ comes after a look at what was moved out.      *)
(* What is about to be unlinked was verified not to be foreign             *)
(* (LooksForOwn).  So a fault apart no step makes foreign files fewer, and *)
(* no step at all makes the last one go, but for the unlink of a name that *)
(* somebody took over since its file was verified (Overtaken).             *)
(*                                                                         *)
(* The first three do not depend on whether that file was verified yet: a  *)
(* verification that finds it changes nothing they speak of                *)
(* (LookIsHidden), and Works is an operation that does more than that.     *)
(***************************************************************************)
EXTENDS LibraryActivation, SequenceTheorems, FiniteSetTheorems, WellFoundedInduction,
        NaturalsInduction, TLAPS

-----------------------------------------------------------------------------
(* The directory tree and its operations. *)

Tree == [Name -> Content]

\* A step of a script that moves files and leaves the marker alone.
FileOp ==
    {op \in Op : /\ op.do \in {"rename", "check", "captured", "unlink", "fsync", "refuse"}
                 /\ op.do \in {"rename", "captured", "unlink"} =>
                        op.src # Marker /\ op.dst # Marker}

(* Names. *)

LEMMA MarkerIsName == Marker \in Name
BY DEF Name

LEMMA CurIsName ==
    ASSUME NEW r \in Resource
    PROVE  Cur(r) \in Name /\ Cur(r) # Marker
BY DEF Name, CurNames, Cur, Marker

LEMMA QuarIsName ==
    ASSUME NEW r \in Resource, NEW d \in Digest
    PROVE  Quar(r, d) \in Name /\ Quar(r, d) # Marker
BY DEF Name, QuarNames, Quar, Marker

LEMMA StageIsName ==
    ASSUME NEW t \in Token
    PROVE  Stage(t) \in Name /\ Stage(t) # Marker
BY DEF Name, StageNames, Stage, Marker

LEMMA TokenIsContent == Token \subseteq Content
BY DEF Content, File

(* Scripts. *)

LEMMA OpTypes ==
    ASSUME NEW n \in Name, NEW m \in Name, NEW f \in Content
    PROVE  /\ RenameOp(n, m, f) \in Op
           /\ CheckOp(n, f) \in Op
           /\ CapturedOp(n, m, f) \in Op
           /\ UnlinkOp(n, f) \in Op
           /\ FsyncOp(n) \in Op
           /\ CreateOp(n, f) \in Op
           /\ RefuseOp \in Op
BY MarkerIsName DEF RenameOp, CheckOp, CapturedOp, UnlinkOp, FsyncOp, CreateOp,
   RefuseOp, Op, Content

LEMMA FileOpTypes ==
    ASSUME NEW n \in Name \ {Marker}, NEW m \in Name \ {Marker}, NEW f \in Content
    PROVE  /\ RenameOp(n, m, f) \in FileOp
           /\ CheckOp(n, f) \in FileOp
           /\ CapturedOp(n, m, f) \in FileOp
           /\ UnlinkOp(n, f) \in FileOp
           /\ FsyncOp(n) \in FileOp
           /\ RefuseOp \in FileOp
BY OpTypes DEF RenameOp, CheckOp, CapturedOp, UnlinkOp, FsyncOp, RefuseOp, FileOp

(* Trees. *)

LEMMA TreeOps ==
    ASSUME NEW now \in Tree, NEW safe \in Tree, NEW n \in Name, NEW m \in Name,
           NEW c \in Content
    PROVE  /\ Renamed(now, n, m) \in Tree
           /\ Unlinked(now, n) \in Tree
           /\ Created(now, n, c) \in Tree
           /\ Synced(now, safe, n) \in Tree
BY DEF Tree, Renamed, Unlinked, Created, Synced, Content

\* Making one directory durable never takes a durable entry back to
\* something that is neither the old nor the new one.
LEMMA SyncedMeansEither ==
    ASSUME NEW now \in Tree, NEW safe \in Tree, NEW n \in Name, NEW m \in Name
    PROVE  /\ Synced(now, safe, n)[m] \in {now[m], safe[m]}
           /\ Synced(now, safe, n)[n] = now[n]
BY DEF Tree, Synced

LEMMA PowerLossMeansEither ==
    ASSUME NEW now \in Tree, NEW safe \in Tree, NEW tree \in PowerLossTrees(now, safe)
    PROVE  /\ tree \in Tree
           /\ \A n \in Name : tree[n] \in {now[n], safe[n]}
BY DEF Tree, PowerLossTrees

LEMMA MarkerUntouched ==
    ASSUME NEW now \in Tree, NEW n \in Name \ {Marker}, NEW m \in Name \ {Marker}
    PROVE  /\ Renamed(now, n, m)[Marker] = now[Marker]
           /\ Unlinked(now, n)[Marker] = now[Marker]
BY MarkerIsName DEF Tree, Renamed, Unlinked

-----------------------------------------------------------------------------
(* The scripts of the filesystem routines are scripts of file operations.  *)

FileScript == Seq(FileOp)

LEMMA FileScripts ==
    ASSUME NEW s1 \in FileScript, NEW s2 \in FileScript
    PROVE  s1 \o s2 \in FileScript
BY ConcatProperties DEF FileScript

LEMMA ScriptIsTyped == FileScript \subseteq Seq(Op)
<1>1. FileOp \subseteq Op
  BY DEF FileOp
<1>2. ASSUME NEW s \in FileScript PROVE s \in Seq(Op)
  BY <1>1, SeqMonotonic DEF FileScript
<1>3. QED
  BY <1>2

\* Names and contents that the routines below use.
LEMMA RoutineNames ==
    ASSUME NEW r \in Resource
    PROVE  /\ Cur(r) \in Name \ {Marker}
           /\ \A d \in Digest : Quar(r, d) \in Name \ {Marker}
           /\ \A t \in Token : /\ Stage(t) \in Name \ {Marker}
                               /\ t \in Content
                               /\ DigestOf[t] \in Digest
BY CurIsName, QuarIsName, StageIsName, TokenIsContent, FactsAssumption

LEMMA RefuseScript == <<RefuseOp>> \in FileScript /\ <<>> \in FileScript
<1>1. RefuseOp \in FileOp
  BY MarkerIsName DEF RefuseOp, FileOp, Op, Content
<1>2. QED
  BY <1>1 DEF FileScript

LEMMA HealScript ==
    ASSUME NEW n \in Name \ {Marker}, NEW m \in Name \ {Marker}, NEW f \in Content
    PROVE  Heal(n, m, f) \in FileScript
<1>1. /\ FsyncOp(n) \in FileOp /\ FsyncOp(m) \in FileOp /\ UnlinkOp(n, f) \in FileOp
  BY FileOpTypes
<1>2. QED
  BY <1>1, RefuseScript DEF Heal, FileScript

LEMMA QuarantineScript ==
    ASSUME NEW r \in Resource, NEW old \in Token, NEW d \in Digest
    PROVE  /\ QuarantineCurrent(r, Quar(r, d), old) \in FileScript
           /\ FsyncRecoveredCapture(r, Quar(r, d)) \in FileScript
<1> DEFINE q == Quar(r, d)
<1>1. /\ RenameOp(Cur(r), q, old) \in FileOp /\ CapturedOp(q, Cur(r), old) \in FileOp
      /\ FsyncOp(q) \in FileOp /\ FsyncOp(Cur(r)) \in FileOp
  BY FileOpTypes, RoutineNames
<1>2. QED
  BY <1>1 DEF QuarantineCurrent, FsyncRecoveredCapture, FileScript

LEMMA CaptureScript ==
    ASSUME NEW r \in Resource, NEW old \in Token
    PROVE  CaptureReplacedCurrent(r, old) \in FileScript
<1> DEFINE d == DigestOf[old]
<1>1. d \in Digest /\ Quar(r, d) \in Name \ {Marker} /\ Cur(r) \in Name \ {Marker}
      /\ old \in Content
  BY RoutineNames
<1>2. Heal(Cur(r), Quar(r, d), old) \in FileScript
  BY <1>1, HealScript
<1>3. /\ QuarantineCurrent(r, Quar(r, d), old) \in FileScript
      /\ FsyncRecoveredCapture(r, Quar(r, d)) \in FileScript
  BY <1>1, QuarantineScript
<1>4. QED
  BY <1>2, <1>3, RefuseScript DEF CaptureReplacedCurrent

LEMMA MoveScript ==
    ASSUME NEW r \in Resource, NEW t \in Token
    PROVE  MoveStageIn(r, t) \in FileScript
<1>1. /\ RenameOp(Stage(t), Cur(r), t) \in FileOp /\ FsyncOp(Cur(r)) \in FileOp
      /\ FsyncOp(Stage(t)) \in FileOp /\ CheckOp(Cur(r), t) \in FileOp
  BY FileOpTypes, RoutineNames
<1>2. QED
  BY <1>1 DEF MoveStageIn, FileScript

LEMMA UnlinkScript ==
    ASSUME NEW r \in Resource, NEW old \in Token
    PROVE  UnlinkQuarantined(r, old) \in FileScript
<1>1. /\ UnlinkOp(Quar(r, DigestOf[old]), old) \in FileOp
      /\ FsyncOp(Quar(r, DigestOf[old])) \in FileOp
  BY FileOpTypes, RoutineNames
<1>2. QED
  BY <1>1 DEF UnlinkQuarantined, FileScript

LEMMA InstallScript ==
    ASSUME NEW p \in Plan
    PROVE  PerformPendingInstall(p) \in FileScript
<1>0. p.res \in Resource /\ p.old \in Token \cup {NoFile} /\ p.staged \in Token \cup {NoFile}
      /\ p.fresh \in BOOLEAN
  BY DEF Plan
<1>1. RetireReplacedCurrent(p) \in FileScript
  BY <1>0, UnlinkScript, RefuseScript DEF RetireReplacedCurrent
<1>2. ASSUME p.staged # NoFile
      PROVE  CaptureThenMoveIn(p) \in FileScript
  <2>1. MoveStageIn(p.res, p.staged) \in FileScript
    BY <1>0, <1>2, MoveScript
  <2>2. CASE p.old = NoFile
    BY <2>1, <2>2 DEF CaptureThenMoveIn
  <2>3. CASE p.old # NoFile
    <3>1. CaptureReplacedCurrent(p.res, p.old) \in FileScript
      BY <1>0, <2>3, CaptureScript
    <3>2. QED
      BY <2>1, <2>3, <3>1, FileScripts DEF CaptureThenMoveIn
  <2>4. QED
    BY <2>2, <2>3
<1>3. ASSUME p.staged # NoFile
      PROVE  InstallFreshStaged(p) \in FileScript /\ InstallReplayed(p) \in FileScript
  <2>1. /\ Heal(Stage(p.staged), Cur(p.res), p.staged) \in FileScript
    BY <1>0, <1>3, HealScript, RoutineNames
  <2>2. FsyncRecoveredInstall(p) \in FileScript
    BY <1>0, <1>3, FileOpTypes, RoutineNames, TokenIsContent
       DEF FsyncRecoveredInstall, FileScript
  <2>3. CaptureThenMoveIn(p) \in FileScript
    BY <1>2, <1>3
  <2>4. QED
    BY <2>1, <2>2, <2>3, RefuseScript DEF InstallFreshStaged, InstallReplayed
<1>4. CASE p.staged = NoFile
  BY <1>4, RefuseScript DEF PerformPendingInstall
<1>5. CASE p.staged # NoFile /\ p.fresh
  <2>1. PerformPendingInstall(p) = InstallFreshStaged(p) \o RetireReplacedCurrent(p)
    BY <1>5 DEF PerformPendingInstall
  <2>2. QED
    BY <1>1, <1>3, <1>5, <2>1, FileScripts
<1>6. CASE p.staged # NoFile /\ ~p.fresh
  <2>1. PerformPendingInstall(p) = InstallReplayed(p) \o RetireReplacedCurrent(p)
    BY <1>6 DEF PerformPendingInstall
  <2>2. QED
    BY <1>1, <1>3, <1>6, <2>1, FileScripts
<1>7. QED
  BY <1>0, <1>4, <1>5, <1>6

LEMMA RemovalScript ==
    ASSUME NEW p \in Plan, p.old \in Token
    PROVE  PerformPendingRemoval(p) \in FileScript
<1> DEFINE q == Quar(p.res, p.digest)
           retire == UnlinkQuarantined(p.res, p.old)
<1>0. p.res \in Resource /\ p.digest \in Digest
  BY DEF Plan
<1>1. retire \in FileScript
  BY <1>0, UnlinkScript
<1>2. /\ QuarantineCurrent(p.res, q, p.old) \in FileScript
      /\ FsyncRecoveredCapture(p.res, q) \in FileScript
  BY <1>0, QuarantineScript
<1>3. Heal(Cur(p.res), q, p.old) \in FileScript
  BY <1>0, HealScript, RoutineNames
<1>4. /\ Heal(Cur(p.res), q, p.old) \o FsyncRecoveredCapture(p.res, q) \o retire \in FileScript
      /\ QuarantineCurrent(p.res, q, p.old) \o retire \in FileScript
      /\ FsyncRecoveredCapture(p.res, q) \o retire \in FileScript
  BY <1>1, <1>2, <1>3, FileScripts
<1>5. QED
  BY <1>4, RefuseScript DEF PerformPendingRemoval

-----------------------------------------------------------------------------
(* The inductive invariant. *)

\* A pending revision is the issued publication's, so the publication
\* cannot change under an open activation.
PendingIsIssued == pending # 0 => pub.rev = pending

\* The journal phase in which each point of a call is reached.
StepFitsPhase ==
    /\ step \in {"reserve", "install", "list", "reserveStale", "remove", "finish"} =>
          phase = "ACTIVATING"
    /\ step = "mark" => phase = "SEALED"
    /\ step = "READY" => phase = "READY"
    /\ step \in {"unmarkBegin", "unmarkComplete", "COMPLETE"} => phase = "IDLE"

\* Installs and removals never meet on one resource, and a removal always
\* knows the file it removes.
PagesAreDisjoint ==
    /\ \A r \in Resource :
          stale[r] # "none" => /\ phase = "ACTIVATING"
                               /\ ~Spooled(r)
                               /\ entry[r] \in Token
    /\ step = "install" => \A p \in page : Spooled(p.res)
    /\ step = "remove" => \A p \in page : p.old \in Token

ControlInv == JournalReadable /\ PendingIsIssued /\ StepFitsPhase /\ PagesAreDisjoint

\* Only the routines that write and remove the marker touch it.
ScriptsAvoidMarker ==
    step \notin {"mark", "unmarkBegin", "unmarkComplete"} => todo \in FileScript

\* What the directory shows at each point of the marker's script.
MarkerScript ==
    step = "mark" =>
        \/ todo = <<RefuseOp>>
        \/ todo = <<CreateOp(Marker, pending), FsyncOp(Marker)>>
        \/ todo = <<FsyncOp(Marker)>> /\ live[Marker] = pending
        \/ todo = <<>> /\ live[Marker] = pending /\ disk[Marker] = pending

FenceInv == ScriptsAvoidMarker /\ MarkerScript /\ FenceIsDurable

Inv == TypeOK /\ ControlInv /\ FenceInv

\* The variables these invariants are about: all but the verified file.  An
\* operation works unless it only finds the file it is going to unlink.
seen == <<journal, files, step, page, left, todo, catalog, refused, faults>>
Works == Perform /\ ~UNCHANGED seen

LEMMA LookIsHidden ==
    /\ Perform => Works \/ UNCHANGED seen
    /\ UNCHANGED vars => UNCHANGED seen
BY DEF Works, vars, seen, call

-----------------------------------------------------------------------------
(* Every action keeps the types. *)

LEMMA RowTypes ==
    /\ NoRow \in PendRow
    /\ \A d \in Digest : [NoRow EXCEPT !.digest = d] \in PendRow
    /\ \A row \in PendRow : /\ [row EXCEPT !.started = TRUE] \in PendRow
                            /\ [row EXCEPT !.activated = TRUE] \in PendRow
BY DEF NoRow, PendRow

LEMMA InitTypes == Init => TypeOK
<1> SUFFICES ASSUME Init PROVE TypeOK
  OBVIOUS
<1> USE FactsAssumption, LimitAssumption DEF Init
<1>1. pend \in [Resource -> PendRow]
  BY RowTypes DEF EmptyRows
<1>2. todo \in Seq(Op)
  BY RefuseScript, ScriptIsTyped
<1>3. /\ current \in 0..MaxRevision /\ pending \in 0..MaxRevision
      /\ cursor \in 0..NumResource /\ head \in 0..MaxRevision /\ faults \in 0..MaxFaults
  OBVIOUS
<1>4. shown \in Manifest /\ pub \in [rev: 0..MaxRevision, files: Manifest]
  BY DEF EmptyManifest, Manifest, NoPublication
<1>5. live \in [Name -> Content] /\ disk \in [Name -> Content] /\ verified \in Content
  BY DEF Content
<1>6. step \in Steps /\ refused \in BOOLEAN
  BY DEF Steps
<1>7. QED
  BY <1>1, <1>2, <1>3, <1>4, <1>5, <1>6 DEF TypeOK, NoStale

LEMMA RowsAreTyped ==
    ASSUME TypeOK, NEW r \in Resource, Spooled(r)
    PROVE  pend[r].digest \in Digest
BY DEF TypeOK, PendRow, Spooled

LEMMA CandidateIsTyped ==
    ASSUME NEW r \in Resource, NEW d \in Digest
    PROVE  StagedCandidate(r, d) \in Token \cup {NoFile}
<1>1. StagedTokens(r, d) \subseteq Token
  BY DEF StagedTokens
<1>2. QED
  BY <1>1 DEF StagedCandidate

LEMMA FirstPageIsPart ==
    ASSUME NEW S PROVE FirstPage(S) \subseteq S
BY DEF FirstPage

\* What one system call of a script leaves of it.
LEMMA NextOpIsTyped ==
    ASSUME TypeOK, todo # <<>>
    PROVE  /\ NextOp \in Op /\ NextOp.src \in Name /\ NextOp.dst \in Name
           /\ NextOp.file \in Content
           /\ Tail(todo) \in Seq(Op)
           /\ todo \in FileScript => NextOp \in FileOp /\ Tail(todo) \in FileScript
<1>1. todo \in Seq(Op)
  BY DEF TypeOK
<1>2. NextOp \in Op /\ Tail(todo) \in Seq(Op)
  BY <1>1, HeadTailProperties DEF NextOp
<1>3. NextOp.src \in Name /\ NextOp.dst \in Name /\ NextOp.file \in Content
  BY <1>2 DEF Op
<1>4. ASSUME todo \in FileScript PROVE NextOp \in FileOp /\ Tail(todo) \in FileScript
  BY <1>4, HeadTailProperties DEF NextOp, FileScript
<1>5. QED
  BY <1>2, <1>3, <1>4

LEMMA MarkerScriptsAreTyped ==
    ASSUME NEW c \in Revision, TypeOK
    PROVE  /\ RemoveMarker(c) \in Seq(Op)
           /\ pending \in Revision => WriteMarker \in Seq(Op)
<1>1. /\ FsyncOp(Marker) \in Op /\ UnlinkOp(Marker, c) \in Op /\ RefuseOp \in Op
      /\ pending \in Revision => CreateOp(Marker, pending) \in Op
  BY MarkerIsName, OpTypes DEF Content
<1>2. QED
  BY <1>1 DEF RemoveMarker, WriteMarker

LEMMA NextTypes ==
    ASSUME TypeOK, ControlInv, ScriptsAvoidMarker, [Next]_vars
    PROVE  TypeOK'
<1> USE FactsAssumption, LimitAssumption
<1> USE DEF Resource, Revision
<1>0. live \in Tree /\ disk \in Tree
  BY DEF TypeOK, Tree
<1>1. <<>> \in Seq(Op)
  BY RefuseScript, ScriptIsTyped
<1>2. ASSUME Leave PROVE /\ step' \in Steps /\ page' \subseteq Plan
                         /\ left' \subseteq Resource /\ todo' \in Seq(Op)
                         /\ verified' \in Content
  BY <1>1, <1>2 DEF Leave, Steps, Content
<1>protect. ASSUME NEW t \in Token, Protect(t) PROVE TypeOK'
  BY <1>protect, StageIsName, TokenIsContent DEF Protect, TypeOK, call, catalog
<1>release. ASSUME NEW t \in Token, Release(t) PROVE TypeOK'
  BY <1>release, StageIsName DEF Release, TypeOK, call, catalog, Unlinked, Content
<1>issue. ASSUME NEW m \in Manifest, Issue(m) PROVE TypeOK'
  BY <1>issue DEF Issue, TypeOK, journal, files, call
<1>advance. CASE AdvanceHead
  BY <1>advance DEF AdvanceHead, TypeOK, journal, files, call
<1>finalize. CASE Finalize
  BY <1>finalize, <1>2 DEF Finalize, TypeOK, journal, files, NoPublication, EmptyManifest, Manifest
<1>new. CASE BeginNew
  <2>1. EmptyRows \in [Resource -> PendRow]
    BY RowTypes DEF EmptyRows
  <2>2. CASE live[Marker] # NoFile
    BY <1>new, <1>2, <2>2 DEF BeginNew, TypeOK, Refuse, journal, files, catalog
  <2>3. CASE live[Marker] = NoFile
    <3>1. /\ phase' = "OPEN" /\ pending' = pub.rev /\ cursor' = 0
          /\ pend' = EmptyRows /\ step' = "SPOOL"
          /\ UNCHANGED <<current, tok, entry, stale, page, left, todo, verified, refused,
                         files, catalog, faults>>
      BY <1>new, <2>3 DEF BeginNew
    <3>2. pub.rev \in 0..MaxRevision /\ 0 \in 0..NumResource /\ step' \in Steps
      BY <3>1 DEF TypeOK, Steps, Checkpoints
    <3>3. QED
      BY <2>1, <3>1, <3>2 DEF TypeOK, files, catalog
  <2>4. QED
    BY <2>2, <2>3
<1>resumed. CASE BeginResumed
  <2>1. Synced(live, disk, Marker) \in Tree
    BY <1>0, TreeOps, MarkerIsName DEF Content
  <2>2. phase # "IDLE" => CheckpointOf(phase) \in Steps
    BY DEF TypeOK, CheckpointOf, Steps, Checkpoints
  <2>3. phase # "IDLE"
    BY <1>resumed DEF BeginResumed, ControlInv, JournalReadable
  <2>4. QED
    BY <1>resumed, <1>2, <2>1, <2>2, <2>3
       DEF BeginResumed, TypeOK, Refuse, journal, files, catalog, Tree
<1>completed. CASE BeginCompleted
  <2>1. pub.rev \in Revision
    BY <1>completed DEF BeginCompleted, TypeOK
  <2>2. RemoveMarker(pub.rev) \in Seq(Op)
    BY <2>1, MarkerScriptsAreTyped
  <2>3. QED
    BY <1>completed, <2>2 DEF BeginCompleted, TypeOK, journal, files, catalog, Steps
<1>page. CASE ActivatePage
  <2>1. FirstPage(Unspooled) \subseteq {r \in Resource : pub.files[r] # NoDigest}
    BY FirstPageIsPart DEF Unspooled
  <2>2. pend' \in [Resource -> PendRow]
    BY <1>page, <2>1, RowTypes DEF ActivatePage, TypeOK, Manifest
  <2>3. cursor' \in 0..NumResource
    BY <1>page, <2>1 DEF ActivatePage
  <2>4. QED
    BY <1>page, <2>2, <2>3 DEF ActivatePage, TypeOK, files, call, catalog
<1>seal. CASE Seal
  BY <1>seal DEF Seal, TypeOK, files, catalog, Steps, Checkpoints
<1>sealed. CASE ReconcileSealed
  <2>1. pending \in Revision
    BY <1>sealed DEF ReconcileSealed, TypeOK, ControlInv, JournalReadable
  <2>2. WriteMarker \in Seq(Op)
    BY <2>1, MarkerScriptsAreTyped
  <2>3. QED
    BY <1>sealed, <2>2 DEF ReconcileSealed, TypeOK, journal, files, catalog, Steps
<1>activating. CASE CommitActivating
  BY <1>activating DEF CommitActivating, TypeOK, files, catalog, Steps
<1>reconcile. CASE ReconcileActivating
  <2>1. Synced(live, disk, Marker) \in Tree
    BY <1>0, TreeOps, MarkerIsName DEF Content
  <2>2. QED
    BY <1>reconcile, <1>2, <2>1 DEF ReconcileActivating, TypeOK, Refuse, journal, catalog, Steps, Tree
<1>reserve. CASE ReservePendingInstalls
  <2>1. FirstPage(Uninstalled) \subseteq {r \in Resource : Spooled(r)}
    BY FirstPageIsPart DEF Uninstalled
  <2>2. ASSUME NEW r \in FirstPage(Uninstalled)
        PROVE  /\ r \in Resource /\ pend[r].digest \in Digest
               /\ StagedCandidate(r, pend[r].digest) \in Token \cup {NoFile}
    BY <2>1, RowsAreTyped, CandidateIsTyped
  <2>3. page' \subseteq Plan
    <3>1. ASSUME NEW r \in FirstPage(Uninstalled)
          PROVE  [res |-> r, digest |-> pend[r].digest,
                  staged |-> StagedCandidate(r, pend[r].digest),
                  old |-> entry[r], fresh |-> ~pend[r].started] \in Plan
      <4>1. entry[r] \in Token \cup {NoFile}
        BY <2>2 DEF TypeOK
      <4>2. (~pend[r].started) \in BOOLEAN
        OBVIOUS
      <4>3. QED
        BY <2>2, <4>1, <4>2 DEF Plan
    <3>2. QED
      BY <1>reserve, <3>1 DEF ReservePendingInstalls
  <2>4. pend' \in [Resource -> PendRow]
    BY <1>reserve, RowTypes DEF ReservePendingInstalls, TypeOK
  <2>5. QED
    BY <1>reserve, <2>1, <2>3, <2>4 DEF ReservePendingInstalls, TypeOK, files, catalog, Steps
<1>install. CASE StartInstall
  <2>1. PICK p \in page : todo' = PerformPendingInstall(p) /\ left' = left \ {p.res}
    BY <1>install DEF StartInstall
  <2>2. todo' \in Seq(Op)
    BY <2>1, InstallScript, ScriptIsTyped DEF TypeOK
  <2>3. QED
    BY <1>install, <2>1, <2>2 DEF StartInstall, TypeOK, journal, files, catalog
<1>installed. CASE CommitPendingInstalls
  <2>1. ASSUME NEW r \in Resource, InPage(r)
        PROVE  PlanOf(r) \in page /\ PlanOf(r) \in Plan
    BY <2>1 DEF InPage, PlanOf, TypeOK
  <2>2. InstalledEntries \in [Resource -> Token \cup {NoFile}]
    BY <2>1 DEF InstalledEntries, Outcome, Plan, TypeOK
  <2>3. RecordReconcileCursor => cursor' \in 0..NumResource
    BY DEF RecordReconcileCursor, TypeOK, Plan
  <2>4. CASE Refuse /\ UNCHANGED <<tok, entry, pend, cursor>>
    BY <1>installed, <1>2, <2>4 DEF CommitPendingInstalls, TypeOK, Refuse, files, catalog
  <2>5. CASE step' = "RECONCILE"
    <3>0. /\ tok' = [t \in Token |->
                       IF \E p \in page : p.staged = t THEN "INSTALLED" ELSE tok[t]]
          /\ pend' = [r \in Resource |->
                        IF InPage(r) THEN [pend[r] EXCEPT !.activated = TRUE] ELSE pend[r]]
      BY <1>installed, <2>5 DEF CommitPendingInstalls, Refuse, Leave
    <3>1. pend' \in [Resource -> PendRow]
      <4>1. ASSUME NEW r \in Resource
            PROVE  pend[r] \in PendRow /\ [pend[r] EXCEPT !.activated = TRUE] \in PendRow
        BY RowTypes DEF TypeOK
      <4>2. QED
        BY <3>0, <4>1
    <3>2. tok' \in [Token -> {"none", "STAGED", "INSTALLED", "RELEASED"}]
      BY <3>0 DEF TypeOK
    <3>3. cursor' \in 0..NumResource /\ entry' \in [Resource -> Token \cup {NoFile}]
      BY <1>installed, <2>2, <2>3, <2>5 DEF CommitPendingInstalls, Refuse, Leave
    <3>4. step' \in Steps /\ page' \subseteq Plan /\ left' \subseteq Resource
          /\ todo' \in Seq(Op) /\ verified' \in Content /\ refused' \in BOOLEAN
      BY <1>installed, <2>5 DEF CommitPendingInstalls, TypeOK, Refuse, Leave, Steps, Checkpoints
    <3>5. QED
      BY <1>installed, <3>1, <3>2, <3>3, <3>4 DEF CommitPendingInstalls, TypeOK, files, catalog
  <2>6. QED
    BY <1>installed, <2>4, <2>5 DEF CommitPendingInstalls
<1>list. CASE ListStale
  BY <1>list DEF ListStale, TypeOK, files, catalog, Steps
<1>reserveStale. CASE ReservePendingRemovals
  <2>1. FirstPage(Listed) \subseteq {r \in Resource : entry[r] \in Token}
    BY FirstPageIsPart DEF Listed, ControlInv, PagesAreDisjoint
  <2>2. page' \subseteq Plan
    <3>1. ASSUME NEW r \in FirstPage(Listed)
          PROVE  [res |-> r, digest |-> DigestOf[entry[r]], staged |-> NoFile,
                  old |-> entry[r], fresh |-> stale[r] = "listed"] \in Plan
      <4>1. r \in Resource /\ entry[r] \in Token /\ DigestOf[entry[r]] \in Digest
        BY <2>1
      <4>2. (stale[r] = "listed") \in BOOLEAN
        OBVIOUS
      <4>3. QED
        BY <4>1, <4>2 DEF Plan
    <3>2. QED
      BY <1>reserveStale, <3>1 DEF ReservePendingRemovals
  <2>3. QED
    BY <1>reserveStale, <2>1, <2>2 DEF ReservePendingRemovals, TypeOK, files, catalog, Steps
<1>remove. CASE StartRemoval
  <2>1. PICK p \in page : todo' = PerformPendingRemoval(p) /\ left' = left \ {p.res}
    BY <1>remove DEF StartRemoval
  <2>2. p \in Plan /\ p.old \in Token
    BY <1>remove DEF StartRemoval, ControlInv, PagesAreDisjoint, TypeOK
  <2>3. todo' \in Seq(Op)
    BY <2>1, <2>2, RemovalScript, ScriptIsTyped
  <2>4. QED
    BY <1>remove, <2>1, <2>3 DEF StartRemoval, TypeOK, journal, files, catalog
<1>removed. CASE CommitPendingRemovals
  <2>1. RecordReconcileCursor => cursor' \in 0..NumResource
    BY DEF RecordReconcileCursor, TypeOK, Plan
  <2>2. QED
    BY <1>removed, <1>2, <2>1
       DEF CommitPendingRemovals, TypeOK, Refuse, files, catalog, Steps, Checkpoints
<1>finish. CASE FinishReconcile
  <2>1. CASE Refuse /\ UNCHANGED <<phase, cursor>>
    BY <1>finish, <1>2, <2>1 DEF FinishReconcile, TypeOK, Refuse, files, catalog
  <2>2. CASE phase' = "READY" /\ cursor' = 0 /\ step' = "READY"
             /\ UNCHANGED <<page, left, todo, verified, refused>>
    BY <1>finish, <2>2 DEF FinishReconcile, TypeOK, files, catalog, Steps, Checkpoints
  <2>3. QED
    BY <1>finish, <2>1, <2>2 DEF FinishReconcile
<1>complete. CASE Complete
  <2>1. pending \in Revision
    BY <1>complete DEF Complete, TypeOK, ControlInv, JournalReadable, StepFitsPhase
  <2>2. RemoveMarker(pending) \in Seq(Op)
    BY <2>1, MarkerScriptsAreTyped
  <2>3. Synced(live, disk, Marker) \in Tree
    BY <1>0, TreeOps, MarkerIsName DEF Content
  <2>4. CASE live[Marker] # pending
    BY <1>complete, <1>2, <2>4 DEF Complete, TypeOK, Refuse, catalog
  <2>5. CASE live[Marker] = pending
    <3>1. /\ phase' = "IDLE" /\ current' = pending /\ pending' = 0 /\ cursor' = 0
          /\ disk' = Synced(live, disk, Marker) /\ todo' = RemoveMarker(pending)
          /\ step' = "unmarkComplete"
          /\ UNCHANGED <<page, left, verified, refused, tok, entry, pend, stale, live,
                         catalog, faults>>
      BY <1>complete, <2>5 DEF Complete
    <3>2. 0 \in 0..MaxRevision /\ 0 \in 0..NumResource /\ step' \in Steps
      BY <3>1 DEF Steps
    <3>3. QED
      BY <2>2, <2>3, <3>1, <3>2 DEF TypeOK, catalog, Tree
  <2>6. QED
    BY <2>4, <2>5
<1>unmarked. CASE MarkerRemoved
  BY <1>unmarked DEF MarkerRemoved, TypeOK, journal, files, catalog, Steps, Checkpoints
<1>perform. CASE Perform
  <2>0. ASSUME todo # <<>> PROVE /\ NextOp.src \in Name /\ NextOp.dst \in Name
                                 /\ NextOp.file \in Content /\ Tail(todo) \in Seq(Op)
    BY <2>0, NextOpIsTyped
  <2>1. ASSUME todo # <<>>
        PROVE  /\ Renamed(live, NextOp.src, NextOp.dst) \in Tree
               /\ Unlinked(live, NextOp.src) \in Tree
               /\ Created(live, NextOp.src, NextOp.file) \in Tree
               /\ Synced(live, disk, NextOp.src) \in Tree
    BY <1>0, <2>0, <2>1, TreeOps
  <2>2. ASSUME Proceed, todo # <<>>
        PROVE  /\ step' \in Steps /\ page' \subseteq Plan /\ left' \subseteq Resource
               /\ todo' \in Seq(Op) /\ verified' \in Content /\ refused' \in BOOLEAN
    BY <2>0, <2>2 DEF Proceed, TypeOK, Content
  <2>3. CASE DoRename
    BY <1>2, <2>1, <2>2, <2>3 DEF DoRename, Doing, TypeOK, Refuse, Tree, journal, catalog
  <2>4. CASE DoUnlink
    BY <1>2, <2>1, <2>2, <2>4 DEF DoUnlink, Doing, TypeOK, Refuse, Tree, journal, catalog
  <2>v. CASE DoVerify
    BY <1>2, <2>0, <2>2, <2>v DEF DoVerify, Doing, TypeOK, Refuse, journal, files, catalog
  <2>5. CASE DoCreate
    BY <1>2, <2>1, <2>2, <2>5 DEF DoCreate, Doing, TypeOK, Refuse, Tree, journal, catalog
  <2>6. CASE DoFsync
    BY <1>2, <2>1, <2>2, <2>6 DEF DoFsync, Doing, TypeOK, Refuse, Tree, journal, catalog
  <2>7. CASE DoCheck
    BY <1>2, <2>1, <2>2, <2>7 DEF DoCheck, Doing, TypeOK, Refuse, Tree, journal, files, catalog
  <2>8. CASE DoCaptured
    <3>1. live' \in Tree
      BY <1>0, <2>1, <2>8 DEF DoCaptured, Doing, files
    <3>2. disk' \in Tree
      <4>1. Synced(live', Synced(live', disk, NextOp.dst), NextOp.src) \in Tree
        BY <1>0, <2>0, <2>8, <3>1, TreeOps DEF DoCaptured, Doing, Content
      <4>2. QED
        BY <1>0, <2>8, <4>1 DEF DoCaptured, files
    <3>3. QED
      BY <1>2, <2>2, <2>8, <3>1, <3>2
         DEF DoCaptured, Doing, TypeOK, Refuse, Tree, journal, files, catalog
  <2>9. CASE DoRefuse
    BY <1>2, <2>9 DEF DoRefuse, TypeOK, Refuse, journal, files, catalog
  <2>10. QED
    BY <1>perform, <2>3, <2>4, <2>v, <2>5, <2>6, <2>7, <2>8, <2>9 DEF Perform
<1>interrupt. CASE Interrupt
  BY <1>interrupt, <1>2 DEF Interrupt, TypeOK, journal, files, catalog
<1>power. CASE PowerLoss
  <2>1. PICK tree \in PowerLossTrees(live, disk) : live' = tree /\ disk' = tree
    BY <1>power DEF PowerLoss
  <2>2. tree \in Tree
    BY <1>0, PowerLossMeansEither
  <2>3. QED
    BY <1>power, <1>2, <2>1, <2>2 DEF PowerLoss, TypeOK, Tree, journal, catalog
<1>foreign. ASSUME NEW r \in Resource, ForeignWrite(r) PROVE TypeOK'
  BY <1>foreign, CurIsName DEF ForeignWrite, TypeOK, Content, File, journal, call, catalog
<1>stutter. CASE UNCHANGED vars
  BY <1>stutter DEF vars, journal, files, call, catalog, TypeOK
<1>next. CASE Next
  BY <1>next, <1>protect, <1>release, <1>issue, <1>advance, <1>finalize, <1>new, <1>resumed,
     <1>completed, <1>page, <1>seal, <1>sealed, <1>activating, <1>reconcile, <1>reserve,
     <1>install, <1>installed, <1>list, <1>reserveStale, <1>remove, <1>removed, <1>finish,
     <1>complete, <1>unmarked, <1>perform, <1>interrupt, <1>power, <1>foreign
     DEF Next, CoreNext, ActivatorNext
<1> QED
  BY <1>stutter, <1>next

-----------------------------------------------------------------------------
(* Every action keeps the control invariant. *)

\* A page holds everything up to its last row: nothing is skipped.
LEMMA FirstPageIsInitial ==
    ASSUME NEW S \in SUBSET Resource, NEW last \in FirstPage(S), NEW r \in S, r <= last
    PROVE  r \in FirstPage(S)
<1> DEFINE Below(n) == {q \in S : q < n}
<1>0. last \in Int /\ r \in Int /\ S \subseteq Int
  BY DEF FirstPage, Resource
<1>1. IsFiniteSet(Below(last))
  <2>1. IsFiniteSet(Resource)
    BY FactsAssumption, FS_Interval DEF Resource
  <2>2. Below(last) \subseteq Resource
    OBVIOUS
  <2>3. QED
    BY <2>1, <2>2, FS_Subset
<1>2. Below(r) \subseteq Below(last)
  <2>1. ASSUME NEW q \in S, q < r PROVE q < last
    BY <1>0, <2>1
  <2>2. QED
    BY <2>1
<1>3. /\ Cardinality(Below(r)) <= Cardinality(Below(last))
      /\ Cardinality(Below(r)) \in Nat /\ Cardinality(Below(last)) \in Nat
  BY <1>1, <1>2, FS_Subset, FS_CardinalityType
<1>4. Cardinality(Below(last)) < Limit
  BY DEF FirstPage
<1>5. QED
  BY <1>3, <1>4, LimitAssumption DEF FirstPage

LEMMA InitControl == Init => ControlInv
BY FactsAssumption, LimitAssumption
   DEF Init, ControlInv, JournalReadable, PendingIsIssued, StepFitsPhase, PagesAreDisjoint,
       NoStale

\* A call that only runs its script, or is given up, changes no row.
LEMMA ControlKept ==
    ASSUME ControlInv, UNCHANGED <<journal, catalog>>,
           Leave \/ UNCHANGED <<step, page>>
    PROVE  ControlInv'
<1>1. UNCHANGED <<phase, pending, cursor, entry, pend, stale, pub>>
  BY DEF journal, catalog
<1>2. UNCHANGED step \/ step' = "out"
  BY DEF Leave
<1>3. step' # "out" => UNCHANGED page
  BY DEF Leave
<1>4. JournalReadable' /\ PendingIsIssued'
  BY <1>1 DEF ControlInv, JournalReadable, PendingIsIssued, Spooled
<1>5. StepFitsPhase'
  BY <1>1, <1>2 DEF ControlInv, StepFitsPhase
<1>6. PagesAreDisjoint'
  BY <1>1, <1>2, <1>3 DEF ControlInv, PagesAreDisjoint, Spooled
<1>7. QED
  BY <1>4, <1>5, <1>6 DEF ControlInv

LEMMA SpoolKept ==
    ASSUME TypeOK, ControlInv, ActivatePage
    PROVE  ControlInv'
<1> DEFINE rows == FirstPage(Unspooled)
<1> USE FactsAssumption, LimitAssumption
<1>1. /\ phase = "OPEN" /\ step = "SPOOL"
      /\ UNCHANGED <<phase, pending, entry, stale, pub, step, page>>
      /\ \A r \in Resource :
            pend'[r] = IF r \in rows THEN [NoRow EXCEPT !.digest = pub.files[r]] ELSE pend[r]
  BY DEF ActivatePage, call, catalog
<1>2. PICK last \in rows : cursor' = last /\ \A r \in rows : r <= last
  BY DEF ActivatePage
<1>3. rows \subseteq Unspooled /\ Unspooled \subseteq Resource
  BY FirstPageIsPart DEF Unspooled
<1>4. ASSUME NEW r \in Resource
      PROVE  Spooled(r)' <=> r <= cursor' /\ pub.files[r] # NoDigest
  <2>0. cursor \in Int /\ last \in Int /\ r \in Int /\ cursor < last
    BY <1>2, <1>3 DEF TypeOK, Resource, Unspooled
  <2>1. CASE r \in rows
    <3>1. pub.files[r] # NoDigest
      BY <1>3, <2>1 DEF Unspooled
    <3>2. pend'[r].digest = pub.files[r]
      BY <1>1, <2>1 DEF NoRow
    <3>3. QED
      BY <1>2, <2>1, <3>1, <3>2 DEF Spooled
  <2>2. CASE r \notin rows
    <3>1. Spooled(r)' <=> r <= cursor /\ pub.files[r] # NoDigest
      BY <1>1, <2>2 DEF ControlInv, JournalReadable, Spooled
    <3>2. r <= last /\ r \in Unspooled => FALSE
      BY <1>2, <1>3, <2>2, FirstPageIsInitial
    <3>3. QED
      BY <1>2, <2>0, <3>1, <3>2 DEF Unspooled
  <2>3. QED
    BY <2>1, <2>2
<1>5. JournalReadable'
  <2>1. Spooled(cursor)'
    <3>1. last \in Resource /\ pub.files[last] # NoDigest /\ last <= last
      BY <1>3 DEF Unspooled, Resource
    <3>2. QED
      BY <1>2, <1>4, <3>1 DEF Spooled
  <2>2. QED
    BY <1>1, <1>4, <2>1 DEF ControlInv, JournalReadable
<1>6. PendingIsIssued' /\ StepFitsPhase'
  BY <1>1 DEF ControlInv, PendingIsIssued, StepFitsPhase
<1>7. PagesAreDisjoint'
  BY <1>1 DEF ControlInv, PagesAreDisjoint
<1>8. QED
  BY <1>5, <1>6, <1>7 DEF ControlInv

LEMMA NextControl ==
    ASSUME TypeOK, ControlInv, [Next]_vars
    PROVE  ControlInv'
<1> USE FactsAssumption, LimitAssumption
<1> USE DEF ControlInv
<1>protect. ASSUME NEW t \in Token, Protect(t) PROVE ControlInv'
  BY <1>protect DEF Protect, call, catalog, JournalReadable, PendingIsIssued, StepFitsPhase,
     PagesAreDisjoint, Spooled
<1>release. ASSUME NEW t \in Token, Release(t) PROVE ControlInv'
  BY <1>release DEF Release, call, catalog, JournalReadable, PendingIsIssued, StepFitsPhase,
     PagesAreDisjoint, Spooled
<1>issue. ASSUME NEW m \in Manifest, Issue(m) PROVE ControlInv'
  <2>1. pending = 0
    BY <1>issue DEF Issue, NoPublication, PendingIsIssued
  <2>2. QED
    BY <1>issue, <2>1 DEF Issue, journal, call, JournalReadable, PendingIsIssued, StepFitsPhase,
       PagesAreDisjoint, Spooled
<1>advance. CASE AdvanceHead
  BY <1>advance DEF AdvanceHead, journal, call, JournalReadable, PendingIsIssued, StepFitsPhase,
     PagesAreDisjoint, Spooled
<1>finalize. CASE Finalize
  <2>1. pending = 0
    BY <1>finalize DEF Finalize, StepFitsPhase, JournalReadable
  <2>2. QED
    BY <1>finalize, <2>1 DEF Finalize, Leave, journal, JournalReadable, PendingIsIssued,
       StepFitsPhase, PagesAreDisjoint, Spooled
<1>new. CASE BeginNew
  <2>1. CASE live[Marker] # NoFile
    BY <1>new, <2>1, ControlKept DEF BeginNew, Refuse
  <2>2. CASE live[Marker] = NoFile
    <3>1. /\ step = "out" /\ pub.rev # 0 /\ pending = 0 /\ phase' = "OPEN"
          /\ pending' = pub.rev /\ cursor' = 0 /\ pend' = EmptyRows /\ step' = "SPOOL"
          /\ UNCHANGED <<entry, stale, pub>>
      BY <1>new, <2>2 DEF BeginNew, catalog
    <3>2. \A r \in Resource : pend'[r].digest = NoDigest
      BY <3>1 DEF EmptyRows, NoRow
    <3>3. JournalReadable'
      BY <3>1, <3>2 DEF JournalReadable, Spooled, Resource
    <3>4. \A r \in Resource : stale[r] = "none"
      BY <3>1 DEF PagesAreDisjoint, JournalReadable
    <3>5. QED
      BY <3>1, <3>3, <3>4 DEF PendingIsIssued, StepFitsPhase, PagesAreDisjoint
  <2>3. QED
    BY <2>1, <2>2
<1>resumed. CASE BeginResumed
  <2>1. CASE Refuse
    BY <1>resumed, <2>1, ControlKept DEF BeginResumed, Refuse
  <2>2. CASE step' = CheckpointOf(phase)
    <3>1. step' \in {"SPOOL", "RECONCILE", "READY"} /\ (step' = "READY" => phase = "READY")
      BY <1>resumed, <2>2 DEF BeginResumed, JournalReadable, TypeOK, CheckpointOf
    <3>2. UNCHANGED <<phase, pending, cursor, entry, pend, stale, pub>>
      BY <1>resumed DEF BeginResumed, journal, catalog
    <3>3. QED
      BY <3>1, <3>2 DEF JournalReadable, PendingIsIssued, StepFitsPhase, PagesAreDisjoint, Spooled
  <2>3. QED
    BY <1>resumed, <2>1, <2>2 DEF BeginResumed
<1>completed. CASE BeginCompleted
  BY <1>completed DEF BeginCompleted, journal, catalog, JournalReadable, PendingIsIssued,
     StepFitsPhase, PagesAreDisjoint, Spooled
<1>page. CASE ActivatePage
  BY <1>page, SpoolKept
<1>seal. CASE Seal
  BY <1>seal DEF Seal, catalog, JournalReadable, PendingIsIssued, StepFitsPhase,
     PagesAreDisjoint, Spooled
<1>sealed. CASE ReconcileSealed
  BY <1>sealed DEF ReconcileSealed, journal, catalog, JournalReadable, PendingIsIssued,
     StepFitsPhase, PagesAreDisjoint, Spooled
<1>activating. CASE CommitActivating
  BY <1>activating DEF CommitActivating, catalog, JournalReadable, PendingIsIssued,
     StepFitsPhase, PagesAreDisjoint, Spooled
<1>reconcile. CASE ReconcileActivating
  <2>1. CASE Refuse
    BY <1>reconcile, <2>1, ControlKept DEF ReconcileActivating, Refuse
  <2>2. CASE step' = "reserve"
    BY <1>reconcile, <2>2 DEF ReconcileActivating, journal, catalog, JournalReadable,
       PendingIsIssued, StepFitsPhase, PagesAreDisjoint, Spooled
  <2>3. QED
    BY <1>reconcile, <2>1, <2>2 DEF ReconcileActivating
<1>reserve. CASE ReservePendingInstalls
  <2>1. /\ UNCHANGED <<phase, pending, cursor, entry, stale, pub>> /\ step = "reserve"
        /\ step' \in {"list", "install"}
    BY <1>reserve DEF ReservePendingInstalls, catalog
  <2>2. \A r \in Resource : Spooled(r)' <=> Spooled(r)
    BY <1>reserve DEF ReservePendingInstalls, Spooled, TypeOK, PendRow
  <2>3. \A p \in page' : p.res \in Resource /\ Spooled(p.res)
    BY <1>reserve, FirstPageIsPart DEF ReservePendingInstalls, Uninstalled
  <2>4. JournalReadable' /\ PendingIsIssued'
    BY <2>1, <2>2 DEF JournalReadable, PendingIsIssued, StepFitsPhase
  <2>5. StepFitsPhase'
    BY <2>1 DEF StepFitsPhase
  <2>6. PagesAreDisjoint'
    BY <2>1, <2>2, <2>3 DEF PagesAreDisjoint
  <2>7. QED
    BY <2>4, <2>5, <2>6
<1>install. CASE StartInstall
  BY <1>install, ControlKept DEF StartInstall
<1>installed. CASE CommitPendingInstalls
  <2>1. CASE Refuse /\ UNCHANGED <<tok, entry, pend, cursor>>
    BY <1>installed, <2>1, ControlKept DEF CommitPendingInstalls, Refuse, journal
  <2>2. CASE step' = "RECONCILE"
    <3>1. /\ UNCHANGED <<phase, pending, stale, pub>> /\ phase = "ACTIVATING"
          /\ entry' = InstalledEntries
          /\ pend' = [r \in Resource |->
                        IF InPage(r) THEN [pend[r] EXCEPT !.activated = TRUE] ELSE pend[r]]
      BY <1>installed, <2>2
         DEF CommitPendingInstalls, catalog, Refuse, Leave, StepFitsPhase
    <3>2. \A r \in Resource : Spooled(r)' <=> Spooled(r)
      BY <3>1 DEF Spooled, TypeOK, PendRow
    <3>3. ASSUME NEW r \in Resource, stale[r] # "none" PROVE entry'[r] = entry[r]
      <4>1. ~InPage(r)
        BY <1>installed, <3>3 DEF CommitPendingInstalls, PagesAreDisjoint, InPage
      <4>2. QED
        BY <3>1, <4>1 DEF InstalledEntries
    <3>4. QED
      BY <2>2, <3>1, <3>2, <3>3
         DEF JournalReadable, PendingIsIssued, StepFitsPhase, PagesAreDisjoint
  <2>3. QED
    BY <1>installed, <2>1, <2>2 DEF CommitPendingInstalls
<1>list. CASE ListStale
  <2>1. /\ UNCHANGED <<phase, pending, cursor, entry, pend, pub>> /\ phase = "ACTIVATING"
        /\ step' = "reserveStale"
    BY <1>list DEF ListStale, catalog, StepFitsPhase
  <2>2. \A r \in Resource : stale'[r] # "none" =>
            stale[r] # "none" \/ (r \in Resource /\ entry[r] # NoFile /\ ~Spooled(r))
    BY <1>list, FirstPageIsPart DEF ListStale, Unwanted
  <2>3. \A r \in Resource : entry[r] # NoFile => entry[r] \in Token
    BY DEF TypeOK
  <2>4. QED
    BY <2>1, <2>2, <2>3
       DEF JournalReadable, PendingIsIssued, StepFitsPhase, PagesAreDisjoint, Spooled
<1>reserveStale. CASE ReservePendingRemovals
  <2>1. /\ UNCHANGED <<phase, pending, cursor, entry, pend, pub>> /\ phase = "ACTIVATING"
        /\ step' \in {"finish", "remove"}
    BY <1>reserveStale DEF ReservePendingRemovals, catalog, StepFitsPhase
  <2>2. FirstPage(Listed) \subseteq {r \in Resource : stale[r] # "none"}
    BY FirstPageIsPart DEF Listed
  <2>3. \A r \in Resource : stale'[r] # "none" => stale[r] # "none"
    BY <1>reserveStale, <2>2 DEF ReservePendingRemovals
  <2>4. \A p \in page' : p.old \in Token
    BY <1>reserveStale, <2>2 DEF ReservePendingRemovals, PagesAreDisjoint
  <2>5. QED
    BY <2>1, <2>3, <2>4
       DEF JournalReadable, PendingIsIssued, StepFitsPhase, PagesAreDisjoint, Spooled
<1>remove. CASE StartRemoval
  BY <1>remove, ControlKept DEF StartRemoval
<1>removed. CASE CommitPendingRemovals
  <2>1. CASE Refuse /\ UNCHANGED <<entry, stale, cursor>>
    BY <1>removed, <2>1, ControlKept DEF CommitPendingRemovals, Refuse, journal
  <2>2. CASE step' = "RECONCILE"
    <3>1. /\ UNCHANGED <<phase, pending, pend, pub>> /\ phase = "ACTIVATING"
          /\ entry' = [r \in Resource |-> IF InPage(r) THEN NoFile ELSE entry[r]]
          /\ stale' = [r \in Resource |-> IF InPage(r) THEN "none" ELSE stale[r]]
      BY <1>removed, <2>2
         DEF CommitPendingRemovals, catalog, Refuse, Leave, StepFitsPhase
    <3>2. QED
      BY <2>2, <3>1
         DEF JournalReadable, PendingIsIssued, StepFitsPhase, PagesAreDisjoint, Spooled
  <2>3. QED
    BY <1>removed, <2>1, <2>2 DEF CommitPendingRemovals
<1>finish. CASE FinishReconcile
  <2>1. CASE Refuse /\ UNCHANGED <<phase, cursor>>
    BY <1>finish, <2>1, ControlKept DEF FinishReconcile, Refuse, journal
  <2>2. CASE phase' = "READY" /\ cursor' = 0 /\ step' = "READY" /\ Listed = {}
    <3>1. /\ UNCHANGED <<pending, entry, pend, stale, pub>> /\ phase = "ACTIVATING"
      BY <1>finish DEF FinishReconcile, catalog, StepFitsPhase
    <3>2. QED
      BY <2>2, <3>1
         DEF JournalReadable, PendingIsIssued, StepFitsPhase, PagesAreDisjoint, Spooled, Listed
  <2>3. QED
    BY <1>finish, <2>1, <2>2 DEF FinishReconcile
<1>complete. CASE Complete
  <2>1. CASE live[Marker] # pending
    BY <1>complete, <2>1, ControlKept DEF Complete, Refuse, journal
  <2>2. CASE live[Marker] = pending
    <3>1. /\ phase' = "IDLE" /\ pending' = 0 /\ cursor' = 0 /\ step' = "unmarkComplete"
          /\ UNCHANGED <<entry, pend, stale, pub>> /\ phase = "READY"
      BY <1>complete, <2>2 DEF Complete, catalog, StepFitsPhase
    <3>2. QED
      BY <3>1
         DEF JournalReadable, PendingIsIssued, StepFitsPhase, PagesAreDisjoint, Spooled
  <2>3. QED
    BY <2>1, <2>2
<1>unmarked. CASE MarkerRemoved
  BY <1>unmarked DEF MarkerRemoved, journal, catalog, JournalReadable, PendingIsIssued,
     StepFitsPhase, PagesAreDisjoint, Spooled
<1>perform. CASE Works
  BY <1>perform, ControlKept DEF Works, seen, Perform, DoRename, DoVerify, DoUnlink, DoCreate,
     DoFsync, DoCheck, DoCaptured, DoRefuse, Proceed, Refuse
<1>interrupt. CASE Interrupt
  BY <1>interrupt, ControlKept DEF Interrupt
<1>power. CASE PowerLoss
  BY <1>power, ControlKept DEF PowerLoss
<1>foreign. ASSUME NEW r \in Resource, ForeignWrite(r) PROVE ControlInv'
  BY <1>foreign, ControlKept DEF ForeignWrite, call
<1>stutter. CASE UNCHANGED seen
  BY <1>stutter, ControlKept DEF seen, call
<1>next. CASE Next
  BY <1>stutter, <1>next, <1>protect, <1>release, <1>issue, <1>advance, <1>finalize,
     <1>new, <1>resumed, <1>completed, <1>page, <1>seal, <1>sealed, <1>activating, <1>reconcile, <1>reserve,
     <1>install, <1>installed, <1>list, <1>reserveStale, <1>remove, <1>removed, <1>finish,
     <1>complete, <1>unmarked, <1>perform, <1>interrupt, <1>power, <1>foreign, LookIsHidden
     DEF Next, CoreNext, ActivatorNext
<1> QED
  BY <1>stutter, <1>next, LookIsHidden

-----------------------------------------------------------------------------
(* Every action keeps the fence. *)

LEMMA InitFence == Init => FenceInv
BY RefuseScript
   DEF Init, FenceInv, ScriptsAvoidMarker, MarkerScript, FenceIsDurable

\* A step that leaves the marker's entries, the phase and the revision
\* alone, and does not start to write the marker.
LEMMA FenceKept ==
    ASSUME FenceInv, UNCHANGED <<phase, pending>>,
           live'[Marker] = live[Marker],
           disk'[Marker] \in {live[Marker], disk[Marker]},
           \/ Leave
           \/ UNCHANGED <<step, todo>>
           \/ step' \notin {"mark", "unmarkBegin", "unmarkComplete"} /\ todo' \in FileScript
    PROVE  FenceInv'
<1>1. FenceIsDurable'
  BY DEF FenceInv, FenceIsDurable
<1>2. ScriptsAvoidMarker'
  BY RefuseScript DEF FenceInv, ScriptsAvoidMarker, Leave
<1>3. MarkerScript'
  BY DEF FenceInv, MarkerScript, Leave
<1>4. QED
  BY <1>1, <1>2, <1>3 DEF FenceInv

\* While the marker is being written, each operation finds the directory
\* as the script's author left it.
LEMMA MarkerScriptStep ==
    ASSUME TypeOK, ControlInv, FenceInv, step = "mark", Works
    PROVE  FenceInv'
<1>1. phase = "SEALED" /\ UNCHANGED <<phase, pending>>
  BY DEF ControlInv, StepFitsPhase, Works, seen, Perform, DoRename, DoVerify, DoUnlink,
     DoCreate, DoFsync, DoCheck, DoCaptured, DoRefuse, journal
<1>2. FenceIsDurable'
  BY <1>1 DEF FenceIsDurable
<1>3. ASSUME Leave PROVE FenceInv'
  BY <1>2, <1>3, RefuseScript DEF FenceInv, Leave, ScriptsAvoidMarker, MarkerScript
<1>4. live \in Tree /\ disk \in Tree
  BY DEF TypeOK, Tree
<1>5. CASE todo = <<RefuseOp>>
  <2>1. NextOp.do = "refuse"
    BY <1>5 DEF NextOp, RefuseOp
  <2>2. QED
    BY <1>3, <2>1 DEF Works, seen, Perform, DoRename, DoVerify, DoUnlink, DoCreate, DoFsync,
       DoCheck, DoCaptured, DoRefuse, Doing, Refuse
<1>6. CASE todo = <<CreateOp(Marker, pending), FsyncOp(Marker)>>
  <2>1. /\ NextOp.do = "create" /\ NextOp.src = Marker /\ NextOp.file = pending
        /\ Tail(todo) = <<FsyncOp(Marker)>>
    BY <1>6 DEF NextOp, CreateOp
  <2>2. DoCreate
    BY <2>1 DEF Works, seen, Perform, DoRename, DoVerify, DoUnlink, DoFsync, DoCheck,
       DoCaptured, DoRefuse, Doing
  <2>3. live'[Marker] = pending /\ todo' = <<FsyncOp(Marker)>> /\ step' = "mark"
    BY <1>4, <2>1, <2>2, MarkerIsName DEF DoCreate, Created, Proceed, Tree
  <2>4. QED
    BY <1>1, <1>2, <2>3 DEF FenceInv, ScriptsAvoidMarker, MarkerScript
<1>7. CASE todo = <<FsyncOp(Marker)>> /\ live[Marker] = pending
  <2>1. NextOp.do = "fsync" /\ NextOp.src = Marker /\ Tail(todo) = <<>>
    BY <1>7 DEF NextOp, FsyncOp
  <2>2. DoFsync
    BY <2>1 DEF Works, seen, Perform, DoRename, DoVerify, DoUnlink, DoCreate, DoCheck,
       DoCaptured, DoRefuse, Doing
  <2>3. disk' = Synced(live, disk, Marker) /\ todo' = <<>> /\ step' = "mark"
        /\ live' = live
    BY <2>1, <2>2 DEF DoFsync, Proceed
  <2>4. disk'[Marker] = pending
    BY <1>4, <1>7, <2>3, SyncedMeansEither, MarkerIsName
  <2>5. QED
    BY <1>1, <1>2, <1>7, <2>3, <2>4 DEF FenceInv, ScriptsAvoidMarker, MarkerScript
<1>8. CASE todo = <<>>
  BY <1>8 DEF Works, seen, Perform, DoRename, DoVerify, DoUnlink, DoCreate, DoFsync, DoCheck,
     DoCaptured, DoRefuse, Doing
<1>9. QED
  BY <1>5, <1>6, <1>7, <1>8 DEF FenceInv, MarkerScript

\* No operation of a file script touches the marker.
LEMMA FileScriptStep ==
    ASSUME TypeOK, FenceInv, todo \in FileScript, Works,
           step \notin {"mark", "unmarkBegin", "unmarkComplete"}
    PROVE  FenceInv'
<1>0. live \in Tree /\ disk \in Tree
  BY DEF TypeOK, Tree
<1>1. todo # <<>>
  BY DEF Works, seen, Perform, DoRename, DoVerify, DoUnlink, DoCreate, DoFsync, DoCheck,
     DoCaptured, DoRefuse, Doing
<1>2. /\ NextOp \in FileOp /\ Tail(todo) \in FileScript
      /\ NextOp.src \in Name /\ NextOp.dst \in Name
  BY <1>1, NextOpIsTyped
<1>3. UNCHANGED <<phase, pending>>
  BY DEF Works, seen, Perform, DoRename, DoVerify, DoUnlink, DoCreate, DoFsync, DoCheck,
     DoCaptured, DoRefuse, journal
<1>4. \/ Leave
      \/ step' \notin {"mark", "unmarkBegin", "unmarkComplete"} /\ todo' \in FileScript
  BY <1>2 DEF Works, seen, Perform, DoRename, DoVerify, DoUnlink, DoCreate, DoFsync, DoCheck,
     DoCaptured, DoRefuse, Proceed, Refuse
<1>5. NextOp.do \in {"rename", "captured", "unlink"} =>
          /\ NextOp.src \in Name \ {Marker} /\ NextOp.dst \in Name \ {Marker}
          /\ Renamed(live, NextOp.src, NextOp.dst)[Marker] = live[Marker]
          /\ Unlinked(live, NextOp.src)[Marker] = live[Marker]
  BY <1>0, <1>2, MarkerUntouched DEF FileOp
<1>6. /\ live'[Marker] = live[Marker]
      /\ disk'[Marker] \in {live[Marker], disk[Marker]}
  <2>1. CASE DoRename
    BY <1>5, <2>1 DEF DoRename, Doing
  <2>2. CASE DoUnlink
    BY <1>5, <2>2 DEF DoUnlink, Doing
  <2>3. CASE DoCreate
    BY <1>2, <2>3 DEF DoCreate, Doing, FileOp
  <2>4. CASE DoFsync
    BY <1>0, <1>2, <2>4, SyncedMeansEither, MarkerIsName DEF DoFsync
  <2>5. CASE DoVerify \/ DoCheck \/ DoRefuse
    BY <2>5 DEF DoVerify, DoCheck, DoRefuse, files
  <2>6. CASE DoCaptured
    <3>1. live' \in Tree /\ live'[Marker] = live[Marker]
      BY <1>0, <1>2, <1>5, <2>6, TreeOps DEF DoCaptured, Doing, files, Content
    <3>2. CASE UNCHANGED files
      BY <3>2 DEF files
    <3>3. CASE disk' = Synced(live', Synced(live', disk, NextOp.dst), NextOp.src)
      <4>1. /\ Synced(live', disk, NextOp.dst) \in Tree
            /\ Synced(live', disk, NextOp.dst)[Marker] \in {live'[Marker], disk[Marker]}
        BY <1>0, <1>2, <3>1, TreeOps, SyncedMeansEither, MarkerIsName DEF Content
      <4>2. disk'[Marker] \in {live'[Marker], Synced(live', disk, NextOp.dst)[Marker]}
        BY <1>2, <3>1, <3>3, <4>1, SyncedMeansEither, MarkerIsName
      <4>3. QED
        BY <3>1, <4>1, <4>2
    <3>4. QED
      BY <2>6, <3>2, <3>3 DEF DoCaptured
  <2>7. QED
    BY <2>1, <2>2, <2>3, <2>4, <2>5, <2>6 DEF Works, Perform
<1>7. QED
  BY <1>3, <1>4, <1>6, FenceKept

\* Outside ACTIVATING and READY nothing is claimed about the marker.
LEMMA UnfencedKept ==
    ASSUME FenceInv, phase' \notin {"ACTIVATING", "READY"},
           step' # "mark",
           \/ step' \in {"unmarkBegin", "unmarkComplete"}
           \/ todo' \in FileScript
    PROVE  FenceInv'
BY DEF FenceInv, FenceIsDurable, ScriptsAvoidMarker, MarkerScript

LEMMA NextFence ==
    ASSUME TypeOK, ControlInv, FenceInv, [Next]_vars
    PROVE  FenceInv'
<1>0. /\ live \in Tree /\ disk \in Tree
      /\ Synced(live, disk, Marker)[Marker] = live[Marker]
  BY SyncedMeansEither, MarkerIsName DEF TypeOK, Tree
<1>1. step = "out" => todo \in FileScript
  BY DEF FenceInv, ScriptsAvoidMarker
<1>protect. ASSUME NEW t \in Token, Protect(t) PROVE FenceInv'
  BY <1>0, <1>protect, FenceKept, StageIsName, MarkerIsName DEF Protect, call, Tree
<1>release. ASSUME NEW t \in Token, Release(t) PROVE FenceInv'
  BY <1>0, <1>release, FenceKept, StageIsName, MarkerIsName DEF Release, Unlinked, call, Tree
<1>issue. ASSUME NEW m \in Manifest, Issue(m) PROVE FenceInv'
  BY <1>issue, FenceKept DEF Issue, journal, files, call
<1>advance. CASE AdvanceHead
  BY <1>advance, FenceKept DEF AdvanceHead, journal, files, call
<1>finalize. CASE Finalize
  BY <1>finalize, FenceKept DEF Finalize, journal, files
<1>new. CASE BeginNew
  <2>1. CASE live[Marker] # NoFile
    BY <1>new, <2>1, FenceKept DEF BeginNew, Refuse, journal, files
  <2>2. CASE live[Marker] = NoFile
    BY <1>1, <1>new, <2>2, UnfencedKept DEF BeginNew
  <2>3. QED
    BY <2>1, <2>2
<1>resumed. CASE BeginResumed
  <2>1. /\ UNCHANGED <<phase, pending>> /\ live' = live
        /\ disk'[Marker] \in {live[Marker], disk[Marker]}
    BY <1>0, <1>resumed DEF BeginResumed, journal
  <2>2. CASE Refuse
    BY <2>1, <2>2, FenceKept DEF Refuse
  <2>3. CASE step' = CheckpointOf(phase) /\ todo' = todo
    <3>1. step' \in {"SPOOL", "RECONCILE", "READY"} /\ todo' \in FileScript
      BY <1>1, <1>resumed, <2>3
         DEF BeginResumed, ControlInv, JournalReadable, TypeOK, CheckpointOf
    <3>2. QED
      BY <2>1, <3>1, FenceKept
  <2>4. QED
    BY <1>resumed, <2>2, <2>3 DEF BeginResumed
<1>completed. CASE BeginCompleted
  BY <1>completed, UnfencedKept
     DEF BeginCompleted, journal, ControlInv, JournalReadable
<1>page. CASE ActivatePage
  BY <1>page, FenceKept DEF ActivatePage, files, call
<1>seal. CASE Seal
  BY <1>seal, UnfencedKept DEF Seal, FenceInv, ScriptsAvoidMarker
<1>sealed. CASE ReconcileSealed
  <2>1. phase' = "SEALED" /\ step' = "mark" /\ todo' = WriteMarker
        /\ UNCHANGED <<live, disk, pending>>
    BY <1>sealed DEF ReconcileSealed, journal, files
  <2>2. QED
    BY <2>1 DEF FenceInv, FenceIsDurable, ScriptsAvoidMarker, MarkerScript, WriteMarker
<1>activating. CASE CommitActivating
  <2>1. live[Marker] = pending /\ disk[Marker] = pending
    BY <1>activating DEF CommitActivating, FenceInv, MarkerScript
  <2>2. QED
    BY <1>activating, <2>1, RefuseScript
       DEF CommitActivating, files, FenceInv, FenceIsDurable, ScriptsAvoidMarker, MarkerScript
<1>reconcile. CASE ReconcileActivating
  <2>1. CASE Refuse
    BY <1>0, <1>reconcile, <2>1, FenceKept DEF ReconcileActivating, Refuse, journal
  <2>2. CASE step' = "reserve"
    BY <1>0, <1>reconcile, <2>2, FenceKept
       DEF ReconcileActivating, journal, Refuse, Leave, FenceInv, ScriptsAvoidMarker
  <2>3. QED
    BY <1>reconcile, <2>1, <2>2 DEF ReconcileActivating
<1>reserve. CASE ReservePendingInstalls
  BY <1>reserve, FenceKept DEF ReservePendingInstalls, files, FenceInv, ScriptsAvoidMarker
<1>install. CASE StartInstall
  <2>1. PICK p \in page : todo' = PerformPendingInstall(p)
    BY <1>install DEF StartInstall
  <2>2. todo' \in FileScript
    BY <2>1, InstallScript DEF TypeOK
  <2>3. QED
    BY <1>install, <2>2, FenceKept DEF StartInstall, journal, files
<1>installed. CASE CommitPendingInstalls
  <2>1. CASE Refuse
    BY <1>installed, <2>1, FenceKept DEF CommitPendingInstalls, Refuse, files
  <2>2. CASE step' = "RECONCILE" /\ todo' = todo
    BY <1>installed, <2>2, FenceKept
       DEF CommitPendingInstalls, files, FenceInv, ScriptsAvoidMarker
  <2>3. QED
    BY <1>installed, <2>1, <2>2 DEF CommitPendingInstalls
<1>list. CASE ListStale
  BY <1>list, FenceKept DEF ListStale, files, FenceInv, ScriptsAvoidMarker
<1>reserveStale. CASE ReservePendingRemovals
  BY <1>reserveStale, FenceKept DEF ReservePendingRemovals, files, FenceInv, ScriptsAvoidMarker
<1>remove. CASE StartRemoval
  <2>1. PICK p \in page : todo' = PerformPendingRemoval(p)
    BY <1>remove DEF StartRemoval
  <2>2. todo' \in FileScript
    BY <1>remove, <2>1, RemovalScript DEF StartRemoval, ControlInv, PagesAreDisjoint, TypeOK
  <2>3. QED
    BY <1>remove, <2>2, FenceKept DEF StartRemoval, journal, files
<1>removed. CASE CommitPendingRemovals
  <2>1. CASE Refuse
    BY <1>removed, <2>1, FenceKept DEF CommitPendingRemovals, Refuse, files
  <2>2. CASE step' = "RECONCILE" /\ todo' = todo
    BY <1>removed, <2>2, FenceKept
       DEF CommitPendingRemovals, files, FenceInv, ScriptsAvoidMarker
  <2>3. QED
    BY <1>removed, <2>1, <2>2 DEF CommitPendingRemovals
<1>finish. CASE FinishReconcile
  <2>1. CASE Refuse /\ UNCHANGED <<phase, cursor>>
    BY <1>finish, <2>1, FenceKept DEF FinishReconcile, Refuse, files
  <2>2. CASE phase' = "READY" /\ step' = "READY" /\ todo' = todo
    BY <1>finish, <2>2 DEF FinishReconcile, files, ControlInv, StepFitsPhase, FenceInv,
       FenceIsDurable, ScriptsAvoidMarker, MarkerScript
  <2>3. QED
    BY <1>finish, <2>1, <2>2 DEF FinishReconcile
<1>complete. CASE Complete
  <2>1. CASE live[Marker] # pending
    BY <1>complete, <2>1, FenceKept DEF Complete, Refuse
  <2>2. CASE live[Marker] = pending
    BY <1>complete, <2>2, UnfencedKept DEF Complete
  <2>3. QED
    BY <2>1, <2>2
<1>unmarked. CASE MarkerRemoved
  <2>1. phase' = "IDLE" /\ step' = "COMPLETE" /\ todo' = <<>>
    BY <1>unmarked DEF MarkerRemoved, journal, ControlInv, StepFitsPhase
  <2>2. QED
    BY <2>1, UnfencedKept, RefuseScript
<1>perform. CASE Works
  <2>1. CASE step = "mark"
    BY <1>perform, <2>1, MarkerScriptStep
  <2>2. CASE step \in {"unmarkBegin", "unmarkComplete"}
    <3>1. phase' = "IDLE"
      BY <1>perform, <2>2 DEF ControlInv, StepFitsPhase, Works, seen, Perform, DoRename,
         DoVerify, DoUnlink, DoCreate, DoFsync, DoCheck, DoCaptured, DoRefuse, journal
    <3>2. (step' = "out" /\ todo' = <<>>) \/ step' = step
      BY <1>perform DEF Works, seen, Perform, DoRename, DoVerify, DoUnlink, DoCreate,
         DoFsync, DoCheck, DoCaptured, DoRefuse, Proceed, Refuse, Leave
    <3>3. QED
      BY <2>2, <3>1, <3>2, UnfencedKept, RefuseScript
  <2>3. CASE step \notin {"mark", "unmarkBegin", "unmarkComplete"}
    BY <1>perform, <2>3, FileScriptStep DEF FenceInv, ScriptsAvoidMarker
  <2>4. QED
    BY <2>1, <2>2, <2>3
<1>interrupt. CASE Interrupt
  BY <1>interrupt, FenceKept DEF Interrupt, journal, files
<1>power. CASE PowerLoss
  <2>1. PICK tree \in PowerLossTrees(live, disk) : live' = tree /\ disk' = tree
    BY <1>power DEF PowerLoss
  <2>2. tree[Marker] \in {live[Marker], disk[Marker]}
    BY <1>0, PowerLossMeansEither, MarkerIsName
  <2>3. UNCHANGED <<phase, pending>> /\ step' = "out" /\ todo' = <<>>
    BY <1>power DEF PowerLoss, Leave, journal
  <2>4. QED
    BY <2>1, <2>2, <2>3, RefuseScript
       DEF FenceInv, FenceIsDurable, ScriptsAvoidMarker, MarkerScript
<1>foreign. ASSUME NEW r \in Resource, ForeignWrite(r) PROVE FenceInv'
  BY <1>0, <1>foreign, FenceKept, CurIsName, MarkerIsName DEF ForeignWrite, journal, call, Tree
<1>stutter. CASE UNCHANGED seen
  BY <1>stutter, FenceKept DEF seen, journal, files, call
<1>next. CASE Next
  BY <1>stutter, <1>next, <1>protect, <1>release, <1>issue, <1>advance, <1>finalize,
     <1>new, <1>resumed, <1>completed, <1>page, <1>seal, <1>sealed, <1>activating, <1>reconcile, <1>reserve,
     <1>install, <1>installed, <1>list, <1>reserveStale, <1>remove, <1>removed, <1>finish,
     <1>complete, <1>unmarked, <1>perform, <1>interrupt, <1>power, <1>foreign, LookIsHidden
     DEF Next, CoreNext, ActivatorNext
<1> QED
  BY <1>stutter, <1>next, LookIsHidden

-----------------------------------------------------------------------------
(* The theorems. *)

\* Inv is inductive, so it holds in every reachable state: whatever was
\* interrupted or lost, the journal, the call and the marker fit together.
THEOREM Invariance == Spec => []Inv
<1>1. Init => Inv
  BY InitTypes, InitControl, InitFence DEF Inv
<1>2. Inv /\ [Next]_vars => Inv'
  BY NextTypes, NextControl, NextFence DEF Inv, FenceInv
<1>3. QED
  BY <1>1, <1>2, PTL DEF Spec

\* Every state of the activation is well typed: no script names a file the
\* adapter does not manage and no row holds a value the schema refuses.
THEOREM TypeCorrectness == Spec => []TypeOK
BY Invariance, PTL DEF Inv

\* _journal_state never meets an impossible journal: a crash between any two
\* system calls leaves a state that begin() can resume.
THEOREM JournalIsReadable == Spec => []JournalReadable
BY Invariance, PTL DEF Inv, ControlInv

\* From the commit of ACTIVATING to the commit of complete() the marker is
\* there in memory and on disk, through every interruption and power loss.
THEOREM FenceDurability == Spec => []FenceIsDurable
BY Invariance, PTL DEF Inv, FenceInv

-----------------------------------------------------------------------------
(* Unfinished rows and the names they own. *)

\* Files of this resource may have been moved and not yet recorded.
Unfinished(r) ==
    \/ stale[r] = "started"
    \/ /\ pend[r].started /\ ~pend[r].activated
       /\ StagedTokens(r, pend[r].digest) # {}

Open(r) ==
    {Cur(r)} \cup {Quar(r, DigestOf[t]) : t \in {u \in Token : entry[r] = u}}
             \cup {Stage(t) : t \in StagedTokens(r, pend[r].digest)}

OpenNames == {n \in Name : \E r \in Resource : Unfinished(r) /\ n \in Open(r)}

\* What the adapter's rows say a name shows.
Recorded(t) == IF tok[t] = "STAGED" THEN t ELSE NoFile

DurableAtRest == \A n \in Name \ {Marker} : n \in OpenNames \/ disk[n] = live[n]

ContentsAtRest ==
    /\ \A r \in Resource : Cur(r) \in OpenNames \/ live[Cur(r)] = entry[r]
    /\ \A r \in Resource, d \in Digest :
          Quar(r, d) \in OpenNames \/ live[Quar(r, d)] = NoFile
    /\ \A t \in Token : Stage(t) \in OpenNames \/ live[Stage(t)] = Recorded(t)

AtRest == DurableAtRest /\ ContentsAtRest

\* At most one unfinished token holds a storage path (library.py 641).
OneStaged ==
    \A t, u \in Token :
        tok[t] = "STAGED" /\ tok[u] = "STAGED" /\ ResOf[t] = ResOf[u] => t = u

RowsFitPhase ==
    \A r \in Resource :
        /\ pend[r].started => Spooled(r)
        /\ pend[r].started /\ ~pend[r].activated => phase = "ACTIVATING"

-----------------------------------------------------------------------------
(* What is left of a script. *)

OpsOver(N) ==
    {op \in Op : op.do \in {"check", "fsync", "refuse"} \/ (op.src \in N /\ op.dst \in N)}

Moves(op, n) == op.do \in {"rename", "unlink"} /\ n \in {op.src, op.dst}
Empties(op, n) == op.do \in {"rename", "unlink"} /\ n = op.src
Fills(op, n) == op.do = "rename" /\ n = op.dst

Still(s, n) == \A i \in 1..Len(s) : ~Moves(s[i], n)
Unfilled(s, n) == \A i \in 1..Len(s) : ~Fills(s[i], n)
SyncsLast(s, n) ==
    \E i \in 1..Len(s) : /\ s[i].do = "fsync" /\ s[i].src = n
                         /\ \A j \in 1..Len(s) : j > i => ~Moves(s[j], n)
EmptiesLast(s, n) ==
    \E i \in 1..Len(s) : /\ Empties(s[i], n)
                         /\ \A j \in 1..Len(s) : j > i => ~Fills(s[j], n)

WillBeDurable(n) == SyncsLast(todo, n) \/ (Still(todo, n) /\ disk[n] = live[n])
WillBeEmpty(n) == EmptiesLast(todo, n) \/ (Unfilled(todo, n) /\ live[n] = NoFile)
Refuses(s) == s # <<>> /\ s[1].do = "refuse"

ScriptWithin == todo \in Seq(OpsOver(OpenNames \cup {Marker}))

\* A plan that has been started will leave its names durable, and empty but
\* for the current one, unless its script refuses.
Settles(p) ==
    Unfinished(p.res) =>
        \A n \in Open(p.res) : WillBeDurable(n) /\ (n = Cur(p.res) \/ WillBeEmpty(n))

\* A plan without staged bytes only checks that the bytes are in place.
InPlace(p) ==
    step = "install" /\ p.staged = NoFile => p.old # NoFile /\ DigestOf[p.old] = p.digest

ScriptSettles ==
    step \in {"install", "remove"} =>
        Refuses(todo) \/ \A p \in page : p.res \in left \/ (Settles(p) /\ InPlace(p))

PagesFitRows ==
    /\ step = "install" =>
          \A p \in page : /\ pend[p.res].started /\ ~pend[p.res].activated
                          /\ p.digest = pend[p.res].digest
                          /\ p.old = entry[p.res]
                          /\ p.staged = StagedCandidate(p.res, p.digest)
    /\ step = "remove" =>
          \A p \in page : /\ stale[p.res] = "started"
                          /\ p.old = entry[p.res]
                          /\ p.digest = DigestOf[p.old]
                          /\ p.staged = NoFile
    /\ step \in {"install", "remove"} => \A p, q \in page : p.res = q.res => p = q
    /\ step \notin {"mark", "install", "remove", "unmarkBegin", "unmarkComplete"} =>
          todo = <<>>

-----------------------------------------------------------------------------
(* The rows of a revision. *)

EntryDigest(r) == IF entry[r] = NoFile THEN NoDigest ELSE DigestOf[entry[r]]

RowsFitCatalog ==
    /\ phase \in {"IDLE", "OPEN", "SEALED"} => \A r \in Resource : EntryDigest(r) = shown[r]
    /\ phase = "OPEN" =>
          \A r \in Resource : pend[r].digest \in {NoDigest, pub.files[r]} /\ ~pend[r].activated
    /\ phase \in {"SEALED", "ACTIVATING", "READY"} =>
          \A r \in Resource : /\ pend[r].digest = pub.files[r]
                              /\ pend[r].activated => EntryDigest(r) = pub.files[r]
    /\ phase = "READY" => \A r \in Resource : EntryDigest(r) = pub.files[r]
    /\ pub.rev # 0 /\ head = pub.rev => shown = pub.files

ReadersInv ==
    /\ Inv
    /\ AtRest /\ OneStaged /\ RowsFitPhase
    /\ ScriptWithin /\ ScriptSettles /\ PagesFitRows
    /\ RowsFitCatalog

-----------------------------------------------------------------------------
(* Sequences of operations: what joining two scripts keeps and what the    *)
(* first operation leaves to the rest.                                     *)

LEMMA JoinedAt ==
    ASSUME NEW S, NEW s1 \in Seq(S), NEW s2 \in Seq(S), NEW i \in 1..Len(s1 \o s2)
    PROVE  /\ i <= Len(s1) => i \in 1..Len(s1) /\ (s1 \o s2)[i] = s1[i]
           /\ i > Len(s1) => i - Len(s1) \in 1..Len(s2) /\ (s1 \o s2)[i] = s2[i - Len(s1)]
OBVIOUS

LEMMA JoinedParts ==
    ASSUME NEW S, NEW s1 \in Seq(S), NEW s2 \in Seq(S)
    PROVE  /\ s1 \o s2 \in Seq(S)
           /\ Len(s1) \in Nat /\ Len(s2) \in Nat /\ Len(s1 \o s2) = Len(s1) + Len(s2)
           /\ \A i \in 1..Len(s1) : i \in 1..Len(s1 \o s2) /\ (s1 \o s2)[i] = s1[i]
           /\ \A i \in 1..Len(s2) : /\ i + Len(s1) \in 1..Len(s1 \o s2)
                                    /\ (s1 \o s2)[i + Len(s1)] = s2[i]
OBVIOUS

LEMMA JoinedStill ==
    ASSUME NEW S, NEW s1 \in Seq(S), NEW s2 \in Seq(S), NEW n
    PROVE  /\ Still(s1, n) /\ Still(s2, n) => Still(s1 \o s2, n)
           /\ Unfilled(s1, n) /\ Unfilled(s2, n) => Unfilled(s1 \o s2, n)
<1>1. ASSUME Still(s1, n), Still(s2, n), NEW i \in 1..Len(s1 \o s2)
      PROVE  ~Moves((s1 \o s2)[i], n)
  BY <1>1, JoinedAt, JoinedParts DEF Still
<1>2. ASSUME Unfilled(s1, n), Unfilled(s2, n), NEW i \in 1..Len(s1 \o s2)
      PROVE  ~Fills((s1 \o s2)[i], n)
  BY <1>2, JoinedAt, JoinedParts DEF Unfilled
<1>3. QED
  BY <1>1, <1>2 DEF Still, Unfilled

LEMMA JoinedSyncs ==
    ASSUME NEW S, NEW s1 \in Seq(S), NEW s2 \in Seq(S), NEW n
    PROVE  /\ SyncsLast(s2, n) => SyncsLast(s1 \o s2, n)
           /\ SyncsLast(s1, n) /\ Still(s2, n) => SyncsLast(s1 \o s2, n)
<1>1. ASSUME SyncsLast(s2, n) PROVE SyncsLast(s1 \o s2, n)
  <2>1. PICK i \in 1..Len(s2) : /\ s2[i].do = "fsync" /\ s2[i].src = n
                                /\ \A j \in 1..Len(s2) : j > i => ~Moves(s2[j], n)
    BY <1>1 DEF SyncsLast
  <2>2. /\ i + Len(s1) \in 1..Len(s1 \o s2)
        /\ (s1 \o s2)[i + Len(s1)] = s2[i]
    BY JoinedParts
  <2>3. ASSUME NEW j \in 1..Len(s1 \o s2), j > i + Len(s1)
        PROVE  ~Moves((s1 \o s2)[j], n)
    <3>1. j > Len(s1) /\ j - Len(s1) > i
      BY <2>3, JoinedParts
    <3>2. j - Len(s1) \in 1..Len(s2) /\ (s1 \o s2)[j] = s2[j - Len(s1)]
      BY <3>1, JoinedAt
    <3>3. QED
      BY <2>1, <3>1, <3>2
  <2>4. QED
    BY <2>1, <2>2, <2>3 DEF SyncsLast
<1>2. ASSUME SyncsLast(s1, n), Still(s2, n) PROVE SyncsLast(s1 \o s2, n)
  <2>1. PICK i \in 1..Len(s1) : /\ s1[i].do = "fsync" /\ s1[i].src = n
                                /\ \A j \in 1..Len(s1) : j > i => ~Moves(s1[j], n)
    BY <1>2 DEF SyncsLast
  <2>2. i \in 1..Len(s1 \o s2) /\ (s1 \o s2)[i] = s1[i]
    BY JoinedParts
  <2>3. ASSUME NEW j \in 1..Len(s1 \o s2), j > i PROVE ~Moves((s1 \o s2)[j], n)
    <3>1. CASE j <= Len(s1)
      BY <2>1, <2>3, <3>1, JoinedAt
    <3>2. CASE j > Len(s1)
      BY <1>2, <3>2, JoinedAt DEF Still
    <3>3. QED
      BY <3>1, <3>2, JoinedParts
  <2>4. QED
    BY <2>1, <2>2, <2>3 DEF SyncsLast
<1>3. QED
  BY <1>1, <1>2

LEMMA JoinedEmpties ==
    ASSUME NEW S, NEW s1 \in Seq(S), NEW s2 \in Seq(S), NEW n
    PROVE  /\ EmptiesLast(s2, n) => EmptiesLast(s1 \o s2, n)
           /\ EmptiesLast(s1, n) /\ Unfilled(s2, n) => EmptiesLast(s1 \o s2, n)
<1>1. ASSUME EmptiesLast(s2, n) PROVE EmptiesLast(s1 \o s2, n)
  <2>1. PICK i \in 1..Len(s2) : /\ Empties(s2[i], n)
                                /\ \A j \in 1..Len(s2) : j > i => ~Fills(s2[j], n)
    BY <1>1 DEF EmptiesLast
  <2>2. /\ i + Len(s1) \in 1..Len(s1 \o s2)
        /\ (s1 \o s2)[i + Len(s1)] = s2[i]
    BY JoinedParts
  <2>3. ASSUME NEW j \in 1..Len(s1 \o s2), j > i + Len(s1)
        PROVE  ~Fills((s1 \o s2)[j], n)
    <3>1. j > Len(s1) /\ j - Len(s1) > i
      BY <2>3, JoinedParts
    <3>2. j - Len(s1) \in 1..Len(s2) /\ (s1 \o s2)[j] = s2[j - Len(s1)]
      BY <3>1, JoinedAt
    <3>3. QED
      BY <2>1, <3>1, <3>2
  <2>4. QED
    BY <2>1, <2>2, <2>3 DEF EmptiesLast
<1>2. ASSUME EmptiesLast(s1, n), Unfilled(s2, n) PROVE EmptiesLast(s1 \o s2, n)
  <2>1. PICK i \in 1..Len(s1) : /\ Empties(s1[i], n)
                                /\ \A j \in 1..Len(s1) : j > i => ~Fills(s1[j], n)
    BY <1>2 DEF EmptiesLast
  <2>2. i \in 1..Len(s1 \o s2) /\ (s1 \o s2)[i] = s1[i]
    BY JoinedParts
  <2>3. ASSUME NEW j \in 1..Len(s1 \o s2), j > i PROVE ~Fills((s1 \o s2)[j], n)
    <3>1. CASE j <= Len(s1)
      BY <2>1, <2>3, <3>1, JoinedAt
    <3>2. CASE j > Len(s1)
      BY <1>2, <3>2, JoinedAt DEF Unfilled
    <3>3. QED
      BY <3>1, <3>2, JoinedParts
  <2>4. QED
    BY <2>1, <2>2, <2>3 DEF EmptiesLast
<1>3. QED
  BY <1>1, <1>2

LEMMA TailAt ==
    ASSUME NEW S, NEW s \in Seq(S), s # <<>>
    PROVE  /\ Head(s) \in S /\ Tail(s) \in Seq(S)
           /\ Len(s) \in Nat \ {0} /\ Len(Tail(s)) = Len(s) - 1
           /\ Head(s) = s[1]
           /\ \A i \in 1..Len(Tail(s)) : i + 1 \in 1..Len(s) /\ Tail(s)[i] = s[i + 1]
           /\ \A i \in 1..Len(s) : i # 1 => i - 1 \in 1..Len(Tail(s)) /\ Tail(s)[i - 1] = s[i]
OBVIOUS

\* What is left of a promise once the first operation is done.
LEMMA TailKeeps ==
    ASSUME NEW S, NEW s \in Seq(S), s # <<>>, NEW n
    PROVE  /\ Still(s, n) => Still(Tail(s), n) /\ ~Moves(Head(s), n)
           /\ Unfilled(s, n) => Unfilled(Tail(s), n) /\ ~Fills(Head(s), n)
           /\ SyncsLast(s, n) =>
                 \/ SyncsLast(Tail(s), n)
                 \/ Head(s).do = "fsync" /\ Head(s).src = n /\ Still(Tail(s), n)
           /\ EmptiesLast(s, n) =>
                 \/ EmptiesLast(Tail(s), n)
                 \/ Empties(Head(s), n) /\ Unfilled(Tail(s), n)
<1>1. ASSUME Still(s, n) PROVE Still(Tail(s), n) /\ ~Moves(Head(s), n)
  BY <1>1, TailAt DEF Still
<1>2. ASSUME Unfilled(s, n) PROVE Unfilled(Tail(s), n) /\ ~Fills(Head(s), n)
  BY <1>2, TailAt DEF Unfilled
<1>3. ASSUME SyncsLast(s, n)
      PROVE  \/ SyncsLast(Tail(s), n)
             \/ Head(s).do = "fsync" /\ Head(s).src = n /\ Still(Tail(s), n)
  <2>1. PICK i \in 1..Len(s) : /\ s[i].do = "fsync" /\ s[i].src = n
                               /\ \A j \in 1..Len(s) : j > i => ~Moves(s[j], n)
    BY <1>3 DEF SyncsLast
  <2>2. CASE i = 1
    <3>1. ASSUME NEW j \in 1..Len(Tail(s)) PROVE ~Moves(Tail(s)[j], n)
      BY <2>1, <2>2, TailAt
    <3>2. QED
      BY <2>1, <2>2, <3>1, TailAt DEF Still
  <2>3. CASE i # 1
    <3>1. i - 1 \in 1..Len(Tail(s)) /\ Tail(s)[i - 1] = s[i]
      BY <2>3, TailAt
    <3>2. ASSUME NEW j \in 1..Len(Tail(s)), j > i - 1 PROVE ~Moves(Tail(s)[j], n)
      BY <2>1, <3>2, TailAt
    <3>3. QED
      BY <2>1, <3>1, <3>2 DEF SyncsLast
  <2>4. QED
    BY <2>2, <2>3
<1>4. ASSUME EmptiesLast(s, n)
      PROVE  \/ EmptiesLast(Tail(s), n)
             \/ Empties(Head(s), n) /\ Unfilled(Tail(s), n)
  <2>1. PICK i \in 1..Len(s) : /\ Empties(s[i], n)
                               /\ \A j \in 1..Len(s) : j > i => ~Fills(s[j], n)
    BY <1>4 DEF EmptiesLast
  <2>2. CASE i = 1
    <3>1. ASSUME NEW j \in 1..Len(Tail(s)) PROVE ~Fills(Tail(s)[j], n)
      BY <2>1, <2>2, TailAt
    <3>2. QED
      BY <2>1, <2>2, <3>1, TailAt DEF Unfilled
  <2>3. CASE i # 1
    <3>1. i - 1 \in 1..Len(Tail(s)) /\ Tail(s)[i - 1] = s[i]
      BY <2>3, TailAt
    <3>2. ASSUME NEW j \in 1..Len(Tail(s)), j > i - 1 PROVE ~Fills(Tail(s)[j], n)
      BY <2>1, <3>2, TailAt
    <3>3. QED
      BY <2>1, <3>1, <3>2 DEF EmptiesLast
  <2>4. QED
    BY <2>2, <2>3
<1>5. QED
  BY <1>1, <1>2, <1>3, <1>4

-----------------------------------------------------------------------------
(* What each filesystem routine moves, and what it leaves durable.  The    *)
(* names it may move are a set N.                                          *)

LEMMA OpsOverTypes ==
    ASSUME NEW N, N \subseteq Name, NEW n \in N, NEW m \in N, NEW f \in Content
    PROVE  /\ RenameOp(n, m, f) \in OpsOver(N)
           /\ CheckOp(n, f) \in OpsOver(N)
           /\ CapturedOp(n, m, f) \in OpsOver(N)
           /\ UnlinkOp(n, f) \in OpsOver(N)
           /\ FsyncOp(n) \in OpsOver(N)
           /\ CreateOp(n, f) \in OpsOver(N)
           /\ RefuseOp \in OpsOver(N)
<1>1. n \in Name /\ m \in Name
  OBVIOUS
<1>2. QED
  BY <1>1, OpTypes DEF RenameOp, CheckOp, CapturedOp, UnlinkOp, FsyncOp, CreateOp,
     RefuseOp, OpsOver

LEMMA OpsOverParts ==
    ASSUME NEW N
    PROVE  /\ OpsOver(N) \subseteq Op
           /\ <<RefuseOp>> \in Seq(OpsOver(N)) /\ <<>> \in Seq(OpsOver(N))
           /\ \A n : Still(<<>>, n) /\ Unfilled(<<>>, n)
<1>1. RefuseOp \in OpsOver(N)
  BY MarkerIsName DEF RefuseOp, OpsOver, Op, Content
<1>2. QED
  BY <1>1 DEF OpsOver, Still, Unfilled

LEMMA HealSettles ==
    ASSUME NEW N, N \subseteq Name, NEW src \in N, NEW dst \in N, NEW f \in Content
    PROVE  LET s == Heal(src, dst, f)
           IN  /\ s \in Seq(OpsOver(N))
               /\ Refuses(s) \/ (SyncsLast(s, src) /\ SyncsLast(s, dst) /\ EmptiesLast(s, src))
<1>1. CASE Heal(src, dst, f) = <<RefuseOp>>
  BY <1>1, OpsOverParts DEF Refuses, RefuseOp
<1>2. CASE Heal(src, dst, f) =
            <<FsyncOp(dst), FsyncOp(src), UnlinkOp(src, f), FsyncOp(src), FsyncOp(dst)>>
  <2> DEFINE s == Heal(src, dst, f)
  <2>1. s \in Seq(OpsOver(N))
    BY <1>2, OpsOverTypes
  <2>2. /\ Len(s) = 5
        /\ s[3].do = "unlink" /\ s[3].src = src /\ s[3].dst = src
        /\ s[4].do = "fsync" /\ s[4].src = src
        /\ s[5].do = "fsync" /\ s[5].src = dst
    BY <1>2 DEF FsyncOp, UnlinkOp
  <2>3. SyncsLast(s, src)
    BY <2>2 DEF SyncsLast, Moves
  <2>4. SyncsLast(s, dst)
    BY <2>2 DEF SyncsLast, Moves
  <2>5. EmptiesLast(s, src)
    BY <2>2 DEF EmptiesLast, Empties, Fills
  <2>6. QED
    BY <2>1, <2>3, <2>4, <2>5
<1>3. QED
  BY <1>1, <1>2 DEF Heal

LEMMA QuarantineSettles ==
    ASSUME NEW N, N \subseteq Name, NEW r \in Resource, NEW q \in N, Cur(r) \in N,
           NEW old \in Token
    PROVE  LET s == QuarantineCurrent(r, q, old)
               t == FsyncRecoveredCapture(r, q)
           IN  /\ s \in Seq(OpsOver(N)) /\ SyncsLast(s, Cur(r))
               /\ t \in Seq(OpsOver(N)) /\ SyncsLast(t, Cur(r))
<1> DEFINE s == QuarantineCurrent(r, q, old)
           t == FsyncRecoveredCapture(r, q)
<1>1. s \in Seq(OpsOver(N)) /\ t \in Seq(OpsOver(N))
  BY OpsOverTypes, TokenIsContent DEF QuarantineCurrent, FsyncRecoveredCapture
<1>2. /\ Len(s) = 4
      /\ s[3].do = "fsync" /\ s[3].src = Cur(r)
      /\ s[4].do = "captured"
  BY DEF QuarantineCurrent, FsyncOp, CapturedOp
<1>3. /\ Len(t) = 2
      /\ t[2].do = "fsync" /\ t[2].src = Cur(r)
  BY DEF FsyncRecoveredCapture, FsyncOp
<1>4. SyncsLast(s, Cur(r))
  BY <1>2 DEF SyncsLast, Moves
<1>5. SyncsLast(t, Cur(r))
  BY <1>3 DEF SyncsLast, Moves
<1>6. QED
  BY <1>1, <1>4, <1>5

LEMMA MoveSettles ==
    ASSUME NEW N, N \subseteq Name, NEW r \in Resource, NEW t \in Token,
           Cur(r) \in N, Stage(t) \in N
    PROVE  LET s == MoveStageIn(r, t)
           IN  /\ s \in Seq(OpsOver(N))
               /\ SyncsLast(s, Cur(r)) /\ SyncsLast(s, Stage(t)) /\ EmptiesLast(s, Stage(t))
<1> DEFINE s == MoveStageIn(r, t)
<1>1. s \in Seq(OpsOver(N))
  BY OpsOverTypes, TokenIsContent DEF MoveStageIn
<1>2. /\ Len(s) = 4
      /\ s[1].do = "rename" /\ s[1].src = Stage(t) /\ s[1].dst = Cur(r)
      /\ s[2].do = "fsync" /\ s[2].src = Cur(r)
      /\ s[3].do = "fsync" /\ s[3].src = Stage(t)
      /\ s[4].do = "check"
  BY DEF MoveStageIn, RenameOp, FsyncOp, CheckOp
<1>3. SyncsLast(s, Cur(r))
  BY <1>2 DEF SyncsLast, Moves
<1>4. SyncsLast(s, Stage(t))
  BY <1>2 DEF SyncsLast, Moves
<1>5. EmptiesLast(s, Stage(t))
  <2>1. Empties(s[1], Stage(t)) /\ \A j \in 1..Len(s) : j > 1 => ~Fills(s[j], Stage(t))
    BY <1>2 DEF Empties, Fills
  <2>2. QED
    BY <1>2, <2>1 DEF EmptiesLast
<1>6. QED
  BY <1>1, <1>3, <1>4, <1>5

LEMMA RecoveredSettles ==
    ASSUME NEW N, N \subseteq Name, NEW p \in Plan, p.staged \in Token,
           Cur(p.res) \in N, Stage(p.staged) \in N
    PROVE  LET s == FsyncRecoveredInstall(p)
           IN  /\ s \in Seq(OpsOver(N))
               /\ SyncsLast(s, Cur(p.res)) /\ SyncsLast(s, Stage(p.staged))
               /\ Unfilled(s, Stage(p.staged))
<1> DEFINE s == FsyncRecoveredInstall(p)
<1>1. s \in Seq(OpsOver(N))
  BY OpsOverTypes, TokenIsContent DEF FsyncRecoveredInstall
<1>2. /\ Len(s) = 2
      /\ s[1].do = "fsync" /\ s[1].src = Cur(p.res)
      /\ s[2].do = "fsync" /\ s[2].src = Stage(p.staged)
  BY DEF FsyncRecoveredInstall, FsyncOp
<1>3. SyncsLast(s, Cur(p.res))
  BY <1>2 DEF SyncsLast, Moves
<1>4. SyncsLast(s, Stage(p.staged)) /\ Unfilled(s, Stage(p.staged))
  BY <1>2 DEF SyncsLast, Moves, Unfilled, Fills
<1>5. QED
  BY <1>1, <1>3, <1>4

LEMMA UnlinkSettles ==
    ASSUME NEW N, N \subseteq Name, NEW r \in Resource, NEW old \in Token,
           Quar(r, DigestOf[old]) \in N
    PROVE  LET s == UnlinkQuarantined(r, old)
               q == Quar(r, DigestOf[old])
           IN  /\ s \in Seq(OpsOver(N))
               /\ SyncsLast(s, q) /\ EmptiesLast(s, q)
               /\ \A n : n # q => Still(s, n)
               /\ \A n : Unfilled(s, n)
<1> DEFINE s == UnlinkQuarantined(r, old)
           q == Quar(r, DigestOf[old])
<1>1. s \in Seq(OpsOver(N))
  BY OpsOverTypes, TokenIsContent DEF UnlinkQuarantined
<1>2. /\ Len(s) = 2
      /\ s[1].do = "unlink" /\ s[1].src = q /\ s[1].dst = q
      /\ s[2].do = "fsync" /\ s[2].src = q
  BY DEF UnlinkQuarantined, UnlinkOp, FsyncOp
<1>3. SyncsLast(s, q)
  BY <1>2 DEF SyncsLast, Moves
<1>4. EmptiesLast(s, q)
  BY <1>2 DEF EmptiesLast, Empties, Fills
<1>5. (\A n : n # q => Still(s, n)) /\ \A n : Unfilled(s, n)
  BY <1>2 DEF Still, Unfilled, Moves, Fills
<1>6. QED
  BY <1>1, <1>3, <1>4, <1>5

-----------------------------------------------------------------------------
(* The scripts of one plan. *)

LEMMA JoinedRefuses ==
    ASSUME NEW S, NEW s1 \in Seq(S), NEW s2 \in Seq(S), Refuses(s1)
    PROVE  Refuses(s1 \o s2)
<1>1. 1 \in 1..Len(s1)
  BY DEF Refuses
<1>2. (s1 \o s2)[1] = s1[1] /\ Len(s1 \o s2) # 0
  BY <1>1, JoinedParts
<1>3. QED
  BY <1>2 DEF Refuses

LEMMA CaptureWithin ==
    ASSUME NEW N, N \subseteq Name, NEW r \in Resource, NEW old \in Token,
           Cur(r) \in N, Quar(r, DigestOf[old]) \in N
    PROVE  CaptureReplacedCurrent(r, old) \in Seq(OpsOver(N))
<1> DEFINE q == Quar(r, DigestOf[old])
<1>1. Heal(Cur(r), q, old) \in Seq(OpsOver(N))
  BY HealSettles, TokenIsContent
<1>2. /\ QuarantineCurrent(r, q, old) \in Seq(OpsOver(N))
      /\ FsyncRecoveredCapture(r, q) \in Seq(OpsOver(N))
  BY QuarantineSettles
<1>3. QED
  BY <1>1, <1>2, OpsOverParts DEF CaptureReplacedCurrent

\* The names a plan works on, and what its script does to them.
PlanNames(p) ==
    {Cur(p.res)} \cup {Quar(p.res, DigestOf[t]) : t \in {u \in Token : p.old = u}}
                 \cup {Stage(t) : t \in {u \in Token : p.staged = u}}

CurrentSettles(s, p) ==
    /\ SyncsLast(s, Cur(p.res))
    /\ p.staged # NoFile =>
          /\ SyncsLast(s, Stage(p.staged))
          /\ \/ EmptiesLast(s, Stage(p.staged))
             \/ Unfilled(s, Stage(p.staged)) /\ live[Stage(p.staged)] = NoFile

QuarantineEmptied(s, p) ==
    p.old # NoFile => /\ SyncsLast(s, Quar(p.res, DigestOf[p.old]))
                      /\ EmptiesLast(s, Quar(p.res, DigestOf[p.old]))

\* Every script of a plan ends by retiring the replaced file.
LEMMA ThenRetired ==
    ASSUME NEW N, NEW p \in Plan,
           NEW s1 \in Seq(OpsOver(N)), NEW s2 \in Seq(OpsOver(N)),
           Refuses(s1) \/ CurrentSettles(s1, p),
           QuarantineEmptied(s2, p),
           Still(s2, Cur(p.res)),
           p.staged # NoFile => Still(s2, Stage(p.staged)) /\ Unfilled(s2, Stage(p.staged))
    PROVE  /\ s1 \o s2 \in Seq(OpsOver(N))
           /\ \/ Refuses(s1 \o s2)
              \/ CurrentSettles(s1 \o s2, p) /\ QuarantineEmptied(s1 \o s2, p)
<1>1. s1 \o s2 \in Seq(OpsOver(N))
  BY JoinedParts
<1>2. CASE Refuses(s1)
  BY <1>1, <1>2, JoinedRefuses
<1>3. CASE CurrentSettles(s1, p)
  <2>1. SyncsLast(s1 \o s2, Cur(p.res))
    BY <1>3, JoinedSyncs DEF CurrentSettles
  <2>2. ASSUME p.staged # NoFile
        PROVE  /\ SyncsLast(s1 \o s2, Stage(p.staged))
               /\ \/ EmptiesLast(s1 \o s2, Stage(p.staged))
                  \/ Unfilled(s1 \o s2, Stage(p.staged)) /\ live[Stage(p.staged)] = NoFile
    BY <1>3, <2>2, JoinedSyncs, JoinedEmpties, JoinedStill DEF CurrentSettles
  <2>3. QuarantineEmptied(s1 \o s2, p)
    BY JoinedSyncs, JoinedEmpties DEF QuarantineEmptied
  <2>4. QED
    BY <1>1, <2>1, <2>2, <2>3 DEF CurrentSettles
<1>4. QED
  BY <1>2, <1>3

LEMMA RetireSettles ==
    ASSUME NEW N, N \subseteq Name, NEW p \in Plan, PlanNames(p) \subseteq N,
           p.staged \in Token
    PROVE  LET s == RetireReplacedCurrent(p)
           IN  /\ s \in Seq(OpsOver(N))
               /\ QuarantineEmptied(s, p)
               /\ Still(s, Cur(p.res))
               /\ Still(s, Stage(p.staged)) /\ Unfilled(s, Stage(p.staged))
<1>1. CASE p.old = NoFile
  BY <1>1, OpsOverParts DEF RetireReplacedCurrent, QuarantineEmptied
<1>2. CASE p.old # NoFile
  <2>1. p.old \in Token /\ p.res \in Resource
    BY <1>2 DEF Plan
  <2>2. Quar(p.res, DigestOf[p.old]) \in N
    BY <2>1 DEF PlanNames
  <2>3. Cur(p.res) # Quar(p.res, DigestOf[p.old])
        /\ Stage(p.staged) # Quar(p.res, DigestOf[p.old])
    BY DEF Cur, Quar, Stage
  <2>4. QED
    BY <1>2, <2>1, <2>2, <2>3, UnlinkSettles DEF RetireReplacedCurrent, QuarantineEmptied
<1>3. QED
  BY <1>1, <1>2

LEMMA CaptureThenMoveSettles ==
    ASSUME NEW N, N \subseteq Name, NEW p \in Plan, PlanNames(p) \subseteq N,
           p.staged \in Token
    PROVE  LET s == CaptureThenMoveIn(p)
           IN  s \in Seq(OpsOver(N)) /\ CurrentSettles(s, p)
<1> DEFINE m == MoveStageIn(p.res, p.staged)
<1>0. p.res \in Resource /\ p.old \in Token \cup {NoFile}
      /\ Cur(p.res) \in N /\ Stage(p.staged) \in N
  BY DEF Plan, PlanNames
<1>1. /\ m \in Seq(OpsOver(N))
      /\ SyncsLast(m, Cur(p.res)) /\ SyncsLast(m, Stage(p.staged))
      /\ EmptiesLast(m, Stage(p.staged))
  BY <1>0, MoveSettles
<1>2. CASE p.old = NoFile
  BY <1>1, <1>2 DEF CaptureThenMoveIn, CurrentSettles
<1>3. CASE p.old # NoFile
  <2>1. Quar(p.res, DigestOf[p.old]) \in N
    BY <1>0, <1>3 DEF PlanNames
  <2> DEFINE c == CaptureReplacedCurrent(p.res, p.old)
  <2>2. c \in Seq(OpsOver(N))
    BY <1>0, <1>3, <2>1, CaptureWithin
  <2>3. CaptureThenMoveIn(p) = c \o m
    BY <1>3 DEF CaptureThenMoveIn
  <2> HIDE DEF c, m
  <2>4. QED
    BY <1>1, <2>2, <2>3, JoinedParts, JoinedSyncs, JoinedEmpties DEF CurrentSettles
<1>4. QED
  BY <1>2, <1>3

LEMMA InstallSettles ==
    ASSUME NEW N, N \subseteq Name, NEW p \in Plan, PlanNames(p) \subseteq N,
           p.staged \in Token
    PROVE  LET s == PerformPendingInstall(p)
           IN  /\ s \in Seq(OpsOver(N))
               /\ Refuses(s) \/ (CurrentSettles(s, p) /\ QuarantineEmptied(s, p))
<1> DEFINE retire == RetireReplacedCurrent(p)
           Good(s) == s \in Seq(OpsOver(N)) /\ (Refuses(s) \/ CurrentSettles(s, p))
<1>0. /\ p.res \in Resource /\ p.old \in Token \cup {NoFile} /\ p.fresh \in BOOLEAN
      /\ Cur(p.res) \in N /\ Stage(p.staged) \in N /\ p.staged # NoFile
  BY FactsAssumption DEF Plan, PlanNames
<1>1. /\ retire \in Seq(OpsOver(N)) /\ QuarantineEmptied(retire, p)
      /\ Still(retire, Cur(p.res)) /\ Still(retire, Stage(p.staged))
      /\ Unfilled(retire, Stage(p.staged))
  BY RetireSettles
<1>2. Good(CaptureThenMoveIn(p))
  BY CaptureThenMoveSettles
<1>3. Good(<<RefuseOp>>)
  BY OpsOverParts DEF Refuses, RefuseOp
<1>4. Good(InstallFreshStaged(p))
  BY <1>2, <1>3 DEF InstallFreshStaged
<1>5. Good(InstallReplayed(p))
  <2>1. Good(Heal(Stage(p.staged), Cur(p.res), p.staged))
    BY <1>0, HealSettles, TokenIsContent DEF CurrentSettles
  <2>2. live[Stage(p.staged)] = NoFile => Good(FsyncRecoveredInstall(p))
    BY <1>0, RecoveredSettles DEF CurrentSettles
  <2>3. QED
    BY <1>2, <1>3, <2>1, <2>2 DEF InstallReplayed
<1>6. PICK s1 \in Seq(OpsOver(N)) : /\ PerformPendingInstall(p) = s1 \o retire
                                    /\ Refuses(s1) \/ CurrentSettles(s1, p)
  <2>1. CASE p.fresh
    <3>1. PerformPendingInstall(p) = InstallFreshStaged(p) \o retire
      BY <1>0, <2>1 DEF PerformPendingInstall
    <3>2. QED
      BY <1>4, <3>1
  <2>2. CASE ~p.fresh
    <3>1. PerformPendingInstall(p) = InstallReplayed(p) \o retire
      BY <1>0, <2>2 DEF PerformPendingInstall
    <3>2. QED
      BY <1>5, <3>1
  <2>3. QED
    BY <2>1, <2>2
<1> HIDE DEF retire, Good
<1>7. QED
  BY <1>0, <1>1, <1>6, ThenRetired

LEMMA RemovalSettles ==
    ASSUME NEW N, N \subseteq Name, NEW p \in Plan, PlanNames(p) \subseteq N,
           p.old \in Token, p.staged = NoFile, p.digest = DigestOf[p.old]
    PROVE  LET s == PerformPendingRemoval(p)
           IN  /\ s \in Seq(OpsOver(N))
               /\ Refuses(s) \/ (CurrentSettles(s, p) /\ QuarantineEmptied(s, p))
<1> DEFINE q == Quar(p.res, p.digest)
           retire == UnlinkQuarantined(p.res, p.old)
           Good(s) == s \in Seq(OpsOver(N)) /\ (Refuses(s) \/ CurrentSettles(s, p))
           Ends(s) == s \in Seq(OpsOver(N)) /\
                      (Refuses(s) \/ (CurrentSettles(s, p) /\ QuarantineEmptied(s, p)))
           heal == Heal(Cur(p.res), q, p.old)
           sync == FsyncRecoveredCapture(p.res, q)
           move == QuarantineCurrent(p.res, q, p.old)
<1>0. /\ p.res \in Resource /\ p.old # NoFile
      /\ Cur(p.res) \in N /\ q \in N /\ Cur(p.res) # q
  BY FactsAssumption DEF Plan, PlanNames, Cur, Quar
<1>1. /\ retire \in Seq(OpsOver(N)) /\ QuarantineEmptied(retire, p)
      /\ Still(retire, Cur(p.res))
  BY <1>0, UnlinkSettles DEF QuarantineEmptied
<1>2. Good(move) /\ Good(sync)
  BY <1>0, QuarantineSettles DEF CurrentSettles
<1>3. heal \in Seq(OpsOver(N))
  BY <1>0, HealSettles, TokenIsContent
<1>4. Ends(<<RefuseOp>>)
  BY OpsOverParts DEF Refuses, RefuseOp
<1>5. Ends(move \o retire) /\ Ends(sync \o retire)
  <2> HIDE DEF move, sync, retire
  <2>1. QED
    BY <1>1, <1>2, ThenRetired
<1>6. Ends(heal \o sync \o retire)
  <2> HIDE DEF heal, sync, retire
  <2>1. Good(heal \o sync)
    <3>1. CASE Refuses(sync)
      BY <1>2, <1>3, <3>1, JoinedParts, JoinedRefuses DEF FsyncRecoveredCapture, FsyncOp, Refuses, sync
    <3>2. CASE CurrentSettles(sync, p)
      BY <1>2, <1>3, <3>2, JoinedParts, JoinedSyncs DEF CurrentSettles
    <3>3. QED
      BY <1>2, <3>1, <3>2
  <2>2. QED
    BY <1>1, <2>1, ThenRetired
<1>7. PerformPendingRemoval(p) \in {<<RefuseOp>>, move \o retire, sync \o retire,
                                    heal \o sync \o retire}
  BY DEF PerformPendingRemoval
<1> HIDE DEF heal, sync, move, retire, Ends
<1>8. Ends(PerformPendingRemoval(p))
  BY <1>4, <1>5, <1>6, <1>7
<1>9. QED
  BY <1>8 DEF Ends

-----------------------------------------------------------------------------
(* Open names. *)

LEMMA NamesDiffer ==
    /\ \A r : \A q : Cur(r) = Cur(q) => r = q
    /\ \A r, d : \A q, e : Quar(r, d) = Quar(q, e) => r = q /\ d = e
    /\ \A t : \A u : Stage(t) = Stage(u) => t = u
    /\ \A r, d, t : Cur(r) # Quar(r, d) /\ Cur(r) # Stage(t) /\ Quar(r, d) # Stage(t)
    /\ \A r, d, t, q : Cur(q) # Quar(r, d) /\ Cur(q) # Stage(t) /\ Quar(r, d) # Stage(t)
BY DEF Cur, Quar, Stage

LEMMA OpenIsNames ==
    ASSUME NEW r \in Resource
    PROVE  Open(r) \subseteq Name \ {Marker}
<1>1. \A t \in StagedTokens(r, pend[r].digest) : t \in Token
  BY DEF StagedTokens
<1>2. QED
  BY <1>1, RoutineNames, CurIsName, QuarIsName, StageIsName DEF Open

LEMMA OpenMeans ==
    /\ OpenNames \subseteq Name \ {Marker}
    /\ \A r \in Resource : Unfinished(r) => Open(r) \subseteq OpenNames
    /\ \A r \in Resource : Cur(r) \in OpenNames <=> Unfinished(r)
    /\ \A r \in Resource, d \in Digest :
          Quar(r, d) \in OpenNames <=>
              Unfinished(r) /\ \E t \in Token : entry[r] = t /\ DigestOf[t] = d
    /\ \A t \in Token :
          Stage(t) \in OpenNames <=>
              /\ Unfinished(ResOf[t])
              /\ t \in StagedTokens(ResOf[t], pend[ResOf[t]].digest)
<1>1. OpenNames \subseteq Name \ {Marker}
  BY OpenIsNames DEF OpenNames
<1>2. \A r \in Resource : Unfinished(r) => Open(r) \subseteq OpenNames
  BY OpenIsNames DEF OpenNames
<1>3. ASSUME NEW r \in Resource PROVE Cur(r) \in OpenNames <=> Unfinished(r)
  <2>1. Cur(r) \in Open(r)
    BY DEF Open
  <2>2. ASSUME NEW q \in Resource, Cur(r) \in Open(q) PROVE q = r
    BY <2>2, NamesDiffer DEF Open
  <2>3. QED
    BY <1>2, <2>1, <2>2 DEF OpenNames
<1>4. ASSUME NEW r \in Resource, NEW d \in Digest
      PROVE  Quar(r, d) \in OpenNames <=>
                 Unfinished(r) /\ \E t \in Token : entry[r] = t /\ DigestOf[t] = d
  <2>1. ASSUME NEW t \in Token, entry[r] = t, DigestOf[t] = d PROVE Quar(r, d) \in Open(r)
    BY <2>1 DEF Open
  <2>2. ASSUME NEW q \in Resource, Quar(r, d) \in Open(q)
        PROVE  q = r /\ \E t \in Token : entry[r] = t /\ DigestOf[t] = d
    BY <2>2, NamesDiffer DEF Open
  <2>3. QED
    BY <1>2, <2>1, <2>2 DEF OpenNames
<1>5. ASSUME NEW t \in Token
      PROVE  Stage(t) \in OpenNames <=>
                 /\ Unfinished(ResOf[t])
                 /\ t \in StagedTokens(ResOf[t], pend[ResOf[t]].digest)
  <2>1. ResOf[t] \in Resource
    BY FactsAssumption
  <2>2. t \in StagedTokens(ResOf[t], pend[ResOf[t]].digest) => Stage(t) \in Open(ResOf[t])
    BY DEF Open
  <2>3. ASSUME NEW q \in Resource, Stage(t) \in Open(q)
        PROVE  q = ResOf[t] /\ t \in StagedTokens(ResOf[t], pend[ResOf[t]].digest)
    <3>1. t \in StagedTokens(q, pend[q].digest)
      BY <2>3, NamesDiffer DEF Open
    <3>2. QED
      BY <3>1 DEF StagedTokens
  <2>4. QED
    BY <1>2, <2>1, <2>2, <2>3 DEF OpenNames
<1>6. QED
  BY <1>1, <1>2, <1>3, <1>4, <1>5

LEMMA OpenDisjoint ==
    ASSUME NEW r \in Resource, NEW q \in Resource, r # q
    PROVE  Open(r) \cap Open(q) = {}
<1>1. ASSUME NEW t \in StagedTokens(r, pend[r].digest), NEW u \in StagedTokens(q, pend[q].digest)
      PROVE  t # u
  BY <1>1 DEF StagedTokens
<1>2. QED
  BY <1>1, NamesDiffer DEF Open

\* As long as no row is finished, its names stay open.
LEMMA OpenGrows ==
    ASSUME UNCHANGED <<entry, tok>>,
           \A r \in Resource : Unfinished(r) => Unfinished(r)' /\ pend'[r].digest = pend[r].digest
    PROVE  OpenNames \subseteq OpenNames'
BY DEF OpenNames, Open, StagedTokens

LEMMA OpenUnchanged ==
    ASSUME UNCHANGED <<entry, tok, pend, stale>>
    PROVE  /\ OpenNames' = OpenNames
           /\ \A r : Unfinished(r)' = Unfinished(r) /\ Open(r)' = Open(r)
BY DEF OpenNames, Open, Unfinished, StagedTokens

\* Steps that change files change only open ones, or the marker.
LEMMA RestKept ==
    ASSUME AtRest, UNCHANGED <<entry, tok>>, OpenNames \subseteq OpenNames',
           \A n \in Name \ {Marker} :
               n \in OpenNames \/ (live'[n] = live[n] /\ disk'[n] \in {live[n], disk[n]})
    PROVE  AtRest'
<1>1. DurableAtRest'
  BY DEF AtRest, DurableAtRest
<1>2. ContentsAtRest'
  <2>1. ASSUME NEW n \in Name \ {Marker}, n \notin OpenNames'
        PROVE  n \notin OpenNames /\ live'[n] = live[n]
    BY <2>1
  <2>2. \A r \in Resource : Cur(r)' \in OpenNames' \/ live'[Cur(r)'] = entry'[r]
    BY <2>1, CurIsName DEF AtRest, ContentsAtRest, Cur
  <2>3. \A r \in Resource, d \in Digest : Quar(r, d)' \in OpenNames' \/ live'[Quar(r, d)'] = NoFile
    BY <2>1, QuarIsName DEF AtRest, ContentsAtRest, Quar
  <2>4. \A t \in Token : Stage(t)' \in OpenNames' \/ live'[Stage(t)'] = Recorded(t)'
    BY <2>1, StageIsName DEF AtRest, ContentsAtRest, Stage, Recorded
  <2>5. QED
    BY <2>2, <2>3, <2>4 DEF ContentsAtRest
<1>3. QED
  BY <1>1, <1>2 DEF AtRest

-----------------------------------------------------------------------------
(* One operation of a script. *)

LEMMA PerformParts ==
    ASSUME TypeOK, Works
    PROVE  /\ todo # <<>>
           /\ UNCHANGED <<journal, catalog, faults>>
           /\ \/ Refuse
              \/ /\ Proceed
                 /\ \/ NextOp.do = "fsync" /\ live' = live
                       /\ disk' = Synced(live, disk, NextOp.src)
                    \/ NextOp.do \in {"check", "captured"} /\ UNCHANGED <<live, disk>>
                    \/ NextOp.do = "rename" /\ disk' = disk
                       /\ live' = Renamed(live, NextOp.src, NextOp.dst)
                    \/ NextOp.do = "unlink" /\ disk' = disk
                       /\ live' = Unlinked(live, NextOp.src)
                    \/ NextOp.do = "create" /\ disk' = disk
                       /\ live' = Created(live, NextOp.src, NextOp.file)
<1>1. CASE DoVerify
  <2>1. NextOp.do = "unlink" /\ todo # <<>> /\ UNCHANGED <<journal, files, catalog, faults>>
    BY <1>1 DEF DoVerify, Doing
  <2>2. Refuse \/ (Proceed /\ live[NextOp.src] = NoFile)
    BY <1>1 DEF DoVerify, Works, seen
  <2>3. live[NextOp.src] = NoFile => Unlinked(live, NextOp.src) = live
    BY DEF TypeOK, Unlinked
  <2>4. QED
    BY <2>1, <2>2, <2>3 DEF files
<1>2. CASE Perform /\ ~DoVerify
  BY <1>2 DEF Perform, DoRename, DoUnlink, DoCreate, DoFsync, DoCheck, DoCaptured, DoRefuse,
     Doing, files
<1>3. QED
  BY <1>1, <1>2 DEF Works

\* A name that the operation does not name keeps its file, and becomes
\* durable at most.
LEMMA PerformOthers ==
    ASSUME TypeOK, Works, NEW n \in Name,
           NextOp.do \in {"check", "fsync", "refuse"} \/ n \notin {NextOp.src, NextOp.dst}
    PROVE  live'[n] = live[n] /\ disk'[n] \in {live[n], disk[n]}
<1>0. /\ live \in Tree /\ disk \in Tree /\ todo # <<>>
      /\ NextOp.src \in Name /\ NextOp.dst \in Name
  BY PerformParts, NextOpIsTyped DEF TypeOK, Tree
<1>1. CASE DoRename
  BY <1>0, <1>1 DEF DoRename, Doing, Renamed, Tree
<1>2. CASE DoUnlink
  BY <1>0, <1>2 DEF DoUnlink, Doing, Unlinked, Tree
<1>3. CASE DoCreate
  BY <1>0, <1>3 DEF DoCreate, Doing, Created, Tree
<1>4. CASE DoFsync
  BY <1>0, <1>4, SyncedMeansEither DEF DoFsync
<1>5. CASE DoVerify \/ DoCheck \/ DoRefuse
  BY <1>5 DEF DoVerify, DoCheck, DoRefuse, files
<1>6. CASE DoCaptured
  <2>1. CASE UNCHANGED files
    BY <2>1 DEF files
  <2>2. CASE disk' = Synced(live', Synced(live', disk, NextOp.dst), NextOp.src)
    <3>1. live' \in Tree /\ live'[n] = live[n]
      BY <1>0, <1>6, TreeOps DEF DoCaptured, Doing, Renamed, Tree, files, Content
    <3>2. /\ Synced(live', disk, NextOp.dst) \in Tree
          /\ Synced(live', disk, NextOp.dst)[n] \in {live'[n], disk[n]}
      BY <1>0, <3>1, TreeOps, SyncedMeansEither DEF Content
    <3>3. disk'[n] \in {live'[n], Synced(live', disk, NextOp.dst)[n]}
      BY <1>0, <2>2, <3>1, <3>2, SyncedMeansEither
    <3>4. QED
      BY <3>1, <3>2, <3>3
  <2>3. QED
    BY <1>6, <2>1, <2>2 DEF DoCaptured
<1>7. QED
  BY <1>1, <1>2, <1>3, <1>4, <1>5, <1>6 DEF Works, Perform

LEMMA PerformRests ==
    ASSUME TypeOK, AtRest, ScriptWithin, Works
    PROVE  AtRest' /\ ScriptWithin' /\ OpenNames' = OpenNames
<1>1. UNCHANGED <<entry, tok, pend, stale>> /\ todo # <<>>
  BY PerformParts DEF journal
<1>2. OpenNames' = OpenNames
  BY <1>1, OpenUnchanged
<1>3. NextOp \in OpsOver(OpenNames \cup {Marker})
      /\ Tail(todo) \in Seq(OpsOver(OpenNames \cup {Marker}))
  BY <1>1, HeadTailProperties DEF ScriptWithin, NextOp
<1>4. ASSUME NEW n \in Name \ {Marker}, n \notin OpenNames
      PROVE  live'[n] = live[n] /\ disk'[n] \in {live[n], disk[n]}
  BY <1>3, <1>4, PerformOthers DEF OpsOver
<1>5. AtRest'
  BY <1>1, <1>2, <1>4, RestKept
<1>6. todo' \in {Tail(todo), <<>>}
  BY PerformParts DEF Refuse, Leave, Proceed
<1>7. ScriptWithin'
  BY <1>2, <1>3, <1>6, OpsOverParts DEF ScriptWithin, Marker
<1>8. QED
  BY <1>2, <1>5, <1>7

\* What an operation leaves of the promise for one name.
LEMMA PerformSettles ==
    ASSUME TypeOK, Works, Proceed, step # "out", NextOp.do # "create", NEW n \in Name
    PROVE  /\ WillBeDurable(n) => WillBeDurable(n)'
           /\ WillBeEmpty(n) => WillBeEmpty(n)'
<1>0. /\ live \in Tree /\ disk \in Tree /\ todo # <<>> /\ todo \in Seq(Op) /\ todo' = Tail(todo)
      /\ NextOp.src \in Name /\ NextOp.dst \in Name /\ NextOp = Head(todo)
  BY PerformParts, NextOpIsTyped DEF TypeOK, Tree, Proceed, NextOp
<1>1. ASSUME ~Moves(NextOp, n)
      PROVE  live'[n] = live[n]
  BY <1>0, <1>1, PerformParts DEF Moves, Renamed, Unlinked, Tree, Refuse, Leave, Proceed
<1>2. ASSUME NextOp.do = "fsync", NextOp.src = n PROVE disk'[n] = live[n] /\ live'[n] = live[n]
  BY <1>0, <1>2, SyncedMeansEither DEF Works, seen, Perform, DoRename, DoVerify, DoUnlink,
     DoCreate, DoFsync, DoCheck, DoCaptured, DoRefuse, Doing
<1>3. ASSUME ~Moves(NextOp, n), disk[n] = live[n] PROVE disk'[n] = live'[n]
  <2>1. CASE NextOp.do \in {"rename", "unlink", "check", "fsync", "refuse"}
    BY <1>1, <1>3, <2>1, PerformOthers DEF Moves
  <2>2. CASE NextOp.do = "captured"
    BY <1>0, <1>3, <2>2, PerformParts DEF Refuse, Leave, Proceed, DoCaptured, Works, seen,
       Perform, DoRename, DoVerify, DoUnlink, DoCreate, DoFsync, DoCheck, DoRefuse, Doing, files
  <2>3. QED
    BY <1>0, <2>1, <2>2, NextOpIsTyped DEF Op
<1>4. ASSUME Empties(NextOp, n) \/ (~Fills(NextOp, n) /\ live[n] = NoFile)
      PROVE  live'[n] = NoFile
  BY <1>0, <1>4, PerformParts
     DEF Empties, Fills, Renamed, Unlinked, Tree, Refuse, Leave, Proceed
<1>5. ASSUME WillBeDurable(n) PROVE WillBeDurable(n)'
  <2>1. CASE SyncsLast(todo, n)
    BY <1>0, <1>2, <2>1, TailKeeps DEF WillBeDurable
  <2>2. CASE Still(todo, n) /\ disk[n] = live[n]
    BY <1>0, <1>3, <2>2, TailKeeps DEF WillBeDurable
  <2>3. QED
    BY <1>5, <2>1, <2>2 DEF WillBeDurable
<1>6. ASSUME WillBeEmpty(n) PROVE WillBeEmpty(n)'
  <2>1. CASE EmptiesLast(todo, n)
    BY <1>0, <1>4, <2>1, TailKeeps DEF WillBeEmpty
  <2>2. CASE Unfilled(todo, n) /\ live[n] = NoFile
    BY <1>0, <1>4, <2>2, TailKeeps DEF WillBeEmpty
  <2>3. QED
    BY <1>6, <2>1, <2>2 DEF WillBeEmpty
<1>7. QED
  BY <1>5, <1>6

-----------------------------------------------------------------------------
(* Every action keeps the rows in step with the journal and the catalog.   *)

LEMMA OneStagedKept ==
    ASSUME OneStaged, \A t \in Token : tok'[t] = "STAGED" => tok[t] = "STAGED"
    PROVE  OneStaged'
BY DEF OneStaged

LEMMA NextOneStaged ==
    ASSUME TypeOK, OneStaged, [Next]_vars
    PROVE  OneStaged'
<1>protect. ASSUME NEW t \in Token, Protect(t) PROVE OneStaged'
  BY <1>protect DEF Protect, OneStaged, TypeOK
<1>release. ASSUME NEW t \in Token, Release(t) PROVE OneStaged'
  BY <1>release, OneStagedKept DEF Release, TypeOK
<1>installed. CASE CommitPendingInstalls
  BY <1>installed, OneStagedKept DEF CommitPendingInstalls, TypeOK
<1>same. ASSUME UNCHANGED tok PROVE OneStaged'
  BY <1>same, OneStagedKept
<1>perform. CASE Works
  BY <1>perform, <1>same, PerformParts DEF journal
<1>foreign. ASSUME NEW r \in Resource, ForeignWrite(r) PROVE OneStaged'
  BY <1>foreign, <1>same DEF ForeignWrite, journal
<1>1. CASE (\E m \in Manifest : Issue(m)) \/ AdvanceHead \/ Finalize \/ BeginNew \/ BeginResumed
           \/ BeginCompleted \/ ActivatePage \/ Seal \/ ReconcileSealed \/ CommitActivating
  BY <1>1, <1>same DEF Issue, AdvanceHead, Finalize, BeginNew, BeginResumed, BeginCompleted,
     ActivatePage, Seal, ReconcileSealed, CommitActivating, journal
<1>2. CASE ReconcileActivating \/ ReservePendingInstalls \/ StartInstall \/ ListStale
           \/ ReservePendingRemovals \/ StartRemoval \/ CommitPendingRemovals \/ FinishReconcile
           \/ Complete \/ MarkerRemoved \/ Interrupt \/ PowerLoss \/ UNCHANGED seen
  BY <1>2, <1>same DEF ReconcileActivating, ReservePendingInstalls, StartInstall, ListStale,
     ReservePendingRemovals, StartRemoval, CommitPendingRemovals, FinishReconcile,
     Complete, MarkerRemoved, Interrupt, PowerLoss, seen, journal
<1>3. QED
  BY <1>protect, <1>release, <1>installed, <1>perform, <1>foreign, <1>1, <1>2, LookIsHidden
     DEF Next, CoreNext, ActivatorNext

LEMMA RowsFitKept ==
    ASSUME RowsFitPhase, UNCHANGED pend,
           \/ phase' = phase
           \/ phase # "ACTIVATING"
           \/ phase' = "ACTIVATING"
    PROVE  RowsFitPhase'
BY DEF RowsFitPhase, Spooled

LEMMA NextRowsFitPhase ==
    ASSUME TypeOK, ControlInv, RowsFitPhase, [Next]_vars
    PROVE  RowsFitPhase'
<1>new. CASE BeginNew
  BY <1>new, RowsFitKept DEF BeginNew, Refuse, journal, RowsFitPhase, EmptyRows, NoRow, Spooled
<1>page. CASE ActivatePage
  BY <1>page DEF ActivatePage, RowsFitPhase, NoRow, Spooled
<1>seal. CASE Seal \/ CommitActivating
  BY <1>seal, RowsFitKept DEF Seal, CommitActivating
<1>reserve. CASE ReservePendingInstalls
  <2>1. FirstPage(Uninstalled) \subseteq {r \in Resource : Spooled(r)}
    BY FirstPageIsPart DEF Uninstalled
  <2>2. phase = "ACTIVATING" /\ phase' = phase
    BY <1>reserve DEF ReservePendingInstalls, ControlInv, StepFitsPhase
  <2>3. ASSUME NEW r \in Resource
        PROVE  /\ pend'[r].started => Spooled(r)'
               /\ pend'[r].started /\ ~pend'[r].activated => phase' = "ACTIVATING"
    BY <1>reserve, <2>1, <2>2 DEF ReservePendingInstalls, RowsFitPhase, Spooled, TypeOK, PendRow
  <2>4. QED
    BY <2>3 DEF RowsFitPhase
<1>installed. CASE CommitPendingInstalls
  <2>1. UNCHANGED phase
    BY <1>installed DEF CommitPendingInstalls
  <2>2. ASSUME NEW r \in Resource
        PROVE  pend'[r] \in {pend[r], [pend[r] EXCEPT !.activated = TRUE]}
    BY <1>installed DEF CommitPendingInstalls, TypeOK
  <2>3. ASSUME NEW r \in Resource
        PROVE  /\ pend'[r].digest = pend[r].digest
               /\ pend'[r].started = pend[r].started
               /\ ~pend'[r].activated => ~pend[r].activated
    BY <2>2 DEF TypeOK, PendRow
  <2>4. QED
    BY <2>1, <2>3 DEF RowsFitPhase, Spooled
<1>finish. CASE FinishReconcile
  <2>1. CASE Refuse
    BY <1>finish, <2>1, RowsFitKept DEF FinishReconcile, Refuse, Leave
  <2>2. CASE Uninstalled = {}
    BY <1>finish, <2>2 DEF FinishReconcile, Uninstalled, RowsFitPhase, Spooled
  <2>3. QED
    BY <1>finish, <2>1, <2>2 DEF FinishReconcile
<1>complete. CASE Complete
  <2>1. phase = "READY"
    BY <1>complete DEF Complete, ControlInv, StepFitsPhase
  <2>2. QED
    BY <1>complete, <2>1, RowsFitKept DEF Complete
<1>same. ASSUME UNCHANGED <<pend, phase>> PROVE RowsFitPhase'
  BY <1>same, RowsFitKept
<1>perform. CASE Works
  BY <1>perform, <1>same, PerformParts DEF journal
<1>foreign. ASSUME NEW r \in Resource, ForeignWrite(r) PROVE RowsFitPhase'
  BY <1>foreign, <1>same DEF ForeignWrite, journal
<1>token. ASSUME NEW t \in Token, Protect(t) \/ Release(t) PROVE RowsFitPhase'
  BY <1>token, <1>same DEF Protect, Release
<1>1. CASE (\E m \in Manifest : Issue(m)) \/ AdvanceHead \/ Finalize \/ BeginResumed
           \/ BeginCompleted \/ ReconcileSealed
  BY <1>1, <1>same DEF Issue, AdvanceHead, Finalize, BeginResumed, BeginCompleted,
     ReconcileSealed, journal
<1>2. CASE ReconcileActivating \/ StartInstall \/ ListStale
           \/ ReservePendingRemovals \/ StartRemoval \/ CommitPendingRemovals
           \/ MarkerRemoved \/ Interrupt \/ PowerLoss \/ UNCHANGED seen
  BY <1>2, <1>same DEF ReconcileActivating, StartInstall, ListStale,
     ReservePendingRemovals, StartRemoval, CommitPendingRemovals,
     MarkerRemoved, Interrupt, PowerLoss, seen, journal
<1>3. QED
  BY <1>token, <1>new, <1>page, <1>seal, <1>reserve, <1>installed, <1>finish, <1>complete,
     <1>perform, <1>foreign, <1>1, <1>2, LookIsHidden
     DEF Next, CoreNext, ActivatorNext

\* What a plan of a page binds is what its row asks for.
LEMMA PlanBinds ==
    ASSUME TypeOK, PagesFitRows, step = "install", NEW p \in page
    PROVE  /\ p.res \in Resource
           /\ p.staged # NoFile => /\ p.staged \in StagedTokens(p.res, pend[p.res].digest)
                                   /\ p.staged \in Token
                                   /\ DigestOf[p.staged] = pend[p.res].digest
           /\ p.staged = NoFile => StagedTokens(p.res, pend[p.res].digest) = {}
<1>1. p.res \in Resource /\ p.staged = StagedCandidate(p.res, pend[p.res].digest)
  BY DEF TypeOK, Plan, PagesFitRows
<1>2. NoFile \notin Token
  BY FactsAssumption
<1>3. CASE StagedTokens(p.res, pend[p.res].digest) = {}
  BY <1>1, <1>2, <1>3 DEF StagedCandidate
<1>4. CASE StagedTokens(p.res, pend[p.res].digest) # {}
  <2>1. p.staged \in StagedTokens(p.res, pend[p.res].digest)
    BY <1>1, <1>4 DEF StagedCandidate
  <2>2. QED
    BY <1>1, <1>2, <1>4, <2>1 DEF StagedTokens
<1>5. QED
  BY <1>3, <1>4

LEMMA CatalogKept ==
    ASSUME RowsFitCatalog, UNCHANGED <<phase, entry, pend, pub, head, shown>>
    PROVE  RowsFitCatalog'
BY DEF RowsFitCatalog, EntryDigest

LEMMA NextRowsFitCatalog ==
    ASSUME TypeOK, ControlInv, RowsFitCatalog, PagesFitRows, ScriptSettles, [Next]_vars
    PROVE  RowsFitCatalog'
<1> USE DEF EntryDigest
<1>issue. ASSUME NEW m \in Manifest, Issue(m) PROVE RowsFitCatalog'
  <2>1. phase = "IDLE"
    BY <1>issue DEF Issue, NoPublication, ControlInv, PendingIsIssued, JournalReadable
  <2>2. head \in Nat /\ pub'.rev = head + 1
    BY <1>issue, FactsAssumption DEF Issue, TypeOK
  <2>3. UNCHANGED <<phase, entry, pend, head, shown>>
    BY <1>issue DEF Issue, journal
  <2>4. QED
    BY <2>1, <2>2, <2>3 DEF RowsFitCatalog
<1>advance. CASE AdvanceHead
  <2>1. phase = "READY"
    BY <1>advance DEF AdvanceHead, ControlInv, StepFitsPhase
  <2>2. QED
    BY <1>advance, <2>1 DEF AdvanceHead, RowsFitCatalog, journal
<1>finalize. CASE Finalize
  <2>1. phase = "IDLE"
    BY <1>finalize DEF Finalize, ControlInv, StepFitsPhase
  <2>2. QED
    BY <1>finalize, <2>1 DEF Finalize, RowsFitCatalog, journal, NoPublication
<1>new. CASE BeginNew
  <2>1. CASE Refuse /\ UNCHANGED journal
    BY <1>new, <2>1, CatalogKept DEF BeginNew, journal, catalog
  <2>2. CASE phase' = "OPEN" /\ pend' = EmptyRows
    <3>1. phase = "IDLE"
      BY <1>new DEF BeginNew, ControlInv, JournalReadable
    <3>2. UNCHANGED <<entry, shown, pub, head>>
      BY <1>new DEF BeginNew, catalog, journal
    <3>3. QED
      BY <2>2, <3>1, <3>2 DEF RowsFitCatalog, EmptyRows, NoRow
  <2>3. QED
    BY <1>new, <2>1, <2>2 DEF BeginNew
<1>page. CASE ActivatePage
  <2>1. ASSUME NEW r \in Resource
        PROVE  pend'[r].digest \in {NoDigest, pub.files[r]} /\ ~pend'[r].activated
    BY <1>page, <2>1 DEF ActivatePage, RowsFitCatalog, NoRow
  <2>2. phase = "OPEN" /\ UNCHANGED <<phase, entry, shown, pub, head>>
    BY <1>page DEF ActivatePage, catalog
  <2>3. QED
    BY <2>1, <2>2 DEF RowsFitCatalog
<1>seal. CASE Seal
  <2>1. ASSUME NEW r \in Resource
        PROVE  pend[r].digest = pub.files[r] /\ ~pend[r].activated
    <3>1. pend[r].digest \in {NoDigest, pub.files[r]} /\ ~pend[r].activated
      BY <1>seal DEF Seal, RowsFitCatalog
    <3>2. pub.files[r] # NoDigest => r <= cursor
      BY <1>seal DEF Seal, Unspooled, Resource, TypeOK
    <3>3. pub.files[r] # NoDigest => pend[r].digest # NoDigest
      BY <1>seal, <3>2 DEF Seal, ControlInv, JournalReadable, Spooled
    <3>4. QED
      BY <3>1, <3>3
  <2>2. phase = "OPEN" /\ phase' = "SEALED" /\ UNCHANGED <<pend, entry, shown, pub, head>>
    BY <1>seal DEF Seal, catalog
  <2>3. QED
    BY <2>1, <2>2 DEF RowsFitCatalog
<1>activating. CASE CommitActivating
  <2>1. phase = "SEALED"
    BY <1>activating DEF CommitActivating, ControlInv, StepFitsPhase
  <2>2. QED
    BY <1>activating, <2>1 DEF CommitActivating, RowsFitCatalog, catalog
<1>reserve. CASE ReservePendingInstalls
  <2>1. ASSUME NEW r \in Resource
        PROVE  pend'[r].digest = pend[r].digest /\ pend'[r].activated = pend[r].activated
    BY <1>reserve DEF ReservePendingInstalls, TypeOK, PendRow
  <2>2. phase = "ACTIVATING" /\ UNCHANGED <<phase, entry, shown, pub, head>>
    BY <1>reserve DEF ReservePendingInstalls, catalog, ControlInv, StepFitsPhase
  <2>3. QED
    BY <2>1, <2>2 DEF RowsFitCatalog
<1>installed. CASE CommitPendingInstalls
  <2>0. phase = "ACTIVATING" /\ UNCHANGED <<phase, shown, pub, head>> /\ todo = <<>>
    BY <1>installed DEF CommitPendingInstalls, catalog, ControlInv, StepFitsPhase
  <2>1. CASE UNCHANGED <<entry, pend>>
    BY <2>0, <2>1, CatalogKept
  <2>2. CASE /\ entry' = InstalledEntries
             /\ pend' = [r \in Resource |->
                           IF InPage(r) THEN [pend[r] EXCEPT !.activated = TRUE] ELSE pend[r]]
    <3>1. ASSUME NEW r \in Resource
          PROVE  /\ pend'[r].digest = pub.files[r]
                 /\ pend'[r].activated => EntryDigest(r)' = pub.files[r]
      <4>1. pend[r].digest = pub.files[r] /\ pend'[r].digest = pend[r].digest
        BY <2>0, <2>2 DEF RowsFitCatalog, TypeOK, PendRow
      <4>2. CASE ~InPage(r)
        BY <2>0, <2>2, <4>1, <4>2 DEF RowsFitCatalog, InstalledEntries
      <4>3. CASE InPage(r)
        <5>1. PlanOf(r) \in page /\ PlanOf(r).res = r
          BY <4>3 DEF InPage, PlanOf
        <5>2. entry'[r] = Outcome(PlanOf(r))
          BY <2>2, <4>3 DEF InstalledEntries
        <5>3. NoFile \notin Token
          BY FactsAssumption
        <5>4. step = "install" /\ left = {} /\ ~Refuses(todo)
          BY <1>installed, <2>0 DEF CommitPendingInstalls, Refuses
        <5>5. CASE PlanOf(r).staged # NoFile
          BY <4>1, <5>1, <5>2, <5>3, <5>4, <5>5, PlanBinds DEF Outcome
        <5>6. CASE PlanOf(r).staged = NoFile
          <6>1. /\ PlanOf(r).old # NoFile /\ DigestOf[PlanOf(r).old] = PlanOf(r).digest
            BY <5>1, <5>4, <5>6 DEF ScriptSettles, InPlace
          <6>2. PlanOf(r).digest = pend[r].digest
            BY <5>1, <5>4 DEF PagesFitRows
          <6>3. QED
            BY <4>1, <5>2, <5>6, <6>1, <6>2 DEF Outcome
        <5>7. QED
          BY <4>1, <5>5, <5>6
      <4>4. QED
        BY <4>2, <4>3
    <3>2. QED
      BY <2>0, <3>1 DEF RowsFitCatalog
  <2>3. QED
    BY <1>installed, <2>1, <2>2 DEF CommitPendingInstalls
<1>removed. CASE CommitPendingRemovals
  <2>0. phase = "ACTIVATING" /\ UNCHANGED <<phase, pend, shown, pub, head>>
    BY <1>removed DEF CommitPendingRemovals, catalog, ControlInv, StepFitsPhase
  <2>1. CASE UNCHANGED entry
    BY <2>0, <2>1, CatalogKept
  <2>2. CASE entry' = [r \in Resource |-> IF InPage(r) THEN NoFile ELSE entry[r]]
    <3>1. ASSUME NEW r \in Resource, InPage(r) PROVE pub.files[r] = NoDigest
      <4>1. stale[r] = "started"
        BY <1>removed, <3>1 DEF CommitPendingRemovals, InPage, PagesFitRows
      <4>2. ~Spooled(r)
        BY <4>1 DEF ControlInv, PagesAreDisjoint
      <4>3. QED
        BY <2>0, <4>2 DEF Spooled, RowsFitCatalog
    <3>2. QED
      BY <2>0, <2>2, <3>1 DEF RowsFitCatalog
  <2>3. QED
    BY <1>removed, <2>1, <2>2 DEF CommitPendingRemovals
<1>finish. CASE FinishReconcile
  <2>0. phase = "ACTIVATING" /\ UNCHANGED <<entry, pend, shown, pub, head>>
    BY <1>finish DEF FinishReconcile, catalog, ControlInv, StepFitsPhase
  <2>1. CASE UNCHANGED phase
    BY <2>0, <2>1, CatalogKept
  <2>2. CASE Uninstalled = {} /\ Unwanted = {} /\ phase' = "READY"
    <3>1. ASSUME NEW r \in Resource PROVE EntryDigest(r) = pub.files[r]
      <4>1. CASE Spooled(r)
        BY <2>0, <2>2, <4>1 DEF Uninstalled, RowsFitCatalog
      <4>2. CASE ~Spooled(r)
        BY <2>0, <2>2, <4>2 DEF Unwanted, RowsFitCatalog, Spooled
      <4>3. QED
        BY <4>1, <4>2
    <3>2. QED
      BY <2>0, <2>2, <3>1 DEF RowsFitCatalog
  <2>3. QED
    BY <1>finish, <2>1, <2>2 DEF FinishReconcile
<1>complete. CASE Complete
  <2>0. phase = "READY" /\ UNCHANGED <<entry, pend, shown, pub, head>>
    BY <1>complete DEF Complete, catalog, ControlInv, StepFitsPhase
  <2>1. CASE UNCHANGED phase
    BY <2>0, <2>1, CatalogKept
  <2>2. CASE phase' = "IDLE"
    <3>1. pub.rev # 0 /\ head = pub.rev
      BY <1>complete, <2>0 DEF Complete, ControlInv, JournalReadable, PendingIsIssued
    <3>2. QED
      BY <2>0, <2>2, <3>1 DEF RowsFitCatalog
  <2>3. QED
    BY <1>complete, <2>1, <2>2 DEF Complete
<1>same. ASSUME UNCHANGED <<phase, entry, pend, catalog>> PROVE RowsFitCatalog'
  BY <1>same, CatalogKept DEF catalog
<1>perform. CASE Works
  BY <1>perform, <1>same, PerformParts DEF journal
<1>foreign. ASSUME NEW r \in Resource, ForeignWrite(r) PROVE RowsFitCatalog'
  BY <1>foreign, <1>same DEF ForeignWrite, journal
<1>token. ASSUME NEW t \in Token, Protect(t) \/ Release(t) PROVE RowsFitCatalog'
  BY <1>token, <1>same DEF Protect, Release
<1>1. CASE BeginResumed \/ BeginCompleted \/ ReconcileSealed \/ ReconcileActivating
           \/ StartInstall \/ ListStale
  BY <1>1, <1>same DEF BeginResumed, BeginCompleted, ReconcileSealed, ReconcileActivating,
     StartInstall, ListStale, journal
<1>2. CASE ReservePendingRemovals \/ StartRemoval
           \/ MarkerRemoved \/ Interrupt \/ PowerLoss \/ UNCHANGED seen
  BY <1>2, <1>same DEF ReservePendingRemovals, StartRemoval,
     MarkerRemoved, Interrupt, PowerLoss, seen, journal
<1>3. QED
  BY <1>token, <1>issue, <1>advance, <1>finalize, <1>new, <1>page, <1>seal, <1>activating,
     <1>reserve, <1>installed, <1>removed, <1>finish, <1>complete,
     <1>perform, <1>foreign, <1>1, <1>2, LookIsHidden
     DEF Next, CoreNext, ActivatorNext

-----------------------------------------------------------------------------
(* Every action keeps the page in step with its rows. *)

LEMMA PagesKept ==
    ASSUME PagesFitRows, UNCHANGED <<entry, pend, stale, tok>>,
           \/ step' \notin {"install", "remove"} /\ todo' = <<>>
           \/ step' \in {"mark", "unmarkBegin", "unmarkComplete"}
           \/ /\ UNCHANGED <<step, page>>
              /\ todo' = todo \/ (todo' = Tail(todo) /\ todo # <<>>)
           \/ UNCHANGED <<step, page>> /\ step \in {"install", "remove"}
    PROVE  PagesFitRows'
<1>1. CASE step' \notin {"install", "remove"} /\ todo' = <<>>
  BY <1>1 DEF PagesFitRows
<1>2. CASE step' \in {"mark", "unmarkBegin", "unmarkComplete"}
  BY <1>2 DEF PagesFitRows
<1>3. CASE UNCHANGED <<step, page>>
  <2>1. \A r, d : StagedCandidate(r, d)' = StagedCandidate(r, d)
    BY DEF StagedCandidate, StagedTokens
  <2>2. \A p \in page : p.staged = StagedCandidate(p.res, p.digest)
                           => p.staged = StagedCandidate(p.res, p.digest)'
    BY <2>1
  <2>3. step \notin {"mark", "install", "remove", "unmarkBegin", "unmarkComplete"} => todo' = <<>>
    BY <1>3 DEF PagesFitRows
  <2>4. QED
    BY <1>3, <2>2, <2>3 DEF PagesFitRows
<1>4. QED
  BY <1>1, <1>2, <1>3

LEMMA NextPages ==
    ASSUME TypeOK, ControlInv, PagesFitRows, [Next]_vars
    PROVE  PagesFitRows'
<1>0. step = "out" => todo = <<>>
  BY DEF PagesFitRows
<1>token. ASSUME NEW t \in Token, Protect(t) \/ Release(t) PROVE PagesFitRows'
  BY <1>0, <1>token DEF Protect, Release, call, PagesFitRows
<1>begin. CASE BeginNew \/ BeginResumed \/ BeginCompleted
  <2>1. todo = <<>> /\ step = "out"
    BY <1>0, <1>begin DEF BeginNew, BeginResumed, BeginCompleted
  <2>2. \/ step' \in {"out", "SPOOL", "RECONCILE", "READY"} /\ todo' = <<>>
        \/ step' = "unmarkBegin"
    BY <1>begin, <2>1 DEF BeginNew, BeginResumed, BeginCompleted, Refuse, Leave,
       CheckpointOf, ControlInv, JournalReadable, TypeOK
  <2>3. QED
    BY <2>2 DEF PagesFitRows
<1>page. CASE ActivatePage
  BY <1>page DEF ActivatePage, PagesFitRows, call
<1>reserve. CASE ReservePendingInstalls
  <2>0. todo = <<>> /\ todo' = <<>>
    BY <1>reserve DEF ReservePendingInstalls, PagesFitRows
  <2> DEFINE rows == FirstPage(Uninstalled)
             plan(r) == [res |-> r, digest |-> pend[r].digest,
                         staged |-> StagedCandidate(r, pend[r].digest),
                         old |-> entry[r], fresh |-> ~pend[r].started]
  <2>1. rows \subseteq {r \in Resource : ~pend[r].activated}
    BY FirstPageIsPart DEF Uninstalled
  <2>2. /\ page' = {plan(r) : r \in rows}
        /\ \A r \in rows : pend'[r] = [pend[r] EXCEPT !.started = TRUE]
        /\ UNCHANGED <<entry, tok>>
        /\ step' \in {"list", "install"}
    BY <1>reserve, <2>1 DEF ReservePendingInstalls
  <2>3. ASSUME NEW p \in page'
        PROVE  /\ pend'[p.res].started /\ ~pend'[p.res].activated
               /\ p.digest = pend'[p.res].digest
               /\ p.old = entry'[p.res]
               /\ p.staged = StagedCandidate(p.res, p.digest)'
    <3>1. PICK r \in rows : p = plan(r)
      BY <2>2
    <3>2. /\ p.res = r /\ p.digest = pend[r].digest /\ p.old = entry[r]
          /\ p.staged = StagedCandidate(r, pend[r].digest)
      BY <3>1
    <3>3. pend[r] \in PendRow /\ pend'[r] = [pend[r] EXCEPT !.started = TRUE]
          /\ ~pend[r].activated
      BY <2>1, <2>2 DEF TypeOK
    <3>4. pend'[r].started /\ ~pend'[r].activated /\ pend'[r].digest = pend[r].digest
      BY <3>3 DEF PendRow
    <3>5. StagedCandidate(r, pend[r].digest)' = StagedCandidate(r, pend'[r].digest)
      BY <2>2 DEF StagedCandidate, StagedTokens
    <3>6. StagedCandidate(p.res, p.digest)' = StagedCandidate(r, pend[r].digest)
      BY <2>2, <3>2 DEF StagedCandidate, StagedTokens
    <3>7. QED
      BY <2>2, <3>2, <3>4, <3>6
  <2>4. \A p, q \in page' : p.res = q.res => p = q
    BY <2>2
  <2>5. QED
    BY <2>0, <2>2, <2>3, <2>4 DEF PagesFitRows
<1>installed. CASE CommitPendingInstalls
  BY <1>installed DEF CommitPendingInstalls, PagesFitRows, Refuse, Leave
<1>list. CASE ListStale
  BY <1>list DEF ListStale, PagesFitRows
<1>reserveStale. CASE ReservePendingRemovals
  <2>0. todo = <<>> /\ todo' = <<>>
    BY <1>reserveStale DEF ReservePendingRemovals, PagesFitRows
  <2> DEFINE rows == FirstPage(Listed)
             plan(r) == [res |-> r, digest |-> DigestOf[entry[r]], staged |-> NoFile,
                         old |-> entry[r], fresh |-> stale[r] = "listed"]
  <2>1. rows \subseteq Resource
    BY FirstPageIsPart DEF Listed
  <2>2. /\ page' = {plan(r) : r \in rows}
        /\ \A r \in rows : stale'[r] = "started"
        /\ UNCHANGED <<entry, tok>>
        /\ step' \in {"finish", "remove"}
    BY <1>reserveStale, <2>1 DEF ReservePendingRemovals
  <2>3. ASSUME NEW p \in page'
        PROVE  /\ stale'[p.res] = "started" /\ p.old = entry'[p.res]
               /\ p.digest = DigestOf[p.old] /\ p.staged = NoFile
    <3>1. PICK r \in rows : p = plan(r)
      BY <2>2
    <3>2. QED
      BY <2>2, <3>1
  <2>4. \A p, q \in page' : p.res = q.res => p = q
    BY <2>2
  <2>5. QED
    BY <2>0, <2>2, <2>3, <2>4 DEF PagesFitRows
<1>removed. CASE CommitPendingRemovals
  BY <1>removed DEF CommitPendingRemovals, PagesFitRows, Refuse, Leave
<1>perform. CASE Works
  <2>1. UNCHANGED <<entry, pend, stale, tok>> /\ todo # <<>>
    BY <1>perform, PerformParts DEF journal
  <2>2. Leave \/ (UNCHANGED <<step, page>> /\ todo' = Tail(todo))
    BY <1>perform, PerformParts DEF Refuse, Proceed
  <2>3. QED
    BY <2>1, <2>2, PagesKept DEF Leave
<1>out. ASSUME Leave, UNCHANGED <<entry, pend, stale, tok>> PROVE PagesFitRows'
  BY <1>out, PagesKept DEF Leave
<1>leave. CASE Finalize \/ Interrupt \/ PowerLoss
  BY <1>leave, <1>out DEF Finalize, Interrupt, PowerLoss, journal
<1>same. ASSUME UNCHANGED <<entry, pend, stale, tok, step, page, todo>> PROVE PagesFitRows'
  BY <1>same, PagesKept
<1>foreign. ASSUME NEW r \in Resource, ForeignWrite(r) PROVE PagesFitRows'
  BY <1>foreign, <1>same DEF ForeignWrite, journal, call
<1>issue. ASSUME NEW m \in Manifest, Issue(m) PROVE PagesFitRows'
  BY <1>issue, <1>same DEF Issue, journal, call
<1>1. CASE AdvanceHead \/ UNCHANGED seen
  BY <1>1, <1>same DEF AdvanceHead, seen, journal, call
<1>2. CASE Seal \/ ReconcileSealed \/ CommitActivating \/ ReconcileActivating \/ FinishReconcile
           \/ Complete \/ MarkerRemoved
  <2>1. UNCHANGED <<entry, pend, stale, tok>>
    BY <1>2 DEF Seal, ReconcileSealed, CommitActivating, ReconcileActivating, FinishReconcile,
       Complete, MarkerRemoved, journal
  <2>2. \/ step' \in {"RECONCILE", "reserve", "READY", "COMPLETE", "out"} /\ todo' = <<>>
        \/ step' \in {"mark", "unmarkComplete"}
    BY <1>2 DEF Seal, ReconcileSealed, CommitActivating, ReconcileActivating, FinishReconcile,
       Complete, MarkerRemoved, Refuse, Leave, PagesFitRows
  <2>3. QED
    BY <2>1, <2>2, PagesKept
<1>3. CASE StartInstall \/ StartRemoval
  BY <1>3, PagesKept DEF StartInstall, StartRemoval, journal
<1>4. QED
  BY <1>token, <1>begin, <1>page, <1>reserve, <1>installed, <1>list, <1>reserveStale, <1>removed,
     <1>perform, <1>leave, <1>foreign, <1>issue, <1>1, <1>2, <1>3, LookIsHidden
     DEF Next, CoreNext, ActivatorNext

-----------------------------------------------------------------------------
(* Every action keeps the names at rest as recorded. *)

LEMMA NoneOpen ==
    ASSUME ControlInv, RowsFitPhase, phase # "ACTIVATING"
    PROVE  OpenNames = {} /\ \A r \in Resource : ~Unfinished(r)
<1>1. \A r \in Resource : ~Unfinished(r)
  BY DEF ControlInv, PagesAreDisjoint, RowsFitPhase, Unfinished
<1>2. QED
  BY <1>1 DEF OpenNames

\* A step that leaves the files alone but for what it makes durable.
LEMMA FilesKept ==
    ASSUME AtRest, live' = live, \A n \in Name : disk'[n] \in {live[n], disk[n]},
           UNCHANGED <<entry, tok>>, OpenNames \subseteq OpenNames'
    PROVE  AtRest'
BY RestKept

LEMMA ProtectRests ==
    ASSUME TypeOK, AtRest, NEW t \in Token, Protect(t)
    PROVE  AtRest'
<1>0. /\ live \in Tree /\ disk \in Tree /\ Stage(t) \in Name
      /\ live' = [live EXCEPT ![Stage(t)] = t] /\ disk' = [disk EXCEPT ![Stage(t)] = t]
      /\ tok' = [tok EXCEPT ![t] = "STAGED"] /\ UNCHANGED <<entry, pend, stale>>
  BY StageIsName DEF Protect, TypeOK, Tree
<1>1. \A r, d : StagedTokens(r, d) \subseteq StagedTokens(r, d)'
  BY <1>0 DEF StagedTokens, TypeOK
<1>2. OpenNames \subseteq OpenNames'
  <2>1. ASSUME NEW r \in Resource, Unfinished(r) PROVE Unfinished(r)' /\ Open(r) \subseteq Open(r)'
    BY <1>0, <1>1, <2>1 DEF Unfinished, Open
  <2>2. QED
    BY <2>1 DEF OpenNames
<1>3. DurableAtRest'
  BY <1>0, <1>2 DEF AtRest, DurableAtRest, Tree
<1>4. \A r \in Resource : Cur(r)' \in OpenNames' \/ live'[Cur(r)'] = entry'[r]
  BY <1>0, <1>2, NamesDiffer DEF AtRest, ContentsAtRest, Tree
<1>5. \A r \in Resource, d \in Digest : Quar(r, d)' \in OpenNames' \/ live'[Quar(r, d)'] = NoFile
  BY <1>0, <1>2, NamesDiffer DEF AtRest, ContentsAtRest, Tree
<1>6. ASSUME NEW u \in Token
      PROVE  Stage(u)' \in OpenNames' \/ live'[Stage(u)'] = Recorded(u)'
  <2>1. CASE u = t
    BY <1>0, <2>1 DEF Recorded, TypeOK, Tree
  <2>2. CASE u # t
    <3>1. Stage(u) # Stage(t) /\ Stage(u) \in Name
      BY <2>2, NamesDiffer, StageIsName
    <3>2. Recorded(u)' = Recorded(u)
      BY <1>0, <2>2 DEF Recorded, TypeOK
    <3>3. QED
      BY <1>0, <1>2, <3>1, <3>2 DEF AtRest, ContentsAtRest, Tree
  <2>3. QED
    BY <2>1, <2>2
<1>7. QED
  BY <1>3, <1>4, <1>5, <1>6 DEF AtRest, ContentsAtRest

\* A token that an unfinished row needs is not released.
LEMMA ReleaseRests ==
    ASSUME TypeOK, ControlInv, RowsFitPhase, AtRest, NEW t \in Token, Release(t)
    PROVE  AtRest'
<1>0. /\ live \in Tree /\ disk \in Tree /\ Stage(t) \in Name
      /\ live' = [live EXCEPT ![Stage(t)] = NoFile] /\ disk' = [disk EXCEPT ![Stage(t)] = NoFile]
      /\ tok' = [tok EXCEPT ![t] = "RELEASED"] /\ UNCHANGED <<entry, pend, stale>>
      /\ ~BlocksRelease(t)
  BY StageIsName DEF Release, Unlinked, TypeOK, Tree
<1>1. ASSUME NEW r \in Resource, Unfinished(r)
      PROVE  t \notin StagedTokens(r, pend[r].digest)
  <2>1. SUFFICES ASSUME t \in StagedTokens(r, pend[r].digest) PROVE FALSE
    OBVIOUS
  <2>2. /\ ResOf[t] = r /\ DigestOf[t] = pend[r].digest /\ tok[t] = "STAGED"
        /\ DigestOf[t] \in Digest
    BY <2>1, FactsAssumption DEF StagedTokens
  <2>3. Spooled(r)
    BY <2>2, LimitAssumption DEF Spooled
  <2>4. pend[r].started /\ ~pend[r].activated
    BY <1>1, <2>3 DEF Unfinished, ControlInv, PagesAreDisjoint
  <2>5. pending # 0
    BY <2>4 DEF RowsFitPhase, ControlInv, JournalReadable
  <2>6. QED
    BY <1>0, <2>2, <2>4, <2>5 DEF BlocksRelease
<1>2. OpenNames \subseteq OpenNames'
  <2>1. ASSUME NEW r \in Resource, Unfinished(r) PROVE Unfinished(r)' /\ Open(r)' = Open(r)
    <3>1. StagedTokens(r, pend[r].digest)' = StagedTokens(r, pend[r].digest)
      BY <1>0, <1>1, <2>1 DEF StagedTokens, TypeOK
    <3>2. QED
      BY <1>0, <2>1, <3>1 DEF Unfinished, Open
  <2>2. QED
    BY <2>1 DEF OpenNames
<1>3. DurableAtRest'
  BY <1>0, <1>2 DEF AtRest, DurableAtRest, Tree
<1>4. \A r \in Resource : Cur(r)' \in OpenNames' \/ live'[Cur(r)'] = entry'[r]
  BY <1>0, <1>2, NamesDiffer DEF AtRest, ContentsAtRest, Tree
<1>5. \A r \in Resource, d \in Digest : Quar(r, d)' \in OpenNames' \/ live'[Quar(r, d)'] = NoFile
  BY <1>0, <1>2, NamesDiffer DEF AtRest, ContentsAtRest, Tree
<1>6. ASSUME NEW u \in Token
      PROVE  Stage(u)' \in OpenNames' \/ live'[Stage(u)'] = Recorded(u)'
  <2>1. CASE u = t
    BY <1>0, <2>1 DEF Recorded, TypeOK, Tree
  <2>2. CASE u # t
    <3>1. Stage(u) # Stage(t) /\ Stage(u) \in Name
      BY <2>2, NamesDiffer, StageIsName
    <3>2. Recorded(u)' = Recorded(u)
      BY <1>0, <2>2 DEF Recorded, TypeOK
    <3>3. QED
      BY <1>0, <1>2, <3>1, <3>2 DEF AtRest, ContentsAtRest, Tree
  <2>3. QED
    BY <2>1, <2>2
<1>7. QED
  BY <1>3, <1>4, <1>5, <1>6 DEF AtRest, ContentsAtRest

\* Once a page has been performed, its names are durable and all but the
\* current ones are empty.
LEMMA PageSettled ==
    ASSUME ScriptSettles, step \in {"install", "remove"}, todo = <<>>, left = {},
           NEW p \in page, Unfinished(p.res), NEW n \in Open(p.res)
    PROVE  disk[n] = live[n] /\ (n = Cur(p.res) \/ live[n] = NoFile)
<1>1. ~Refuses(todo)
  BY DEF Refuses
<1>2. WillBeDurable(n) /\ (n = Cur(p.res) \/ WillBeEmpty(n))
  BY <1>1 DEF ScriptSettles, Settles
<1>3. ~SyncsLast(todo, n) /\ ~EmptiesLast(todo, n)
  BY DEF SyncsLast, EmptiesLast
<1>4. QED
  BY <1>2, <1>3 DEF WillBeDurable, WillBeEmpty

\* Committing a performed page records exactly what it left behind.
LEMMA CommitRests ==
    ASSUME TypeOK, ControlInv, AtRest, OneStaged, PagesFitRows, ScriptSettles,
           step \in {"install", "remove"}, todo = <<>>, left = {},
           UNCHANGED files,
           \A r \in Resource : InPage(r) => live[Cur(r)] = entry'[r],
           \A r \in Resource : ~InPage(r) =>
               /\ entry'[r] = entry[r] /\ pend'[r] = pend[r] /\ stale'[r] = stale[r],
           \A t \in Token : tok'[t] = IF \E p \in page : p.staged = t THEN "INSTALLED" ELSE tok[t]
    PROVE  AtRest'
<1>1. ASSUME NEW r \in Resource, ~InPage(r), Unfinished(r)
      PROVE  Unfinished(r)' /\ Open(r)' = Open(r)
  <2>1. ASSUME NEW t \in Token, NEW p \in page, p.staged = t PROVE ResOf[t] # r
    <3>1. p.res # r /\ t # NoFile
      BY <1>1, <2>1, FactsAssumption DEF InPage
    <3>2. step = "install"
      BY <2>1, <3>1 DEF PagesFitRows
    <3>3. t \in StagedTokens(p.res, pend[p.res].digest)
      BY <2>1, <3>1, <3>2, PlanBinds
    <3>4. QED
      BY <3>1, <3>3 DEF StagedTokens
  <2>2. StagedTokens(r, pend[r].digest)' = StagedTokens(r, pend[r].digest)
    BY <1>1, <2>1 DEF StagedTokens
  <2>3. QED
    BY <1>1, <2>2 DEF Unfinished, Open
<1>2. ASSUME NEW n \in OpenNames
      PROVE  \/ n \in OpenNames'
             \/ \E p \in page : Unfinished(p.res) /\ n \in Open(p.res)
  <2>1. PICK r \in Resource : Unfinished(r) /\ n \in Open(r)
    BY DEF OpenNames
  <2>2. CASE InPage(r)
    BY <2>1, <2>2 DEF InPage
  <2>3. CASE ~InPage(r)
    BY <1>1, <2>1, <2>3 DEF OpenNames
  <2>4. QED
    BY <2>2, <2>3
<1>3. ASSUME NEW n \in OpenNames, n \notin OpenNames'
      PROVE  disk[n] = live[n] /\ (n \in CurNames \/ live[n] = NoFile)
  <2>1. PICK p \in page : Unfinished(p.res) /\ n \in Open(p.res)
    BY <1>2, <1>3
  <2>2. p.res \in Resource
    BY DEF TypeOK, Plan
  <2>3. QED
    BY <2>1, <2>2, PageSettled DEF CurNames
<1>4. DurableAtRest'
  BY <1>3 DEF DurableAtRest, AtRest, files
<1>5. ASSUME NEW r \in Resource
      PROVE  Cur(r)' \in OpenNames' \/ live'[Cur(r)'] = entry'[r]
  <2>1. CASE InPage(r)
    BY <2>1 DEF files
  <2>2. CASE ~InPage(r)
    <3>1. Cur(r) \in OpenNames => Cur(r) \in OpenNames'
      <4>1. ASSUME Unfinished(r) PROVE Cur(r) \in OpenNames'
        <5>1. Unfinished(r)' /\ Cur(r) \in Open(r)'
          BY <1>1, <2>2, <4>1 DEF Open
        <5>2. QED
          BY <5>1, CurIsName DEF OpenNames
      <4>2. QED
        BY <4>1, OpenMeans
    <3>2. QED
      BY <2>2, <3>1 DEF AtRest, ContentsAtRest, files
  <2>3. QED
    BY <2>1, <2>2
<1>6. ASSUME NEW r \in Resource, NEW d \in Digest
      PROVE  Quar(r, d)' \in OpenNames' \/ live'[Quar(r, d)'] = NoFile
  <2>1. Quar(r, d) \notin CurNames
    BY NamesDiffer DEF CurNames
  <2>2. QED
    BY <1>3, <2>1 DEF AtRest, ContentsAtRest, files
<1>7. ASSUME NEW t \in Token
      PROVE  Stage(t)' \in OpenNames' \/ live'[Stage(t)'] = Recorded(t)'
  <2>1. Stage(t) \notin CurNames
    BY NamesDiffer DEF CurNames
  <2>2. CASE \E p \in page : p.staged = t
    <3>1. PICK p \in page : p.staged = t
      BY <2>2
    <3>2. step = "install" /\ t # NoFile
      BY <3>1, FactsAssumption DEF PagesFitRows
    <3>3. t \in StagedTokens(p.res, pend[p.res].digest)
      BY <3>1, <3>2, PlanBinds
    <3>4. Unfinished(p.res) /\ Stage(t) \in Open(p.res)
      BY <3>2, <3>3 DEF Unfinished, Open, PagesFitRows
    <3>5. live[Stage(t)] = NoFile
      BY <3>4, PageSettled, NamesDiffer
    <3>6. Recorded(t)' = NoFile
      BY <2>2 DEF Recorded
    <3>7. QED
      BY <3>5, <3>6 DEF files
  <2>3. CASE ~\E p \in page : p.staged = t
    <3>1. Recorded(t)' = Recorded(t)
      BY <2>3 DEF Recorded
    <3>2. ASSUME Stage(t) \in OpenNames PROVE Stage(t) \in OpenNames'
      <4>1. Unfinished(ResOf[t]) /\ t \in StagedTokens(ResOf[t], pend[ResOf[t]].digest)
            /\ ResOf[t] \in Resource
        BY <3>2, OpenMeans, FactsAssumption
      <4>2. ~InPage(ResOf[t])
        <5>1. SUFFICES ASSUME NEW p \in page, p.res = ResOf[t] PROVE FALSE
          BY DEF InPage
        <5>2. CASE step = "install"
          <6>1. p.staged # NoFile
            BY <4>1, <5>1, <5>2, PlanBinds
          <6>2. p.staged \in StagedTokens(p.res, pend[p.res].digest) /\ p.staged \in Token
            BY <5>2, <6>1, PlanBinds
          <6>3. p.staged = t
            BY <4>1, <5>1, <6>2 DEF OneStaged, StagedTokens
          <6>4. QED
            BY <2>3, <6>3
        <5>3. CASE step = "remove"
          <6>1. ~Spooled(ResOf[t])
            BY <4>1, <5>1, <5>3 DEF PagesFitRows, ControlInv, PagesAreDisjoint
          <6>2. DigestOf[t] = NoDigest
            BY <4>1, <6>1 DEF Spooled, StagedTokens
          <6>3. QED
            BY <6>2, FactsAssumption, LimitAssumption
        <5>4. QED
          BY <5>2, <5>3
      <4>3. Unfinished(ResOf[t])' /\ Stage(t) \in Open(ResOf[t])'
        BY <1>1, <4>1, <4>2 DEF Open
      <4>4. QED
        BY <4>1, <4>3, StageIsName DEF OpenNames
    <3>3. QED
      BY <3>1, <3>2 DEF AtRest, ContentsAtRest, files
  <2>4. QED
    BY <2>2, <2>3
<1>8. QED
  BY <1>4, <1>5, <1>6, <1>7 DEF AtRest, ContentsAtRest

LEMMA InitRests == Init => AtRest /\ OneStaged /\ RowsFitPhase
<1> SUFFICES ASSUME Init PROVE AtRest /\ OneStaged /\ RowsFitPhase
  OBVIOUS
<1>1. DurableAtRest
  BY DEF Init, DurableAtRest
<1>2. ContentsAtRest
  BY CurIsName, QuarIsName, StageIsName DEF Init, ContentsAtRest, Recorded
<1>3. OneStaged /\ RowsFitPhase
  BY DEF Init, OneStaged, RowsFitPhase, EmptyRows, NoRow
<1>4. QED
  BY <1>1, <1>2, <1>3 DEF AtRest

LEMMA NextRest ==
    ASSUME ~Foreign,
           TypeOK, ControlInv, AtRest, OneStaged, RowsFitPhase, ScriptWithin, ScriptSettles,
           PagesFitRows, [Next]_vars
    PROVE  AtRest'
<1>0. /\ live \in Tree /\ disk \in Tree
      /\ \A n \in Name : Synced(live, disk, Marker)[n] \in {live[n], disk[n]}
  BY SyncedMeansEither, MarkerIsName DEF TypeOK, Tree
<1>token. ASSUME NEW t \in Token, Protect(t) \/ Release(t) PROVE AtRest'
  BY <1>token, ProtectRests, ReleaseRests
<1>kept. ASSUME UNCHANGED <<pend, stale, entry, tok, live>>,
                \A n \in Name : disk'[n] \in {live[n], disk[n]}
         PROVE  AtRest'
  BY <1>kept, OpenUnchanged, FilesKept
<1>same. ASSUME UNCHANGED <<pend, stale, entry, tok, live, disk>> PROVE AtRest'
  BY <1>same, <1>kept
<1>spool. ASSUME phase # "ACTIVATING", UNCHANGED <<entry, tok, live, disk>> PROVE AtRest'
  BY <1>spool, NoneOpen, FilesKept
<1>grows. ASSUME UNCHANGED <<entry, tok, live, disk>>,
                 \A r \in Resource : Unfinished(r) =>
                     Unfinished(r)' /\ pend'[r].digest = pend[r].digest
          PROVE  AtRest'
  BY <1>grows, OpenGrows, FilesKept
<1>new. CASE BeginNew \/ ActivatePage
  <2>1. phase # "ACTIVATING"
    BY <1>new DEF BeginNew, ActivatePage, ControlInv, JournalReadable
  <2>2. QED
    BY <1>new, <1>spool, <2>1 DEF BeginNew, ActivatePage, journal, files
<1>reserve. CASE ReservePendingInstalls
  <2>1. ASSUME NEW r \in Resource, Unfinished(r)
        PROVE  Unfinished(r)' /\ pend'[r].digest = pend[r].digest
    <3>1. pend'[r] \in {pend[r], [pend[r] EXCEPT !.started = TRUE]} /\ pend[r] \in PendRow
      BY <1>reserve DEF ReservePendingInstalls, TypeOK
    <3>2. /\ pend'[r].digest = pend[r].digest /\ pend'[r].activated = pend[r].activated
          /\ pend[r].started => pend'[r].started
      BY <3>1 DEF PendRow
    <3>3. UNCHANGED <<tok, stale>>
      BY <1>reserve DEF ReservePendingInstalls
    <3>4. StagedTokens(r, pend[r].digest)' = StagedTokens(r, pend[r].digest)
      BY <3>2, <3>3 DEF StagedTokens
    <3>5. QED
      BY <2>1, <3>2, <3>3, <3>4 DEF Unfinished
  <2>2. QED
    BY <1>reserve, <1>grows, <2>1 DEF ReservePendingInstalls, files
<1>list. CASE ListStale
  <2>1. ASSUME NEW r \in Resource, Unfinished(r)
        PROVE  Unfinished(r)' /\ pend'[r].digest = pend[r].digest
    <3>1. stale[r] = "started" => stale'[r] = "started"
      BY <1>list DEF ListStale, Listed
    <3>2. UNCHANGED <<tok, pend>>
      BY <1>list DEF ListStale
    <3>3. StagedTokens(r, pend[r].digest)' = StagedTokens(r, pend[r].digest)
      BY <3>2 DEF StagedTokens
    <3>4. QED
      BY <2>1, <3>1, <3>2, <3>3 DEF Unfinished
  <2>2. QED
    BY <1>list, <1>grows, <2>1 DEF ListStale, files
<1>reserveStale. CASE ReservePendingRemovals
  <2>1. ASSUME NEW r \in Resource, Unfinished(r)
        PROVE  Unfinished(r)' /\ pend'[r].digest = pend[r].digest
    <3>1. stale[r] = "started" => stale'[r] = "started"
      BY <1>reserveStale DEF ReservePendingRemovals
    <3>2. UNCHANGED <<tok, pend>>
      BY <1>reserveStale DEF ReservePendingRemovals
    <3>3. StagedTokens(r, pend[r].digest)' = StagedTokens(r, pend[r].digest)
      BY <3>2 DEF StagedTokens
    <3>4. QED
      BY <2>1, <3>1, <3>2, <3>3 DEF Unfinished
  <2>2. QED
    BY <1>reserveStale, <1>grows, <2>1 DEF ReservePendingRemovals, files
<1>installed. CASE CommitPendingInstalls
  <2>1. CASE UNCHANGED <<tok, entry, pend>>
    BY <1>installed, <1>same, <2>1 DEF CommitPendingInstalls, files
  <2>2. CASE /\ ~\E p \in page : live[Cur(p.res)] # Outcome(p)
             /\ tok' = [t \in Token |->
                          IF \E p \in page : p.staged = t THEN "INSTALLED" ELSE tok[t]]
             /\ entry' = InstalledEntries
             /\ pend' = [r \in Resource |->
                           IF InPage(r) THEN [pend[r] EXCEPT !.activated = TRUE] ELSE pend[r]]
    <3>1. ASSUME NEW r \in Resource, InPage(r) PROVE live[Cur(r)] = entry'[r]
      <4>1. PlanOf(r) \in page /\ PlanOf(r).res = r
        BY <3>1 DEF InPage, PlanOf
      <4>2. QED
        BY <2>2, <3>1, <4>1 DEF InstalledEntries
    <3>2. ASSUME NEW r \in Resource, ~InPage(r)
          PROVE  entry'[r] = entry[r] /\ pend'[r] = pend[r] /\ stale'[r] = stale[r]
      BY <1>installed, <2>2, <3>2 DEF InstalledEntries, CommitPendingInstalls
    <3>3. step = "install" /\ todo = <<>> /\ left = {} /\ UNCHANGED files
      BY <1>installed DEF CommitPendingInstalls
    <3>4. \A t \in Token : tok'[t] = IF \E p \in page : p.staged = t THEN "INSTALLED" ELSE tok[t]
      BY <2>2
    <3>5. QED
      BY <3>1, <3>2, <3>3, <3>4, CommitRests
  <2>3. QED
    BY <1>installed, <2>1, <2>2 DEF CommitPendingInstalls
<1>removed. CASE CommitPendingRemovals
  <2>1. CASE UNCHANGED <<entry, stale>>
    BY <1>removed, <1>same, <2>1 DEF CommitPendingRemovals, files
  <2>2. CASE /\ ~\E p \in page : live[Cur(p.res)] # NoFile
             /\ entry' = [r \in Resource |-> IF InPage(r) THEN NoFile ELSE entry[r]]
             /\ stale' = [r \in Resource |-> IF InPage(r) THEN "none" ELSE stale[r]]
    <3>1. \A r \in Resource : InPage(r) => live[Cur(r)] = entry'[r]
      BY <2>2 DEF InPage
    <3>2. \A r \in Resource : ~InPage(r) =>
              entry'[r] = entry[r] /\ pend'[r] = pend[r] /\ stale'[r] = stale[r]
      BY <1>removed, <2>2 DEF CommitPendingRemovals
    <3>3. step = "remove" /\ todo = <<>> /\ left = {} /\ UNCHANGED <<tok, files>>
      BY <1>removed DEF CommitPendingRemovals
    <3>4. \A t \in Token : tok'[t] = IF \E p \in page : p.staged = t THEN "INSTALLED" ELSE tok[t]
      BY <3>3, FactsAssumption DEF PagesFitRows
    <3>5. QED
      BY <3>1, <3>2, <3>3, <3>4, CommitRests
  <2>3. QED
    BY <1>removed, <2>1, <2>2 DEF CommitPendingRemovals
<1>perform. CASE Works
  BY <1>perform, PerformRests
<1>power. CASE PowerLoss
  <2>1. PICK tree \in PowerLossTrees(live, disk) : live' = tree /\ disk' = tree
    BY <1>power DEF PowerLoss
  <2>2. \A n \in Name : tree[n] \in {live[n], disk[n]}
    BY <1>0, PowerLossMeansEither
  <2>3. UNCHANGED <<pend, stale, entry, tok>>
    BY <1>power DEF PowerLoss, journal
  <2>4. ASSUME NEW n \in Name \ {Marker}, n \notin OpenNames
        PROVE  live'[n] = live[n] /\ disk'[n] \in {live[n], disk[n]}
    BY <2>1, <2>2, <2>4 DEF AtRest, DurableAtRest
  <2>5. QED
    BY <2>3, <2>4, OpenUnchanged, RestKept
<1>foreign. ASSUME NEW r \in Resource, ForeignWrite(r) PROVE AtRest'
  BY <1>foreign DEF ForeignWrite
<1>marker. CASE BeginResumed \/ ReconcileActivating \/ Complete
  <2>1. UNCHANGED <<pend, stale, entry, tok, live>>
    BY <1>marker DEF BeginResumed, ReconcileActivating, Complete, journal
  <2>2. \A n \in Name : disk'[n] \in {live[n], disk[n]}
    BY <1>0, <1>marker DEF BeginResumed, ReconcileActivating, Complete
  <2>3. QED
    BY <1>kept, <2>1, <2>2
<1>1. CASE (\E m \in Manifest : Issue(m)) \/ AdvanceHead \/ Finalize \/ BeginCompleted
           \/ Seal \/ ReconcileSealed \/ CommitActivating
  BY <1>1, <1>same DEF Issue, AdvanceHead, Finalize, BeginCompleted, Seal, ReconcileSealed,
     CommitActivating, journal, files
<1>2. CASE StartInstall \/ StartRemoval \/ FinishReconcile \/ MarkerRemoved \/ Interrupt
           \/ UNCHANGED seen
  BY <1>2, <1>same DEF StartInstall, StartRemoval, FinishReconcile, MarkerRemoved, Interrupt,
     seen, journal, files
<1>3. QED
  BY <1>token, <1>new, <1>reserve, <1>list, <1>reserveStale, <1>installed, <1>removed,
     <1>perform, <1>power, <1>foreign, <1>marker, <1>1, <1>2, LookIsHidden
     DEF Next, CoreNext, ActivatorNext

-----------------------------------------------------------------------------
(* Every action keeps what a script is certain to achieve. *)

\* A performed plan's names are not disturbed by the script of another.
LEMMA OthersSettled ==
    ASSUME ScriptSettles, step \in {"install", "remove"}, todo = <<>>,
           UNCHANGED <<journal, files, step>>,
           NEW p \in page, NEW q \in page, q.res # p.res, q.res \notin left,
           p.res \in Resource, q.res \in Resource,
           todo' \in Seq(OpsOver(Open(p.res)))
    PROVE  Settles(q)' /\ InPlace(q)'
<1>1. ~Refuses(todo)
  BY DEF Refuses
<1>2. Settles(q) /\ InPlace(q)
  BY <1>1 DEF ScriptSettles
<1>3. Unfinished(q.res)' = Unfinished(q.res) /\ Open(q.res)' = Open(q.res)
  BY OpenUnchanged DEF journal
<1>4. ASSUME NEW n \in Open(q.res) PROVE Still(todo', n) /\ Unfilled(todo', n)
  <2>1. n \notin Open(p.res)
    BY OpenDisjoint
  <2>2. \A i \in 1..Len(todo') : todo'[i] \in OpsOver(Open(p.res))
    OBVIOUS
  <2>3. QED
    BY <2>1, <2>2 DEF Still, Unfilled, Moves, Fills, OpsOver
<1>5. ASSUME Unfinished(q.res), NEW n \in Open(q.res)
      PROVE  WillBeDurable(n)' /\ (n = Cur(q.res) \/ WillBeEmpty(n)')
  <2>1. WillBeDurable(n) /\ (n = Cur(q.res) \/ WillBeEmpty(n))
    BY <1>2, <1>5 DEF Settles
  <2>2. ~SyncsLast(todo, n) /\ ~EmptiesLast(todo, n)
    BY DEF SyncsLast, EmptiesLast
  <2>3. disk'[n] = live'[n] /\ (n = Cur(q.res) \/ live'[n] = NoFile)
    BY <2>1, <2>2 DEF WillBeDurable, WillBeEmpty, files
  <2>4. QED
    BY <1>4, <2>3 DEF WillBeDurable, WillBeEmpty
<1>6. Settles(q)'
  BY <1>3, <1>5 DEF Settles, Cur
<1>7. InPlace(q)'
  BY <1>2 DEF InPlace
<1>8. QED
  BY <1>6, <1>7

LEMMA WithinGrows ==
    ASSUME NEW N, NEW M, N \subseteq M, NEW s \in Seq(OpsOver(N))
    PROVE  s \in Seq(OpsOver(M))
<1>1. OpsOver(N) \subseteq OpsOver(M)
  BY DEF OpsOver
<1>2. QED
  BY <1>1, SeqMonotonic

\* Starting a plan of either page.
LEMMA StartSettles ==
    ASSUME TypeOK, ScriptSettles, PagesFitRows, step \in {"install", "remove"}, todo = <<>>,
           NEW p \in page, p.res \in Resource, left' = left \ {p.res},
           UNCHANGED <<journal, files, step, page>>,
           todo' \in Seq(OpsOver(Open(p.res))),
           Unfinished(p.res) \/ todo' \in {<<>>, <<RefuseOp>>},
           Refuses(todo') \/ (Settles(p)' /\ InPlace(p)')
    PROVE  ScriptWithin' /\ ScriptSettles'
<1>1. OpenNames' = OpenNames
  BY OpenUnchanged DEF journal
<1>2. todo' \in Seq(OpsOver(OpenNames \cup {Marker}))
  <2>1. CASE Unfinished(p.res)
    <3>1. Open(p.res) \subseteq OpenNames \cup {Marker}
      BY <2>1, OpenMeans
    <3>2. QED
      BY <3>1, WithinGrows
  <2>2. CASE todo' \in {<<>>, <<RefuseOp>>}
    BY <2>2, OpsOverParts
  <2>3. QED
    BY <2>1, <2>2
<1>3. ScriptWithin'
  BY <1>1, <1>2 DEF ScriptWithin, Marker
<1>4. ASSUME ~Refuses(todo'), NEW q \in page, q.res \notin left' PROVE Settles(q)' /\ InPlace(q)'
  <2>1. CASE q = p
    BY <1>4, <2>1
  <2>2. CASE q # p
    <3>1. q.res # p.res /\ q.res \notin left /\ q.res \in Resource
      BY <1>4, <2>2 DEF PagesFitRows, TypeOK, Plan
    <3>2. QED
      BY <3>1, OthersSettled
  <2>3. QED
    BY <2>1, <2>2
<1>5. ScriptSettles'
  BY <1>4 DEF ScriptSettles
<1>6. QED
  BY <1>3, <1>5

LEMMA StartInstallSettles ==
    ASSUME TypeOK, ControlInv, OneStaged, ScriptSettles, PagesFitRows, StartInstall
    PROVE  ScriptWithin' /\ ScriptSettles'
<1>0. /\ step = "install" /\ todo = <<>> /\ UNCHANGED <<journal, files, step, page>>
  BY DEF StartInstall
<1>1. PICK p \in page : todo' = PerformPendingInstall(p) /\ left' = left \ {p.res}
  BY DEF StartInstall
<1>2. /\ p \in Plan /\ p.res \in Resource /\ p.old = entry[p.res]
      /\ p.old \in Token \cup {NoFile}
      /\ pend[p.res].started /\ ~pend[p.res].activated
  BY <1>0 DEF TypeOK, Plan, PagesFitRows
<1>3. Open(p.res)' = Open(p.res) /\ Unfinished(p.res)' = Unfinished(p.res)
  BY <1>0, OpenUnchanged DEF journal
<1>4. CASE p.staged = NoFile
  <2>1. \/ todo' = <<RefuseOp>>
        \/ todo' = <<>> /\ p.old # NoFile /\ DigestOf[p.old] = p.digest
    BY <1>1, <1>4 DEF PerformPendingInstall
  <2>2. ~Unfinished(p.res)
    <3>1. StagedTokens(p.res, pend[p.res].digest) = {} /\ Spooled(p.res)
      BY <1>0, <1>4, PlanBinds DEF ControlInv, PagesAreDisjoint
    <3>2. QED
      BY <1>2, <3>1 DEF Unfinished, ControlInv, PagesAreDisjoint
  <2>3. todo' \in Seq(OpsOver(Open(p.res)))
    BY <2>1, OpsOverParts
  <2>4. Refuses(todo') \/ (Settles(p)' /\ InPlace(p)')
    <3>1. CASE todo' = <<RefuseOp>>
      BY <3>1 DEF Refuses, RefuseOp
    <3>2. CASE todo' = <<>> /\ p.old # NoFile /\ DigestOf[p.old] = p.digest
      BY <1>3, <2>2, <3>2 DEF Settles, InPlace
    <3>3. QED
      BY <2>1, <3>1, <3>2
  <2>5. QED
    BY <1>0, <1>1, <1>2, <2>1, <2>3, <2>4, StartSettles
<1>5. CASE p.staged # NoFile
  <2>1. p.staged \in Token /\ p.staged \in StagedTokens(p.res, pend[p.res].digest)
    BY <1>0, <1>5, PlanBinds
  <2>2. StagedTokens(p.res, pend[p.res].digest) = {p.staged}
    BY <2>1 DEF OneStaged, StagedTokens
  <2>3. Unfinished(p.res)
    BY <1>2, <2>1 DEF Unfinished
  <2>4. Open(p.res) = PlanNames(p)
    BY <1>2, <2>1, <2>2 DEF Open, PlanNames
  <2>5. Open(p.res) \subseteq Name
    BY <1>2, OpenIsNames
  <2>6. /\ todo' \in Seq(OpsOver(Open(p.res)))
        /\ Refuses(todo') \/ (CurrentSettles(todo', p) /\ QuarantineEmptied(todo', p))
    BY <1>1, <1>2, <2>1, <2>4, <2>5, InstallSettles
  <2>7. ASSUME CurrentSettles(todo', p), QuarantineEmptied(todo', p)
        PROVE  Settles(p)' /\ InPlace(p)'
    <3>1. ASSUME NEW n \in Open(p.res)
          PROVE  WillBeDurable(n)' /\ (n = Cur(p.res) \/ WillBeEmpty(n)')
      <4>1. CASE n = Cur(p.res)
        BY <2>7, <4>1 DEF CurrentSettles, WillBeDurable
      <4>2. CASE n = Stage(p.staged)
        BY <1>0, <1>5, <2>7, <4>2 DEF CurrentSettles, WillBeDurable, WillBeEmpty, files
      <4>3. CASE p.old # NoFile /\ n = Quar(p.res, DigestOf[p.old])
        BY <2>7, <4>3 DEF QuarantineEmptied, WillBeDurable, WillBeEmpty
      <4>4. QED
        <5>1. \A t \in Token : t # NoFile
          BY FactsAssumption
        <5>2. QED
          BY <1>2, <2>1, <2>4, <4>1, <4>2, <4>3, <5>1 DEF PlanNames
    <3>2. Settles(p)'
      BY <1>3, <3>1 DEF Settles, Cur
    <3>3. QED
      BY <1>5, <3>2 DEF InPlace
  <2>8. QED
    BY <1>0, <1>1, <1>2, <2>3, <2>6, <2>7, StartSettles
<1>6. QED
  BY <1>4, <1>5

LEMMA StartRemovalSettles ==
    ASSUME TypeOK, ControlInv, ScriptSettles, PagesFitRows, StartRemoval
    PROVE  ScriptWithin' /\ ScriptSettles'
<1>0. /\ step = "remove" /\ todo = <<>> /\ UNCHANGED <<journal, files, step, page>>
  BY DEF StartRemoval
<1>1. PICK p \in page : todo' = PerformPendingRemoval(p) /\ left' = left \ {p.res}
  BY DEF StartRemoval
<1>2. /\ p \in Plan /\ p.res \in Resource /\ p.old = entry[p.res] /\ p.old \in Token
      /\ p.staged = NoFile /\ p.digest = DigestOf[p.old] /\ stale[p.res] = "started"
  BY <1>0 DEF TypeOK, Plan, PagesFitRows, ControlInv, PagesAreDisjoint
<1>3. Open(p.res)' = Open(p.res) /\ Unfinished(p.res)' = Unfinished(p.res)
  BY <1>0, OpenUnchanged DEF journal
<1>4. Unfinished(p.res)
  BY <1>2 DEF Unfinished
<1>5. Open(p.res) = PlanNames(p)
  <2>1. StagedTokens(p.res, pend[p.res].digest) = {}
    <3>1. pend[p.res].digest = NoDigest
      BY <1>2 DEF ControlInv, PagesAreDisjoint, Spooled
    <3>2. \A t \in Token : DigestOf[t] # NoDigest
      BY FactsAssumption, LimitAssumption
    <3>3. QED
      BY <3>1, <3>2 DEF StagedTokens
  <2>2. \A u \in Token : p.staged # u
    BY <1>2, FactsAssumption
  <2>3. QED
    BY <1>2, <2>1, <2>2 DEF Open, PlanNames
<1>6. Open(p.res) \subseteq Name
  BY <1>2, OpenIsNames
<1>7. /\ todo' \in Seq(OpsOver(Open(p.res)))
      /\ Refuses(todo') \/ (CurrentSettles(todo', p) /\ QuarantineEmptied(todo', p))
  BY <1>1, <1>2, <1>5, <1>6, RemovalSettles
<1>8. ASSUME CurrentSettles(todo', p), QuarantineEmptied(todo', p)
      PROVE  Settles(p)' /\ InPlace(p)'
  <2>1. ASSUME NEW n \in Open(p.res)
        PROVE  WillBeDurable(n)' /\ (n = Cur(p.res) \/ WillBeEmpty(n)')
    <3>1. CASE n = Cur(p.res)
      BY <1>8, <3>1 DEF CurrentSettles, WillBeDurable
    <3>2. CASE p.old # NoFile /\ n = Quar(p.res, DigestOf[p.old])
      BY <1>8, <3>2 DEF QuarantineEmptied, WillBeDurable, WillBeEmpty
    <3>3. QED
      <4>1. \A t \in Token : t # NoFile
        BY FactsAssumption
      <4>2. QED
        BY <1>2, <1>5, <3>1, <3>2, <4>1 DEF PlanNames
  <2>2. Settles(p)'
    BY <1>3, <2>1 DEF Settles, Cur
  <2>3. QED
    BY <1>0, <2>2 DEF InPlace
<1>9. QED
  BY <1>0, <1>1, <1>2, <1>4, <1>7, <1>8, StartSettles

LEMMA PerformScript ==
    ASSUME TypeOK, ScriptsAvoidMarker, AtRest, ScriptWithin, ScriptSettles, Works
    PROVE  ScriptWithin' /\ ScriptSettles'
<1>1. ScriptWithin' /\ UNCHANGED journal /\ todo # <<>>
  BY PerformRests, PerformParts
<1>2. CASE Refuse
  BY <1>1, <1>2 DEF Refuse, Leave, ScriptSettles
<1>3. CASE Proceed /\ step \notin {"install", "remove"}
  BY <1>1, <1>3 DEF Proceed, ScriptSettles
<1>4. CASE Proceed /\ ~Refuse /\ step \in {"install", "remove"}
  <2>1. NextOp.do # "create"
    BY <1>1, <1>4, NextOpIsTyped DEF ScriptsAvoidMarker, FileOp
  <2>2. ~Refuses(todo)
    <3>1. NextOp = todo[1]
      BY <1>1 DEF NextOp, TypeOK
    <3>2. NextOp.do # "refuse"
      BY <1>4, PerformParts
    <3>3. QED
      BY <3>1, <3>2 DEF Refuses
  <2>3. ASSUME NEW p \in page, p.res \notin left PROVE Settles(p)' /\ InPlace(p)'
    <3>0. p.res \in Resource
      BY DEF TypeOK, Plan
    <3>1. Settles(p) /\ InPlace(p)
      BY <1>4, <2>2, <2>3 DEF ScriptSettles
    <3>2. Unfinished(p.res)' = Unfinished(p.res) /\ Open(p.res)' = Open(p.res)
      BY <1>1, OpenUnchanged DEF journal
    <3>3. Open(p.res) \subseteq Name
      BY <3>0, OpenIsNames
    <3>4. ASSUME Unfinished(p.res), NEW n \in Open(p.res)
          PROVE  WillBeDurable(n)' /\ (n = Cur(p.res) \/ WillBeEmpty(n)')
      BY <1>4, <2>1, <3>1, <3>3, <3>4, PerformSettles DEF Settles
    <3>5. Settles(p)'
      BY <3>2, <3>4 DEF Settles, Cur
    <3>6. InPlace(p)'
      BY <1>4, <3>1 DEF InPlace, Proceed
    <3>7. QED
      BY <3>5, <3>6
  <2>4. ScriptSettles'
    BY <1>4, <2>3 DEF ScriptSettles, Proceed
  <2>5. QED
    BY <1>1, <2>4
<1>5. QED
  BY <1>2, <1>3, <1>4, PerformParts

\* Steps that neither start nor run a script.
LEMMA ScriptKept ==
    ASSUME ScriptWithin,
           \/ todo' = <<>>
           \/ todo' = todo /\ OpenNames \subseteq OpenNames'
           \/ todo' \in Seq(OpsOver({Marker}))
    PROVE  ScriptWithin'
<1>1. CASE todo' = <<>>
  BY <1>1, OpsOverParts DEF ScriptWithin
<1>2. CASE todo' = todo /\ OpenNames \subseteq OpenNames'
  <2>1. OpenNames \cup {Marker} \subseteq OpenNames' \cup {Marker}'
    BY <1>2 DEF Marker
  <2>2. todo \in Seq(OpsOver(OpenNames' \cup {Marker}'))
    BY <2>1, WithinGrows DEF ScriptWithin
  <2>3. QED
    BY <1>2, <2>2 DEF ScriptWithin
<1>3. CASE todo' \in Seq(OpsOver({Marker}))
  <2>1. {Marker} \subseteq OpenNames' \cup {Marker}'
    BY DEF Marker
  <2>2. todo' \in Seq(OpsOver(OpenNames' \cup {Marker}'))
    BY <1>3, <2>1, WithinGrows
  <2>3. QED
    BY <2>2 DEF ScriptWithin
<1>4. QED
  BY <1>1, <1>2, <1>3

LEMMA MarkerScriptsWithin ==
    ASSUME NEW c \in Revision
    PROVE  /\ RemoveMarker(c) \in Seq(OpsOver({Marker}))
           /\ pending = c => WriteMarker \in Seq(OpsOver({Marker}))
<1>1. c \in Content /\ {Marker} \subseteq Name
  BY MarkerIsName DEF Content
<1>2. /\ FsyncOp(Marker) \in OpsOver({Marker}) /\ UnlinkOp(Marker, c) \in OpsOver({Marker})
      /\ CreateOp(Marker, c) \in OpsOver({Marker}) /\ RefuseOp \in OpsOver({Marker})
  BY <1>1, OpsOverTypes
<1>3. RemoveMarker(c) \in Seq(OpsOver({Marker}))
  BY <1>2 DEF RemoveMarker
<1>4. ASSUME pending = c PROVE WriteMarker \in Seq(OpsOver({Marker}))
  <2>1. WriteMarker \in {<<CreateOp(Marker, c), FsyncOp(Marker)>>, <<FsyncOp(Marker)>>,
                         <<RefuseOp>>}
    BY <1>4 DEF WriteMarker
  <2>2. <<CreateOp(Marker, c), FsyncOp(Marker)>> \in Seq(OpsOver({Marker}))
    BY <1>2
  <2>3. <<FsyncOp(Marker)>> \in Seq(OpsOver({Marker}))
    BY <1>2
  <2>4. <<RefuseOp>> \in Seq(OpsOver({Marker}))
    BY <1>2
  <2>5. QED
    BY <2>1, <2>2, <2>3, <2>4
<1>5. QED
  BY <1>3, <1>4

LEMMA NextScript ==
    ASSUME ~Foreign,
           TypeOK, ControlInv, ScriptsAvoidMarker, AtRest, OneStaged, RowsFitPhase,
           ScriptWithin, ScriptSettles, PagesFitRows, [Next]_vars
    PROVE  ScriptWithin' /\ ScriptSettles'
<1>idle. step \notin {"mark", "install", "remove", "unmarkBegin", "unmarkComplete"} => todo = <<>>
  BY DEF PagesFitRows
<1>empty. ASSUME todo' = <<>>, step' \notin {"install", "remove"}
          PROVE  ScriptWithin' /\ ScriptSettles'
  BY <1>empty, ScriptKept DEF ScriptSettles
<1>same. ASSUME UNCHANGED <<journal, files, step, page, left, todo>>
         PROVE  ScriptWithin' /\ ScriptSettles'
  <2>1. OpenNames' = OpenNames /\ \A r : Unfinished(r)' = Unfinished(r) /\ Open(r)' = Open(r)
    BY <1>same, OpenUnchanged DEF journal
  <2>2. ScriptWithin'
    BY <1>same, <2>1, ScriptKept
  <2>3. \A p \in page : Settles(p) => Settles(p)'
    BY <1>same, <2>1 DEF Settles, WillBeDurable, WillBeEmpty, files, Cur
  <2>4. \A p \in page : InPlace(p) => InPlace(p)'
    BY <1>same DEF InPlace
  <2>5. QED
    BY <1>same, <2>2, <2>3, <2>4 DEF ScriptSettles
<1>token. ASSUME NEW t \in Token, Protect(t) \/ Release(t)
          PROVE  ScriptWithin' /\ ScriptSettles'
  BY <1>token, <1>empty, <1>idle DEF Protect, Release, call
<1>issue. ASSUME NEW m \in Manifest, Issue(m) PROVE ScriptWithin' /\ ScriptSettles'
  BY <1>issue, <1>same DEF Issue, call
<1>foreign. ASSUME NEW r \in Resource, ForeignWrite(r) PROVE ScriptWithin' /\ ScriptSettles'
  BY <1>foreign DEF ForeignWrite
<1>resumed. CASE BeginResumed
  BY <1>resumed, <1>empty, <1>idle
     DEF BeginResumed, CheckpointOf, ControlInv, JournalReadable, TypeOK, Refuse, Leave
<1>completed. CASE BeginCompleted
  <2>1. pub.rev \in Revision
    BY <1>completed DEF BeginCompleted, TypeOK, Revision
  <2>2. todo' \in Seq(OpsOver({Marker})) /\ step' = "unmarkBegin"
    BY <1>completed, <2>1, MarkerScriptsWithin DEF BeginCompleted
  <2>3. QED
    BY <2>2, ScriptKept DEF ScriptSettles
<1>sealed. CASE ReconcileSealed
  <2>1. pending \in Revision
    BY <1>sealed DEF ReconcileSealed, TypeOK, ControlInv, JournalReadable, Revision
  <2>2. todo' \in Seq(OpsOver({Marker})) /\ step' = "mark"
    BY <1>sealed, <2>1, MarkerScriptsWithin DEF ReconcileSealed
  <2>3. QED
    BY <2>2, ScriptKept DEF ScriptSettles
<1>complete. CASE Complete
  <2>1. CASE Refuse
    BY <2>1, <1>empty DEF Refuse, Leave
  <2>2. CASE todo' = RemoveMarker(pending) /\ step' = "unmarkComplete"
    <3>1. pending \in Revision
      BY <1>complete DEF Complete, TypeOK, ControlInv, JournalReadable, StepFitsPhase, Revision
    <3>2. todo' \in Seq(OpsOver({Marker}))
      BY <2>2, <3>1, MarkerScriptsWithin
    <3>3. QED
      BY <2>2, <3>2, ScriptKept DEF ScriptSettles
  <2>3. QED
    BY <1>complete, <2>1, <2>2 DEF Complete
<1>reserve. CASE ReservePendingInstalls \/ ReservePendingRemovals
  <2>1. todo' = <<>>
    BY <1>reserve, <1>idle DEF ReservePendingInstalls, ReservePendingRemovals
  <2>2. ASSUME NEW p \in page' PROVE p.res \in left'
    <3>1. CASE ReservePendingInstalls
      BY <2>2, <3>1 DEF ReservePendingInstalls
    <3>2. CASE ReservePendingRemovals
      BY <2>2, <3>2 DEF ReservePendingRemovals
    <3>3. QED
      BY <1>reserve, <3>1, <3>2
  <2>3. ScriptSettles'
    BY <2>2 DEF ScriptSettles
  <2>4. QED
    BY <2>1, <2>3, ScriptKept
<1>install. CASE StartInstall
  BY <1>install, StartInstallSettles
<1>remove. CASE StartRemoval
  BY <1>remove, StartRemovalSettles
<1>perform. CASE Works
  BY <1>perform, PerformScript
<1>1. CASE BeginNew \/ ActivatePage \/ Seal \/ CommitActivating
  BY <1>1, <1>empty, <1>idle DEF BeginNew, ActivatePage, Seal, CommitActivating, call, Refuse, Leave
<1>2. CASE ReconcileActivating \/ CommitPendingInstalls \/ ListStale \/ CommitPendingRemovals
  BY <1>2, <1>empty, <1>idle DEF ReconcileActivating, CommitPendingInstalls, ListStale,
     CommitPendingRemovals, Refuse, Leave
<1>3. CASE FinishReconcile \/ MarkerRemoved \/ Finalize \/ Interrupt \/ PowerLoss
  BY <1>3, <1>empty, <1>idle DEF FinishReconcile, MarkerRemoved, Finalize, Interrupt, PowerLoss,
     Refuse, Leave
<1>4. CASE AdvanceHead \/ UNCHANGED seen
  BY <1>4, <1>same DEF AdvanceHead, seen, call
<1>5. QED
  BY <1>token, <1>issue, <1>foreign, <1>resumed, <1>completed, <1>sealed, <1>complete, <1>reserve,
     <1>install, <1>remove, <1>perform, <1>1, <1>2, <1>3, <1>4, LookIsHidden
     DEF Next, CoreNext, ActivatorNext

-----------------------------------------------------------------------------
(* The theorems. *)

LEMMA InitReaders == Init => ReadersInv
<1> SUFFICES ASSUME Init PROVE ReadersInv
  OBVIOUS
<1>1. Inv
  BY InitTypes, InitControl, InitFence DEF Inv
<1>2. AtRest /\ OneStaged /\ RowsFitPhase
  BY InitRests
<1>3. ScriptWithin
  BY OpsOverParts DEF Init, ScriptWithin
<1>4. ScriptSettles /\ PagesFitRows
  BY DEF Init, ScriptSettles, PagesFitRows
<1>5. RowsFitCatalog
  BY DEF Init, RowsFitCatalog, EntryDigest, EmptyManifest, EmptyRows, NoRow, NoPublication
<1>6. QED
  BY <1>1, <1>2, <1>3, <1>4, <1>5 DEF ReadersInv

LEMMA NextReaders ==
    ASSUME ~Foreign, ReadersInv, [Next]_vars
    PROVE  ReadersInv'
<1> USE DEF ReadersInv
<1>1. TypeOK /\ ControlInv /\ FenceInv /\ ScriptsAvoidMarker
  BY DEF Inv, FenceInv
<1>2. Inv'
  BY <1>1, NextTypes, NextControl, NextFence DEF Inv
<1>3. AtRest' /\ OneStaged' /\ RowsFitPhase'
  BY <1>1, NextRest, NextOneStaged, NextRowsFitPhase
<1>4. ScriptWithin' /\ ScriptSettles'
  BY <1>1, NextScript
<1>5. PagesFitRows' /\ RowsFitCatalog'
  BY <1>1, NextPages, NextRowsFitCatalog
<1>6. QED
  BY <1>2, <1>3, <1>4, <1>5

THEOREM ReadersInvariance == ASSUME ~Foreign PROVE Spec => []ReadersInv
<1>1. Init => ReadersInv
  BY InitReaders
<1>2. ReadersInv /\ [Next]_vars => ReadersInv'
  BY NextReaders
<1>3. QED
  BY <1>1, <1>2, PTL DEF Spec

LEMMA UnfencedMeansHead ==
    ASSUME ReadersInv
    PROVE  UnfencedReadersSeeHead
<1> SUFFICES ASSUME live[Marker] = NoFile, NEW r \in Resource
             PROVE  DigestAt(live, r) = shown[r]
  BY DEF UnfencedReadersSeeHead
<1>1. phase \in {"IDLE", "OPEN", "SEALED"}
  <2>1. pending # NoFile
    BY FactsAssumption DEF ReadersInv, Inv, TypeOK
  <2>2. QED
    BY <2>1 DEF ReadersInv, Inv, FenceInv, FenceIsDurable, TypeOK
<1>2. Cur(r) \notin OpenNames
  BY <1>1, NoneOpen DEF ReadersInv, Inv
<1>3. live[Cur(r)] = entry[r]
  BY <1>2 DEF ReadersInv, AtRest, ContentsAtRest
<1>4. QED
  BY <1>1, <1>3 DEF ReadersInv, RowsFitCatalog, EntryDigest, DigestAt

\* A reader that finds no ACTIVATING marker finds exactly the files of the
\* catalog head, whatever was interrupted and whenever power was lost.
THEOREM ReadersSeeHead == ASSUME ~Foreign PROVE Spec => []UnfencedReadersSeeHead
BY ReadersInvariance, UnfencedMeansHead, PTL

\* When the journal says READY no directory change is left unsynced, so
\* power loss cannot undo what complete() is about to publish.
THEOREM ReadyBackedByDisk == ASSUME ~Foreign PROVE Spec => []ReadyIsDurable
<1>1. ReadersInv => ReadyIsDurable
  <2>1. SUFFICES ASSUME ReadersInv, phase = "READY",
                        NEW n \in CurNames \cup QuarNames \cup StageNames
                 PROVE  disk[n] = live[n]
    BY DEF ReadyIsDurable
  <2>2. n \in Name \ {Marker}
    BY DEF Name, CurNames, QuarNames, StageNames, Cur, Quar, Stage, Marker
  <2>3. n \notin OpenNames
    BY <2>1, NoneOpen DEF ReadersInv, Inv
  <2>4. QED
    BY <2>1, <2>2, <2>3 DEF ReadersInv, AtRest, DurableAtRest
<1>2. QED
  BY <1>1, ReadersInvariance, PTL

\* Staging holds only the files of STAGED tokens and quarantine only what an
\* unfinished operation put there, in memory and on disk.
THEOREM NoOrphans == ASSUME ~Foreign PROVE Spec => []NoOrphanBytes
<1>1. ReadersInv => NoOrphanBytes
  <2> SUFFICES ASSUME ReadersInv PROVE NoOrphanBytes
    OBVIOUS
  <2>1. ASSUME NEW t \in Token, tok[t] \in {"INSTALLED", "RELEASED", "none"}
        PROVE  live[Stage(t)] = NoFile /\ disk[Stage(t)] = NoFile
    <3>1. Stage(t) \notin OpenNames
      BY <2>1, OpenMeans DEF StagedTokens
    <3>2. live[Stage(t)] = NoFile
      BY <2>1, <3>1 DEF ReadersInv, AtRest, ContentsAtRest, Recorded
    <3>3. QED
      BY <3>1, <3>2, StageIsName DEF ReadersInv, AtRest, DurableAtRest
  <2>2. ASSUME NEW r \in Resource, NEW d \in Digest, ~Unfinished(r)
        PROVE  live[Quar(r, d)] = NoFile /\ disk[Quar(r, d)] = NoFile
    <3>1. Quar(r, d) \notin OpenNames
      BY <2>2, OpenMeans
    <3>2. live[Quar(r, d)] = NoFile
      BY <3>1 DEF ReadersInv, AtRest, ContentsAtRest
    <3>3. QED
      BY <3>1, <3>2, QuarIsName DEF ReadersInv, AtRest, DurableAtRest
  <2>3. QED
    BY <2>1, <2>2 DEF NoOrphanBytes, Unfinished
<1>2. QED
  BY <1>1, ReadersInvariance, PTL

\* Readers find the fence, or the files of the catalog head.
LEMMA ViewIsHead ==
    ASSUME ReadersInv
    PROVE  ReaderView = IF live[Marker] # NoFile THEN NoFile ELSE shown
<1>1. shown = [r \in Resource |-> shown[r]]
  BY DEF ReadersInv, Inv, TypeOK, Manifest
<1>2. UnfencedReadersSeeHead
  BY UnfencedMeansHead
<1>3. live[Marker] = NoFile => [r \in Resource |-> DigestAt(live, r)] = [r \in Resource |-> shown[r]]
  BY <1>2 DEF UnfencedReadersSeeHead
<1>4. QED
  BY <1>1, <1>3 DEF ReaderView

LEMMA OnlyAdvanceHead ==
    ASSUME [Next]_vars
    PROVE  UNCHANGED shown \/ AdvanceHead
<1>1. CASE Works
  BY <1>1 DEF Works, seen, Perform, DoRename, DoVerify, DoUnlink, DoCreate, DoFsync, DoCheck,
     DoCaptured, DoRefuse, catalog
<1>2. CASE CoreNext \/ Finalize \/ Interrupt \/ PowerLoss \/ (\E r \in Resource : ForeignWrite(r))
           \/ UNCHANGED seen
  BY <1>2 DEF CoreNext, Protect, Release, Issue, Finalize, Interrupt, PowerLoss, ForeignWrite,
     catalog, seen
<1>3. CASE BeginNew \/ BeginResumed \/ BeginCompleted \/ ActivatePage \/ Seal \/ ReconcileSealed
           \/ CommitActivating \/ ReconcileActivating \/ ReservePendingInstalls \/ StartInstall
           \/ CommitPendingInstalls
  BY <1>3 DEF BeginNew, BeginResumed, BeginCompleted, ActivatePage, Seal, ReconcileSealed,
     CommitActivating, ReconcileActivating, ReservePendingInstalls, StartInstall,
     CommitPendingInstalls, catalog
<1>4. CASE ListStale \/ ReservePendingRemovals \/ StartRemoval \/ CommitPendingRemovals
           \/ FinishReconcile \/ Complete \/ MarkerRemoved
  BY <1>4 DEF ListStale, ReservePendingRemovals, StartRemoval, CommitPendingRemovals,
     FinishReconcile, Complete, MarkerRemoved, catalog
<1>5. QED
  BY <1>1, <1>2, <1>3, <1>4, LookIsHidden DEF Next, ActivatorNext

\* Every step of an activation fences readers, advances the head behind the
\* fence, removes the fence, or is invisible to readers.
LEMMA StepImplements ==
    ASSUME ReadersInv, ReadersInv', [Next]_vars
    PROVE  [Published!Next]_(Published!pubVars)
<1> USE DEF Published!Next, Published!Fence, Published!Advance, Published!Unfence,
            Published!pubVars
<1>1. ReaderView = IF live[Marker] # NoFile THEN NoFile ELSE shown
  BY ViewIsHead
<1>2. ReaderView' = IF live'[Marker] # NoFile THEN NoFile ELSE shown'
  <2>1. (ReaderView = IF live[Marker] # NoFile THEN NoFile ELSE shown)'
    BY ViewIsHead, PTL
  <2>2. QED
    BY <2>1 DEF Marker
<1>3. shown' \in Manifest
  BY DEF ReadersInv, Inv, TypeOK, Manifest, Resource
<1>4. CASE AdvanceHead
  <2>1. phase = "READY"
    BY <1>4 DEF AdvanceHead, ReadersInv, Inv, ControlInv, StepFitsPhase
  <2>2. live[Marker] # NoFile /\ live' = live
    BY <1>4, <2>1, FactsAssumption
       DEF AdvanceHead, files, ReadersInv, Inv, FenceInv, FenceIsDurable, TypeOK
  <2>3. QED
    BY <1>1, <1>2, <1>3, <2>2
<1>5. CASE UNCHANGED shown
  BY <1>1, <1>2, <1>5
<1>6. QED
  BY <1>4, <1>5, OnlyAdvanceHead

\* Readers are served one whole revision after another, never a mixture.
THEOREM PublishedRefinement == ASSUME ~Foreign PROVE Spec => ImplementsPublishedLibrary
<1>1. Init => Published!Init
  BY MarkerIsName, CurIsName DEF Init, Published!Init, ReaderView, EmptyManifest, DigestAt
<1>2. ReadersInv /\ ReadersInv' /\ [Next]_vars => [Published!Next]_(Published!pubVars)
  BY StepImplements
<1>3. QED
  BY <1>1, <1>2, ReadersInvariance, PTL DEF Spec, Published!Spec, ImplementsPublishedLibrary

-----------------------------------------------------------------------------
(* Where a file replacement stands.  The old file o of a resource moves    *)
(* from its current name to quarantine, the new file t from its staging    *)
(* name to the current one, and the old file is unlinked:                  *)
(*                                                                         *)
(*            1    2    3    4    5    6                                   *)
(*   current  o    o    -    t    t    t                                   *)
(*   quar.    -    o    o    o    o    -                                   *)
(*   staging  t    t    t    t    -    -                                   *)
(*                                                                         *)
(* Stations 2 and 4 are reached by a power loss in the middle of a rename. *)
(* A removal has no t, a first install no o.                               *)

Station == 1..6

New(r) == StagedCandidate(r, pend[r].digest)

StandsAt(tree, r, k) ==
    /\ tree[Cur(r)] = IF k <= 2 THEN entry[r] ELSE IF k = 3 THEN NoFile ELSE New(r)
    /\ entry[r] # NoFile =>
         tree[Quar(r, DigestOf[entry[r]])] = IF k \in {1, 6} THEN NoFile ELSE entry[r]
    /\ New(r) # NoFile =>
         tree[Stage(New(r))] = IF k <= 4 THEN New(r) ELSE NoFile

\* How far the disk may be behind.
Lags == {<<k, k>> : k \in Station} \cup {<<3, 1>>, <<3, 2>>, <<5, 3>>, <<5, 4>>, <<6, 5>>}

Stands(r, x) == StandsAt(live, r, x[1]) /\ StandsAt(disk, r, x[2])

TreesFit == \A r \in Resource : Unfinished(r) => \E x \in Lags : Stands(r, x)

\* What fsync of a directory makes of a replacement.
SyncCurrent(x) == IF x[1] = 3 THEN <<3, 3>> ELSE IF x = <<5, 3>> THEN <<5, 4>> ELSE x
SyncQuarantine(x) == IF x = <<3, 1>> THEN <<3, 2>> ELSE IF x[1] = 6 THEN <<6, 6>> ELSE x
SyncStaging(x) == IF x[1] = 5 THEN <<5, 5>> ELSE x

\* One operation of a plan takes the replacement from x to y.
Takes(p, op, x, y) ==
    LET c == Cur(p.res)  q == Quar(p.res, DigestOf[p.old])  s == Stage(p.staged) IN
    \/ op = FsyncOp(c) /\ y = SyncCurrent(x)
    \/ op = CheckOp(c, p.staged) /\ x[1] = 5 /\ y = x
    \/ /\ p.old # NoFile
       /\ \/ op = FsyncOp(q) /\ y = SyncQuarantine(x)
          \/ op = RenameOp(c, q, p.old) /\ x = <<1, 1>> /\ y = <<3, 1>>
          \/ op = UnlinkOp(c, p.old) /\ x = <<2, 2>> /\ y = <<3, 2>>
          \/ op = CapturedOp(q, c, p.old) /\ x[1] = 3 /\ y = x
          \/ op = UnlinkOp(q, p.old) /\ x = <<5, 5>> /\ y = <<6, 5>>
          \/ op = UnlinkOp(q, p.old) /\ x[1] = 6 /\ y = x
          \/ op = UnlinkOp(q, p.old) /\ p.staged = NoFile /\ x = <<3, 3>> /\ y = <<6, 5>>
    \/ /\ p.staged # NoFile
       /\ \/ op = FsyncOp(s) /\ y = SyncStaging(x)
          \/ op = RenameOp(s, c, p.staged) /\ x = <<3, 3>> /\ y = <<5, 3>>
          \/ op = UnlinkOp(s, p.staged) /\ x = <<4, 4>> /\ y = <<5, 4>>

\* The script s takes it from x to y, one operation after the other.
Leads(p, s, x, y) ==
    \E w \in [1..(Len(s) + 1) -> Lags] :
        /\ w[1] = x /\ w[Len(s) + 1] = y
        /\ \A i \in 1..Len(s) : Takes(p, s[i], w[i], w[i + 1])

\* A first install ends where there is nothing to unlink.
Ends(p) == {<<6, 6>>} \cup {x \in {<<5, 5>>} : p.old = NoFile}

Finished(p) == Unfinished(p.res) => \E x \in Ends(p) : Stands(p.res, x)

Running(p) == \E x \in Lags : Stands(p.res, x) /\ \E y \in Ends(p) : Leads(p, todo, x, y)

\* A plan that was reserved now finds nothing moved.
FreshUntouched ==
    step \in {"install", "remove"} =>
        \A p \in page : p.res \in left /\ p.fresh /\ Unfinished(p.res) => Stands(p.res, <<1, 1>>)

ScriptRuns ==
    step \in {"install", "remove"} =>
        \/ /\ todo = <<>>
           /\ \A p \in page : p.res \notin left => Finished(p)
        \/ \E p \in page :
             /\ p.res \notin left /\ Unfinished(p.res) /\ Running(p)
             /\ \A o \in page : o # p /\ o.res \notin left => Finished(o)

-----------------------------------------------------------------------------
EntriesFit ==
    \A r \in Resource :
        entry[r] # NoFile => ResOf[entry[r]] = r /\ tok[entry[r]] \in {"INSTALLED", "RELEASED"}

\* Every resource of the publication has its bytes, installed or staged.
Supplied ==
    pub.rev # 0 =>
        \A r \in Resource :
            \/ pub.files[r] \in {NoDigest, EntryDigest(r)}
            \/ StagedTokens(r, pub.files[r]) # {}

MarkerShows(S) == live[Marker] \in S /\ disk[Marker] \in S

MarkerFits ==
    /\ phase = "IDLE" => MarkerShows({NoFile} \cup {c \in {current} : pub.rev = c})
    /\ phase = "OPEN" => MarkerShows({NoFile})
    /\ phase = "SEALED" => MarkerShows({NoFile, pending})
    /\ step = "COMPLETE" => MarkerShows({NoFile})
    /\ step = "mark" => todo # <<RefuseOp>>
    /\ step \in {"unmarkBegin", "unmarkComplete"} =>
         /\ current = pub.rev /\ pub.rev # 0
         /\ \/ todo = RemoveMarker(pub.rev)
            \/ todo = <<UnlinkOp(Marker, pub.rev), FsyncOp(Marker)>>
            \/ todo = <<FsyncOp(Marker)>> /\ live[Marker] = NoFile
            \/ todo = <<>> /\ MarkerShows({NoFile})

\* The reconciliation has looked for every kind of work before it ends.
WorkLeft ==
    /\ step \in {"list", "reserveStale", "finish"} => Uninstalled = {}
    /\ step \in {"reserveStale", "finish"} => (Listed = {} => Unwanted = {})
    /\ step = "finish" => Listed = {}

ReplayInv ==
    /\ ReadersInv
    /\ EntriesFit /\ Supplied /\ TreesFit /\ FreshUntouched /\ ScriptRuns
    /\ MarkerFits /\ WorkLeft
    /\ NeverRefused

-----------------------------------------------------------------------------
(* Runs of a script. *)

LEMMA LagIs ==
    /\ Lags = {<<1, 1>>, <<2, 2>>, <<3, 3>>, <<4, 4>>, <<5, 5>>, <<6, 6>>,
               <<3, 1>>, <<3, 2>>, <<5, 3>>, <<5, 4>>, <<6, 5>>}
    /\ \A x \in Lags : SyncCurrent(x) \in Lags /\ SyncQuarantine(x) \in Lags /\ SyncStaging(x) \in Lags
<1>1. Station = {1, 2, 3, 4, 5, 6}
  BY DEF Station
<1>2. Lags = {<<1, 1>>, <<2, 2>>, <<3, 3>>, <<4, 4>>, <<5, 5>>, <<6, 6>>,
              <<3, 1>>, <<3, 2>>, <<5, 3>>, <<5, 4>>, <<6, 5>>}
  BY <1>1 DEF Lags
<1>3. QED
  BY <1>2 DEF SyncCurrent, SyncQuarantine, SyncStaging

LEMMA TakesLag ==
    ASSUME NEW p, NEW op, NEW x \in Lags, NEW y, Takes(p, op, x, y)
    PROVE  y \in Lags
BY LagIs DEF Takes

LEMMA RunEmpty ==
    ASSUME NEW p, NEW x \in Lags, NEW y
    PROVE  Leads(p, <<>>, x, y) <=> x = y
<1>1. ASSUME x = y PROVE Leads(p, <<>>, x, y)
  <2> DEFINE w == [i \in 1..1 |-> x]
  <2>1. Len(<<>>) = 0
    OBVIOUS
  <2>2. w \in [1..(Len(<<>>) + 1) -> Lags] /\ w[1] = x /\ w[Len(<<>>) + 1] = y
    BY <1>1, <2>1
  <2>3. \A i \in 1..Len(<<>>) : Takes(p, <<>>[i], w[i], w[i + 1])
    BY <2>1
  <2>4. QED
    BY <2>2, <2>3 DEF Leads
<1>2. QED
  BY <1>1 DEF Leads

LEMMA RunHead ==
    ASSUME NEW S, NEW p, NEW s \in Seq(S), s # <<>>, NEW x, NEW y, Leads(p, s, x, y)
    PROVE  \E z \in Lags : Takes(p, Head(s), x, z) /\ Leads(p, Tail(s), z, y)
<1>1. PICK w \in [1..(Len(s) + 1) -> Lags] :
           /\ w[1] = x /\ w[Len(s) + 1] = y
           /\ \A i \in 1..Len(s) : Takes(p, s[i], w[i], w[i + 1])
  BY DEF Leads
<1>2. /\ Len(s) \in Nat \ {0} /\ Len(Tail(s)) = Len(s) - 1 /\ Head(s) = s[1]
      /\ \A i \in 1..Len(Tail(s)) : i + 1 \in 1..Len(s) /\ Tail(s)[i] = s[i + 1]
  BY TailAt
<1> DEFINE v == [i \in 1..(Len(Tail(s)) + 1) |-> w[i + 1]]
<1>3. v \in [1..(Len(Tail(s)) + 1) -> Lags]
  BY <1>2
<1>4. v[1] = w[2] /\ v[Len(Tail(s)) + 1] = y
  BY <1>1, <1>2
<1>5. ASSUME NEW i \in 1..Len(Tail(s)) PROVE Takes(p, Tail(s)[i], v[i], v[i + 1])
  <2>1. v[i] = w[i + 1] /\ v[i + 1] = w[(i + 1) + 1]
    BY <1>2
  <2>2. QED
    BY <1>1, <1>2, <2>1
<1>6. Leads(p, Tail(s), w[2], y)
  BY <1>3, <1>4, <1>5 DEF Leads
<1>7. Takes(p, Head(s), x, w[2]) /\ w[2] \in Lags
  BY <1>1, <1>2
<1>8. QED
  BY <1>6, <1>7

LEMMA RunJoin ==
    ASSUME NEW S, NEW p, NEW s1 \in Seq(S), NEW s2 \in Seq(S), NEW x, NEW y, NEW z,
           Leads(p, s1, x, y), Leads(p, s2, y, z)
    PROVE  Leads(p, s1 \o s2, x, z)
<1>1. PICK v \in [1..(Len(s1) + 1) -> Lags] :
           /\ v[1] = x /\ v[Len(s1) + 1] = y
           /\ \A i \in 1..Len(s1) : Takes(p, s1[i], v[i], v[i + 1])
  BY DEF Leads
<1>2. PICK w \in [1..(Len(s2) + 1) -> Lags] :
           /\ w[1] = y /\ w[Len(s2) + 1] = z
           /\ \A i \in 1..Len(s2) : Takes(p, s2[i], w[i], w[i + 1])
  BY DEF Leads
<1>3. Len(s1) \in Nat /\ Len(s2) \in Nat /\ Len(s1 \o s2) = Len(s1) + Len(s2)
  BY JoinedParts
<1> DEFINE n == Len(s1)
           u == [i \in 1..(Len(s1 \o s2) + 1) |-> IF i <= n THEN v[i] ELSE w[i - n]]
<1>4. u \in [1..(Len(s1 \o s2) + 1) -> Lags]
  BY <1>3
<1>5. u[1] = x /\ u[Len(s1 \o s2) + 1] = z
  <2>1. CASE n = 0
    BY <1>1, <1>2, <1>3, <2>1
  <2>2. CASE n # 0
    BY <1>1, <1>2, <1>3, <2>2
  <2>3. QED
    BY <2>1, <2>2
<1>6. ASSUME NEW i \in 1..Len(s1 \o s2) PROVE Takes(p, (s1 \o s2)[i], u[i], u[i + 1])
  <2>1. CASE i <= n
    <3>1. i \in 1..Len(s1) /\ (s1 \o s2)[i] = s1[i]
      BY <2>1, JoinedAt
    <3>2. u[i] = v[i] /\ u[i + 1] = v[i + 1]
      <4>1. CASE i = n
        BY <1>1, <1>2, <1>3, <4>1
      <4>2. CASE i < n
        BY <1>3, <4>2
      <4>3. QED
        BY <1>3, <2>1, <4>1, <4>2
    <3>3. QED
      BY <1>1, <3>1, <3>2
  <2>2. CASE i > n
    <3>1. i - n \in 1..Len(s2) /\ (s1 \o s2)[i] = s2[i - n]
      BY <2>2, JoinedAt
    <3>2. u[i] = w[i - n] /\ u[i + 1] = w[(i - n) + 1]
      BY <1>3, <2>2
    <3>3. QED
      BY <1>2, <3>1, <3>2
  <2>3. QED
    BY <1>3, <2>1, <2>2
<1>7. QED
  BY <1>4, <1>5, <1>6 DEF Leads

\* Short scripts, operation by operation.
LEMMA RunOne ==
    ASSUME NEW p, NEW a, NEW x \in Lags, NEW y, Takes(p, a, x, y)
    PROVE  Leads(p, <<a>>, x, y)
<1> DEFINE s == <<a>>
           w == [i \in 1..2 |-> IF i = 1 THEN x ELSE y]
<1>1. y \in Lags /\ Len(s) = 1 /\ s[1] = a
  BY TakesLag
<1>2. w \in [1..(Len(s) + 1) -> Lags] /\ w[1] = x /\ w[Len(s) + 1] = y
  BY <1>1
<1>3. ASSUME NEW i \in 1..Len(s) PROVE Takes(p, s[i], w[i], w[i + 1])
  <2>1. i = 1
    BY <1>1
  <2>2. w[i] = x /\ w[i + 1] = y
    BY <2>1
  <2>3. QED
    BY <1>1, <2>1, <2>2
<1>4. QED
  BY <1>2, <1>3 DEF Leads

LEMMA RunTwo ==
    ASSUME NEW p, NEW a, NEW b, NEW x \in Lags, NEW y, NEW z,
           Takes(p, a, x, y), Takes(p, b, y, z)
    PROVE  Leads(p, <<a, b>>, x, z)
<1> DEFINE s == <<a, b>>
           w == [i \in 1..3 |-> IF i = 1 THEN x ELSE IF i = 2 THEN y ELSE z]
<1>1. y \in Lags /\ z \in Lags
  BY TakesLag
<1>2. Len(s) = 2 /\ s[1] = a /\ s[2] = b
  OBVIOUS
<1>3. w \in [1..(Len(s) + 1) -> Lags] /\ w[1] = x /\ w[Len(s) + 1] = z
  BY <1>1, <1>2
<1>4. ASSUME NEW i \in 1..Len(s) PROVE Takes(p, s[i], w[i], w[i + 1])
  <2>1. i = 1 \/ i = 2
    BY <1>2
  <2>2. w[1] = x /\ w[2] = y /\ w[3] = z /\ 1 + 1 = 2 /\ 2 + 1 = 3
    OBVIOUS
  <2>3. QED
    BY <1>2, <2>1, <2>2
<1>5. QED
  BY <1>3, <1>4 DEF Leads

LEMMA RunFour ==
    ASSUME NEW p, NEW a, NEW b, NEW c, NEW d, NEW x \in Lags, NEW y, NEW z, NEW u, NEW v,
           Takes(p, a, x, y), Takes(p, b, y, z), Takes(p, c, z, u), Takes(p, d, u, v)
    PROVE  Leads(p, <<a, b, c, d>>, x, v)
<1> DEFINE s == <<a, b, c, d>>
           w == [i \in 1..5 |-> IF i = 1 THEN x ELSE IF i = 2 THEN y ELSE IF i = 3 THEN z
                                ELSE IF i = 4 THEN u ELSE v]
<1>1. y \in Lags /\ z \in Lags
  BY TakesLag
<1>2. u \in Lags /\ v \in Lags
  BY <1>1, TakesLag
<1>3. Len(s) = 4 /\ s[1] = a /\ s[2] = b /\ s[3] = c /\ s[4] = d
  OBVIOUS
<1>4. w \in [1..(Len(s) + 1) -> Lags] /\ w[1] = x /\ w[Len(s) + 1] = v
  BY <1>1, <1>2, <1>3
<1>5. ASSUME NEW i \in 1..Len(s) PROVE Takes(p, s[i], w[i], w[i + 1])
  <2>1. i = 1 \/ i = 2 \/ i = 3 \/ i = 4
    BY <1>3
  <2>2. /\ w[1] = x /\ w[2] = y /\ w[3] = z /\ w[4] = u /\ w[5] = v
        /\ 1 + 1 = 2 /\ 2 + 1 = 3 /\ 3 + 1 = 4 /\ 4 + 1 = 5
    OBVIOUS
  <2>3. QED
    BY <1>3, <2>1, <2>2
<1>6. QED
  BY <1>4, <1>5 DEF Leads

LEMMA RunFive ==
    ASSUME NEW p, NEW a, NEW b, NEW c, NEW d, NEW e, NEW x \in Lags, NEW y, NEW z, NEW u,
           NEW v, NEW t,
           Takes(p, a, x, y), Takes(p, b, y, z), Takes(p, c, z, u), Takes(p, d, u, v),
           Takes(p, e, v, t)
    PROVE  Leads(p, <<a, b, c, d, e>>, x, t)
<1> DEFINE s == <<a, b, c, d, e>>
           w == [i \in 1..6 |-> IF i = 1 THEN x ELSE IF i = 2 THEN y ELSE IF i = 3 THEN z
                                ELSE IF i = 4 THEN u ELSE IF i = 5 THEN v ELSE t]
<1>1. y \in Lags /\ z \in Lags
  BY TakesLag
<1>2. u \in Lags /\ v \in Lags
  BY <1>1, TakesLag
<1>7. t \in Lags
  BY <1>2, TakesLag
<1>3. Len(s) = 5 /\ s[1] = a /\ s[2] = b /\ s[3] = c /\ s[4] = d /\ s[5] = e
  OBVIOUS
<1>4. w \in [1..(Len(s) + 1) -> Lags] /\ w[1] = x /\ w[Len(s) + 1] = t
  BY <1>1, <1>2, <1>3, <1>7
<1>5. ASSUME NEW i \in 1..Len(s) PROVE Takes(p, s[i], w[i], w[i + 1])
  <2>1. i = 1 \/ i = 2 \/ i = 3 \/ i = 4 \/ i = 5
    BY <1>3
  <2>2. /\ w[1] = x /\ w[2] = y /\ w[3] = z /\ w[4] = u /\ w[5] = v /\ w[6] = t
        /\ 1 + 1 = 2 /\ 2 + 1 = 3 /\ 3 + 1 = 4 /\ 4 + 1 = 5 /\ 5 + 1 = 6
    OBVIOUS
  <2>3. QED
    BY <1>3, <2>1, <2>2
<1>6. QED
  BY <1>4, <1>5 DEF Leads
-----------------------------------------------------------------------------
(* Which names can show a file. *)

LEMMA NewIs ==
    ASSUME TypeOK, OneStaged, NEW r \in Resource
    PROVE  /\ New(r) = NoFile <=> StagedTokens(r, pend[r].digest) = {}
           /\ New(r) # NoFile =>
                 /\ New(r) \in Token /\ ResOf[New(r)] = r /\ tok[New(r)] = "STAGED"
                 /\ DigestOf[New(r)] = pend[r].digest
                 /\ StagedTokens(r, pend[r].digest) = {New(r)}
<1>1. NoFile \notin Token
  BY FactsAssumption
<1>2. CASE StagedTokens(r, pend[r].digest) = {}
  BY <1>2 DEF New, StagedCandidate
<1>3. CASE StagedTokens(r, pend[r].digest) # {}
  <2>1. New(r) \in StagedTokens(r, pend[r].digest)
    BY <1>3 DEF New, StagedCandidate
  <2>2. /\ New(r) \in Token /\ ResOf[New(r)] = r /\ tok[New(r)] = "STAGED"
        /\ DigestOf[New(r)] = pend[r].digest
    BY <2>1 DEF StagedTokens
  <2>3. \A t \in StagedTokens(r, pend[r].digest) : t = New(r)
    BY <2>2 DEF StagedTokens, OneStaged
  <2>4. QED
    BY <1>1, <2>1, <2>2, <2>3
<1>4. QED
  BY <1>2, <1>3

\* The marker is not a file of a resource.
MarkerApart == live[Marker] \notin File /\ disk[Marker] \notin File

TreeInv == TypeOK /\ AtRest /\ OneStaged /\ EntriesFit /\ TreesFit /\ MarkerApart

LEMMA EntryIs ==
    ASSUME TypeOK, OneStaged, EntriesFit, NEW r \in Resource, entry[r] # NoFile
    PROVE  /\ entry[r] \in Token /\ ResOf[entry[r]] = r /\ tok[entry[r]] # "STAGED"
           /\ DigestOf[entry[r]] \in Digest
           /\ entry[r] # New(r)
BY NewIs, FactsAssumption DEF TypeOK, EntriesFit

LEMMA Whereabouts ==
    ASSUME TreeInv, NEW tree \in {live, disk}
    PROVE  /\ \A r \in Resource : tree[Cur(r)] \in {entry[r], New(r), NoFile}
           /\ \A r \in Resource, d \in Digest :
                 tree[Quar(r, d)] # NoFile => tree[Quar(r, d)] = entry[r] /\ DigestOf[entry[r]] = d
           /\ \A t \in Token :
                 /\ tree[Stage(t)] \in {t, NoFile}
                 /\ tree[Stage(t)] = t => tok[t] = "STAGED"
<1> USE DEF TreeInv
<1>0. NoFile \notin Token
  BY FactsAssumption
<1>1. ASSUME NEW r \in Resource, Unfinished(r)
      PROVE  \E k \in Station : StandsAt(tree, r, k)
  <2>1. PICK x \in Lags : Stands(r, x)
    BY <1>1 DEF TreesFit
  <2>2. x[1] \in Station /\ x[2] \in Station
    BY LagIs DEF Station
  <2>3. QED
    BY <2>1, <2>2 DEF Stands
<1>2. ASSUME NEW n \in Name \ {Marker}, n \notin OpenNames PROVE tree[n] = live[n]
  BY <1>2 DEF AtRest, DurableAtRest
<1>3. ASSUME NEW r \in Resource PROVE tree[Cur(r)] \in {entry[r], New(r), NoFile}
  <2>1. CASE Unfinished(r)
    BY <1>1, <2>1 DEF StandsAt
  <2>2. CASE ~Unfinished(r)
    BY <1>2, <2>2, OpenMeans, CurIsName DEF AtRest, ContentsAtRest
  <2>3. QED
    BY <2>1, <2>2
<1>4. ASSUME NEW r \in Resource, NEW d \in Digest, tree[Quar(r, d)] # NoFile
      PROVE  tree[Quar(r, d)] = entry[r] /\ DigestOf[entry[r]] = d
  <2>1. Quar(r, d) \in OpenNames
    BY <1>2, <1>4, QuarIsName DEF AtRest, ContentsAtRest
  <2>2. Unfinished(r) /\ \E t \in Token : entry[r] = t /\ DigestOf[t] = d
    BY <2>1, OpenMeans
  <2>3. QED
    BY <1>0, <1>1, <1>4, <2>2 DEF StandsAt
<1>5. ASSUME NEW t \in Token
      PROVE  /\ tree[Stage(t)] \in {t, NoFile}
             /\ tree[Stage(t)] = t => tok[t] = "STAGED"
  <2>1. CASE Stage(t) \in OpenNames
    <3>1. /\ Unfinished(ResOf[t]) /\ ResOf[t] \in Resource
          /\ t \in StagedTokens(ResOf[t], pend[ResOf[t]].digest)
      BY <2>1, OpenMeans, FactsAssumption
    <3>2. t = New(ResOf[t]) /\ tok[t] = "STAGED"
      BY <3>1, NewIs DEF StagedTokens
    <3>3. QED
      BY <1>0, <1>1, <3>1, <3>2 DEF StandsAt
  <2>2. CASE Stage(t) \notin OpenNames
    BY <1>0, <1>2, <2>2, StageIsName DEF AtRest, ContentsAtRest, Recorded
  <2>3. QED
    BY <2>1, <2>2
<1>6. QED
  BY <1>3, <1>4, <1>5

LEMMA Holders ==
    ASSUME TreeInv, NEW tree \in {live, disk}, NEW f \in Token, NEW m \in Name, tree[m] = f
    PROVE  \/ m = Cur(ResOf[f]) /\ f \in {entry[ResOf[f]], New(ResOf[f])}
           \/ m = Quar(ResOf[f], DigestOf[f]) /\ f = entry[ResOf[f]]
           \/ m = Stage(f) /\ tok[f] = "STAGED"
<1> USE DEF TreeInv
<1>0. f # NoFile
  BY FactsAssumption
<1>1. CASE m \in CurNames
  <2>1. PICK r \in Resource : m = Cur(r)
    BY <1>1 DEF CurNames
  <2>2. f \in {entry[r], New(r)}
    BY <1>0, <2>1, Whereabouts
  <2>3. ResOf[f] = r
    BY <1>0, <2>2, EntryIs, NewIs
  <2>4. QED
    BY <2>1, <2>2, <2>3
<1>2. CASE m \in QuarNames
  <2>1. PICK r \in Resource, d \in Digest : m = Quar(r, d)
    BY <1>2 DEF QuarNames
  <2>2. f = entry[r] /\ DigestOf[f] = d
    BY <1>0, <2>1, Whereabouts
  <2>3. QED
    BY <1>0, <2>1, <2>2, EntryIs
<1>3. CASE m \in StageNames
  BY <1>0, <1>3, Whereabouts DEF StageNames
<1>4. CASE m = Marker
  BY <1>4 DEF MarkerApart, File
<1>5. QED
  BY <1>1, <1>2, <1>3, <1>4 DEF Name
-----------------------------------------------------------------------------
(* What fsync of a directory, and the loss of power, make of a replacement. *)

SyncAt(n, r, x) ==
    IF n = Cur(r) THEN SyncCurrent(x)
    ELSE IF n \in QuarNames THEN SyncQuarantine(x)
    ELSE IF n \in StageNames THEN SyncStaging(x)
    ELSE x

LEMMA Directories ==
    /\ \A r : DirOf(Cur(r)) = Cur(r)
    /\ \A r, d : DirOf(Quar(r, d)) = <<"quarantine">>
    /\ \A t : DirOf(Stage(t)) = <<"staging">>
    /\ DirOf(Marker) = <<"coordination">>
    /\ \A r : Cur(r) \notin QuarNames \cup StageNames \cup {<<"quarantine">>, <<"staging">>,
                                                            <<"coordination">>}
    /\ QuarNames \cap StageNames = {}
    /\ Marker \notin QuarNames \cup StageNames
BY DEF Cur, Quar, Stage, Marker, DirOf, QuarNames, StageNames

\* A name of the replacement follows a rename into durability exactly when
\* the directory holds its old name.
LEMMA FollowsOld ==
    ASSUME TreeInv, NEW r \in Resource, entry[r] # NoFile, NEW n \in Name
    PROVE  LET o == entry[r]
               q == Quar(r, DigestOf[o])
           IN  RenamedAway(live, disk, n, o) <=>
                 \/ DirOf(n) = Cur(r) /\ disk[Cur(r)] = o /\ live[Cur(r)] # o
                 \/ DirOf(n) = <<"quarantine">> /\ disk[q] = o /\ live[q] # o
<1> DEFINE o == entry[r]
           q == Quar(r, DigestOf[o])
<1>1. /\ o \in Token /\ ResOf[o] = r /\ tok[o] # "STAGED" /\ DigestOf[o] \in Digest
      /\ o \in File /\ Cur(r) \in Name /\ q \in Name
  BY EntryIs, CurIsName, QuarIsName DEF TreeInv, File
<1>2. ASSUME NEW m \in Name, disk[m] = o PROVE m \in {Cur(r), q}
  BY <1>1, <1>2, Holders
<1>3. RenamedAway(live, disk, n, o) <=>
          \E m \in {Cur(r), q} : DirOf(m) = DirOf(n) /\ disk[m] = o /\ live[m] # o
  BY <1>1, <1>2 DEF RenamedAway
<1>4. QED
  BY <1>3, Directories

LEMMA FollowsNew ==
    ASSUME TreeInv, NEW r \in Resource, New(r) # NoFile, NEW n \in Name
    PROVE  LET t == New(r)
           IN  RenamedAway(live, disk, n, t) <=>
                 \/ DirOf(n) = Cur(r) /\ disk[Cur(r)] = t /\ live[Cur(r)] # t
                 \/ DirOf(n) = <<"staging">> /\ disk[Stage(t)] = t /\ live[Stage(t)] # t
<1> DEFINE t == New(r)
<1>1. /\ t \in Token /\ ResOf[t] = r
      /\ t \in File /\ Cur(r) \in Name /\ Stage(t) \in Name
  BY NewIs, CurIsName, StageIsName DEF TreeInv, File
<1>2. t # entry[r]
  BY <1>1, EntryIs, FactsAssumption DEF TreeInv
<1>3. ASSUME NEW m \in Name, disk[m] = t PROVE m \in {Cur(r), Stage(t)}
  BY <1>1, <1>2, <1>3, Holders
<1>4. RenamedAway(live, disk, n, t) <=>
          \E m \in {Cur(r), Stage(t)} : DirOf(m) = DirOf(n) /\ disk[m] = t /\ live[m] # t
  BY <1>1, <1>3 DEF RenamedAway
<1>5. QED
  BY <1>4, Directories

LEMMA SyncedStands ==
    ASSUME TreeInv, NEW r \in Resource, NEW x \in Lags, Stands(r, x), NEW n \in Name
    PROVE  StandsAt(Synced(live, disk, n), r, SyncAt(n, r, x)[2]) /\ SyncAt(n, r, x)[1] = x[1]
<1> DEFINE o == entry[r]
           t == New(r)
           c == Cur(r)
           q == Quar(r, DigestOf[o])
           s == Stage(t)
           S == Synced(live, disk, n)
<1>0. /\ c \in Name /\ (o # NoFile => q \in Name) /\ (t # NoFile => s \in Name)
      /\ (o # NoFile => o # t)
  BY EntryIs, NewIs, CurIsName, QuarIsName, StageIsName DEF TreeInv
<1>1. \A m \in Name : S[m] = IF DirOf(m) = DirOf(n) \/ RenamedAway(live, disk, n, live[m])
                             THEN live[m] ELSE disk[m]
  BY DEF Synced
<1>2. ~RenamedAway(live, disk, n, NoFile)
  BY FactsAssumption DEF RenamedAway, File
<1>3. o # NoFile =>
        (RenamedAway(live, disk, n, o) <=>
                 \/ DirOf(n) = c /\ disk[c] = o /\ live[c] # o
                 \/ DirOf(n) = <<"quarantine">> /\ disk[q] = o /\ live[q] # o)
  BY FollowsOld
<1>4. t # NoFile =>
        (RenamedAway(live, disk, n, t) <=>
                 \/ DirOf(n) = c /\ disk[c] = t /\ live[c] # t
                 \/ DirOf(n) = <<"staging">> /\ disk[s] = t /\ live[s] # t)
  BY FollowsNew
<1>5. DirOf(c) = c /\ DirOf(q) = <<"quarantine">> /\ DirOf(s) = <<"staging">>
      /\ c # <<"quarantine">> /\ c # <<"staging">> /\ <<"quarantine">> # <<"staging">>
  BY Directories
<1>6. x \in {<<1, 1>>, <<2, 2>>, <<3, 3>>, <<4, 4>>, <<5, 5>>, <<6, 6>>,
             <<3, 1>>, <<3, 2>>, <<5, 3>>, <<5, 4>>, <<6, 5>>}
  BY LagIs
<1>7. \A tree, k : StandsAt(tree, r, k) <=>
          /\ tree[c] = IF k <= 2 THEN o ELSE IF k = 3 THEN NoFile ELSE t
          /\ o # NoFile => tree[q] = IF k \in {1, 6} THEN NoFile ELSE o
          /\ t # NoFile => tree[s] = IF k <= 4 THEN t ELSE NoFile
  BY DEF StandsAt
<1>8. PICK k \in Station, j \in Station :
          /\ x = <<k, j>>
          /\ \/ k = j
             \/ k = 3 /\ j \in {1, 2}
             \/ k = 5 /\ j \in {3, 4}
             \/ k = 6 /\ j = 5
  BY <1>6 DEF Station
<1>9. k \in {1, 2, 3, 4, 5, 6} /\ j \in {1, 2, 3, 4, 5, 6}
  BY DEF Station
<1>10. /\ live[c] = IF k <= 2 THEN o ELSE IF k = 3 THEN NoFile ELSE t
       /\ o # NoFile => live[q] = IF k \in {1, 6} THEN NoFile ELSE o
       /\ t # NoFile => live[s] = IF k <= 4 THEN t ELSE NoFile
       /\ disk[c] = IF j <= 2 THEN o ELSE IF j = 3 THEN NoFile ELSE t
       /\ o # NoFile => disk[q] = IF j \in {1, 6} THEN NoFile ELSE o
       /\ t # NoFile => disk[s] = IF j <= 4 THEN t ELSE NoFile
  <2>1. StandsAt(live, r, k) /\ StandsAt(disk, r, j)
    BY <1>8 DEF Stands
  <2>2. QED
    BY <1>7, <2>1
<1> HIDE DEF S, c, q, s, o, t
<1>11. CASE n = c
  <2>1. SyncAt(n, r, x) = SyncCurrent(x) /\ DirOf(n) = c
    BY <1>5, <1>11 DEF SyncAt, c
  <2>2. /\ S[c] = live[c]
        /\ o # NoFile => S[q] = IF live[q] = o /\ disk[c] = o /\ live[c] # o THEN o ELSE disk[q]
        /\ t # NoFile => S[s] = IF live[s] = t /\ disk[c] = t /\ live[c] # t THEN t ELSE disk[s]
    BY <1>0, <1>1, <1>2, <1>3, <1>4, <1>5, <1>9, <1>10, <2>1
  <2> DEFINE i == IF k = 3 THEN 3 ELSE IF k = 5 /\ j = 3 THEN 4 ELSE j
  <2>3. SyncCurrent(x) = <<k, i>>
    BY <1>8 DEF SyncCurrent
  <2>4. /\ S[c] = IF i <= 2 THEN o ELSE IF i = 3 THEN NoFile ELSE t
        /\ o # NoFile => S[q] = IF i \in {1, 6} THEN NoFile ELSE o
        /\ t # NoFile => S[s] = IF i <= 4 THEN t ELSE NoFile
    BY <1>0, <1>8, <1>9, <1>10, <2>2
  <2>5. StandsAt(S, r, i)
    BY <1>7, <2>4
  <2>6. QED
    BY <1>8, <2>1, <2>3, <2>5 DEF S
<1>12. CASE n \in QuarNames
  <2>1. SyncAt(n, r, x) = SyncQuarantine(x) /\ DirOf(n) = <<"quarantine">>
    BY <1>5, <1>12, Directories DEF SyncAt, c, QuarNames
  <2>2. /\ o # NoFile => S[q] = live[q]
        /\ S[c] = IF o # NoFile /\ live[c] = o /\ disk[q] = o /\ live[q] # o THEN o ELSE disk[c]
        /\ t # NoFile => S[s] = disk[s]
    BY <1>0, <1>1, <1>2, <1>3, <1>4, <1>5, <1>9, <1>10, <2>1
  <2> DEFINE i == IF k = 3 /\ j = 1 THEN 2 ELSE IF k = 6 THEN 6 ELSE j
  <2>3. SyncQuarantine(x) = <<k, i>>
    BY <1>8 DEF SyncQuarantine
  <2>4. /\ S[c] = IF i <= 2 THEN o ELSE IF i = 3 THEN NoFile ELSE t
        /\ o # NoFile => S[q] = IF i \in {1, 6} THEN NoFile ELSE o
        /\ t # NoFile => S[s] = IF i <= 4 THEN t ELSE NoFile
    BY <1>0, <1>8, <1>9, <1>10, <2>2
  <2>5. StandsAt(S, r, i)
    BY <1>7, <2>4
  <2>6. QED
    BY <1>8, <2>1, <2>3, <2>5 DEF S
<1>13. CASE n \in StageNames
  <2>1. SyncAt(n, r, x) = SyncStaging(x) /\ DirOf(n) = <<"staging">>
    BY <1>5, <1>13, Directories DEF SyncAt, c, StageNames
  <2>2. /\ o # NoFile => S[q] = disk[q]
        /\ S[c] = IF t # NoFile /\ live[c] = t /\ disk[s] = t /\ live[s] # t THEN t ELSE disk[c]
        /\ t # NoFile => S[s] = live[s]
    BY <1>0, <1>1, <1>2, <1>3, <1>4, <1>5, <1>9, <1>10, <2>1
  <2> DEFINE i == IF k = 5 THEN 5 ELSE j
  <2>3. SyncStaging(x) = <<k, i>>
    BY <1>8 DEF SyncStaging
  <2>4. /\ S[c] = IF i <= 2 THEN o ELSE IF i = 3 THEN NoFile ELSE t
        /\ o # NoFile => S[q] = IF i \in {1, 6} THEN NoFile ELSE o
        /\ t # NoFile => S[s] = IF i <= 4 THEN t ELSE NoFile
    BY <1>0, <1>8, <1>9, <1>10, <2>2
  <2>5. StandsAt(S, r, i)
    BY <1>7, <2>4
  <2>6. QED
    BY <1>8, <2>1, <2>3, <2>5 DEF S
<1>14. CASE n # c /\ n \notin QuarNames \cup StageNames
  <2>1. SyncAt(n, r, x) = x
    BY <1>14 DEF SyncAt, c
  <2>2. DirOf(n) \notin {c, <<"quarantine">>, <<"staging">>}
    <3>1. CASE n \in CurNames
      <4>1. PICK p \in Resource : n = Cur(p)
        BY <3>1 DEF CurNames
      <4>2. QED
        BY <1>14, <4>1, Directories
    <3>2. CASE n = Marker
      BY <3>2, <1>5, Directories DEF c
    <3>3. QED
      BY <1>14, <3>1, <3>2 DEF Name
  <2>3. /\ S[c] = disk[c]
        /\ o # NoFile => S[q] = disk[q]
        /\ t # NoFile => S[s] = disk[s]
    BY <1>0, <1>1, <1>2, <1>3, <1>4, <1>5, <1>9, <1>10, <2>2
  <2>4. StandsAt(S, r, j)
    BY <1>7, <1>10, <2>3
  <2>5. QED
    BY <1>8, <2>1, <2>4 DEF S
<1>15. QED
  BY <1>11, <1>12, <1>13, <1>14

LEMMA LostStands ==
    ASSUME TreeInv, NEW r \in Resource, NEW x \in Lags, Stands(r, x),
           NEW tree \in PowerLossTrees(live, disk)
    PROVE  \E i \in Station : StandsAt(tree, r, i)
<1> DEFINE o == entry[r]
           t == New(r)
           c == Cur(r)
           q == Quar(r, DigestOf[o])
           s == Stage(t)
<1>0. /\ c \in Name /\ (o # NoFile => q \in Name) /\ (t # NoFile => s \in Name)
      /\ (o # NoFile => o # t)
  BY EntryIs, NewIs, CurIsName, QuarIsName, StageIsName DEF TreeInv
<1>1. \A n \in Name : tree[n] \in {live[n], disk[n]}
  BY PowerLossMeansEither DEF TreeInv, TypeOK, Tree
<1>2. \A f \in File : Linked(live, f) /\ Linked(disk, f) => Linked(tree, f)
  BY DEF PowerLossTrees
<1>3. ASSUME o # NoFile, o \in {live[c], live[q]}, o \in {disk[c], disk[q]}
      PROVE  o \in {tree[c], tree[q]}
  <2>1. o \in Token /\ ResOf[o] = r /\ tok[o] # "STAGED"
    BY <1>3, EntryIs DEF TreeInv
  <2>2. Linked(live, o) /\ Linked(disk, o) /\ o \in File
    BY <1>0, <1>3, <2>1 DEF Linked, File
  <2>3. PICK m \in Name : tree[m] = o
    BY <1>2, <2>2 DEF Linked
  <2>4. m \in {c, q}
    BY <1>1, <2>1, <2>3, Holders
  <2>5. QED
    BY <2>3, <2>4
<1>4. ASSUME t # NoFile, t \in {live[c], live[s]}, t \in {disk[c], disk[s]}
      PROVE  t \in {tree[c], tree[s]}
  <2>1. t \in Token /\ ResOf[t] = r /\ t # o
    BY <1>4, NewIs, EntryIs, FactsAssumption DEF TreeInv
  <2>2. Linked(live, t) /\ Linked(disk, t) /\ t \in File
    BY <1>0, <1>4, <2>1 DEF Linked, File
  <2>3. PICK m \in Name : tree[m] = t
    BY <1>2, <2>2 DEF Linked
  <2>4. m \in {c, s}
    BY <1>1, <2>1, <2>3, Holders
  <2>5. QED
    BY <2>3, <2>4
<1>5. \A any, k : StandsAt(any, r, k) <=>
          /\ any[c] = IF k <= 2 THEN o ELSE IF k = 3 THEN NoFile ELSE t
          /\ o # NoFile => any[q] = IF k \in {1, 6} THEN NoFile ELSE o
          /\ t # NoFile => any[s] = IF k <= 4 THEN t ELSE NoFile
  BY DEF StandsAt
<1>6. PICK k \in Station, j \in Station :
          /\ x = <<k, j>>
          /\ \/ k = j
             \/ k = 3 /\ j \in {1, 2}
             \/ k = 5 /\ j \in {3, 4}
             \/ k = 6 /\ j = 5
  BY LagIs DEF Station
<1>7. k \in {1, 2, 3, 4, 5, 6} /\ j \in {1, 2, 3, 4, 5, 6}
  BY DEF Station
<1>8. /\ live[c] = IF k <= 2 THEN o ELSE IF k = 3 THEN NoFile ELSE t
      /\ o # NoFile => live[q] = IF k \in {1, 6} THEN NoFile ELSE o
      /\ t # NoFile => live[s] = IF k <= 4 THEN t ELSE NoFile
      /\ disk[c] = IF j <= 2 THEN o ELSE IF j = 3 THEN NoFile ELSE t
      /\ o # NoFile => disk[q] = IF j \in {1, 6} THEN NoFile ELSE o
      /\ t # NoFile => disk[s] = IF j <= 4 THEN t ELSE NoFile
  <2>1. StandsAt(live, r, k) /\ StandsAt(disk, r, j)
    BY <1>6 DEF Stands
  <2>2. QED
    BY <1>5, <2>1
<1>9. \E i \in {1, 2, 3, 4, 5, 6} :
          /\ tree[c] = IF i <= 2 THEN o ELSE IF i = 3 THEN NoFile ELSE t
          /\ o # NoFile => tree[q] = IF i \in {1, 6} THEN NoFile ELSE o
          /\ t # NoFile => tree[s] = IF i <= 4 THEN t ELSE NoFile
  <2> HIDE DEF c, q, s, o, t
  <2>0. /\ tree[c] \in {live[c], disk[c]}
        /\ o # NoFile => tree[q] \in {live[q], disk[q]}
        /\ t # NoFile => tree[s] \in {live[s], disk[s]}
    BY <1>0, <1>1
  <2> DEFINE Is(i) == /\ tree[c] = IF i <= 2 THEN o ELSE IF i = 3 THEN NoFile ELSE t
                      /\ o # NoFile => tree[q] = IF i \in {1, 6} THEN NoFile ELSE o
                      /\ t # NoFile => tree[s] = IF i <= 4 THEN t ELSE NoFile
  <2>1. CASE k = j
    BY <1>7, <1>8, <2>0, <2>1
  <2>2. CASE k = 3 /\ j \in {1, 2}
    <3>1. Is(1) \/ Is(2) \/ Is(3)
      BY <1>0, <1>3, <1>8, <2>0, <2>2
    <3>2. QED
      BY <3>1
  <2>3. CASE k = 5 /\ j \in {3, 4}
    <3>1. Is(3) \/ Is(4) \/ Is(5)
      BY <1>0, <1>4, <1>8, <2>0, <2>3
    <3>2. QED
      BY <3>1
  <2>4. CASE k = 6 /\ j = 5
    <3>1. Is(5) \/ Is(6)
      BY <1>0, <1>8, <2>0, <2>4
    <3>2. QED
      BY <3>1
  <2>5. QED
    BY <1>6, <2>1, <2>2, <2>3, <2>4
<1>10. QED
  BY <1>5, <1>9 DEF Station
-----------------------------------------------------------------------------
(* One operation of a script that runs as it should. *)

LEMMA StandsNext ==
    ASSUME UNCHANGED <<entry, tok, pend>>
    PROVE  \A r, x : Stands(r, x)' <=> StandsAt(live', r, x[1]) /\ StandsAt(disk', r, x[2])
<1>1. \A r : New(r)' = New(r)
  BY DEF New, StagedCandidate, StagedTokens
<1>2. QED
  BY <1>1 DEF Stands, StandsAt, Cur, Quar, Stage

LEMMA OpEffects ==
    ASSUME TypeOK, Works
    PROVE  \A n, m, f :
             /\ NextOp = FsyncOp(n) =>
                    Proceed /\ live' = live /\ disk' = Synced(live, disk, n)
             /\ NextOp = CheckOp(n, f) /\ live[n] = f => Proceed /\ UNCHANGED <<live, disk>>
             /\ NextOp = CapturedOp(n, m, f) /\ live[n] = f => Proceed /\ UNCHANGED <<live, disk>>
             /\ NextOp = RenameOp(n, m, f) /\ live[n] # NoFile /\ live[m] = NoFile =>
                    Proceed /\ live' = Renamed(live, n, m) /\ disk' = disk
             /\ NextOp = UnlinkOp(n, f) /\ live[n] \in {f, NoFile} =>
                    Proceed /\ live' = Unlinked(live, n) /\ disk' = disk
<1> TAKE n, m, f
<1>1. ASSUME NextOp = FsyncOp(n)
      PROVE  Proceed /\ live' = live /\ disk' = Synced(live, disk, n)
  BY <1>1 DEF FsyncOp, Works, seen, Perform, DoRename, DoVerify, DoUnlink, DoCreate, DoFsync,
     DoCheck, DoCaptured, DoRefuse, Doing
<1>2. ASSUME NextOp = CheckOp(n, f), live[n] = f PROVE Proceed /\ UNCHANGED <<live, disk>>
  BY <1>2 DEF CheckOp, Works, seen, Perform, DoRename, DoVerify, DoUnlink, DoCreate, DoFsync,
     DoCheck, DoCaptured, DoRefuse, Doing, files
<1>3. ASSUME NextOp = CapturedOp(n, m, f), live[n] = f PROVE Proceed /\ UNCHANGED <<live, disk>>
  BY <1>3 DEF CapturedOp, Works, seen, Perform, DoRename, DoVerify, DoUnlink, DoCreate, DoFsync,
     DoCheck, DoCaptured, DoRefuse, Doing, files
<1>4. ASSUME NextOp = RenameOp(n, m, f), live[n] # NoFile, live[m] = NoFile
      PROVE  Proceed /\ live' = Renamed(live, n, m) /\ disk' = disk
  BY <1>4 DEF RenameOp, Works, seen, Perform, DoRename, DoVerify, DoUnlink, DoCreate, DoFsync,
     DoCheck, DoCaptured, DoRefuse, Doing
<1>5. ASSUME NextOp = UnlinkOp(n, f), live[n] \in {f, NoFile}
      PROVE  Proceed /\ live' = Unlinked(live, n) /\ disk' = disk
  <2>1. NextOp.do = "unlink" /\ NextOp.src = n /\ NextOp.file = f
    BY <1>5 DEF UnlinkOp
  <2>2. DoVerify \/ DoUnlink
    BY <2>1 DEF Works, Perform, DoRename, DoCreate, DoFsync, DoCheck, DoCaptured, DoRefuse, Doing
  <2>3. CASE DoVerify
    <3>1. Proceed /\ live[n] = NoFile /\ UNCHANGED files
      BY <1>5, <2>1, <2>3 DEF DoVerify, Works, seen
    <3>2. Unlinked(live, n) = live
      BY <3>1 DEF TypeOK, Unlinked
    <3>3. QED
      BY <3>1, <3>2 DEF files
  <2>4. CASE DoUnlink
    BY <2>1, <2>4 DEF DoUnlink
  <2>5. QED
    BY <2>2, <2>3, <2>4
<1>6. QED
  BY <1>1, <1>2, <1>3, <1>4, <1>5

\* A plan names the files of its row.
Names(p) == p.res \in Resource /\ p.old = entry[p.res] /\ p.staged = New(p.res)

\* The place an entry of the tree takes after fsync of some directory.
Settled(x, y) == y \in {x, SyncCurrent(x), SyncQuarantine(x), SyncStaging(x)}

LEMMA OpStands ==
    ASSUME TreeInv, Works, NEW p, Names(p), NEW x \in Lags, Stands(p.res, x), NEW y,
           Takes(p, NextOp, x, y)
    PROVE  /\ Proceed
           /\ StandsAt(live', p.res, y[1]) /\ StandsAt(disk', p.res, y[2])
<1> DEFINE r == p.res
           o == entry[r]
           t == New(r)
           c == Cur(r)
           q == Quar(r, DigestOf[o])
           s == Stage(t)
<1>0. /\ r \in Resource /\ c \in Name /\ (o # NoFile => q \in Name) /\ (t # NoFile => s \in Name)
      /\ (o # NoFile => o # t) /\ p.old = o /\ p.staged = t
  BY EntryIs, NewIs, CurIsName, QuarIsName, StageIsName DEF TreeInv, Names
<1>1. live \in Tree /\ disk \in Tree
  BY DEF TreeInv, TypeOK, Tree
<1>2. \A any, k : StandsAt(any, r, k) <=>
          /\ any[c] = IF k <= 2 THEN o ELSE IF k = 3 THEN NoFile ELSE t
          /\ o # NoFile => any[q] = IF k \in {1, 6} THEN NoFile ELSE o
          /\ t # NoFile => any[s] = IF k <= 4 THEN t ELSE NoFile
  BY DEF StandsAt
<1>3. c # q /\ c # s /\ q # s
  BY NamesDiffer
<1>4. TypeOK
  BY DEF TreeInv
<1>5. StandsAt(live, r, x[1]) /\ StandsAt(disk, r, x[2])
  BY DEF Stands
<1>6. \A n \in Name : /\ StandsAt(Synced(live, disk, n), r, SyncAt(n, r, x)[2])
                      /\ SyncAt(n, r, x)[1] = x[1]
  BY <1>0, SyncedStands
<1>7. /\ SyncAt(c, r, x) = SyncCurrent(x)
      /\ o # NoFile => SyncAt(q, r, x) = SyncQuarantine(x)
      /\ t # NoFile => SyncAt(s, r, x) = SyncStaging(x)
  <2>1. o # NoFile => q \in QuarNames
    BY EntryIs, <1>0 DEF QuarNames, TreeInv
  <2>2. t # NoFile => s \in StageNames
    BY NewIs, <1>0 DEF StageNames, TreeInv
  <2>3. QED
    BY <1>3, <2>1, <2>2, Directories DEF SyncAt
<1> HIDE DEF r, o, t, c, q, s
<1>8. \A n, m : /\ n \in Name /\ m \in Name /\ n # m =>
                       \A a \in Name : Renamed(live, n, m)[a] =
                            IF a = m THEN live[n] ELSE IF a = n THEN NoFile ELSE live[a]
                /\ n \in Name => \A a \in Name : Unlinked(live, n)[a] =
                            IF a = n THEN NoFile ELSE live[a]
  BY <1>1 DEF Renamed, Unlinked, Tree
<1>9. CASE NextOp = FsyncOp(c) /\ y = SyncCurrent(x)
  BY <1>0, <1>4, <1>5, <1>6, <1>7, <1>9, OpEffects DEF r
<1>10. CASE o # NoFile /\ NextOp = FsyncOp(q) /\ y = SyncQuarantine(x)
  BY <1>0, <1>4, <1>5, <1>6, <1>7, <1>10, OpEffects DEF r
<1>11. CASE t # NoFile /\ NextOp = FsyncOp(s) /\ y = SyncStaging(x)
  BY <1>0, <1>4, <1>5, <1>6, <1>7, <1>11, OpEffects DEF r
<1>12. CASE NextOp = CheckOp(c, t) /\ x[1] = 5 /\ y = x
  <2>1. live[c] = t
    BY <1>2, <1>5, <1>12
  <2>2. QED
    BY <1>4, <1>5, <1>12, <2>1, OpEffects DEF r
<1>13. CASE o # NoFile /\ NextOp = CapturedOp(q, c, o) /\ x[1] = 3 /\ y = x
  <2>1. live[q] = o
    BY <1>2, <1>5, <1>13
  <2>2. QED
    BY <1>4, <1>5, <1>13, <2>1, OpEffects DEF r
<1>14. CASE o # NoFile /\ NextOp = RenameOp(c, q, o) /\ x = <<1, 1>> /\ y = <<3, 1>>
  <2>1. live[c] = o /\ live[q] = NoFile /\ StandsAt(live, r, 1) /\ StandsAt(disk, r, 1)
    BY <1>2, <1>5, <1>14
  <2>2. Proceed /\ live' = Renamed(live, c, q) /\ disk' = disk
    BY <1>4, <1>14, <2>1, OpEffects
  <2>3. live'[c] = NoFile /\ live'[q] = o /\ (t # NoFile => live'[s] = live[s])
    BY <1>0, <1>3, <1>8, <1>14, <2>1, <2>2
  <2>4. StandsAt(live', r, 3)
    BY <1>2, <2>1, <2>3
  <2>5. QED
    BY <1>14, <2>1, <2>2, <2>4 DEF r
<1>15. CASE o # NoFile /\ NextOp = UnlinkOp(c, o) /\ x = <<2, 2>> /\ y = <<3, 2>>
  <2>1. live[c] = o /\ StandsAt(live, r, 2) /\ StandsAt(disk, r, 2)
    BY <1>2, <1>5, <1>15
  <2>2. Proceed /\ live' = Unlinked(live, c) /\ disk' = disk
    BY <1>4, <1>15, <2>1, OpEffects
  <2>3. live'[c] = NoFile /\ live'[q] = live[q] /\ (t # NoFile => live'[s] = live[s])
    BY <1>0, <1>3, <1>8, <1>15, <2>2
  <2>4. StandsAt(live', r, 3)
    BY <1>2, <2>1, <2>3
  <2>5. QED
    BY <1>15, <2>1, <2>2, <2>4 DEF r
<1>16. CASE o # NoFile /\ NextOp = UnlinkOp(q, o) /\ x = <<5, 5>> /\ y = <<6, 5>>
  <2>1. live[q] = o /\ StandsAt(live, r, 5) /\ StandsAt(disk, r, 5)
    BY <1>2, <1>5, <1>16
  <2>2. Proceed /\ live' = Unlinked(live, q) /\ disk' = disk
    BY <1>4, <1>16, <2>1, OpEffects
  <2>3. live'[c] = live[c] /\ live'[q] = NoFile /\ (t # NoFile => live'[s] = live[s])
    BY <1>0, <1>3, <1>8, <1>16, <2>2
  <2>4. StandsAt(live', r, 6)
    BY <1>2, <2>1, <2>3
  <2>5. QED
    BY <1>16, <2>1, <2>2, <2>4 DEF r
<1>17. CASE o # NoFile /\ NextOp = UnlinkOp(q, o) /\ x[1] = 6 /\ y = x
  <2>1. live[q] = NoFile /\ StandsAt(live, r, 6)
    BY <1>2, <1>5, <1>17
  <2>2. Proceed /\ live' = Unlinked(live, q) /\ disk' = disk
    BY <1>4, <1>17, <2>1, OpEffects
  <2>3. live'[c] = live[c] /\ live'[q] = NoFile /\ (t # NoFile => live'[s] = live[s])
    BY <1>0, <1>3, <1>8, <1>17, <2>2
  <2>4. StandsAt(live', r, 6)
    BY <1>2, <2>1, <2>3
  <2>5. QED
    BY <1>5, <1>17, <2>2, <2>4 DEF r
<1>18. CASE /\ o # NoFile /\ NextOp = UnlinkOp(q, o) /\ t = NoFile
            /\ x = <<3, 3>> /\ y = <<6, 5>>
  <2>1. live[q] = o /\ StandsAt(live, r, 3) /\ StandsAt(disk, r, 3)
    BY <1>2, <1>5, <1>18
  <2>2. Proceed /\ live' = Unlinked(live, q) /\ disk' = disk
    BY <1>4, <1>18, <2>1, OpEffects
  <2>3. live'[c] = NoFile /\ live'[q] = NoFile /\ disk'[c] = NoFile /\ disk'[q] = o
    BY <1>0, <1>2, <1>3, <1>8, <1>18, <2>1, <2>2
  <2>4. StandsAt(live', r, 6) /\ StandsAt(disk', r, 5)
    BY <1>2, <1>18, <2>3
  <2>5. QED
    BY <1>18, <2>2, <2>4 DEF r
<1>19. CASE t # NoFile /\ NextOp = RenameOp(s, c, t) /\ x = <<3, 3>> /\ y = <<5, 3>>
  <2>1. live[s] = t /\ live[c] = NoFile /\ StandsAt(live, r, 3) /\ StandsAt(disk, r, 3)
    BY <1>2, <1>5, <1>19
  <2>2. Proceed /\ live' = Renamed(live, s, c) /\ disk' = disk
    BY <1>4, <1>19, <2>1, OpEffects
  <2>3. live'[s] = NoFile /\ live'[c] = t /\ (o # NoFile => live'[q] = live[q])
    BY <1>0, <1>3, <1>8, <1>19, <2>1, <2>2
  <2>4. StandsAt(live', r, 5)
    BY <1>2, <2>1, <2>3
  <2>5. QED
    BY <1>19, <2>1, <2>2, <2>4 DEF r
<1>20. CASE t # NoFile /\ NextOp = UnlinkOp(s, t) /\ x = <<4, 4>> /\ y = <<5, 4>>
  <2>1. live[s] = t /\ StandsAt(live, r, 4) /\ StandsAt(disk, r, 4)
    BY <1>2, <1>5, <1>20
  <2>2. Proceed /\ live' = Unlinked(live, s) /\ disk' = disk
    BY <1>4, <1>20, <2>1, OpEffects
  <2>3. live'[c] = live[c] /\ live'[s] = NoFile /\ (o # NoFile => live'[q] = live[q])
    BY <1>0, <1>3, <1>8, <1>20, <2>2
  <2>4. StandsAt(live', r, 5)
    BY <1>2, <2>1, <2>3
  <2>5. QED
    BY <1>20, <2>1, <2>2, <2>4 DEF r
<1>21. QED
  BY <1>0, <1>9, <1>10, <1>11, <1>12, <1>13, <1>14, <1>15, <1>16, <1>17, <1>18, <1>19, <1>20
     DEF Takes, r, o, t, c, q, s

LEMMA SettledLag ==
    ASSUME NEW x \in Lags, NEW y, Settled(x, y)
    PROVE  /\ y \in Lags
           /\ x \in {<<1, 1>>, <<5, 5>>, <<6, 6>>} => y = x
           /\ y[1] = x[1]
<1>1. y \in Lags
  BY LagIs DEF Settled
<1>2. x \in {<<1, 1>>, <<5, 5>>, <<6, 6>>} => y = x
  BY DEF Settled, SyncCurrent, SyncQuarantine, SyncStaging
<1>3. y[1] = x[1]
  BY LagIs DEF Settled, SyncCurrent, SyncQuarantine, SyncStaging
<1>4. QED
  BY <1>1, <1>2, <1>3

\* fsync of a directory only moves the disk on.
LEMMA FsyncStands ==
    ASSUME TreeInv, NEW n \in Name, NEW r \in Resource, NEW x \in Lags, Stands(r, x),
           live' = live, disk' = Synced(live, disk, n)
    PROVE  \E y \in Lags : /\ Settled(x, y)
                           /\ StandsAt(live', r, y[1]) /\ StandsAt(disk', r, y[2])
<1>1. /\ StandsAt(Synced(live, disk, n), r, SyncAt(n, r, x)[2])
      /\ SyncAt(n, r, x)[1] = x[1]
  BY SyncedStands
<1>2. Settled(x, SyncAt(n, r, x))
  BY DEF Settled, SyncAt
<1>3. SyncAt(n, r, x) \in Lags
  BY <1>2, SettledLag
<1>4. StandsAt(live, r, x[1])
  BY DEF Stands
<1>5. QED
  BY <1>1, <1>2, <1>3, <1>4

\* The other rows are left as they are.
LEMMA OthersStand ==
    ASSUME TreeInv, Works, step # "out", NEW p, Names(p),
           NEW x \in Lags, Stands(p.res, x), NEW y, Takes(p, NextOp, x, y),
           NEW r \in Resource, r # p.res, NEW z \in Lags, Stands(r, z)
    PROVE  \E u \in Lags : /\ Settled(z, u)
                           /\ StandsAt(live', r, u[1]) /\ StandsAt(disk', r, u[2])
<1>0. TypeOK /\ Proceed
  BY OpStands DEF TreeInv
<1>1. ~Refuse
  BY <1>0 DEF Refuse, Leave, Proceed
<1>2. /\ live \in Tree /\ NextOp.src \in Name /\ NextOp.dst \in Name /\ NextOp \in Op
  BY <1>0, PerformParts, NextOpIsTyped DEF TypeOK, Tree
<1>3. CASE NextOp.do = "fsync"
  <2>1. live' = live /\ disk' = Synced(live, disk, NextOp.src)
    BY <1>0, <1>1, <1>3, PerformParts
  <2>2. QED
    BY <1>2, <2>1, FsyncStands
<1>4. CASE NextOp.do \in {"check", "captured"}
  <2>1. live' = live /\ disk' = disk
    BY <1>0, <1>1, <1>4, PerformParts
  <2>2. QED
    BY <2>1 DEF Stands, Settled
<1>5. CASE NextOp.do \in {"rename", "unlink"}
  <2>1. /\ disk' = disk
        /\ \A m \in Name : m \notin {NextOp.src, NextOp.dst} => live'[m] = live[m]
    BY <1>0, <1>1, <1>2, <1>5, PerformParts DEF Renamed, Unlinked, Tree
  <2>2. \A m \in {NextOp.src, NextOp.dst} :
            \/ m = Cur(p.res)
            \/ \E d : m = Quar(p.res, d)
            \/ New(p.res) # NoFile /\ m = Stage(New(p.res))
    BY <1>5 DEF Takes, Names, FsyncOp, CheckOp, RenameOp, UnlinkOp, CapturedOp
  <2>3. New(r) # NoFile => New(r) # New(p.res)
    BY NewIs DEF TreeInv, Names
  <2>4. /\ Cur(r) \notin {NextOp.src, NextOp.dst}
        /\ \A d : Quar(r, d) \notin {NextOp.src, NextOp.dst}
        /\ New(r) # NoFile => Stage(New(r)) \notin {NextOp.src, NextOp.dst}
    BY <2>2, <2>3, NamesDiffer
  <2>5. /\ live'[Cur(r)] = live[Cur(r)]
        /\ entry[r] # NoFile =>
              live'[Quar(r, DigestOf[entry[r]])] = live[Quar(r, DigestOf[entry[r]])]
        /\ New(r) # NoFile => live'[Stage(New(r))] = live[Stage(New(r))]
    BY <2>1, <2>4, EntryIs, NewIs, CurIsName, QuarIsName, StageIsName DEF TreeInv
  <2>6. \A k : StandsAt(live, r, k) => StandsAt(live', r, k)
    BY <2>5 DEF StandsAt
  <2>7. QED
    BY <2>1, <2>6 DEF Stands, Settled
<1>6. NextOp.do \in {"fsync", "check", "captured", "rename", "unlink"}
  BY DEF Takes, FsyncOp, CheckOp, RenameOp, UnlinkOp, CapturedOp
<1>7. QED
  BY <1>3, <1>4, <1>5, <1>6
-----------------------------------------------------------------------------
(* Each routine takes the replacement on from where it finds it. *)

LEMMA MoveLeads ==
    ASSUME NEW p, p.staged # NoFile
    PROVE  Leads(p, MoveStageIn(p.res, p.staged), <<3, 3>>, <<5, 5>>)
<1>1. /\ Takes(p, RenameOp(Stage(p.staged), Cur(p.res), p.staged), <<3, 3>>, <<5, 3>>)
      /\ Takes(p, FsyncOp(Cur(p.res)), <<5, 3>>, <<5, 4>>)
      /\ Takes(p, FsyncOp(Stage(p.staged)), <<5, 4>>, <<5, 5>>)
      /\ Takes(p, CheckOp(Cur(p.res), p.staged), <<5, 5>>, <<5, 5>>)
  BY DEF Takes, SyncCurrent, SyncStaging
<1>2. <<3, 3>> \in Lags
  BY LagIs
<1>3. QED
  BY <1>1, <1>2, RunFour DEF MoveStageIn

LEMMA CaptureLeads ==
    ASSUME NEW p, p.old # NoFile
    PROVE  LET q == Quar(p.res, DigestOf[p.old])
           IN  /\ Leads(p, QuarantineCurrent(p.res, q, p.old), <<1, 1>>, <<3, 3>>)
               /\ \A x \in {<<3, 1>>, <<3, 2>>, <<3, 3>>} :
                      Leads(p, FsyncRecoveredCapture(p.res, q), x, <<3, 3>>)
               /\ \A x \in {<<6, 5>>, <<6, 6>>} :
                      Leads(p, FsyncRecoveredCapture(p.res, q), x, <<6, 6>>)
<1> DEFINE q == Quar(p.res, DigestOf[p.old])
<1>0. Lags = {<<1, 1>>, <<2, 2>>, <<3, 3>>, <<4, 4>>, <<5, 5>>, <<6, 6>>,
              <<3, 1>>, <<3, 2>>, <<5, 3>>, <<5, 4>>, <<6, 5>>}
  BY LagIs
<1>1. Leads(p, QuarantineCurrent(p.res, q, p.old), <<1, 1>>, <<3, 3>>)
  <2>1. /\ Takes(p, RenameOp(Cur(p.res), q, p.old), <<1, 1>>, <<3, 1>>)
        /\ Takes(p, FsyncOp(q), <<3, 1>>, <<3, 2>>)
        /\ Takes(p, FsyncOp(Cur(p.res)), <<3, 2>>, <<3, 3>>)
        /\ Takes(p, CapturedOp(q, Cur(p.res), p.old), <<3, 3>>, <<3, 3>>)
    BY DEF Takes, SyncCurrent, SyncQuarantine
  <2>2. QED
    BY <1>0, <2>1, RunFour DEF QuarantineCurrent
<1>2. ASSUME NEW x \in {<<3, 1>>, <<3, 2>>, <<3, 3>>}
      PROVE  Leads(p, FsyncRecoveredCapture(p.res, q), x, <<3, 3>>)
  <2>1. PICK y \in {<<3, 2>>, <<3, 3>>} : Takes(p, FsyncOp(q), x, y)
    BY DEF Takes, SyncQuarantine
  <2>2. Takes(p, FsyncOp(Cur(p.res)), y, <<3, 3>>)
    BY DEF Takes, SyncCurrent
  <2>3. QED
    BY <1>0, <2>1, <2>2, RunTwo DEF FsyncRecoveredCapture
<1>3. ASSUME NEW x \in {<<6, 5>>, <<6, 6>>}
      PROVE  Leads(p, FsyncRecoveredCapture(p.res, q), x, <<6, 6>>)
  <2>1. Takes(p, FsyncOp(q), x, <<6, 6>>)
    BY DEF Takes, SyncQuarantine
  <2>2. Takes(p, FsyncOp(Cur(p.res)), <<6, 6>>, <<6, 6>>)
    BY DEF Takes, SyncCurrent
  <2>3. QED
    BY <1>0, <2>1, <2>2, RunTwo DEF FsyncRecoveredCapture
<1>4. QED
  BY <1>1, <1>2, <1>3

LEMMA HealLeads ==
    ASSUME NEW p
    PROVE  /\ p.old # NoFile /\ live[Cur(p.res)] = p.old
                  /\ live[Quar(p.res, DigestOf[p.old])] = p.old =>
                Leads(p, Heal(Cur(p.res), Quar(p.res, DigestOf[p.old]), p.old),
                      <<2, 2>>, <<3, 3>>)
           /\ p.staged # NoFile /\ live[Cur(p.res)] = p.staged
                  /\ live[Stage(p.staged)] = p.staged =>
                Leads(p, Heal(Stage(p.staged), Cur(p.res), p.staged), <<4, 4>>, <<5, 5>>)
<1> DEFINE c == Cur(p.res)
           q == Quar(p.res, DigestOf[p.old])
           s == Stage(p.staged)
<1>0. Lags = {<<1, 1>>, <<2, 2>>, <<3, 3>>, <<4, 4>>, <<5, 5>>, <<6, 6>>,
              <<3, 1>>, <<3, 2>>, <<5, 3>>, <<5, 4>>, <<6, 5>>}
  BY LagIs
<1>1. ASSUME p.old # NoFile, live[c] = p.old, live[q] = p.old
      PROVE  Leads(p, Heal(c, q, p.old), <<2, 2>>, <<3, 3>>)
  <2>1. /\ Takes(p, FsyncOp(q), <<2, 2>>, <<2, 2>>)
        /\ Takes(p, FsyncOp(c), <<2, 2>>, <<2, 2>>)
        /\ Takes(p, UnlinkOp(c, p.old), <<2, 2>>, <<3, 2>>)
        /\ Takes(p, FsyncOp(c), <<3, 2>>, <<3, 3>>)
        /\ Takes(p, FsyncOp(q), <<3, 3>>, <<3, 3>>)
    BY <1>1 DEF Takes, SyncCurrent, SyncQuarantine
  <2>2. Heal(c, q, p.old) =
            <<FsyncOp(q), FsyncOp(c), UnlinkOp(c, p.old), FsyncOp(c), FsyncOp(q)>>
    BY <1>1 DEF Heal
  <2> HIDE DEF c, q
  <2>3. QED
    BY <1>0, <2>1, <2>2, RunFive
<1>2. ASSUME p.staged # NoFile, live[c] = p.staged, live[s] = p.staged
      PROVE  Leads(p, Heal(s, c, p.staged), <<4, 4>>, <<5, 5>>)
  <2>1. /\ Takes(p, FsyncOp(c), <<4, 4>>, <<4, 4>>)
        /\ Takes(p, FsyncOp(s), <<4, 4>>, <<4, 4>>)
        /\ Takes(p, UnlinkOp(s, p.staged), <<4, 4>>, <<5, 4>>)
        /\ Takes(p, FsyncOp(s), <<5, 4>>, <<5, 5>>)
        /\ Takes(p, FsyncOp(c), <<5, 5>>, <<5, 5>>)
    BY <1>2 DEF Takes, SyncCurrent, SyncStaging
  <2>2. Heal(s, c, p.staged) =
            <<FsyncOp(c), FsyncOp(s), UnlinkOp(s, p.staged), FsyncOp(s), FsyncOp(c)>>
    BY <1>2 DEF Heal
  <2> HIDE DEF c, s
  <2>3. QED
    BY <1>0, <2>1, <2>2, RunFive
<1>3. QED
  BY <1>1, <1>2

LEMMA RecoveredLeads ==
    ASSUME NEW p, p.staged # NoFile
    PROVE  /\ \A x \in {<<5, 3>>, <<5, 4>>, <<5, 5>>} :
                  Leads(p, FsyncRecoveredInstall(p), x, <<5, 5>>)
           /\ \A x \in {<<6, 5>>, <<6, 6>>} : Leads(p, FsyncRecoveredInstall(p), x, x)
<1>0. Lags = {<<1, 1>>, <<2, 2>>, <<3, 3>>, <<4, 4>>, <<5, 5>>, <<6, 6>>,
              <<3, 1>>, <<3, 2>>, <<5, 3>>, <<5, 4>>, <<6, 5>>}
  BY LagIs
<1>1. ASSUME NEW x \in {<<5, 3>>, <<5, 4>>, <<5, 5>>}
      PROVE  Leads(p, FsyncRecoveredInstall(p), x, <<5, 5>>)
  <2>1. PICK y \in {<<5, 4>>, <<5, 5>>} : Takes(p, FsyncOp(Cur(p.res)), x, y)
    BY DEF Takes, SyncCurrent
  <2>2. Takes(p, FsyncOp(Stage(p.staged)), y, <<5, 5>>)
    BY DEF Takes, SyncStaging
  <2>3. QED
    BY <1>0, <2>1, <2>2, RunTwo DEF FsyncRecoveredInstall
<1>2. ASSUME NEW x \in {<<6, 5>>, <<6, 6>>} PROVE Leads(p, FsyncRecoveredInstall(p), x, x)
  <2>1. Takes(p, FsyncOp(Cur(p.res)), x, x) /\ Takes(p, FsyncOp(Stage(p.staged)), x, x)
    BY DEF Takes, SyncCurrent, SyncStaging
  <2>2. QED
    BY <1>0, <2>1, RunTwo DEF FsyncRecoveredInstall
<1>3. QED
  BY <1>1, <1>2

LEMMA RetireLeads ==
    ASSUME NEW p, p.old # NoFile
    PROVE  /\ \A x \in {<<5, 5>>, <<6, 5>>, <<6, 6>>} :
                  Leads(p, UnlinkQuarantined(p.res, p.old), x, <<6, 6>>)
           /\ p.staged = NoFile =>
                  Leads(p, UnlinkQuarantined(p.res, p.old), <<3, 3>>, <<6, 6>>)
<1> DEFINE q == Quar(p.res, DigestOf[p.old])
<1>0. Lags = {<<1, 1>>, <<2, 2>>, <<3, 3>>, <<4, 4>>, <<5, 5>>, <<6, 6>>,
              <<3, 1>>, <<3, 2>>, <<5, 3>>, <<5, 4>>, <<6, 5>>}
  BY LagIs
<1>1. \A x \in {<<6, 5>>, <<6, 6>>} : Takes(p, FsyncOp(q), x, <<6, 6>>)
  BY DEF Takes, SyncQuarantine
<1>2. ASSUME NEW x \in {<<5, 5>>, <<6, 5>>, <<6, 6>>}
      PROVE  \E y \in {<<6, 5>>, <<6, 6>>} : Takes(p, UnlinkOp(q, p.old), x, y)
  BY DEF Takes
<1>3. p.staged = NoFile => Takes(p, UnlinkOp(q, p.old), <<3, 3>>, <<6, 5>>)
  BY DEF Takes
<1>4. QED
  BY <1>0, <1>1, <1>2, <1>3, RunTwo DEF UnlinkQuarantined

\* Without an old file, or without a new one, stations coincide.
LEMMA SameStation ==
    ASSUME NEW r, NEW tree, NEW k \in Station, StandsAt(tree, r, k)
    PROVE  /\ entry[r] = NoFile /\ k \in {1, 2, 3} => StandsAt(tree, r, 3)
           /\ entry[r] = NoFile /\ k \in {5, 6} => StandsAt(tree, r, 5)
           /\ New(r) = NoFile /\ k \in {3, 4, 5} => StandsAt(tree, r, 3)
BY DEF StandsAt

LEMMA LagPairs ==
    ASSUME NEW x \in Lags
    PROVE  \E k \in Station, j \in Station :
              /\ x = <<k, j>>
              /\ \/ k = j
                 \/ k = 3 /\ j \in {1, 2}
                 \/ k = 5 /\ j \in {3, 4}
                 \/ k = 6 /\ j = 5
              /\ k \in {1, 2, 3, 4, 5, 6} /\ j \in {1, 2, 3, 4, 5, 6}
BY LagIs DEF Station

\* What the two names and the quarantine show at each station.
LEMMA StationShows ==
    ASSUME TreeInv, NEW p, Names(p), NEW k \in Station, StandsAt(live, p.res, k)
    PROVE  LET c == Cur(p.res)
               q == Quar(p.res, DigestOf[p.old])
               s == Stage(p.staged)
           IN  /\ live[c] = IF k <= 2 THEN p.old ELSE IF k = 3 THEN NoFile ELSE p.staged
               /\ p.old # NoFile => live[q] = IF k \in {1, 6} THEN NoFile ELSE p.old
               /\ p.staged # NoFile => live[s] = IF k <= 4 THEN p.staged ELSE NoFile
               /\ p.old # NoFile => p.old # p.staged /\ p.old \in Token
               /\ p.staged # NoFile => p.staged \in Token
BY EntryIs, NewIs DEF StandsAt, Names, TreeInv

LEMMA CaptureMoveLeads ==
    ASSUME TreeInv, NEW p, Names(p), p.old # NoFile, p.staged # NoFile,
           NEW x \in {<<1, 1>>, <<2, 2>>, <<3, 1>>, <<3, 2>>, <<3, 3>>}, Stands(p.res, x)
    PROVE  Leads(p, CaptureThenMoveIn(p), x, <<5, 5>>)
<1> DEFINE c == Cur(p.res)
           q == Quar(p.res, DigestOf[p.old])
           k == x[1]
<1>0. p.res \in Resource /\ k \in Station /\ StandsAt(live, p.res, k)
  BY DEF Stands, Names, Station
<1>1. /\ live[c] = IF k <= 2 THEN p.old ELSE NoFile
      /\ live[q] = IF k = 1 THEN NoFile ELSE p.old
      /\ p.old \in Token /\ p.staged \in Token
  BY <1>0, StationShows
<1>2. /\ CaptureReplacedCurrent(p.res, p.old) \in FileScript
      /\ MoveStageIn(p.res, p.staged) \in FileScript
  BY <1>0, <1>1, CaptureScript, MoveScript
<1>3. CASE x = <<1, 1>>
  <2>1. CaptureReplacedCurrent(p.res, p.old) = QuarantineCurrent(p.res, q, p.old)
    BY <1>1, <1>3 DEF CaptureReplacedCurrent
  <2>2. Leads(p, CaptureReplacedCurrent(p.res, p.old), x, <<3, 3>>)
    BY <1>3, <2>1, CaptureLeads
  <2>3. QED
    BY <1>2, <2>2, MoveLeads, RunJoin DEF CaptureThenMoveIn, FileScript
<1>4. CASE x = <<2, 2>>
  <2>1. CaptureReplacedCurrent(p.res, p.old) = Heal(c, q, p.old)
    BY <1>1, <1>4 DEF CaptureReplacedCurrent
  <2>2. Leads(p, CaptureReplacedCurrent(p.res, p.old), x, <<3, 3>>)
    BY <1>1, <1>4, <2>1, HealLeads
  <2>3. QED
    BY <1>2, <2>2, MoveLeads, RunJoin DEF CaptureThenMoveIn, FileScript
<1>5. CASE x \in {<<3, 1>>, <<3, 2>>, <<3, 3>>}
  <2>1. CaptureReplacedCurrent(p.res, p.old) = FsyncRecoveredCapture(p.res, q)
    BY <1>1, <1>5 DEF CaptureReplacedCurrent
  <2>2. Leads(p, CaptureReplacedCurrent(p.res, p.old), x, <<3, 3>>)
    BY <1>5, <2>1, CaptureLeads
  <2>3. QED
    BY <1>2, <2>2, MoveLeads, RunJoin DEF CaptureThenMoveIn, FileScript
<1>6. QED
  BY <1>3, <1>4, <1>5

\* Whatever was interrupted, the install of a reserved row has a script that
\* runs to its end.
LEMMA InstallLeads ==
    ASSUME TreeInv, NEW p \in Plan, Names(p), p.staged # NoFile,
           NEW x \in Lags, Stands(p.res, x), p.fresh => x = <<1, 1>>
    PROVE  \E z \in Lags : \E y \in Ends(p) :
              Stands(p.res, z) /\ Leads(p, PerformPendingInstall(p), z, y)
<1> DEFINE c == Cur(p.res)
           q == Quar(p.res, DigestOf[p.old])
           s == Stage(p.staged)
<1>0. PICK k \in Station, j \in Station :
          /\ x = <<k, j>>
          /\ \/ k = j
             \/ k = 3 /\ j \in {1, 2}
             \/ k = 5 /\ j \in {3, 4}
             \/ k = 6 /\ j = 5
          /\ k \in {1, 2, 3, 4, 5, 6} /\ j \in {1, 2, 3, 4, 5, 6}
  BY LagPairs
<1>1. /\ p.res \in Resource /\ p.old \in Token \cup {NoFile} /\ p.fresh \in BOOLEAN
      /\ StandsAt(live, p.res, k) /\ StandsAt(disk, p.res, j)
  BY <1>0 DEF Stands, Plan
<1>2. /\ live[c] = IF k <= 2 THEN p.old ELSE IF k = 3 THEN NoFile ELSE p.staged
      /\ p.old # NoFile => live[q] = IF k \in {1, 6} THEN NoFile ELSE p.old
      /\ live[s] = IF k <= 4 THEN p.staged ELSE NoFile
      /\ p.old # NoFile => p.old # p.staged /\ p.old \in Token
      /\ p.staged \in Token
  BY <1>1, StationShows
<1>3. /\ p.fresh => PerformPendingInstall(p) = InstallFreshStaged(p) \o RetireReplacedCurrent(p)
      /\ ~p.fresh => PerformPendingInstall(p) = InstallReplayed(p) \o RetireReplacedCurrent(p)
  <2>1. CASE p.fresh
    BY <2>1 DEF PerformPendingInstall
  <2>2. CASE ~p.fresh
    BY <2>2 DEF PerformPendingInstall
  <2>3. QED
    BY <2>1, <2>2
<1>4. /\ RetireReplacedCurrent(p) \in FileScript
      /\ CaptureThenMoveIn(p) \in FileScript
      /\ Heal(s, c, p.staged) \in FileScript
      /\ FsyncRecoveredInstall(p) \in FileScript
  <2>1. RetireReplacedCurrent(p) \in FileScript
    BY <1>1, UnlinkScript, RefuseScript DEF RetireReplacedCurrent
  <2>2. CaptureThenMoveIn(p) \in FileScript
    <3>1. MoveStageIn(p.res, p.staged) \in FileScript
      BY <1>1, <1>2, MoveScript
    <3>2. p.old # NoFile => CaptureReplacedCurrent(p.res, p.old) \in FileScript
      BY <1>1, CaptureScript
    <3>3. QED
      BY <3>1, <3>2, FileScripts DEF CaptureThenMoveIn
  <2>3. Heal(s, c, p.staged) \in FileScript
    BY <1>1, <1>2, HealScript, RoutineNames
  <2>4. FsyncRecoveredInstall(p) \in FileScript
    BY <1>1, <1>2, FileOpTypes, RoutineNames, TokenIsContent DEF FsyncRecoveredInstall, FileScript
  <2>5. QED
    BY <2>1, <2>2, <2>3, <2>4
\* The routine that brings the new file to the current name.
<1>5. \E z \in Lags : \E y \in {<<5, 5>>, <<6, 5>>, <<6, 6>>} : \E m \in FileScript :
          /\ Stands(p.res, z) /\ Leads(p, m, z, y)
          /\ p.old = NoFile => y = <<5, 5>>
          /\ PerformPendingInstall(p) = m \o RetireReplacedCurrent(p)
  <2>1. CASE k \in {1, 2, 3}
    <3>1. PerformPendingInstall(p) = CaptureThenMoveIn(p) \o RetireReplacedCurrent(p)
      <4>1. CASE p.fresh
        <5>1. k = 1
          BY <1>0, <4>1
        <5>2. InstallFreshStaged(p) = CaptureThenMoveIn(p)
          BY <1>2, <5>1 DEF InstallFreshStaged
        <5>3. QED
          BY <1>3, <4>1, <5>2
      <4>2. CASE ~p.fresh
        <5>1. /\ live[c] \in {NoFile, p.old} /\ live[s] = p.staged /\ live[c] # p.staged
              /\ p.staged # NoFile
          BY <1>2, <2>1
        <5>2. InstallReplayed(p) = CaptureThenMoveIn(p)
          BY <5>1 DEF InstallReplayed
        <5>3. QED
          BY <1>3, <4>2, <5>2
      <4>3. QED
        BY <4>1, <4>2
    <3>2. CASE p.old = NoFile
      <4>1. CaptureThenMoveIn(p) = MoveStageIn(p.res, p.staged)
        BY <3>2 DEF CaptureThenMoveIn
      <4>2. j \in {1, 2, 3}
        BY <1>0, <2>1
      <4>3. Stands(p.res, <<3, 3>>) /\ <<3, 3>> \in Lags
        BY <1>1, <2>1, <3>2, <4>2, SameStation, LagIs DEF Stands, Names
      <4>4. QED
        BY <1>4, <3>1, <4>1, <4>3, MoveLeads
    <3>3. CASE p.old # NoFile
      <4>1. x \in {<<1, 1>>, <<2, 2>>, <<3, 1>>, <<3, 2>>, <<3, 3>>}
        BY <1>0, <2>1
      <4>2. Leads(p, CaptureThenMoveIn(p), x, <<5, 5>>)
        BY <3>3, <4>1, CaptureMoveLeads
      <4>3. QED
        BY <1>4, <3>1, <3>3, <4>2
    <3>4. QED
      BY <3>2, <3>3
  <2>2. CASE k = 4
    <3>1. ~p.fresh /\ x = <<4, 4>>
      BY <1>0, <2>2
    <3>2. /\ live[c] = p.staged /\ live[s] = p.staged /\ p.staged # NoFile /\ p.staged # p.old
      BY <1>2, <2>2
    <3>3. InstallReplayed(p) = Heal(s, c, p.staged)
      BY <3>2 DEF InstallReplayed
    <3>4. Leads(p, Heal(s, c, p.staged), <<4, 4>>, <<5, 5>>)
      BY <3>2, HealLeads
    <3>5. QED
      BY <1>3, <1>4, <3>1, <3>3, <3>4
  <2>3. CASE k \in {5, 6}
    <3>1. ~p.fresh /\ x \in {<<5, 3>>, <<5, 4>>, <<5, 5>>, <<6, 5>>, <<6, 6>>}
      BY <1>0, <2>3
    <3>2. /\ live[c] = p.staged /\ live[s] = NoFile /\ p.staged # NoFile /\ p.staged # p.old
          /\ p.old # NoFile => live[q] \in {NoFile, p.old}
      BY <1>2, <2>3
    <3>3. InstallReplayed(p) = FsyncRecoveredInstall(p)
      BY <3>2 DEF InstallReplayed
    <3>4. CASE k = 5
      <4>1. x \in {<<5, 3>>, <<5, 4>>, <<5, 5>>}
        BY <1>0, <3>4
      <4>2. Leads(p, FsyncRecoveredInstall(p), x, <<5, 5>>)
        BY <4>1, RecoveredLeads
      <4>3. QED
        BY <1>3, <1>4, <3>1, <3>3, <4>2
    <3>5. CASE k = 6 /\ p.old # NoFile
      <4>1. x \in {<<6, 5>>, <<6, 6>>}
        BY <1>0, <3>5
      <4>2. Leads(p, FsyncRecoveredInstall(p), x, x)
        BY <4>1, RecoveredLeads
      <4>3. QED
        BY <1>3, <1>4, <3>1, <3>3, <3>5, <4>1, <4>2
    <3>6. CASE k = 6 /\ p.old = NoFile
      <4>1. j \in {5, 6}
        BY <1>0, <3>6
      <4>2. Stands(p.res, <<5, 5>>) /\ <<5, 5>> \in Lags
        BY <1>1, <3>6, <4>1, SameStation, LagIs DEF Stands, Names
      <4>3. Leads(p, FsyncRecoveredInstall(p), <<5, 5>>, <<5, 5>>)
        BY RecoveredLeads
      <4>4. QED
        BY <1>3, <1>4, <3>1, <3>3, <4>2, <4>3
    <3>7. QED
      BY <2>3, <3>4, <3>5, <3>6
  <2>4. QED
    BY <1>0, <2>1, <2>2, <2>3
<1>6. PICK z \in Lags, y \in {<<5, 5>>, <<6, 5>>, <<6, 6>>}, m \in FileScript :
          /\ Stands(p.res, z) /\ Leads(p, m, z, y)
          /\ p.old = NoFile => y = <<5, 5>>
          /\ PerformPendingInstall(p) = m \o RetireReplacedCurrent(p)
  BY <1>5
<1>7. \E u \in Ends(p) : Leads(p, RetireReplacedCurrent(p), y, u)
  <2>1. CASE p.old = NoFile
    <3>1. RetireReplacedCurrent(p) = <<>> /\ y = <<5, 5>> /\ y \in Lags
      BY <1>6, <2>1, LagIs DEF RetireReplacedCurrent
    <3>2. QED
      BY <2>1, <3>1, RunEmpty DEF Ends
  <2>2. CASE p.old # NoFile
    BY <2>2, RetireLeads DEF RetireReplacedCurrent, Ends
  <2>3. QED
    BY <2>1, <2>2
<1>8. PICK u \in Ends(p) : Leads(p, RetireReplacedCurrent(p), y, u)
  BY <1>7
<1>9. Leads(p, m \o RetireReplacedCurrent(p), z, u)
  BY <1>4, <1>6, <1>8, RunJoin DEF FileScript
<1>10. QED
  BY <1>6, <1>8, <1>9

LEMMA RemovalLeads ==
    ASSUME TreeInv, NEW p \in Plan, Names(p), p.old \in Token, p.staged = NoFile,
           p.digest = DigestOf[p.old],
           NEW x \in Lags, Stands(p.res, x), p.fresh => x = <<1, 1>>
    PROVE  \E z \in Lags : \E y \in Ends(p) :
              Stands(p.res, z) /\ Leads(p, PerformPendingRemoval(p), z, y)
<1> DEFINE c == Cur(p.res)
           q == Quar(p.res, p.digest)
           heal == Heal(c, q, p.old)
           move == QuarantineCurrent(p.res, q, p.old)
           sync == FsyncRecoveredCapture(p.res, q)
           retire == UnlinkQuarantined(p.res, p.old)
           s == PerformPendingRemoval(p)
<1>0. PICK k \in Station, j \in Station :
          /\ x = <<k, j>>
          /\ \/ k = j
             \/ k = 3 /\ j \in {1, 2}
             \/ k = 5 /\ j \in {3, 4}
             \/ k = 6 /\ j = 5
          /\ k \in {1, 2, 3, 4, 5, 6} /\ j \in {1, 2, 3, 4, 5, 6}
  BY LagPairs
<1>1. /\ p.res \in Resource /\ p.old # NoFile /\ p.digest \in Digest
      /\ StandsAt(live, p.res, k) /\ StandsAt(disk, p.res, j)
  BY <1>0, FactsAssumption DEF Stands, Plan
<1>2. /\ live[c] = IF k <= 2 THEN p.old ELSE NoFile
      /\ live[q] = IF k \in {1, 6} THEN NoFile ELSE p.old
  BY <1>1, StationShows
<1>3. retire \in FileScript /\ move \in FileScript /\ sync \in FileScript /\ heal \in FileScript
  BY <1>1, UnlinkScript, QuarantineScript, HealScript, RoutineNames
<1>4. heal \o sync \in FileScript
  BY <1>3, FileScripts
<1>5. <<6, 6>> \in Ends(p)
  BY DEF Ends
<1> HIDE DEF heal, move, sync, retire
<1>6. CASE k = 1
  <2>1. s = move \o retire /\ x = <<1, 1>>
    BY <1>0, <1>1, <1>2, <1>6 DEF PerformPendingRemoval, heal, move, sync, retire
  <2>2. Leads(p, move, <<1, 1>>, <<3, 3>>) /\ Leads(p, retire, <<3, 3>>, <<6, 6>>)
    BY <1>1, CaptureLeads, RetireLeads DEF move, retire
  <2>3. Leads(p, s, x, <<6, 6>>)
    BY <1>3, <2>1, <2>2, RunJoin DEF FileScript
  <2>4. QED
    BY <1>5, <2>3
<1>7. CASE k = 2
  <2>1. ~p.fresh /\ x = <<2, 2>>
    BY <1>0, <1>7
  <2>2. s = heal \o sync \o retire
    BY <1>1, <1>2, <1>7, <2>1 DEF PerformPendingRemoval, heal, move, sync, retire
  <2>3. /\ Leads(p, heal, <<2, 2>>, <<3, 3>>) /\ Leads(p, sync, <<3, 3>>, <<3, 3>>)
        /\ Leads(p, retire, <<3, 3>>, <<6, 6>>)
    BY <1>1, <1>2, <1>7, HealLeads, CaptureLeads, RetireLeads DEF heal, sync, retire
  <2>4. Leads(p, heal \o sync, <<2, 2>>, <<3, 3>>)
    BY <1>3, <2>3, RunJoin DEF FileScript
  <2>5. Leads(p, (heal \o sync) \o retire, <<2, 2>>, <<6, 6>>)
    BY <1>3, <1>4, <2>3, <2>4, RunJoin DEF FileScript
  <2>6. QED
    BY <1>5, <2>1, <2>2, <2>5
<1>8. CASE k \in {3, 4, 5, 6}
  <2>1. ~p.fresh
    BY <1>0, <1>8
  <2>2. s = sync \o retire
    BY <1>1, <1>2, <1>8, <2>1 DEF PerformPendingRemoval, heal, move, sync, retire
  <2>3. \E z \in Lags : \E y \in {<<3, 3>>, <<6, 6>>} :
            Stands(p.res, z) /\ Leads(p, sync, z, y)
    <3>1. CASE k = 6
      <4>1. x \in {<<6, 5>>, <<6, 6>>}
        BY <1>0, <3>1
      <4>2. Leads(p, sync, x, <<6, 6>>)
        BY <1>1, <4>1, CaptureLeads DEF sync
      <4>3. QED
        BY <4>2
    <3>2. CASE k = 3
      <4>1. x \in {<<3, 1>>, <<3, 2>>, <<3, 3>>}
        BY <1>0, <3>2
      <4>2. Leads(p, sync, x, <<3, 3>>)
        BY <1>1, <4>1, CaptureLeads DEF sync
      <4>3. QED
        BY <4>2
    <3>3. CASE k \in {4, 5}
      <4>1. j \in {3, 4, 5}
        BY <1>0, <3>3
      <4>2. Stands(p.res, <<3, 3>>) /\ <<3, 3>> \in Lags
        BY <1>1, <3>3, <4>1, SameStation, LagIs DEF Stands, Names
      <4>3. Leads(p, sync, <<3, 3>>, <<3, 3>>)
        BY <1>1, CaptureLeads DEF sync
      <4>4. QED
        BY <4>2, <4>3
    <3>4. QED
      BY <1>8, <3>1, <3>2, <3>3
  <2>4. PICK z \in Lags, y \in {<<3, 3>>, <<6, 6>>} : Stands(p.res, z) /\ Leads(p, sync, z, y)
    BY <2>3
  <2>5. Leads(p, retire, y, <<6, 6>>)
    BY <1>1, <2>4, RetireLeads DEF retire
  <2>6. Leads(p, s, z, <<6, 6>>)
    BY <1>3, <2>2, <2>4, <2>5, RunJoin DEF FileScript
  <2>7. QED
    BY <1>5, <2>4, <2>6
<1>9. QED
  BY <1>0, <1>6, <1>7, <1>8
-----------------------------------------------------------------------------
(* Nothing is refused. *)

LEMMA NothingStaged ==
    ASSUME NEW r \in Resource, ~Spooled(r)
    PROVE  StagedTokens(r, pend[r].digest) = {} /\ New(r) = NoFile
<1>1. \A t \in Token : DigestOf[t] # NoDigest
  BY FactsAssumption, LimitAssumption
<1>2. StagedTokens(r, pend[r].digest) = {}
  BY <1>1 DEF Spooled, StagedTokens
<1>3. QED
  BY <1>2 DEF New, StagedCandidate

LEMMA PageNames ==
    ASSUME TypeOK, ControlInv, PagesFitRows, step \in {"install", "remove"}, NEW p \in page
    PROVE  /\ p \in Plan /\ Names(p) /\ phase = "ACTIVATING"
           /\ step = "install" => pend[p.res].started /\ ~pend[p.res].activated
           /\ step = "remove" => /\ p.old \in Token /\ p.staged = NoFile
                                 /\ p.digest = DigestOf[p.old] /\ Unfinished(p.res)
           /\ step = "install" =>
                 /\ Unfinished(p.res) => p.staged # NoFile
                 /\ p.staged # NoFile => p.staged \in Token /\ tok[p.staged] = "STAGED"
<1>1. p \in Plan /\ p.res \in Resource
  BY DEF TypeOK, Plan
<1>2. phase = "ACTIVATING"
  BY DEF ControlInv, StepFitsPhase
<1>3. CASE step = "install"
  <2>1. Names(p) /\ pend[p.res].started /\ ~pend[p.res].activated
    BY <1>1, <1>3 DEF PagesFitRows, Names, New
  <2>2. Spooled(p.res)
    BY <1>3 DEF ControlInv, PagesAreDisjoint
  <2>3. stale[p.res] = "none"
    BY <1>1, <2>2 DEF ControlInv, PagesAreDisjoint
  <2>4. Unfinished(p.res) => p.staged # NoFile
    BY <1>3, <2>3, PlanBinds DEF Unfinished
  <2>5. p.staged # NoFile => p.staged \in Token /\ tok[p.staged] = "STAGED"
    BY <1>3, PlanBinds DEF StagedTokens
  <2>6. QED
    BY <1>1, <1>2, <1>3, <2>1, <2>4, <2>5
<1>4. CASE step = "remove"
  <2>1. /\ stale[p.res] = "started" /\ p.old = entry[p.res] /\ p.digest = DigestOf[p.old]
        /\ p.staged = NoFile /\ p.old \in Token
    BY <1>4 DEF PagesFitRows, ControlInv, PagesAreDisjoint
  <2>2. ~Spooled(p.res)
    BY <1>1, <2>1 DEF ControlInv, PagesAreDisjoint
  <2>3. New(p.res) = NoFile
    BY <1>1, <2>2, NothingStaged
  <2>4. QED
    BY <1>1, <1>2, <1>4, <2>1, <2>3 DEF Names, Unfinished
<1>5. QED
  BY <1>3, <1>4

LEMMA ApartFromFiles ==
    ASSUME TypeOK, ControlInv, FenceIsDurable, MarkerFits
    PROVE  MarkerApart
<1>0. current \in Nat /\ pending \in Nat
  BY FactsAssumption DEF TypeOK
<1>1. /\ NoFile \notin File /\ current \notin File /\ pending \notin File
  BY <1>0, FactsAssumption DEF File
<1>2. QED
  BY <1>1 DEF MarkerFits, MarkerShows, FenceIsDurable, TypeOK, MarkerApart

LEMMA TreeParts ==
    ASSUME ReplayInv
    PROVE  TreeInv /\ Inv /\ TypeOK /\ ControlInv /\ FenceInv
<1>1. Inv /\ TypeOK /\ ControlInv /\ FenceInv
  BY DEF ReplayInv, ReadersInv, Inv
<1>2. MarkerApart
  BY <1>1, ApartFromFiles DEF ReplayInv, FenceInv
<1>3. QED
  BY <1>1, <1>2 DEF TreeInv, ReplayInv, ReadersInv

\* The plan a script works for, and what its next operation does.
LEMMA ScriptStep ==
    ASSUME ReplayInv, Works, step \in {"install", "remove"}
    PROVE  \E p \in page : \E x \in Lags : \E z \in Lags : \E y \in Ends(p) :
             /\ p.res \notin left /\ Unfinished(p.res) /\ Names(p) /\ Stands(p.res, x)
             /\ Takes(p, NextOp, x, z) /\ Leads(p, Tail(todo), z, y)
             /\ \A o \in page : o # p /\ o.res \notin left => Finished(o)
<1>1. todo # <<>> /\ todo \in Seq(Op)
  BY TreeParts, PerformParts DEF TypeOK
<1>2. PICK p \in page :
             /\ p.res \notin left /\ Unfinished(p.res) /\ Running(p)
             /\ \A o \in page : o # p /\ o.res \notin left => Finished(o)
  BY <1>1 DEF ReplayInv, ScriptRuns
<1>3. PICK x \in Lags, y \in Ends(p) : Stands(p.res, x) /\ Leads(p, todo, x, y)
  BY <1>2 DEF Running
<1>4. PICK z \in Lags : Takes(p, NextOp, x, z) /\ Leads(p, Tail(todo), z, y)
  BY <1>1, <1>3, RunHead DEF NextOp
<1>5. Names(p)
  BY TreeParts, PageNames DEF ReplayInv, ReadersInv
<1>6. QED
  BY <1>2, <1>3, <1>4, <1>5

LEMMA MarkerPerformed ==
    ASSUME ReplayInv, Works, step \notin {"install", "remove"}
    PROVE  /\ step \in {"mark", "unmarkBegin", "unmarkComplete"} /\ Proceed
           /\ \/ /\ step = "mark"
                 /\ \/ /\ todo = <<CreateOp(Marker, pending), FsyncOp(Marker)>>
                       /\ live' = Created(live, Marker, pending) /\ disk' = disk
                    \/ /\ todo = <<FsyncOp(Marker)>> /\ live[Marker] = pending
                       /\ live' = live /\ disk' = Synced(live, disk, Marker)
              \/ /\ step # "mark"
                 /\ \/ /\ todo = RemoveMarker(pub.rev)
                       /\ live' = live /\ disk' = Synced(live, disk, Marker)
                    \/ /\ todo = <<UnlinkOp(Marker, pub.rev), FsyncOp(Marker)>>
                       /\ live' = Unlinked(live, Marker) /\ disk' = disk
                    \/ /\ todo = <<FsyncOp(Marker)>> /\ live[Marker] = NoFile
                       /\ live' = live /\ disk' = Synced(live, disk, Marker)
<1>0. TypeOK /\ ControlInv /\ FenceInv
  BY TreeParts
<1>1. todo # <<>>
  BY <1>0, PerformParts
<1>2. step \in {"mark", "unmarkBegin", "unmarkComplete"}
  BY <1>1 DEF ReplayInv, ReadersInv, PagesFitRows
<1>3. CASE step = "mark"
  <2>1. CASE todo = <<CreateOp(Marker, pending), FsyncOp(Marker)>>
    <3>1. NextOp = CreateOp(Marker, pending)
      BY <2>1 DEF NextOp
    <3>2. Proceed /\ live' = Created(live, Marker, pending) /\ disk' = disk
      BY <3>1 DEF CreateOp, Works, seen, Perform, DoRename, DoVerify, DoUnlink, DoCreate,
         DoFsync, DoCheck, DoCaptured, DoRefuse, Doing
    <3>3. QED
      BY <1>3, <2>1, <3>2
  <2>2. CASE todo = <<FsyncOp(Marker)>> /\ live[Marker] = pending
    <3>1. NextOp = FsyncOp(Marker)
      BY <2>2 DEF NextOp
    <3>2. QED
      BY <1>0, <1>3, <2>2, <3>1, OpEffects
  <2>3. QED
    BY <1>0, <1>1, <1>3, <2>1, <2>2 DEF ReplayInv, MarkerFits, FenceInv, MarkerScript
<1>4. CASE step \in {"unmarkBegin", "unmarkComplete"}
  <2>1. CASE todo = RemoveMarker(pub.rev)
    <3>1. NextOp = FsyncOp(Marker)
      BY <2>1 DEF NextOp, RemoveMarker
    <3>2. QED
      BY <1>0, <1>4, <2>1, <3>1, OpEffects
  <2>2. CASE todo = <<UnlinkOp(Marker, pub.rev), FsyncOp(Marker)>>
    <3>1. NextOp = UnlinkOp(Marker, pub.rev)
      BY <2>2 DEF NextOp
    <3>2. phase = "IDLE"
      BY <1>0, <1>4 DEF ControlInv, StepFitsPhase
    <3>3. live[Marker] \in {pub.rev, NoFile}
      BY <1>4, <3>2 DEF ReplayInv, MarkerFits, MarkerShows
    <3>4. QED
      BY <1>0, <1>4, <2>2, <3>1, <3>3, OpEffects
  <2>3. CASE todo = <<FsyncOp(Marker)>> /\ live[Marker] = NoFile
    <3>1. NextOp = FsyncOp(Marker)
      BY <2>3 DEF NextOp
    <3>2. QED
      BY <1>0, <1>4, <2>3, <3>1, OpEffects
  <2>4. QED
    BY <1>1, <1>4, <2>1, <2>2, <2>3 DEF ReplayInv, MarkerFits
<1>5. QED
  BY <1>2, <1>3, <1>4

\* A script that is done has finished its plan.
LEMMA PageFinished ==
    ASSUME ReplayInv, step \in {"install", "remove"}, todo = <<>>, NEW p \in page, p.res \notin left
    PROVE  Finished(p)
<1>1. CASE \A o \in page : o.res \notin left => Finished(o)
  BY <1>1
<1>2. ASSUME NEW o \in page, Running(o), \A u \in page : u # o /\ u.res \notin left => Finished(u)
      PROVE  Finished(p)
  <2>1. PICK x \in Lags, y \in Ends(o) : Stands(o.res, x) /\ Leads(o, <<>>, x, y)
    BY <1>2 DEF Running
  <2>2. x = y
    BY <2>1, RunEmpty
  <2>3. Finished(o)
    BY <2>1, <2>2 DEF Finished
  <2>4. QED
    BY <1>2, <2>3
<1>3. QED
  BY <1>1, <1>2 DEF ReplayInv, ScriptRuns

\* What a finished plan leaves at its names.
LEMMA FinishedShows ==
    ASSUME ReplayInv, step \in {"install", "remove"}, NEW p \in page, Finished(p)
    PROVE  /\ live[Cur(p.res)] = Outcome(p) \/ step = "remove"
           /\ step = "remove" => live[Cur(p.res)] = NoFile /\ live[Quar(p.res, p.digest)] = NoFile
<1>0. /\ TreeInv /\ p \in Plan /\ Names(p) /\ p.res \in Resource
      /\ step = "remove" => /\ p.old \in Token /\ p.staged = NoFile
                            /\ p.digest = DigestOf[p.old] /\ Unfinished(p.res)
      /\ step = "install" => /\ Unfinished(p.res) => p.staged # NoFile
                             /\ pend[p.res].started /\ ~pend[p.res].activated
  BY TreeParts, PageNames DEF ReplayInv, ReadersInv, Names
<1>1. CASE Unfinished(p.res)
  <2>1. PICK x \in Ends(p) : Stands(p.res, x)
    BY <1>1 DEF Finished
  <2>2. x[1] \in {5, 6} /\ (p.old # NoFile => x[1] = 6) /\ x[1] \in Station
    BY <2>1 DEF Ends, Station
  <2>3. StandsAt(live, p.res, x[1])
    BY <2>1 DEF Stands
  <2>4. live[Cur(p.res)] = p.staged
    BY <1>0, <2>2, <2>3, StationShows
  <2>5. step = "remove" => live[Quar(p.res, p.digest)] = NoFile
    BY <1>0, <2>2, <2>3, StationShows, FactsAssumption
  <2>6. QED
    BY <1>0, <1>1, <2>4, <2>5 DEF Outcome
<1>2. CASE ~Unfinished(p.res)
  <2>1. step = "install"
    BY <1>0, <1>2
  <2>2. p.staged = NoFile
    BY <1>0, <1>2, <2>1, NewIs DEF Unfinished, Names, TreeInv
  <2>3. live[Cur(p.res)] = entry[p.res]
    BY <1>0, <1>2, OpenMeans DEF TreeInv, AtRest, ContentsAtRest
  <2>4. QED
    BY <1>0, <2>1, <2>2, <2>3 DEF Outcome, Names
<1>3. QED
  BY <1>1, <1>2

LEMMA NextNotRefused ==
    ASSUME ReplayInv, [Next]_vars
    PROVE  NeverRefused'
<1> USE DEF NeverRefused
<1>0. TypeOK /\ ControlInv /\ FenceInv /\ refused = FALSE
  <2>1. TypeOK /\ ControlInv /\ FenceInv
    BY TreeParts
  <2>2. refused = FALSE
    BY <2>1 DEF ReplayInv, TypeOK
  <2>3. QED
    BY <2>1, <2>2
<1>same. ASSUME UNCHANGED refused PROVE NeverRefused'
  BY <1>0, <1>same
<1>new. CASE BeginNew
  <2>1. phase = "IDLE" /\ current # pub.rev
    BY <1>0, <1>new DEF BeginNew, ControlInv, JournalReadable, TypeOK
  <2>2. live[Marker] = NoFile
    BY <2>1 DEF ReplayInv, MarkerFits, MarkerShows
  <2>3. QED
    BY <1>new, <1>same, <2>2 DEF BeginNew
<1>resumed. CASE BeginResumed
  <2>1. pending = pub.rev /\ phase # "IDLE"
    BY <1>0, <1>resumed DEF BeginResumed, ControlInv, PendingIsIssued, JournalReadable
  <2>2. phase # "OPEN" => live[Marker] \in {NoFile, pending}
    BY <1>0, <2>1 DEF ReplayInv, MarkerFits, MarkerShows, FenceInv, FenceIsDurable, TypeOK
  <2>3. QED
    BY <1>resumed, <1>same, <2>1, <2>2 DEF BeginResumed
<1>fenced. CASE ReconcileActivating \/ Complete
  <2>1. phase \in {"ACTIVATING", "READY"}
    BY <1>0, <1>fenced DEF ReconcileActivating, Complete, ControlInv, StepFitsPhase
  <2>2. live[Marker] = pending
    BY <1>0, <2>1 DEF FenceInv, FenceIsDurable
  <2>3. QED
    BY <1>fenced, <1>same, <2>2 DEF ReconcileActivating, Complete
<1>installed. CASE CommitPendingInstalls
  <2>1. step = "install" /\ todo = <<>> /\ left = {}
    BY <1>installed DEF CommitPendingInstalls
  <2>2. ASSUME NEW p \in page
        PROVE  /\ live[Cur(p.res)] = Outcome(p)
               /\ p.staged # NoFile => tok[p.staged] = "STAGED"
    BY <1>0, <2>1, PageFinished, FinishedShows, PageNames DEF ReplayInv, ReadersInv
  <2>3. QED
    BY <1>installed, <1>same, <2>2 DEF CommitPendingInstalls
<1>removed. CASE CommitPendingRemovals
  <2>1. step = "remove" /\ todo = <<>> /\ left = {}
    BY <1>removed DEF CommitPendingRemovals
  <2>2. ASSUME NEW p \in page
        PROVE  live[Cur(p.res)] = NoFile /\ live[Quar(p.res, p.digest)] = NoFile
    BY <2>1, PageFinished, FinishedShows
  <2>3. QED
    BY <1>removed, <1>same, <2>2 DEF CommitPendingRemovals
<1>finish. CASE FinishReconcile
  <2>1. Uninstalled = {} /\ Listed = {} /\ Unwanted = {}
    BY <1>finish DEF FinishReconcile, ReplayInv, WorkLeft
  <2>2. QED
    BY <1>finish, <1>same, <2>1 DEF FinishReconcile
<1>perform. CASE Works
  <2>1. CASE step \in {"install", "remove"}
    <3>1. PICK p \in page, x \in Lags, z \in Lags :
              Names(p) /\ Stands(p.res, x) /\ Takes(p, NextOp, x, z)
      BY <1>perform, <2>1, ScriptStep
    <3>2. Proceed
      BY <1>perform, <3>1, OpStands, TreeParts
    <3>3. QED
      BY <1>same, <3>2 DEF Proceed
  <2>2. CASE step \notin {"install", "remove"}
    <3>1. Proceed
      BY <1>perform, <2>2, MarkerPerformed
    <3>2. QED
      BY <1>same, <3>1 DEF Proceed
  <2>3. QED
    BY <2>1, <2>2
<1>1. CASE (\E t \in Token : Protect(t) \/ Release(t)) \/ (\E m \in Manifest : Issue(m))
           \/ (\E r \in Resource : ForeignWrite(r)) \/ Interrupt \/ PowerLoss \/ UNCHANGED seen
  BY <1>1, <1>same DEF Protect, Release, Issue, ForeignWrite, Interrupt, PowerLoss, seen
<1>2. CASE BeginCompleted \/ ActivatePage \/ Seal \/ ReconcileSealed \/ CommitActivating
           \/ ReservePendingInstalls \/ StartInstall \/ ListStale \/ ReservePendingRemovals
           \/ StartRemoval \/ AdvanceHead \/ MarkerRemoved \/ Finalize
  BY <1>2, <1>same DEF BeginCompleted, ActivatePage, Seal, ReconcileSealed, CommitActivating,
     ReservePendingInstalls, StartInstall, ListStale, ReservePendingRemovals, StartRemoval,
     AdvanceHead, MarkerRemoved, Finalize
<1>3. QED
  BY <1>new, <1>resumed, <1>fenced, <1>installed, <1>removed, <1>finish, <1>perform, <1>1, <1>2, LookIsHidden
     DEF Next, CoreNext, ActivatorNext
-----------------------------------------------------------------------------
(* The rows the replay relies on. *)

LEMMA PlanOfPage ==
    ASSUME NEW r \in Resource, InPage(r)
    PROVE  PlanOf(r) \in page /\ PlanOf(r).res = r
BY DEF InPage, PlanOf

\* What a page of installs records.
LEMMA InstallsRecorded ==
    ASSUME ReplayInv, CommitPendingInstalls, refused' = FALSE
    PROVE  /\ step = "install" /\ phase = "ACTIVATING" /\ UNCHANGED <<phase, stale, catalog, files>>
           /\ \A t \in Token :
                 tok'[t] = IF \E p \in page : p.staged = t THEN "INSTALLED" ELSE tok[t]
           /\ \A r \in Resource : ~InPage(r) => entry'[r] = entry[r] /\ pend'[r] = pend[r]
           /\ \A r \in Resource : InPage(r) =>
                 LET p == PlanOf(r) IN
                 /\ p \in page /\ p.res = r /\ p.digest = pend[r].digest
                 /\ p.old = entry[r] /\ p.staged = New(r)
                 /\ entry'[r] = IF p.staged = NoFile THEN p.old ELSE p.staged
                 /\ pend'[r] = [pend[r] EXCEPT !.activated = TRUE]
<1>1. /\ step = "install" /\ UNCHANGED <<phase, stale, catalog, files>>
      /\ tok' = [t \in Token |-> IF \E p \in page : p.staged = t THEN "INSTALLED" ELSE tok[t]]
      /\ entry' = InstalledEntries
      /\ pend' = [r \in Resource |->
                    IF InPage(r) THEN [pend[r] EXCEPT !.activated = TRUE] ELSE pend[r]]
  BY DEF CommitPendingInstalls, Refuse
<1>2. phase = "ACTIVATING"
  BY <1>1, TreeParts DEF ControlInv, StepFitsPhase
<1>3. ASSUME NEW r \in Resource, InPage(r)
      PROVE  LET p == PlanOf(r) IN
             /\ p \in page /\ p.res = r /\ p.digest = pend[r].digest
             /\ p.old = entry[r] /\ p.staged = New(r)
             /\ entry'[r] = IF p.staged = NoFile THEN p.old ELSE p.staged
  <2>1. PlanOf(r) \in page /\ PlanOf(r).res = r
    BY <1>3, PlanOfPage
  <2>2. /\ PlanOf(r).digest = pend[r].digest /\ PlanOf(r).old = entry[r]
        /\ PlanOf(r).staged = New(r)
    BY <1>1, <2>1 DEF ReplayInv, ReadersInv, PagesFitRows, New
  <2>3. QED
    BY <1>1, <1>3, <2>1, <2>2 DEF InstalledEntries, Outcome
<1>4. QED
  BY <1>1, <1>2, <1>3 DEF InstalledEntries

LEMMA EntriesKept ==
    ASSUME EntriesFit, UNCHANGED entry,
           \A t \in Token : tok[t] \in {"INSTALLED", "RELEASED"} =>
                                tok'[t] \in {"INSTALLED", "RELEASED"},
           TypeOK
    PROVE  EntriesFit'
BY FactsAssumption DEF EntriesFit, TypeOK

LEMMA NextEntries ==
    ASSUME ReplayInv, [Next]_vars, refused' = FALSE
    PROVE  EntriesFit'
<1>0. TypeOK /\ EntriesFit /\ OneStaged
  BY TreeParts DEF ReplayInv, ReadersInv
<1>token. ASSUME NEW t \in Token, Protect(t) \/ Release(t) PROVE EntriesFit'
  BY <1>0, <1>token, EntriesKept DEF Protect, Release, TypeOK
<1>installed. CASE CommitPendingInstalls
  <2>1. ASSUME NEW r \in Resource, entry'[r] # NoFile
        PROVE  ResOf[entry'[r]] = r /\ tok'[entry'[r]] \in {"INSTALLED", "RELEASED"}
    <3>1. CASE InPage(r)
      <4> DEFINE p == PlanOf(r)
      <4>1. /\ p \in page /\ p.old = entry[r] /\ p.staged = New(r)
            /\ entry'[r] = IF p.staged = NoFile THEN p.old ELSE p.staged
            /\ \A t \in Token :
                 tok'[t] = IF \E u \in page : u.staged = t THEN "INSTALLED" ELSE tok[t]
        BY <1>installed, <3>1, InstallsRecorded
      <4>2. CASE p.staged = NoFile
        BY <1>0, <2>1, <4>1, <4>2, EntryIs DEF EntriesFit
      <4>3. CASE p.staged # NoFile
        BY <1>0, <4>1, <4>3, NewIs
      <4>4. QED
        BY <4>2, <4>3
    <3>2. CASE ~InPage(r)
      <4>1. entry'[r] = entry[r] /\ entry[r] \in Token
        BY <1>0, <1>installed, <2>1, <3>2, InstallsRecorded, EntryIs
      <4>2. tok'[entry[r]] \in {"INSTALLED", tok[entry[r]]}
        BY <1>installed, <4>1, InstallsRecorded
      <4>3. QED
        BY <1>0, <2>1, <4>1, <4>2 DEF EntriesFit
    <3>3. QED
      BY <3>1, <3>2
  <2>2. QED
    BY <2>1 DEF EntriesFit
<1>removed. CASE CommitPendingRemovals
  BY <1>0, <1>removed DEF CommitPendingRemovals, EntriesFit
<1>same. ASSUME UNCHANGED <<entry, tok>> PROVE EntriesFit'
  BY <1>0, <1>same, EntriesKept
<1>perform. CASE Works
  BY <1>0, <1>perform, <1>same, PerformParts DEF journal
<1>foreign. ASSUME NEW r \in Resource, ForeignWrite(r) PROVE EntriesFit'
  BY <1>foreign, <1>same DEF ForeignWrite, journal
<1>1. CASE (\E m \in Manifest : Issue(m)) \/ AdvanceHead \/ Finalize \/ BeginNew \/ BeginResumed
           \/ BeginCompleted \/ ActivatePage \/ Seal \/ ReconcileSealed \/ CommitActivating
  BY <1>1, <1>same DEF Issue, AdvanceHead, Finalize, BeginNew, BeginResumed, BeginCompleted,
     ActivatePage, Seal, ReconcileSealed, CommitActivating, journal
<1>2. CASE ReconcileActivating \/ ReservePendingInstalls \/ StartInstall \/ ListStale
           \/ ReservePendingRemovals \/ StartRemoval \/ FinishReconcile
           \/ Complete \/ MarkerRemoved \/ Interrupt \/ PowerLoss \/ UNCHANGED seen
  BY <1>2, <1>same DEF ReconcileActivating, ReservePendingInstalls, StartInstall, ListStale,
     ReservePendingRemovals, StartRemoval, FinishReconcile,
     Complete, MarkerRemoved, Interrupt, PowerLoss, seen, journal
<1>3. QED
  BY <1>token, <1>installed, <1>removed, <1>perform, <1>foreign, <1>1, <1>2, LookIsHidden
     DEF Next, CoreNext, ActivatorNext

\* As long as no token is spent and no row changes, the supply lasts.
LEMMA SupplyKept ==
    ASSUME Supplied, UNCHANGED <<entry, pub>>,
           \A r \in Resource : StagedTokens(r, pub.files[r]) # {} =>
                StagedTokens(r, pub.files[r])' # {} \/ pub.files[r] \in {NoDigest, EntryDigest(r)}
    PROVE  Supplied'
BY DEF Supplied, EntryDigest

LEMMA ReleaseKeeps ==
    ASSUME ReplayInv, NEW t \in Token, Release(t)
    PROVE  Supplied'
<1>0. TypeOK /\ ControlInv /\ RowsFitCatalog
  BY TreeParts DEF ReplayInv, ReadersInv
<1>1. UNCHANGED <<entry, pub>> /\ tok' = [tok EXCEPT ![t] = "RELEASED"] /\ ~BlocksRelease(t)
      /\ ~(phase \in {"IDLE", "OPEN"} /\ pub.files[ResOf[t]] = DigestOf[t])
  BY DEF Release, catalog
<1>2. ASSUME NEW r \in Resource, NEW u \in StagedTokens(r, pub.files[r]), pub.rev # 0
      PROVE  \/ StagedTokens(r, pub.files[r])' # {}
             \/ pub.files[r] \in {NoDigest, EntryDigest(r)}
  <2>0. u \in Token /\ ResOf[u] = r /\ DigestOf[u] = pub.files[r] /\ tok[u] = "STAGED"
    BY DEF StagedTokens
  <2>1. CASE u # t
    <3>1. tok'[u] = "STAGED"
      BY <1>0, <1>1, <2>0, <2>1 DEF TypeOK
    <3>2. u \in StagedTokens(r, pub.files[r])'
      BY <1>1, <2>0, <3>1 DEF StagedTokens
    <3>3. QED
      BY <3>2
  <2>2. CASE u = t
    <3>1. phase \in {"SEALED", "ACTIVATING", "READY"}
      BY <1>0, <1>1, <2>0, <2>2 DEF TypeOK
    <3>2. pend[r].digest = pub.files[r] /\ (pend[r].activated => EntryDigest(r) = pub.files[r])
      BY <1>0, <3>1 DEF RowsFitCatalog
    <3>3. pending # 0
      BY <1>0, <3>1 DEF ControlInv, JournalReadable
    <3>4. pend[r].activated
      <4>1. pend[r] \in PendRow
        BY <1>0 DEF TypeOK
      <4>2. pend[r].activated \in BOOLEAN
        BY <4>1 DEF PendRow
      <4>3. QED
        BY <1>1, <2>0, <2>2, <3>2, <3>3, <4>2 DEF BlocksRelease
    <3>5. QED
      BY <3>2, <3>4
  <2>3. QED
    BY <2>1, <2>2
<1>3. CASE pub.rev = 0
  BY <1>1, <1>3 DEF Supplied
<1>4. CASE pub.rev # 0
  BY <1>1, <1>2, <1>4, SupplyKept DEF ReplayInv
<1>5. QED
  BY <1>3, <1>4

LEMMA InstallsSupplied ==
    ASSUME ReplayInv, CommitPendingInstalls, refused' = FALSE
    PROVE  Supplied'
<1>0. TypeOK /\ OneStaged /\ RowsFitCatalog /\ Supplied /\ EntriesFit
  BY TreeParts DEF ReplayInv, ReadersInv
<1>1. /\ UNCHANGED pub /\ phase = "ACTIVATING"
      /\ \A t \in Token :
            tok'[t] = IF \E p \in page : p.staged = t THEN "INSTALLED" ELSE tok[t]
      /\ \A r \in Resource : ~InPage(r) => entry'[r] = entry[r] /\ pend'[r] = pend[r]
  BY InstallsRecorded DEF catalog
<1>2. \A r \in Resource : pend[r].digest = pub.files[r]
  BY <1>0, <1>1 DEF RowsFitCatalog
<1>3. ASSUME NEW r \in Resource, pub.rev # 0
      PROVE  \/ pub.files[r] \in {NoDigest, EntryDigest(r)'}
             \/ StagedTokens(r, pub.files[r])' # {}
  <2>0. \/ pub.files[r] \in {NoDigest, EntryDigest(r)}
        \/ StagedTokens(r, pub.files[r]) # {}
    BY <1>0, <1>3 DEF Supplied
  <2>1. CASE InPage(r)
    <3> DEFINE p == PlanOf(r)
    <3>1. /\ p.old = entry[r] /\ p.staged = New(r)
          /\ entry'[r] = IF p.staged = NoFile THEN p.old ELSE p.staged
      BY <2>1, InstallsRecorded
    <3>2. CASE New(r) = NoFile
      <4>1. StagedTokens(r, pub.files[r]) = {}
        BY <1>0, <1>2, <3>2, NewIs
      <4>2. EntryDigest(r)' = EntryDigest(r)
        BY <3>1, <3>2 DEF EntryDigest
      <4>3. QED
        BY <2>0, <4>1, <4>2
    <3>3. CASE New(r) # NoFile
      <4>1. DigestOf[entry'[r]] = pub.files[r] /\ entry'[r] # NoFile
        BY <1>0, <1>2, <3>1, <3>3, NewIs
      <4>2. QED
        BY <4>1 DEF EntryDigest
    <3>4. QED
      BY <3>2, <3>3
  <2>2. CASE ~InPage(r)
    <3>1. EntryDigest(r)' = EntryDigest(r)
      BY <1>1, <2>2 DEF EntryDigest
    <3>2. ASSUME NEW u \in StagedTokens(r, pub.files[r])
          PROVE  u \in StagedTokens(r, pub.files[r])'
      <4>0. u \in Token /\ ResOf[u] = r /\ DigestOf[u] = pub.files[r] /\ tok[u] = "STAGED"
        BY DEF StagedTokens
      <4>1. ASSUME NEW p \in page, p.staged = u PROVE FALSE
        <5>1. InPage(p.res) /\ p.res \in Resource
          BY <1>0, <4>1 DEF InPage, TypeOK, Plan
        <5>2. step = "install" /\ ControlInv /\ PagesFitRows
          BY InstallsRecorded, TreeParts DEF ReplayInv, ReadersInv
        <5>3. p.staged = New(p.res) /\ p.staged # NoFile
          BY <1>0, <4>0, <4>1, <5>2, PageNames, FactsAssumption DEF Names
        <5>4. ResOf[u] = p.res
          BY <1>0, <4>1, <5>1, <5>3, NewIs
        <5>5. QED
          BY <2>2, <4>0, <5>1, <5>4
      <4>2. tok'[u] = "STAGED"
        BY <1>1, <4>0, <4>1
      <4>3. QED
        BY <1>1, <4>0, <4>2 DEF StagedTokens
    <3>3. QED
      BY <2>0, <3>1, <3>2
  <2>3. QED
    BY <2>1, <2>2
<1>4. QED
  BY <1>1, <1>3 DEF Supplied

LEMMA RemovalsSupplied ==
    ASSUME ReplayInv, CommitPendingRemovals, refused' = FALSE
    PROVE  Supplied'
<1>0. TypeOK /\ ControlInv /\ RowsFitCatalog /\ Supplied /\ PagesFitRows
  BY TreeParts DEF ReplayInv, ReadersInv
<1>1. /\ step = "remove" /\ UNCHANGED <<pub, tok>>
      /\ entry' = [r \in Resource |-> IF InPage(r) THEN NoFile ELSE entry[r]]
  BY DEF CommitPendingRemovals, Refuse, catalog
<1>2. phase = "ACTIVATING"
  BY <1>0, <1>1 DEF ControlInv, StepFitsPhase
<1>3. ASSUME NEW r \in Resource, InPage(r) PROVE pub.files[r] = NoDigest
  <2>1. stale[r] # "none"
    BY <1>0, <1>1, <1>3 DEF InPage, PagesFitRows
  <2>2. ~Spooled(r)
    BY <1>0, <2>1 DEF ControlInv, PagesAreDisjoint
  <2>3. QED
    BY <1>0, <1>2, <2>2 DEF RowsFitCatalog, Spooled
<1>4. \A r \in Resource : ~InPage(r) => EntryDigest(r)' = EntryDigest(r)
  BY <1>1 DEF EntryDigest
<1>5. \A r, d : StagedTokens(r, d)' = StagedTokens(r, d)
  BY <1>1 DEF StagedTokens
<1>6. QED
  BY <1>0, <1>1, <1>3, <1>4, <1>5 DEF Supplied

LEMMA NextSupplied ==
    ASSUME ReplayInv, [Next]_vars, refused' = FALSE
    PROVE  Supplied'
<1>0. TypeOK /\ ControlInv /\ RowsFitCatalog /\ Supplied
  BY TreeParts DEF ReplayInv, ReadersInv
<1>same. ASSUME UNCHANGED <<entry, tok, pub>> PROVE Supplied'
  BY <1>0, <1>same DEF Supplied, EntryDigest, StagedTokens
<1>protect. ASSUME NEW t \in Token, Protect(t) PROVE Supplied'
  <2>1. UNCHANGED <<entry, pub>> /\ tok' = [tok EXCEPT ![t] = "STAGED"]
    BY <1>protect DEF Protect, catalog
  <2>2. \A r, d : StagedTokens(r, d) \subseteq StagedTokens(r, d)'
    BY <1>0, <2>1 DEF StagedTokens, TypeOK
  <2>3. \A r \in Resource : StagedTokens(r, pub.files[r]) # {} => StagedTokens(r, pub.files[r])' # {}
    BY <2>1, <2>2 DEF StagedTokens
  <2>4. QED
    BY <1>0, <2>1, <2>3, SupplyKept
<1>release. ASSUME NEW t \in Token, Release(t) PROVE Supplied'
  BY <1>release, ReleaseKeeps
<1>issue. ASSUME NEW m \in Manifest, Issue(m) PROVE Supplied'
  <2>1. /\ pub = NoPublication /\ pub'.files = m /\ UNCHANGED <<entry, tok>>
        /\ \A r \in Resource : m[r] # NoDigest => m[r] = shown[r] \/ StagedTokens(r, m[r]) # {}
    BY <1>issue DEF Issue, journal
  <2>2. phase = "IDLE"
    BY <1>0, <2>1 DEF ControlInv, PendingIsIssued, JournalReadable, NoPublication
  <2>3. \A r \in Resource : EntryDigest(r) = shown[r]
    BY <1>0, <2>2 DEF RowsFitCatalog
  <2>4. \A r, d : StagedTokens(r, d)' = StagedTokens(r, d)
    BY <2>1 DEF StagedTokens
  <2>5. \A r : EntryDigest(r)' = EntryDigest(r)
    BY <2>1 DEF EntryDigest
  <2>6. QED
    BY <2>1, <2>3, <2>4, <2>5 DEF Supplied
<1>finalize. CASE Finalize
  BY <1>finalize DEF Finalize, NoPublication, Supplied
<1>installed. CASE CommitPendingInstalls
  BY <1>installed, InstallsSupplied
<1>removed. CASE CommitPendingRemovals
  BY <1>removed, RemovalsSupplied
<1>perform. CASE Works
  BY <1>0, <1>perform, <1>same, PerformParts DEF journal, catalog
<1>foreign. ASSUME NEW r \in Resource, ForeignWrite(r) PROVE Supplied'
  BY <1>foreign, <1>same DEF ForeignWrite, journal, catalog
<1>1. CASE AdvanceHead \/ BeginNew \/ BeginResumed
           \/ BeginCompleted \/ ActivatePage \/ Seal \/ ReconcileSealed \/ CommitActivating
  BY <1>1, <1>same DEF AdvanceHead, BeginNew, BeginResumed, BeginCompleted,
     ActivatePage, Seal, ReconcileSealed, CommitActivating, journal, catalog
<1>2. CASE ReconcileActivating \/ ReservePendingInstalls \/ StartInstall \/ ListStale
           \/ ReservePendingRemovals \/ StartRemoval \/ FinishReconcile
           \/ Complete \/ MarkerRemoved \/ Interrupt \/ PowerLoss \/ UNCHANGED seen
  BY <1>2, <1>same DEF ReconcileActivating, ReservePendingInstalls, StartInstall, ListStale,
     ReservePendingRemovals, StartRemoval, FinishReconcile,
     Complete, MarkerRemoved, Interrupt, PowerLoss, seen, journal, catalog
<1>3. QED
  BY <1>protect, <1>release, <1>issue, <1>finalize, <1>installed, <1>removed, <1>perform,
     <1>foreign, <1>1, <1>2, LookIsHidden DEF Next, CoreNext, ActivatorNext
-----------------------------------------------------------------------------
(* The marker outside the fence. *)

MarkerPhases ==
    /\ phase = "IDLE" => MarkerShows({NoFile} \cup {c \in {current} : pub.rev = c})
    /\ phase = "OPEN" => MarkerShows({NoFile})
    /\ phase = "SEALED" => MarkerShows({NoFile, pending})

MarkerIdle == {"COMPLETE", "mark", "unmarkBegin", "unmarkComplete"}

LEMMA MarkerKept ==
    ASSUME MarkerFits, UNCHANGED <<phase, current, pending, pub>>,
           live'[Marker] \in {live[Marker], disk[Marker]},
           disk'[Marker] \in {live[Marker], disk[Marker]},
           \/ step' \notin MarkerIdle
           \/ UNCHANGED <<step, todo>> /\ live'[Marker] = live[Marker]
    PROVE  MarkerFits'
<1>1. \A S : MarkerShows(S) => live'[Marker] \in S /\ disk'[Marker] \in S
  BY DEF MarkerShows
<1>2. /\ phase' = "IDLE" => MarkerShows({NoFile} \cup {c \in {current} : pub.rev = c})'
      /\ phase' = "OPEN" => MarkerShows({NoFile})'
      /\ phase' = "SEALED" => MarkerShows({NoFile, pending})'
  BY <1>1 DEF MarkerFits, MarkerShows, Marker
<1>3. CASE step' \notin MarkerIdle
  BY <1>2, <1>3 DEF MarkerFits, MarkerIdle
<1>4. CASE UNCHANGED <<step, todo>> /\ live'[Marker] = live[Marker]
  <2>1. step' = "COMPLETE" => MarkerShows({NoFile})'
    BY <1>1, <1>4 DEF MarkerFits, MarkerShows, Marker
  <2>2. step' \in {"unmarkBegin", "unmarkComplete"} =>
           /\ current' = pub'.rev /\ pub'.rev # 0
           /\ \/ todo' = RemoveMarker(pub'.rev)
              \/ todo' = <<UnlinkOp(Marker, pub'.rev), FsyncOp(Marker)>>
              \/ todo' = <<FsyncOp(Marker)>> /\ live'[Marker] = NoFile
              \/ todo' = <<>> /\ MarkerShows({NoFile})'
    BY <1>1, <1>4 DEF MarkerFits, MarkerShows, Marker
  <2>3. QED
    BY <1>2, <1>4, <2>1, <2>2 DEF MarkerFits, Marker
<1>5. QED
  BY <1>3, <1>4

LEMMA MarkerScriptRuns ==
    ASSUME ReplayInv, Works, step \notin {"install", "remove"}
    PROVE  MarkerFits'
<1>0. /\ TypeOK /\ ControlInv /\ UNCHANGED <<phase, current, pending, pub>>
      /\ live \in Tree /\ disk \in Tree
  BY TreeParts, PerformParts DEF TypeOK, Tree, journal, catalog
<1>1. /\ step \in {"mark", "unmarkBegin", "unmarkComplete"}
      /\ step' = step /\ todo' = Tail(todo)
  BY MarkerPerformed DEF Proceed
<1>2. Marker' = Marker /\ Synced(live, disk, Marker)[Marker] = live[Marker]
  BY <1>0, MarkerIsName, SyncedMeansEither DEF Marker
<1>3. CASE step = "mark"
  <2>1. phase = "SEALED" /\ MarkerShows({NoFile, pending})
    BY <1>0, <1>3 DEF ControlInv, StepFitsPhase, ReplayInv, MarkerFits
  <2>2. todo' \in {<<FsyncOp(Marker)>>, <<>>}
    <3>1. CASE todo = <<CreateOp(Marker, pending), FsyncOp(Marker)>>
      <4>1. Tail(todo) = <<FsyncOp(Marker)>>
        BY <3>1
      <4>2. QED
        BY <1>1, <4>1
    <3>2. CASE todo = <<FsyncOp(Marker)>>
      <4>1. Tail(todo) = <<>>
        BY <3>2
      <4>2. QED
        BY <1>1, <4>1
    <3>3. QED
      BY <1>3, <3>1, <3>2, MarkerPerformed
  <2>3. <<RefuseOp>> # <<>> /\ <<RefuseOp>> # <<FsyncOp(Marker)>>
    <3>1. <<RefuseOp>>[1] # <<FsyncOp(Marker)>>[1]
      BY DEF RefuseOp, FsyncOp
    <3>2. QED
      BY <3>1
  <2>4. live'[Marker] \in {NoFile, pending} /\ disk'[Marker] \in {NoFile, pending}
    <3>1. CASE live' = Created(live, Marker, pending) /\ disk' = disk
      BY <1>0, <2>1, <3>1, MarkerIsName DEF Created, Tree, MarkerShows
    <3>2. CASE live' = live /\ disk' = Synced(live, disk, Marker)
      BY <1>2, <2>1, <3>2 DEF MarkerShows
    <3>3. QED
      BY <1>3, <3>1, <3>2, MarkerPerformed
  <2>5. <<RefuseOp>>' = <<RefuseOp>>
    BY DEF RefuseOp, Marker
  <2>6. QED
    BY <1>0, <1>1, <1>2, <1>3, <2>1, <2>2, <2>3, <2>4, <2>5 DEF MarkerFits, MarkerShows
<1>4. CASE step \in {"unmarkBegin", "unmarkComplete"}
  <2>1. /\ phase = "IDLE" /\ current = pub.rev /\ pub.rev # 0
        /\ MarkerShows({NoFile} \cup {c \in {current} : pub.rev = c})
    BY <1>0, <1>4 DEF ControlInv, StepFitsPhase, ReplayInv, MarkerFits
  <2>2. CASE todo = RemoveMarker(pub.rev) /\ live' = live /\ disk' = Synced(live, disk, Marker)
    <3>1. todo' = <<UnlinkOp(Marker, pub.rev), FsyncOp(Marker)>>
      BY <1>1, <2>2 DEF RemoveMarker
    <3>2. todo' = <<UnlinkOp(Marker, pub.rev), FsyncOp(Marker)>>'
      BY <1>0, <3>1 DEF UnlinkOp, FsyncOp, Marker
    <3>3. live'[Marker] = live[Marker] /\ disk'[Marker] = live[Marker]
      BY <1>2, <2>2
    <3>4. MarkerShows({NoFile} \cup {c \in {current} : pub.rev = c})'
      BY <1>0, <1>2, <2>1, <3>3 DEF MarkerShows
    <3>5. QED
      BY <1>0, <1>1, <1>2, <1>4, <2>1, <3>2, <3>4 DEF MarkerFits
  <2>3. CASE /\ todo = <<UnlinkOp(Marker, pub.rev), FsyncOp(Marker)>>
             /\ live' = Unlinked(live, Marker) /\ disk' = disk
    <3>1. todo' = <<FsyncOp(Marker)>>
      BY <1>1, <2>3
    <3>2. todo' = <<FsyncOp(Marker)>>'
      BY <3>1 DEF FsyncOp, Marker
    <3>3. live'[Marker] = NoFile /\ disk'[Marker] = disk[Marker]
      BY <1>0, <2>3, MarkerIsName DEF Unlinked, Tree
    <3>4. MarkerShows({NoFile} \cup {c \in {current} : pub.rev = c})'
      BY <1>0, <1>2, <2>1, <3>3 DEF MarkerShows
    <3>5. QED
      BY <1>0, <1>1, <1>2, <1>4, <2>1, <3>2, <3>3, <3>4 DEF MarkerFits
  <2>4. CASE /\ todo = <<FsyncOp(Marker)>> /\ live[Marker] = NoFile
             /\ live' = live /\ disk' = Synced(live, disk, Marker)
    <3>1. todo' = <<>>
      BY <1>1, <2>4
    <3>2. live'[Marker] = NoFile /\ disk'[Marker] = NoFile
      BY <1>2, <2>4
    <3>3. MarkerShows({NoFile})' /\ MarkerShows({NoFile} \cup {c \in {current} : pub.rev = c})'
      BY <1>2, <3>2 DEF MarkerShows
    <3>4. QED
      BY <1>0, <1>1, <1>4, <2>1, <3>1, <3>3 DEF MarkerFits
  <2>5. QED
    BY <1>4, <2>2, <2>3, <2>4, MarkerPerformed
<1>5. QED
  BY <1>1, <1>3, <1>4

LEMMA NextMarker ==
    ASSUME ReplayInv, [Next]_vars, refused' = FALSE
    PROVE  MarkerFits'
<1>0. /\ TypeOK /\ ControlInv /\ FenceInv /\ MarkerFits /\ ReadersInv
      /\ live \in Tree /\ disk \in Tree /\ Marker' = Marker
      /\ Synced(live, disk, Marker)[Marker] = live[Marker]
  <2>1. TypeOK /\ ControlInv /\ FenceInv /\ MarkerFits /\ ReadersInv
    BY TreeParts DEF ReplayInv
  <2>2. live \in Tree /\ disk \in Tree
    BY <2>1 DEF TypeOK, Tree
  <2>3. QED
    BY <2>1, <2>2, MarkerIsName, SyncedMeansEither DEF Marker
<1>files. ASSUME UNCHANGED files
          PROVE  live'[Marker] = live[Marker] /\ disk'[Marker] = disk[Marker]
  BY <1>files DEF files
<1>fence. phase \in {"ACTIVATING", "READY"} => MarkerShows({pending})
  BY <1>0 DEF FenceInv, FenceIsDurable, MarkerShows
<1>token. ASSUME NEW t \in Token, Protect(t) \/ Release(t) PROVE MarkerFits'
  <2>1. live'[Marker] = live[Marker] /\ disk'[Marker] = disk[Marker]
    <3>1. Stage(t) \in Name /\ Stage(t) # Marker /\ Marker \in Name
      BY StageIsName, MarkerIsName
    <3>2. CASE Protect(t)
      BY <1>0, <3>1, <3>2 DEF Protect, Tree
    <3>3. CASE Release(t)
      BY <1>0, <3>1, <3>3 DEF Release, Unlinked, Tree
    <3>4. QED
      BY <1>token, <3>2, <3>3
  <2>2. UNCHANGED <<phase, current, pending, pub, step, todo>>
    BY <1>token DEF Protect, Release, call, catalog
  <2>3. QED
    BY <1>0, <2>1, <2>2, MarkerKept
<1>issue. ASSUME NEW m \in Manifest, Issue(m) PROVE MarkerFits'
  <2>1. pub.rev = 0 /\ UNCHANGED <<phase, current, pending, live, disk, step, todo>>
    BY <1>issue DEF Issue, NoPublication, journal, files, call
  <2>2. 0 \notin Content
    BY FactsAssumption DEF Content, File, Revision
  <2>3. live[Marker] # 0 /\ disk[Marker] # 0
    BY <1>0, <2>2, MarkerIsName DEF Tree
  <2>4. MarkerShows({NoFile} \cup {c \in {current} : pub.rev = c}) => MarkerShows({NoFile})
    BY <2>1, <2>3 DEF MarkerShows
  <2>5. pending = 0 /\ phase = "IDLE"
    BY <1>0, <2>1 DEF ControlInv, PendingIsIssued, JournalReadable, TypeOK
  <2>6. MarkerShows({NoFile})
    BY <1>0, <2>4, <2>5 DEF MarkerFits
  <2>7. step \notin {"mark", "unmarkBegin", "unmarkComplete"}
    BY <1>0, <2>1, <2>5 DEF ControlInv, StepFitsPhase, MarkerFits
  <2>8. MarkerShows({NoFile})'
    BY <1>0, <2>1, <2>6 DEF MarkerShows
  <2>9. MarkerShows({NoFile} \cup {c \in {current} : pub.rev = c})'
    BY <2>8 DEF MarkerShows
  <2>10. QED
    BY <2>1, <2>5, <2>7, <2>8, <2>9 DEF MarkerFits
<1>new. CASE BeginNew
  <2>1. /\ phase = "IDLE" /\ current # pub.rev /\ UNCHANGED files
        /\ phase' = "OPEN" /\ step' = "SPOOL"
    BY <1>0, <1>new DEF BeginNew, ControlInv, JournalReadable, TypeOK, Refuse
  <2>2. MarkerShows({NoFile})
    BY <1>0, <2>1 DEF MarkerFits, MarkerShows
  <2>3. MarkerShows({NoFile})'
    BY <1>0, <1>files, <2>1, <2>2 DEF MarkerShows
  <2>4. QED
    BY <2>1, <2>3 DEF MarkerFits
<1>resumed. CASE BeginResumed
  <2>1. /\ UNCHANGED <<phase, current, pending, pub, live>>
        /\ disk' \in {disk, Synced(live, disk, Marker)}
        /\ step' = CheckpointOf(phase) /\ phase # "IDLE"
    BY <1>0, <1>resumed DEF BeginResumed, Refuse, journal, catalog, ControlInv, JournalReadable
  <2>2. step' \notin MarkerIdle
    BY <1>0, <2>1 DEF CheckpointOf, MarkerIdle, TypeOK
  <2>3. QED
    BY <1>0, <2>1, <2>2, MarkerKept
<1>completed. CASE BeginCompleted
  <2>1. /\ UNCHANGED <<phase, current, pending, pub, live, disk>>
        /\ phase = "IDLE" /\ current = pub.rev /\ pub.rev # 0
        /\ step' = "unmarkBegin" /\ todo' = RemoveMarker(pub.rev)
    BY <1>0, <1>completed DEF BeginCompleted, journal, catalog, files, ControlInv, JournalReadable
  <2>2. MarkerShows({NoFile} \cup {c \in {current} : pub.rev = c})'
    BY <1>0, <2>1 DEF MarkerFits, MarkerShows
  <2>3. RemoveMarker(pub.rev)' = RemoveMarker(pub.rev)
    BY <2>1 DEF RemoveMarker, FsyncOp, UnlinkOp, Marker
  <2>4. QED
    BY <2>1, <2>2, <2>3 DEF MarkerFits
<1>seal. CASE Seal
  <2>1. /\ phase = "OPEN" /\ phase' = "SEALED" /\ step' = "RECONCILE" /\ UNCHANGED files
    BY <1>seal DEF Seal
  <2>2. MarkerShows({NoFile, pending})'
    BY <1>0, <1>files, <2>1 DEF MarkerFits, MarkerShows
  <2>3. QED
    BY <2>1, <2>2 DEF MarkerFits
<1>mark. CASE ReconcileSealed
  <2>1. /\ UNCHANGED <<phase, current, pending, pub, live, disk>>
        /\ phase = "SEALED" /\ step' = "mark" /\ todo' = WriteMarker
    BY <1>mark DEF ReconcileSealed, journal, catalog, files
  <2>2. MarkerShows({NoFile, pending})
    BY <1>0, <2>1 DEF MarkerFits
  <2>3. WriteMarker \in {<<CreateOp(Marker, pending), FsyncOp(Marker)>>, <<FsyncOp(Marker)>>}
    BY <2>2 DEF WriteMarker, MarkerShows
  <2>4. \A s \in {<<CreateOp(Marker, pending), FsyncOp(Marker)>>, <<FsyncOp(Marker)>>} :
            s[1] # RefuseOp
    BY DEF CreateOp, FsyncOp, RefuseOp
  <2>5. todo' # <<RefuseOp>>
    BY <2>1, <2>3, <2>4
  <2>6. <<RefuseOp>>' = <<RefuseOp>>
    BY DEF RefuseOp, Marker
  <2>7. MarkerShows({NoFile, pending})'
    BY <1>0, <2>1, <2>2 DEF MarkerShows
  <2>8. QED
    BY <2>1, <2>5, <2>6, <2>7 DEF MarkerFits
<1>activating. CASE CommitActivating
  BY <1>activating DEF CommitActivating, MarkerFits
<1>fenced. CASE ReconcileActivating
  <2>1. /\ UNCHANGED <<phase, current, pending, pub, live>>
        /\ disk' = Synced(live, disk, Marker) /\ step' = "reserve"
    BY <1>fenced DEF ReconcileActivating, Refuse, journal, catalog
  <2>2. QED
    BY <1>0, <2>1, MarkerKept DEF MarkerIdle
<1>complete. CASE Complete
  <2>1. /\ phase = "READY" /\ live[Marker] = pending /\ UNCHANGED <<live, pub>>
        /\ disk' = Synced(live, disk, Marker)
        /\ phase' = "IDLE" /\ current' = pending /\ todo' = RemoveMarker(pending)
        /\ step' = "unmarkComplete"
    BY <1>0, <1>complete DEF Complete, Refuse, ControlInv, StepFitsPhase, catalog
  <2>2. pending # 0 /\ pending = pub.rev
    BY <1>0, <2>1 DEF ControlInv, JournalReadable, PendingIsIssued
  <2>3. MarkerShows({NoFile} \cup {c \in {current} : pub.rev = c})'
    BY <1>0, <2>1, <2>2 DEF MarkerShows
  <2>4. RemoveMarker(pub.rev)' = RemoveMarker(pending)
    BY <2>1, <2>2 DEF RemoveMarker, FsyncOp, UnlinkOp, Marker
  <2>5. QED
    BY <2>1, <2>2, <2>3, <2>4 DEF MarkerFits
<1>removed. CASE MarkerRemoved
  <2>1. /\ step \in {"unmarkBegin", "unmarkComplete"} /\ todo = <<>> /\ step' = "COMPLETE"
        /\ UNCHANGED <<phase, current, pending, pub, live, disk>>
    BY <1>removed DEF MarkerRemoved, journal, catalog, files
  <2>2. /\ phase = "IDLE"
        /\ MarkerShows({NoFile} \cup {c \in {current} : pub.rev = c})
    BY <1>0, <2>1 DEF ControlInv, StepFitsPhase, MarkerFits
  <2>3. \A a, b : <<a>> # <<>> /\ <<a, b>> # <<>> /\ \A c : <<a, b, c>> # <<>>
    OBVIOUS
  <2>4. MarkerShows({NoFile})
    BY <1>0, <2>1, <2>3 DEF MarkerFits, RemoveMarker
  <2>5. MarkerShows({NoFile})' /\ MarkerShows({NoFile} \cup {c \in {current} : pub.rev = c})'
    BY <1>0, <2>1, <2>4 DEF MarkerShows
  <2>6. QED
    BY <2>1, <2>2, <2>5 DEF MarkerFits
<1>finalize. CASE Finalize
  <2>1. /\ step = "COMPLETE" /\ step' = "out" /\ UNCHANGED <<phase, live, disk>>
    BY <1>finalize DEF Finalize, Leave, journal, files
  <2>2. phase = "IDLE" /\ MarkerShows({NoFile})
    BY <1>0, <2>1 DEF ControlInv, StepFitsPhase, MarkerFits
  <2>3. MarkerShows({NoFile} \cup {c \in {current} : pub.rev = c})'
    BY <1>0, <2>1, <2>2 DEF MarkerShows
  <2>4. QED
    BY <2>1, <2>2, <2>3 DEF MarkerFits
<1>finish. CASE FinishReconcile
  BY <1>0, <1>finish DEF FinishReconcile, Refuse, MarkerFits, ControlInv, StepFitsPhase
<1>perform. CASE Works
  <2>1. CASE step \in {"install", "remove"}
    <3>1. /\ todo \in FileScript /\ UNCHANGED <<phase, current, pending, pub>> /\ todo # <<>>
      BY <1>0, <1>perform, <2>1, PerformParts DEF FenceInv, ScriptsAvoidMarker, journal, catalog
    <3>2. NextOp \in FileOp
      BY <1>0, <3>1, NextOpIsTyped
    <3>3. NextOp.do \in {"check", "fsync", "refuse"} \/ Marker \notin {NextOp.src, NextOp.dst}
      BY <3>2 DEF FileOp
    <3>4. live'[Marker] = live[Marker] /\ disk'[Marker] \in {live[Marker], disk[Marker]}
      BY <1>0, <1>perform, <3>3, MarkerIsName, PerformOthers
    <3>5. step' \in {step, "out"}
      BY <1>0, <1>perform, PerformParts DEF Refuse, Leave, Proceed
    <3>6. QED
      BY <1>0, <2>1, <3>1, <3>4, <3>5, MarkerKept DEF MarkerIdle
  <2>2. CASE step \notin {"install", "remove"}
    BY <1>perform, <2>2, MarkerScriptRuns
  <2>3. QED
    BY <2>1, <2>2
<1>interrupt. CASE Interrupt
  BY <1>0, <1>interrupt, <1>files, MarkerKept DEF Interrupt, Leave, MarkerIdle, journal, catalog
<1>power. CASE PowerLoss
  <2>1. PICK tree \in PowerLossTrees(live, disk) : live' = tree /\ disk' = tree
    BY <1>power DEF PowerLoss
  <2>2. tree[Marker] \in {live[Marker], disk[Marker]}
    BY <1>0, MarkerIsName, PowerLossMeansEither
  <2>3. UNCHANGED <<phase, current, pending, pub>> /\ step' = "out"
    BY <1>power DEF PowerLoss, Leave, journal, catalog
  <2>4. QED
    BY <1>0, <2>1, <2>2, <2>3, MarkerKept DEF MarkerIdle
<1>foreign. ASSUME NEW r \in Resource, ForeignWrite(r) PROVE MarkerFits'
  <2>1. live'[Marker] = live[Marker] /\ disk'[Marker] = disk[Marker]
    BY <1>0, <1>foreign, CurIsName, MarkerIsName DEF ForeignWrite, Tree
  <2>2. UNCHANGED <<phase, current, pending, pub, step, todo>>
    BY <1>foreign DEF ForeignWrite, journal, call, catalog
  <2>3. QED
    BY <1>0, <2>1, <2>2, MarkerKept
<1>same. CASE AdvanceHead \/ ActivatePage \/ StartInstall \/ StartRemoval \/ UNCHANGED seen
  <2>1. /\ UNCHANGED <<phase, current, pending, pub, step, live, disk>>
        /\ todo' = todo \/ step' \notin MarkerIdle
    BY <1>same DEF AdvanceHead, ActivatePage, StartInstall, StartRemoval, seen, journal, files,
       catalog, call, MarkerIdle
  <2>2. QED
    BY <1>0, <2>1, MarkerKept
<1>page. CASE ReservePendingInstalls \/ ListStale \/ ReservePendingRemovals
              \/ CommitPendingInstalls \/ CommitPendingRemovals
  <2>1. UNCHANGED <<phase, current, pending, pub, live, disk>> /\ step' \notin MarkerIdle
    BY <1>page DEF ReservePendingInstalls, ListStale, ReservePendingRemovals,
       CommitPendingInstalls, CommitPendingRemovals, Refuse, Leave, MarkerIdle, files, catalog
  <2>2. QED
    BY <1>0, <2>1, MarkerKept
<1>q. QED
  BY <1>token, <1>issue, <1>new, <1>resumed, <1>completed, <1>seal, <1>mark, <1>activating,
     <1>fenced, <1>complete, <1>removed, <1>finalize, <1>finish, <1>perform, <1>interrupt,
     <1>power, <1>foreign, <1>same, <1>page, LookIsHidden DEF Next, CoreNext, ActivatorNext
-----------------------------------------------------------------------------
(* No kind of work is left out. *)

LEMMA FirstPageOfSome ==
    ASSUME NEW S \in SUBSET Resource, FirstPage(S) = {}
    PROVE  S = {}
<1>1. SUFFICES ASSUME S # {} PROVE FALSE
  OBVIOUS
<1>2. S \subseteq Nat
  BY FactsAssumption DEF Resource
<1> DEFINE Before == {ss \in Nat \X Nat : ss[1] < ss[2]}
<1>9. IsWellFoundedOn(Before, Nat)
  BY NatLessThanWellFounded DEF OpToRel
<1>3. PICK r \in S : \A q \in S : ~(<<q, r>> \in Before)
  <2> HIDE DEF Before
  <2>1. QED
    BY <1>1, <1>2, <1>9, WFMin
<1>4. ASSUME NEW q \in S PROVE ~(q < r)
  <2>1. q \in Nat /\ r \in Nat
    BY <1>2
  <2>2. q < r => <<q, r>> \in Before
    BY <2>1
  <2>3. QED
    BY <1>3, <2>2
<1>5. {q \in S : q < r} = {}
  BY <1>4
<1>6. Cardinality({q \in S : q < r}) = 0
  BY <1>5, FS_EmptySet
<1>7. r \in FirstPage(S)
  BY <1>6, LimitAssumption DEF FirstPage
<1>8. QED
  BY <1>7

LEMMA NextWork ==
    ASSUME ReplayInv, [Next]_vars
    PROVE  WorkLeft'
<1>0. TypeOK /\ ControlInv /\ WorkLeft
  BY TreeParts DEF ReplayInv
<1>out. ASSUME step' \notin {"list", "reserveStale", "finish"} PROVE WorkLeft'
  BY <1>out DEF WorkLeft
<1>same. ASSUME UNCHANGED <<step, pend, entry, stale>> PROVE WorkLeft'
  BY <1>0, <1>same DEF WorkLeft, Uninstalled, Listed, Unwanted, Spooled
<1>reserve. CASE ReservePendingInstalls
  <2>1. /\ step' = IF FirstPage(Uninstalled) = {} THEN "list" ELSE "install"
        /\ pend' = [r \in Resource |-> IF r \in FirstPage(Uninstalled)
                                       THEN [pend[r] EXCEPT !.started = TRUE] ELSE pend[r]]
    BY <1>reserve DEF ReservePendingInstalls
  <2>2. CASE FirstPage(Uninstalled) = {}
    <3>1. Uninstalled = {}
      BY <2>2, FirstPageOfSome DEF Uninstalled
    <3>2. \A r \in Resource : pend'[r] = pend[r]
      BY <2>1, <2>2
    <3>3. Uninstalled' = {}
      BY <3>1, <3>2 DEF Uninstalled, Spooled
    <3>4. QED
      BY <2>1, <2>2, <3>3 DEF WorkLeft
  <2>3. CASE FirstPage(Uninstalled) # {}
    BY <1>out, <2>1, <2>3
  <2>4. QED
    BY <2>2, <2>3
<1>list. CASE ListStale
  <2>1. /\ step = "list" /\ step' = "reserveStale" /\ UNCHANGED <<pend, entry>>
        /\ \A r \in Resource : stale'[r] = IF Listed = {} /\ r \in FirstPage(Unwanted)
                                           THEN "listed" ELSE stale[r]
    BY <1>list DEF ListStale
  <2>2. Uninstalled' = {} /\ Unwanted' = Unwanted
    BY <1>0, <2>1 DEF WorkLeft, Uninstalled, Unwanted, Spooled
  <2>3. ASSUME Listed' = {} PROVE Unwanted' = {}
    <3>1. Listed = {} /\ \A r \in FirstPage(Unwanted) : r \notin Resource
      BY <2>1, <2>3 DEF Listed
    <3>2. Unwanted \in SUBSET Resource /\ FirstPage(Unwanted) = {}
      BY <3>1 DEF Unwanted, FirstPage
    <3>3. QED
      BY <2>2, <3>2, FirstPageOfSome
  <2>4. QED
    BY <2>1, <2>2, <2>3 DEF WorkLeft
<1>stale. CASE ReservePendingRemovals
  <2>1. /\ step = "reserveStale" /\ UNCHANGED <<pend, entry>>
        /\ step' = IF FirstPage(Listed) = {} THEN "finish" ELSE "remove"
        /\ \A r \in Resource : stale'[r] = IF r \in FirstPage(Listed) THEN "started" ELSE stale[r]
    BY <1>stale DEF ReservePendingRemovals
  <2>2. CASE FirstPage(Listed) = {}
    <3>1. Listed = {}
      BY <2>2, FirstPageOfSome DEF Listed
    <3>2. Uninstalled' = {} /\ Listed' = {} /\ Unwanted' = {}
      BY <1>0, <2>1, <2>2, <3>1 DEF WorkLeft, Uninstalled, Unwanted, Listed, Spooled
    <3>3. QED
      BY <3>2 DEF WorkLeft
  <2>3. CASE FirstPage(Listed) # {}
    BY <1>out, <2>1, <2>3
  <2>4. QED
    BY <2>2, <2>3
<1>perform. CASE Works
  <2>1. UNCHANGED <<pend, entry, stale>> /\ step' \in {step, "out"}
    BY <1>0, <1>perform, PerformParts DEF journal, Refuse, Leave, Proceed
  <2>2. QED
    BY <1>out, <1>same, <2>1
<1>1. CASE (\E t \in Token : Protect(t) \/ Release(t)) \/ (\E m \in Manifest : Issue(m))
           \/ (\E r \in Resource : ForeignWrite(r)) \/ UNCHANGED seen \/ AdvanceHead
  BY <1>1, <1>same DEF Protect, Release, Issue, ForeignWrite, AdvanceHead, seen, journal, call
<1>resumed. CASE BeginResumed
  BY <1>0, <1>resumed, <1>out DEF BeginResumed, CheckpointOf, Refuse, Leave, TypeOK, ControlInv,
     JournalReadable
<1>2. CASE BeginNew \/ BeginCompleted \/ ActivatePage \/ Seal
           \/ ReconcileSealed \/ CommitActivating \/ ReconcileActivating
  BY <1>2, <1>out DEF BeginNew, BeginCompleted, ActivatePage, Seal,
     ReconcileSealed, CommitActivating, ReconcileActivating, Refuse, Leave, call
<1>3. CASE StartInstall \/ StartRemoval \/ CommitPendingInstalls \/ CommitPendingRemovals
           \/ FinishReconcile \/ Complete \/ MarkerRemoved \/ Finalize \/ Interrupt \/ PowerLoss
  BY <1>3, <1>out DEF StartInstall, StartRemoval, CommitPendingInstalls, CommitPendingRemovals,
     FinishReconcile, Complete, MarkerRemoved, Finalize, Interrupt, PowerLoss, Refuse, Leave
<1>4. QED
  BY <1>reserve, <1>list, <1>stale, <1>perform, <1>resumed, <1>1, <1>2, <1>3, LookIsHidden
     DEF Next, CoreNext, ActivatorNext
-----------------------------------------------------------------------------
(* The replacements and their scripts, from one state to the next. *)

Replaying == TreesFit /\ FreshUntouched /\ ScriptRuns

\* Stations and scripts do not depend on the state.
LEMMA StationsFixed ==
    /\ Lags' = Lags
    /\ \A p : Ends(p)' = Ends(p)
    /\ \A p, op, x, y : Takes(p, op, x, y)' <=> Takes(p, op, x, y)
    /\ \A p, x, y : Leads(p, todo, x, y)' <=> Leads(p, todo', x, y)
<1>1. Lags' = Lags
  BY DEF Lags, Station
<1>2. \A p : Ends(p)' = Ends(p)
  BY DEF Ends
<1>3. /\ \A r : Cur(r)' = Cur(r)
      /\ \A r, d : Quar(r, d)' = Quar(r, d)
      /\ \A t : Stage(t)' = Stage(t)
      /\ \A n, m, f : RenameOp(n, m, f)' = RenameOp(n, m, f)
                      /\ CapturedOp(n, m, f)' = CapturedOp(n, m, f)
      /\ \A n, f : UnlinkOp(n, f)' = UnlinkOp(n, f) /\ CheckOp(n, f)' = CheckOp(n, f)
      /\ \A n : FsyncOp(n)' = FsyncOp(n)
      /\ \A x : SyncCurrent(x)' = SyncCurrent(x) /\ SyncQuarantine(x)' = SyncQuarantine(x)
                /\ SyncStaging(x)' = SyncStaging(x)
  BY DEF Cur, Quar, Stage, RenameOp, CapturedOp, UnlinkOp, CheckOp, FsyncOp, SyncCurrent,
     SyncQuarantine, SyncStaging
<1>4. \A p, op, x, y : Takes(p, op, x, y)' <=> Takes(p, op, x, y)
  BY <1>3 DEF Takes
<1>5. \A p, x, y : Leads(p, todo, x, y)' <=> Leads(p, todo', x, y)
  BY <1>1, <1>4 DEF Leads
<1>6. QED
  BY <1>1, <1>2, <1>4, <1>5

\* A row whose files were not touched stands where it stood.
RowKept(r) ==
    /\ entry'[r] = entry[r] /\ New(r)' = New(r)
    /\ live'[Cur(r)] = live[Cur(r)] /\ disk'[Cur(r)] = disk[Cur(r)]
    /\ entry[r] # NoFile =>
          LET q == Quar(r, DigestOf[entry[r]]) IN live'[q] = live[q] /\ disk'[q] = disk[q]
    /\ New(r) # NoFile =>
          LET s == Stage(New(r)) IN live'[s] = live[s] /\ disk'[s] = disk[s]

LEMMA StandsKept ==
    ASSUME NEW r, RowKept(r), NEW x, Stands(r, x)
    PROVE  Stands(r, x)'
<1>1. Cur(r)' = Cur(r) /\ (\A d : Quar(r, d)' = Quar(r, d)) /\ \A t : Stage(t)' = Stage(t)
  BY DEF Cur, Quar, Stage
<1>2. \A k : StandsAt(live, r, k) => StandsAt(live, r, k)'
  BY <1>1 DEF StandsAt, RowKept
<1>3. \A k : StandsAt(disk, r, k) => StandsAt(disk, r, k)'
  BY <1>1 DEF StandsAt, RowKept
<1>4. QED
  BY <1>2, <1>3 DEF Stands

\* A row at rest stands where a plan reserved now will find it.
LEMMA RestStands ==
    ASSUME TreeInv, NEW r \in Resource, ~Unfinished(r),
           entry'[r] = entry[r], New(r)' # NoFile =>
              /\ New(r)' \in Token /\ ResOf[New(r)'] = r
              /\ live'[Stage(New(r)')] = New(r)' /\ disk'[Stage(New(r)')] = New(r)',
           live'[Cur(r)] = live[Cur(r)], disk'[Cur(r)] = disk[Cur(r)],
           \A d \in Digest : live'[Quar(r, d)] = live[Quar(r, d)]
                             /\ disk'[Quar(r, d)] = disk[Quar(r, d)]
    PROVE  Stands(r, <<1, 1>>)'
<1>1. live[Cur(r)] = entry[r] /\ disk[Cur(r)] = entry[r]
  BY CurIsName, OpenMeans DEF TreeInv, AtRest, DurableAtRest, ContentsAtRest
<1>2. entry[r] # NoFile => DigestOf[entry[r]] \in Digest
  BY EntryIs DEF TreeInv
<1>3. \A d \in Digest : live[Quar(r, d)] = NoFile /\ disk[Quar(r, d)] = NoFile
  BY QuarIsName, OpenMeans DEF TreeInv, AtRest, DurableAtRest, ContentsAtRest
<1>4. Cur(r)' = Cur(r) /\ (\A d : Quar(r, d)' = Quar(r, d)) /\ \A t : Stage(t)' = Stage(t)
  BY DEF Cur, Quar, Stage
<1>5. StandsAt(live, r, 1)'
  BY <1>1, <1>2, <1>3, <1>4 DEF StandsAt
<1>6. StandsAt(disk, r, 1)'
  BY <1>1, <1>2, <1>3, <1>4 DEF StandsAt
<1>7. <<1, 1>>[1] = 1 /\ <<1, 1>>[2] = 1
  OBVIOUS
<1>8. QED
  BY <1>5, <1>6, <1>7 DEF Stands

LEMMA TreesKept ==
    ASSUME TreesFit, \A r \in Resource : Unfinished(r)' => Unfinished(r) /\ RowKept(r)
    PROVE  TreesFit'
<1>1. Resource' = Resource
  BY DEF Resource
<1>2. ASSUME NEW r \in Resource, Unfinished(r)' PROVE \E x \in Lags : Stands(r, x)'
  BY <1>2, StandsKept DEF TreesFit
<1>3. QED
  BY <1>1, <1>2, StationsFixed DEF TreesFit

\* Outside a page nothing is running.
LEMMA NoneRunning ==
    ASSUME step' \notin {"install", "remove"}
    PROVE  FreshUntouched' /\ ScriptRuns'
BY DEF FreshUntouched, ScriptRuns

LEMMA UntouchedRows ==
    ASSUME UNCHANGED <<entry, tok, live, disk>>, NEW r, pend'[r].digest = pend[r].digest
    PROVE  RowKept(r) /\ New(r)' = New(r)
<1>1. New(r)' = New(r)
  BY DEF New, StagedCandidate, StagedTokens
<1>2. QED
  BY <1>1 DEF RowKept

\* The new file of a row is a matter of its staged tokens.
LEMMA NewKept ==
    ASSUME TypeOK, OneStaged, NEW r \in Resource,
           StagedTokens(r, pend[r].digest)' = StagedTokens(r, pend[r].digest)
    PROVE  New(r)' = New(r)
<1>1. CASE StagedTokens(r, pend[r].digest) = {}
  BY <1>1 DEF New, StagedCandidate
<1>2. CASE StagedTokens(r, pend[r].digest) # {}
  <2>1. New(r)' \in StagedTokens(r, pend[r].digest)'
    BY <1>2 DEF New, StagedCandidate
  <2>2. StagedTokens(r, pend[r].digest) = {New(r)}
    BY <1>2, NewIs
  <2>3. QED
    BY <2>1, <2>2
<1>3. QED
  BY <1>1, <1>2

\* Protecting or releasing another token moves no replacement.
LEMMA TokenReplays ==
    ASSUME ReplayInv, NEW t \in Token, Protect(t) \/ Release(t)
    PROVE  Replaying'
<1>0. /\ TreeInv /\ TypeOK /\ ControlInv /\ RowsFitPhase /\ OneStaged
      /\ live \in Tree /\ disk \in Tree /\ Stage(t) \in Name
  BY TreeParts, StageIsName DEF ReplayInv, ReadersInv, TypeOK, Tree
<1>1. /\ step' = "out" /\ UNCHANGED <<entry, pend, stale>>
      /\ \A m \in Name : m # Stage(t) => live'[m] = live[m] /\ disk'[m] = disk[m]
      /\ \A u \in Token : u # t => tok'[u] = tok[u]
  BY <1>0 DEF Protect, Release, call, Unlinked, Tree, TypeOK
<1>2. /\ Protect(t) => /\ tok[t] = "none" /\ tok'[t] = "STAGED"
                       /\ \A u \in Token : ResOf[u] = ResOf[t] => tok[u] # "STAGED"
                       /\ live'[Stage(t)] = t /\ disk'[Stage(t)] = t
      /\ Release(t) => ~BlocksRelease(t) /\ tok'[t] = "RELEASED"
  BY <1>0 DEF Protect, Release, Tree, TypeOK
<1>3. \A r : Cur(r) # Stage(t) /\ \A d : Quar(r, d) # Stage(t)
  BY NamesDiffer
<1>4. ASSUME NEW r \in Resource, Unfinished(r)
      PROVE  StagedTokens(r, pend[r].digest)' = StagedTokens(r, pend[r].digest)
             /\ t \notin StagedTokens(r, pend[r].digest)
  <2>1. ASSUME ResOf[t] = r, DigestOf[t] = pend[r].digest
        PROVE  tok[t] # "STAGED" /\ tok'[t] # "STAGED"
    <3>1. Spooled(r)
      BY <2>1, FactsAssumption, LimitAssumption DEF Spooled
    <3>2. pend[r].started /\ ~pend[r].activated /\ StagedTokens(r, pend[r].digest) # {}
      BY <1>0, <1>4, <3>1 DEF Unfinished, ControlInv, PagesAreDisjoint
    <3>3. pending # 0
      BY <3>2, <1>0 DEF RowsFitPhase, ControlInv, JournalReadable
    <3>4. CASE Protect(t)
      BY <1>2, <2>1, <3>2, <3>4 DEF StagedTokens
    <3>5. CASE Release(t)
      <4>1. tok[t] \in {"none", "STAGED", "INSTALLED", "RELEASED"}
        BY <1>0 DEF TypeOK
      <4>2. tok[t] = "none"
        BY <1>2, <2>1, <3>2, <3>3, <3>5 DEF BlocksRelease
      <4>3. QED
        BY <1>2, <3>5, <4>2
    <3>6. QED
      BY <3>4, <3>5
  <2>2. t \notin StagedTokens(r, pend[r].digest)
    BY <2>1 DEF StagedTokens
  <2>3. t \notin StagedTokens(r, pend[r].digest)'
    BY <1>1, <2>1 DEF StagedTokens
  <2>4. QED
    BY <1>1, <2>2, <2>3 DEF StagedTokens
<1>5. ASSUME NEW r \in Resource, Unfinished(r)' PROVE \E x \in Lags : Stands(r, x)'
  <2>1. CASE Unfinished(r)
    <3>1. New(r)' = New(r)
      BY <1>0, <1>4, <2>1, NewKept
    <3>2. New(r) # NoFile => Stage(New(r)) \in Name /\ Stage(New(r)) # Stage(t)
      BY <1>0, <1>4, <2>1, NewIs, StageIsName, NamesDiffer
    <3>3. entry[r] # NoFile => Quar(r, DigestOf[entry[r]]) \in Name
      BY <1>0, EntryIs, QuarIsName DEF TreeInv
    <3>4. RowKept(r)
      BY <1>1, <1>3, <3>1, <3>2, <3>3, CurIsName DEF RowKept
    <3>5. QED
      BY <1>0, <2>1, <3>4, StandsKept DEF TreeInv, TreesFit
  <2>2. CASE ~Unfinished(r)
    <3>1. /\ StagedTokens(r, pend[r].digest) = {}
          /\ StagedTokens(r, pend[r].digest)' # {}
      BY <1>1, <1>5, <2>2 DEF Unfinished
    <3>2. \A u \in StagedTokens(r, pend[r].digest)' : u = t
      BY <1>1, <3>1 DEF StagedTokens
    <3>3. t \in StagedTokens(r, pend[r].digest)'
      BY <3>1, <3>2
    <3>4. Protect(t) /\ ResOf[t] = r
      BY <1>2, <3>3 DEF StagedTokens
    <3>5. New(r)' = t
      BY <3>2, <3>3 DEF New, StagedCandidate
    <3>6. Stands(r, <<1, 1>>)'
      BY <1>0, <1>1, <1>2, <1>3, <2>2, <3>4, <3>5, CurIsName, QuarIsName, RestStands
    <3>7. QED
      BY <3>6, LagIs
  <2>3. QED
    BY <2>1, <2>2
<1>6. Resource' = Resource
  BY DEF Resource
<1>7. TreesFit'
  BY <1>5, <1>6, StationsFixed DEF TreesFit
<1>8. QED
  BY <1>1, <1>7, NoneRunning DEF Replaying

\* A row reserved now stands where nothing has been moved.
LEMMA ReservedStands ==
    ASSUME ReplayInv, UNCHANGED <<entry, tok, live, disk>>,
           NEW r \in Resource, ~Unfinished(r), pend'[r].digest = pend[r].digest
    PROVE  Stands(r, <<1, 1>>)'
<1>0. TreeInv /\ TypeOK /\ OneStaged
  BY TreeParts DEF TreeInv
<1>1. New(r)' = New(r)
  BY UntouchedRows
<1>2. ASSUME New(r) # NoFile
      PROVE  /\ New(r) \in Token /\ ResOf[New(r)] = r
             /\ live[Stage(New(r))] = New(r) /\ disk[Stage(New(r))] = New(r)
  <2>1. New(r) \in Token /\ ResOf[New(r)] = r /\ tok[New(r)] = "STAGED"
    BY <1>0, <1>2, NewIs
  <2>2. Stage(New(r)) \notin OpenNames
    BY <2>1, OpenMeans
  <2>3. Stage(New(r)) \in Name \ {Marker}
    BY <2>1, StageIsName
  <2>4. QED
    BY <1>0, <2>1, <2>2, <2>3 DEF TreeInv, AtRest, DurableAtRest, ContentsAtRest, Recorded
<1>3. QED
  BY <1>0, <1>1, <1>2, RestStands

LEMMA InstallsReserved ==
    ASSUME ReplayInv, ReservePendingInstalls
    PROVE  Replaying'
<1>0. /\ TreeInv /\ TypeOK /\ ControlInv /\ PagesFitRows
  BY TreeParts DEF ReplayInv, ReadersInv
<1> DEFINE rows == FirstPage(Uninstalled)
<1>1. /\ step = "reserve" /\ UNCHANGED <<entry, tok, live, disk, stale, todo>>
      /\ left' = rows
      /\ pend' = [r \in Resource |->
                    IF r \in rows THEN [pend[r] EXCEPT !.started = TRUE] ELSE pend[r]]
      /\ page' = {[res |-> r, digest |-> pend[r].digest,
                   staged |-> StagedCandidate(r, pend[r].digest),
                   old |-> entry[r], fresh |-> ~pend[r].started] : r \in rows}
  BY DEF ReservePendingInstalls, files
<1>2. todo' = <<>>
  BY <1>0, <1>1 DEF PagesFitRows
<1>3. rows \subseteq Uninstalled /\ rows \subseteq Resource
  BY FirstPageIsPart DEF Uninstalled
<1> HIDE DEF rows
<1>4. \A r \in Resource : pend[r] \in PendRow
  BY <1>0 DEF TypeOK
<1>5. \A r \in Resource : pend'[r].digest = pend[r].digest
  BY <1>1, <1>4 DEF PendRow
<1>6. ASSUME NEW r \in Resource, Unfinished(r)' PROVE \E x \in Lags : Stands(r, x)'
  <2>1. CASE Unfinished(r)
    <3>1. RowKept(r)
      BY <1>1, <1>5, UntouchedRows
    <3>2. QED
      BY <1>0, <2>1, <3>1, StandsKept DEF TreeInv, TreesFit
  <2>2. CASE ~Unfinished(r)
    <3>1. Stands(r, <<1, 1>>)'
      BY <1>1, <1>5, <2>2, ReservedStands
    <3>2. QED
      BY <3>1, LagIs
  <2>3. QED
    BY <2>1, <2>2
<1>7. ASSUME NEW p \in page', p.fresh PROVE Stands(p.res, <<1, 1>>)'
  <2>1. p.res \in rows /\ p.res \in Resource /\ ~pend[p.res].started
    <3>1. PICK r \in rows : p = [res |-> r, digest |-> pend[r].digest,
                                 staged |-> StagedCandidate(r, pend[r].digest),
                                 old |-> entry[r], fresh |-> ~pend[r].started]
      BY <1>1
    <3>2. p.res = r /\ p.fresh = ~pend[r].started
      BY <3>1
    <3>3. QED
      BY <1>3, <1>7, <3>2
  <2>2. stale[p.res] = "none"
    BY <1>0, <1>3, <2>1 DEF Uninstalled, ControlInv, PagesAreDisjoint
  <2>3. ~Unfinished(p.res)
    BY <2>1, <2>2 DEF Unfinished
  <2>4. QED
    BY <1>1, <1>5, <2>1, <2>3, ReservedStands
<1>8. \A p \in page' : p.res \in left'
  BY <1>1
<1>9. Resource' = Resource
  BY DEF Resource
<1>10. TreesFit'
  BY <1>6, <1>9, StationsFixed DEF TreesFit
<1>11. FreshUntouched'
  BY <1>7 DEF FreshUntouched
<1>12. ScriptRuns'
  BY <1>2, <1>8 DEF ScriptRuns
<1>13. QED
  BY <1>10, <1>11, <1>12 DEF Replaying

LEMMA RemovalsReserved ==
    ASSUME ReplayInv, ReservePendingRemovals
    PROVE  Replaying'
<1>0. /\ TreeInv /\ TypeOK /\ ControlInv /\ PagesFitRows
  BY TreeParts DEF ReplayInv, ReadersInv
<1> DEFINE rows == FirstPage(Listed)
<1>1. /\ step = "reserveStale" /\ UNCHANGED <<entry, tok, live, disk, pend, todo>>
      /\ left' = rows
      /\ \A r \in Resource : stale'[r] = IF r \in rows THEN "started" ELSE stale[r]
      /\ page' = {[res |-> r, digest |-> DigestOf[entry[r]], staged |-> NoFile,
                   old |-> entry[r], fresh |-> stale[r] = "listed"] : r \in rows}
  BY DEF ReservePendingRemovals, files
<1>2. todo' = <<>>
  BY <1>0, <1>1 DEF PagesFitRows
<1>3. rows \subseteq Listed /\ rows \subseteq Resource
  BY FirstPageIsPart DEF Listed
<1> HIDE DEF rows
<1>6. ASSUME NEW r \in Resource, Unfinished(r)' PROVE \E x \in Lags : Stands(r, x)'
  <2>1. CASE Unfinished(r)
    <3>1. RowKept(r)
      BY <1>1, UntouchedRows
    <3>2. QED
      BY <1>0, <2>1, <3>1, StandsKept DEF TreeInv, TreesFit
  <2>2. CASE ~Unfinished(r)
    <3>1. Stands(r, <<1, 1>>)'
      BY <1>1, <2>2, ReservedStands
    <3>2. QED
      BY <3>1, LagIs
  <2>3. QED
    BY <2>1, <2>2
<1>7. ASSUME NEW p \in page', p.fresh PROVE Stands(p.res, <<1, 1>>)'
  <2>1. p.res \in rows /\ p.res \in Resource /\ stale[p.res] = "listed"
    <3>1. PICK r \in rows : p = [res |-> r, digest |-> DigestOf[entry[r]], staged |-> NoFile,
                                 old |-> entry[r], fresh |-> stale[r] = "listed"]
      BY <1>1
    <3>2. p.res = r /\ p.fresh = (stale[r] = "listed")
      BY <3>1
    <3>3. QED
      BY <1>3, <1>7, <3>2
  <2>2. ~Spooled(p.res)
    BY <1>0, <2>1 DEF ControlInv, PagesAreDisjoint
  <2>3. ~Unfinished(p.res)
    BY <2>1, <2>2, NothingStaged DEF Unfinished
  <2>4. QED
    BY <1>1, <2>1, <2>3, ReservedStands
<1>8. \A p \in page' : p.res \in left'
  BY <1>1
<1>9. Resource' = Resource
  BY DEF Resource
<1>10. TreesFit'
  BY <1>6, <1>9, StationsFixed DEF TreesFit
<1>11. FreshUntouched'
  BY <1>7 DEF FreshUntouched
<1>12. ScriptRuns'
  BY <1>2, <1>8 DEF ScriptRuns
<1>13. QED
  BY <1>10, <1>11, <1>12 DEF Replaying

\* A plan that starts: its script runs to the end, or nothing is to be done.
LEMMA ScriptStarts ==
    ASSUME ReplayInv, step \in {"install", "remove"}, todo = <<>>,
           NEW p \in page, IsNext(p), left' = left \ {p.res},
           UNCHANGED <<journal, files, step, page>>,
           \/ /\ Unfinished(p.res)
              /\ \E z \in Lags : \E y \in Ends(p) : Stands(p.res, z) /\ Leads(p, todo', z, y)
           \/ ~Unfinished(p.res) /\ todo' = <<>>
    PROVE  Replaying'
<1>0. /\ TreeInv /\ TypeOK /\ PagesFitRows /\ FreshUntouched /\ ScriptRuns
      /\ UNCHANGED <<entry, tok, pend, stale, live, disk, step, page>>
  BY TreeParts DEF ReplayInv, ReadersInv, journal, files
<1>1. \A r : /\ Unfinished(r)' = Unfinished(r)
             /\ \A x : Stands(r, x)' <=> Stands(r, x)
  <2>1. \A r : RowKept(r)
    BY <1>0, UntouchedRows
  <2>2. \A r : Unfinished(r)' = Unfinished(r)
    BY <1>0 DEF Unfinished, StagedTokens
  <2>3. \A r, x : Stands(r, x)' <=> StandsAt(live', r, x[1]) /\ StandsAt(disk', r, x[2])
    BY <1>0, StandsNext
  <2>4. QED
    BY <1>0, <2>2, <2>3 DEF Stands
<1>2. TreesFit'
  <2>1. Resource' = Resource
    BY DEF Resource
  <2>2. QED
    BY <1>0, <1>1, <2>1, StationsFixed DEF TreeInv, TreesFit
<1>3. FreshUntouched'
  BY <1>0, <1>1 DEF FreshUntouched
<1>4. \A o : Finished(o)' <=> Finished(o)
  BY <1>1, StationsFixed DEF Finished
<1>5. ASSUME NEW o \in page, o # p, o.res \notin left' PROVE Finished(o)'
  <2>1. o.res # p.res
    BY <1>0, <1>5 DEF PagesFitRows
  <2>2. QED
    BY <1>4, <1>5, <2>1, PageFinished
<1>6. p.res \notin left'
  OBVIOUS
<1>7. ScriptRuns'
  <2>1. CASE Unfinished(p.res)
    <3>1. PICK z \in Lags, y \in Ends(p) : Stands(p.res, z) /\ Leads(p, todo', z, y)
      BY <2>1
    <3>2. Running(p)'
      BY <1>1, <3>1, StationsFixed DEF Running
    <3>3. QED
      BY <1>0, <1>1, <1>5, <1>6, <2>1, <3>2 DEF ScriptRuns
  <2>2. CASE ~Unfinished(p.res) /\ todo' = <<>>
    <3>1. Finished(p)
      BY <2>2 DEF Finished
    <3>2. QED
      BY <1>0, <1>4, <1>5, <2>2, <3>1 DEF ScriptRuns
  <2>3. QED
    BY <2>1, <2>2
<1>8. QED
  BY <1>2, <1>3, <1>7 DEF Replaying

\* A row that a plan reserved now, or before, has a station of its own.
LEMMA PlanStands ==
    ASSUME ReplayInv, step \in {"install", "remove"}, NEW p \in page, IsNext(p), Unfinished(p.res)
    PROVE  \E x \in Lags : Stands(p.res, x) /\ (p.fresh => x = <<1, 1>>)
<1>1. TreeInv /\ p.res \in Resource /\ p.res \in left
  BY TreeParts DEF IsNext, TypeOK, Plan
<1>2. CASE p.fresh
  BY <1>1, <1>2, LagIs DEF ReplayInv, FreshUntouched
<1>3. CASE ~p.fresh
  BY <1>1, <1>3 DEF TreeInv, TreesFit
<1>4. QED
  BY <1>2, <1>3

\* A row without staged bytes is already as its revision wants it.
LEMMA InPlaceStarts ==
    ASSUME ReplayInv, step = "install", NEW p \in page, ~Unfinished(p.res)
    PROVE  PerformPendingInstall(p) = <<>>
<1>0. /\ TreeInv /\ TypeOK /\ ControlInv /\ RowsFitCatalog /\ PagesFitRows /\ Supplied
      /\ p.res \in Resource
  BY TreeParts DEF ReplayInv, ReadersInv, TypeOK, Plan
<1> DEFINE r == p.res
<1>1. /\ pend[r].started /\ ~pend[r].activated /\ p.digest = pend[r].digest
      /\ p.old = entry[r] /\ p.staged = New(r) /\ Spooled(r) /\ phase = "ACTIVATING"
  BY <1>0 DEF PagesFitRows, ControlInv, PagesAreDisjoint, StepFitsPhase, New
<1>2. StagedTokens(r, pend[r].digest) = {} /\ p.staged = NoFile
  BY <1>0, <1>1, NewIs DEF Unfinished, TreeInv
<1>3. pub.rev # 0 /\ pub.files[r] = pend[r].digest
  BY <1>0, <1>1 DEF ControlInv, JournalReadable, PendingIsIssued, RowsFitCatalog
<1>4. EntryDigest(r) = pend[r].digest /\ pend[r].digest # NoDigest
  BY <1>0, <1>1, <1>2, <1>3 DEF Supplied, Spooled
<1>5. entry[r] # NoFile /\ DigestOf[entry[r]] = p.digest /\ p.digest \in Digest
  BY <1>0, <1>1, <1>4, EntryIs DEF EntryDigest, TreeInv
<1>6. live[Cur(r)] = entry[r] /\ live[Quar(r, p.digest)] = NoFile
  BY <1>0, <1>5, OpenMeans DEF TreeInv, AtRest, ContentsAtRest
<1>7. QED
  BY <1>1, <1>2, <1>5, <1>6 DEF PerformPendingInstall

LEMMA InstallStarts ==
    ASSUME ReplayInv, StartInstall
    PROVE  Replaying'
<1>0. TreeInv /\ TypeOK /\ ControlInv /\ PagesFitRows
  BY TreeParts DEF ReplayInv, ReadersInv
<1>1. PICK p \in page : /\ IsNext(p) /\ todo' = PerformPendingInstall(p)
                        /\ left' = left \ {p.res}
  BY DEF StartInstall
<1>2. step = "install" /\ todo = <<>> /\ UNCHANGED <<journal, files, step, page>>
  BY DEF StartInstall
<1>3. CASE Unfinished(p.res)
  <2>1. p \in Plan /\ Names(p) /\ p.staged # NoFile
    BY <1>0, <1>2, <1>3, PageNames
  <2>2. PICK x \in Lags : Stands(p.res, x) /\ (p.fresh => x = <<1, 1>>)
    BY <1>1, <1>2, <1>3, PlanStands
  <2>3. \E z \in Lags : \E y \in Ends(p) : Stands(p.res, z) /\ Leads(p, todo', z, y)
    BY <1>0, <1>1, <2>1, <2>2, InstallLeads
  <2>4. QED
    BY <1>1, <1>2, <1>3, <2>3, ScriptStarts
<1>4. CASE ~Unfinished(p.res)
  BY <1>1, <1>2, <1>4, InPlaceStarts, ScriptStarts
<1>5. QED
  BY <1>3, <1>4

LEMMA RemovalStarts ==
    ASSUME ReplayInv, StartRemoval
    PROVE  Replaying'
<1>0. TreeInv /\ TypeOK /\ ControlInv /\ PagesFitRows
  BY TreeParts DEF ReplayInv, ReadersInv
<1>1. PICK p \in page : /\ IsNext(p) /\ todo' = PerformPendingRemoval(p)
                        /\ left' = left \ {p.res}
  BY DEF StartRemoval
<1>2. step = "remove" /\ todo = <<>> /\ UNCHANGED <<journal, files, step, page>>
  BY DEF StartRemoval
<1>3. /\ p \in Plan /\ Names(p) /\ p.old \in Token /\ p.staged = NoFile
      /\ p.digest = DigestOf[p.old] /\ Unfinished(p.res)
  BY <1>0, <1>2, PageNames
<1>4. PICK x \in Lags : Stands(p.res, x) /\ (p.fresh => x = <<1, 1>>)
  BY <1>1, <1>2, <1>3, PlanStands
<1>5. \E z \in Lags : \E y \in Ends(p) : Stands(p.res, z) /\ Leads(p, todo', z, y)
  BY <1>0, <1>1, <1>3, <1>4, RemovalLeads
<1>6. QED
  BY <1>1, <1>2, <1>3, <1>5, ScriptStarts

\* A script that runs goes on, and disturbs no other plan.
LEMMA ScriptReplays ==
    ASSUME ReplayInv, Works, step \in {"install", "remove"}
    PROVE  Replaying'
<1>0. /\ TreeInv /\ TypeOK /\ PagesFitRows /\ TreesFit /\ FreshUntouched
      /\ UNCHANGED <<entry, tok, pend, stale>> /\ step # "out"
  BY TreeParts, PerformParts DEF ReplayInv, ReadersInv, journal
<1>1. PICK p \in page, x \in Lags, z \in Lags : \E y \in Ends(p) :
          /\ p.res \notin left /\ Unfinished(p.res) /\ Names(p) /\ Stands(p.res, x)
          /\ Takes(p, NextOp, x, z) /\ Leads(p, Tail(todo), z, y)
          /\ \A o \in page : o # p /\ o.res \notin left => Finished(o)
  BY ScriptStep
<1>2. PICK y \in Ends(p) : Leads(p, Tail(todo), z, y)
  BY <1>1
<1>3. /\ UNCHANGED <<step, page, left>> /\ todo' = Tail(todo)
      /\ StandsAt(live', p.res, z[1]) /\ StandsAt(disk', p.res, z[2])
  BY <1>0, <1>1, OpStands DEF Proceed
<1>4. \A r : Unfinished(r)' = Unfinished(r)
  BY <1>0 DEF Unfinished, StagedTokens
<1>5. \A r, u : Stands(r, u)' <=> StandsAt(live', r, u[1]) /\ StandsAt(disk', r, u[2])
  BY <1>0, StandsNext
<1>6. ASSUME NEW r \in Resource, r # p.res, NEW u \in Lags, Stands(r, u)
      PROVE  \E v \in Lags : Settled(u, v) /\ Stands(r, v)'
  BY <1>0, <1>1, <1>5, <1>6, OthersStand
<1>7. \A o \in page : o.res \in Resource /\ (o # p => o.res # p.res)
  BY <1>0 DEF PagesFitRows, TypeOK, Plan
<1>8. TreesFit'
  <2>1. ASSUME NEW r \in Resource, Unfinished(r) PROVE \E v \in Lags : Stands(r, v)'
    <3>1. CASE r = p.res
      BY <1>3, <1>5, <3>1
    <3>2. CASE r # p.res
      BY <1>0, <1>6, <2>1, <3>2 DEF TreesFit
    <3>3. QED
      BY <3>1, <3>2
  <2>2. Resource' = Resource
    BY DEF Resource
  <2>3. QED
    BY <1>4, <2>1, <2>2, StationsFixed DEF TreesFit
<1>9. FreshUntouched'
  <2>1. ASSUME NEW o \in page, o.res \in left, o.fresh, Unfinished(o.res)
        PROVE  Stands(o.res, <<1, 1>>)'
    <3>1. Stands(o.res, <<1, 1>>) /\ o.res \in Resource /\ o.res # p.res /\ <<1, 1>> \in Lags
      BY <1>0, <1>1, <1>7, <2>1, LagIs DEF FreshUntouched
    <3>2. PICK v \in Lags : Settled(<<1, 1>>, v) /\ Stands(o.res, v)'
      BY <1>6, <3>1
    <3>3. v = <<1, 1>>
      BY <3>1, <3>2, SettledLag
    <3>4. QED
      BY <3>2, <3>3
  <2>2. QED
    BY <1>3, <1>4, <2>1 DEF FreshUntouched
<1>10. ASSUME NEW o \in page, o # p, o.res \notin left PROVE Finished(o)'
  <2>1. Finished(o) /\ o.res \in Resource /\ o.res # p.res
    BY <1>1, <1>7, <1>10
  <2>2. ASSUME Unfinished(o.res) PROVE \E v \in Ends(o) : Stands(o.res, v)'
    <3>1. PICK u \in Ends(o) : Stands(o.res, u)
      BY <2>1, <2>2 DEF Finished
    <3>2. u \in {<<5, 5>>, <<6, 6>>} /\ u \in Lags
      BY LagIs DEF Ends
    <3>3. PICK v \in Lags : Settled(u, v) /\ Stands(o.res, v)'
      BY <1>6, <2>1, <3>1, <3>2
    <3>4. v = u
      BY <3>2, <3>3, SettledLag
    <3>5. QED
      BY <3>3, <3>4
  <2>3. QED
    BY <1>4, <2>2, StationsFixed DEF Finished
<1>11. ScriptRuns'
  <2>1. Running(p)'
    <3>1. Stands(p.res, z)' /\ Leads(p, todo, z, y)'
      BY <1>2, <1>3, <1>5, StationsFixed
    <3>2. QED
      BY <3>1, StationsFixed DEF Running
  <2>2. QED
    BY <1>1, <1>3, <1>4, <1>10, <2>1 DEF ScriptRuns
<1>12. QED
  BY <1>8, <1>9, <1>11 DEF Replaying

\* What is done to the marker moves no replacement.
LEMMA MarkerReplays ==
    ASSUME ReplayInv, UNCHANGED <<entry, tok>>, step' \notin {"install", "remove"},
           \A r \in Resource : Unfinished(r)' => Unfinished(r) /\ pend'[r].digest = pend[r].digest,
           \/ live' = live /\ disk' = disk
           \/ live' = live /\ disk' = Synced(live, disk, Marker)
           \/ disk' = disk /\ \A n \in Name : n # Marker => live'[n] = live[n]
    PROVE  Replaying'
<1>0. TreeInv /\ TypeOK /\ OneStaged /\ TreesFit /\ Marker \in Name
  BY TreeParts, MarkerIsName DEF ReplayInv, ReadersInv
<1>1. ASSUME NEW r \in Resource, Unfinished(r)' PROVE \E x \in Lags : Stands(r, x)'
  <2>1. Unfinished(r) /\ pend'[r].digest = pend[r].digest
    BY <1>1
  <2>2. PICK x \in Lags : Stands(r, x)
    BY <1>0, <2>1 DEF TreesFit
  <2>3. New(r)' = New(r) /\ entry'[r] = entry[r]
    BY <2>1 DEF New, StagedCandidate, StagedTokens
  <2>4. \A tree, k : StandsAt(tree, r, k) <=>
            /\ tree[Cur(r)] = IF k <= 2 THEN entry[r] ELSE IF k = 3 THEN NoFile ELSE New(r)
            /\ entry[r] # NoFile =>
                 tree[Quar(r, DigestOf[entry[r]])] = IF k \in {1, 6} THEN NoFile ELSE entry[r]
            /\ New(r) # NoFile =>
                 tree[Stage(New(r))] = IF k <= 4 THEN New(r) ELSE NoFile
    BY DEF StandsAt
  <2>5. Cur(r)' = Cur(r) /\ (\A d : Quar(r, d)' = Quar(r, d)) /\ \A t : Stage(t)' = Stage(t)
    BY DEF Cur, Quar, Stage
  <2>6. \A k : /\ StandsAt(live', r, k) => StandsAt(live, r, k)'
               /\ StandsAt(disk', r, k) => StandsAt(disk, r, k)'
    BY <2>3, <2>4, <2>5 DEF StandsAt
  <2>7. CASE live' = live /\ disk' = disk
    BY <2>2, <2>6, <2>7 DEF Stands
  <2>8. CASE live' = live /\ disk' = Synced(live, disk, Marker)
    <3>1. PICK y \in Lags : StandsAt(live', r, y[1]) /\ StandsAt(disk', r, y[2])
      BY <1>0, <2>2, <2>8, FsyncStands
    <3>2. QED
      BY <2>6, <3>1 DEF Stands
  <2>9. CASE disk' = disk /\ \A n \in Name : n # Marker => live'[n] = live[n]
    <3>1. /\ Cur(r) \in Name /\ Cur(r) # Marker
          /\ entry[r] # NoFile => /\ Quar(r, DigestOf[entry[r]]) \in Name
                                  /\ Quar(r, DigestOf[entry[r]]) # Marker
          /\ New(r) # NoFile => Stage(New(r)) \in Name /\ Stage(New(r)) # Marker
      BY <1>0, CurIsName, QuarIsName, StageIsName, EntryIs, NewIs DEF TreeInv
    <3>2. \A k : StandsAt(live, r, k) => StandsAt(live', r, k)
      BY <2>4, <2>9, <3>1
    <3>3. QED
      BY <2>2, <2>6, <2>9, <3>2 DEF Stands
  <2>10. QED
    BY <2>7, <2>8, <2>9
<1>2. Resource' = Resource
  BY DEF Resource
<1>3. TreesFit'
  BY <1>1, <1>2, StationsFixed DEF TreesFit
<1>4. QED
  BY <1>3, NoneRunning DEF Replaying

LEMMA LossReplays ==
    ASSUME ReplayInv, PowerLoss
    PROVE  Replaying'
<1>0. TreeInv /\ TypeOK /\ TreesFit
  BY TreeParts DEF ReplayInv
<1>1. PICK tree \in PowerLossTrees(live, disk) : live' = tree /\ disk' = tree
  BY DEF PowerLoss
<1>2. UNCHANGED <<entry, tok, pend, stale>> /\ step' = "out"
  BY DEF PowerLoss, Leave, journal
<1>3. \A r : Unfinished(r)' = Unfinished(r)
  BY <1>2 DEF Unfinished, StagedTokens
<1>4. \A r, u : Stands(r, u)' <=> StandsAt(live', r, u[1]) /\ StandsAt(disk', r, u[2])
  BY <1>2, StandsNext
<1>5. ASSUME NEW r \in Resource, Unfinished(r) PROVE \E v \in Lags : Stands(r, v)'
  <2>1. PICK x \in Lags : Stands(r, x)
    BY <1>0, <1>5 DEF TreesFit
  <2>2. PICK i \in Station : StandsAt(tree, r, i)
    BY <1>0, <2>1, LostStands
  <2>3. <<i, i>> \in Lags /\ <<i, i>>[1] = i /\ <<i, i>>[2] = i
    BY DEF Lags
  <2>4. QED
    BY <1>1, <1>4, <2>2, <2>3
<1>6. Resource' = Resource
  BY DEF Resource
<1>7. TreesFit'
  BY <1>3, <1>5, <1>6, StationsFixed DEF TreesFit
<1>8. QED
  BY <1>2, <1>7, NoneRunning DEF Replaying

LEMMA InstallsCommitted ==
    ASSUME ReplayInv, CommitPendingInstalls, refused' = FALSE
    PROVE  Replaying'
<1>0. /\ TreeInv /\ TypeOK /\ ControlInv /\ OneStaged /\ PagesFitRows /\ TreesFit
  BY TreeParts DEF ReplayInv, ReadersInv
<1>1. /\ step = "install" /\ UNCHANGED <<stale, live, disk>>
      /\ \A t \in Token :
            tok'[t] = IF \E p \in page : p.staged = t THEN "INSTALLED" ELSE tok[t]
      /\ \A r \in Resource : ~InPage(r) => entry'[r] = entry[r] /\ pend'[r] = pend[r]
      /\ \A r \in Resource : InPage(r) => pend'[r] = [pend[r] EXCEPT !.activated = TRUE]
  BY InstallsRecorded DEF files
<1>2. step' = "RECONCILE"
  BY <1>0 DEF CommitPendingInstalls, Refuse
<1>3. ASSUME NEW r \in Resource, Unfinished(r)' PROVE Unfinished(r) /\ RowKept(r)
  <2>1. ~InPage(r)
    <3>1. SUFFICES ASSUME InPage(r) PROVE FALSE
      OBVIOUS
    <3>2. Spooled(r) /\ stale[r] = "none"
      BY <1>0, <1>1, <3>1 DEF ControlInv, PagesAreDisjoint, InPage
    <3>3. pend[r] \in PendRow
      BY <1>0 DEF TypeOK
    <3>4. pend'[r].activated
      BY <1>1, <3>1, <3>3 DEF PendRow
    <3>5. QED
      BY <1>1, <1>3, <3>2, <3>4 DEF Unfinished
  <2>2. ASSUME NEW u \in Token, ResOf[u] = r PROVE tok'[u] = tok[u]
    <3>1. ASSUME NEW p \in page, p.staged = u PROVE FALSE
      <4>1. InPage(p.res) /\ p.res \in Resource
        BY <1>0, <3>1 DEF InPage, TypeOK, Plan
      <4>2. p.staged = New(p.res) /\ p.staged # NoFile
        BY <1>0, <1>1, <3>1, PageNames, FactsAssumption DEF Names
      <4>3. ResOf[u] = p.res
        BY <1>0, <3>1, <4>1, <4>2, NewIs
      <4>4. QED
        BY <2>1, <2>2, <4>1, <4>3
    <3>2. QED
      BY <1>1, <3>1
  <2>3. StagedTokens(r, pend[r].digest)' = StagedTokens(r, pend[r].digest)
    BY <1>1, <2>1, <2>2 DEF StagedTokens
  <2>4. New(r)' = New(r)
    BY <1>0, <2>3, NewKept
  <2>5. Unfinished(r)
    BY <1>1, <1>3, <2>1, <2>3 DEF Unfinished
  <2>6. QED
    BY <1>1, <2>1, <2>4, <2>5 DEF RowKept
<1>4. QED
  BY <1>0, <1>2, <1>3, TreesKept, NoneRunning DEF Replaying

LEMMA RemovalsCommitted ==
    ASSUME ReplayInv, CommitPendingRemovals, refused' = FALSE
    PROVE  Replaying'
<1>0. /\ TreeInv /\ TypeOK /\ ControlInv /\ OneStaged /\ PagesFitRows /\ TreesFit /\ RowsFitPhase
  BY TreeParts DEF ReplayInv, ReadersInv
<1>1. /\ step = "remove" /\ step' = "RECONCILE" /\ UNCHANGED <<tok, pend, live, disk>>
      /\ entry' = [r \in Resource |-> IF InPage(r) THEN NoFile ELSE entry[r]]
      /\ stale' = [r \in Resource |-> IF InPage(r) THEN "none" ELSE stale[r]]
  BY <1>0 DEF CommitPendingRemovals, Refuse, files
<1>2. ASSUME NEW r \in Resource, Unfinished(r)' PROVE Unfinished(r) /\ RowKept(r)
  <2>1. StagedTokens(r, pend[r].digest)' = StagedTokens(r, pend[r].digest)
    BY <1>1 DEF StagedTokens
  <2>2. New(r)' = New(r)
    BY <1>0, <2>1, NewKept
  <2>3. ~InPage(r)
    <3>1. SUFFICES ASSUME InPage(r) PROVE FALSE
      OBVIOUS
    <3>2. stale[r] # "none"
      BY <1>0, <1>1, <3>1 DEF InPage, PagesFitRows
    <3>3. ~Spooled(r)
      BY <1>0, <3>2 DEF ControlInv, PagesAreDisjoint
    <3>4. StagedTokens(r, pend[r].digest)' = {}
      BY <2>1, <3>3, NothingStaged
    <3>5. QED
      BY <1>1, <1>2, <3>1, <3>4 DEF Unfinished
  <2>4. Unfinished(r)
    BY <1>1, <1>2, <2>1, <2>3 DEF Unfinished
  <2>5. QED
    BY <1>1, <2>2, <2>3, <2>4 DEF RowKept
<1>3. QED
  BY <1>0, <1>1, <1>2, TreesKept, NoneRunning DEF Replaying

LEMMA NextReplays ==
    ASSUME ~Foreign, ReplayInv, [Next]_vars, refused' = FALSE
    PROVE  Replaying'
<1>0. /\ TreeInv /\ TypeOK /\ ControlInv /\ RowsFitPhase /\ Replaying /\ PagesFitRows
      /\ live \in Tree
  BY TreeParts DEF ReplayInv, ReadersInv, Replaying, TypeOK, Tree
<1>none. ASSUME phase # "ACTIVATING", NEW r \in Resource PROVE ~Unfinished(r) /\ stale[r] = "none"
  BY <1>0, <1>none, NoneOpen DEF ControlInv, PagesAreDisjoint
<1>rows. ASSUME UNCHANGED <<entry, tok, pend, stale>>, step' \notin {"install", "remove"},
                \/ live' = live /\ disk' = disk
                \/ live' = live /\ disk' = Synced(live, disk, Marker)
                \/ disk' = disk /\ \A n \in Name : n # Marker => live'[n] = live[n]
         PROVE  Replaying'
  <2>1. \A r \in Resource : Unfinished(r)' => Unfinished(r) /\ pend'[r].digest = pend[r].digest
    BY <1>rows DEF Unfinished, StagedTokens
  <2>2. QED
    BY <1>rows, <2>1, MarkerReplays
<1>token. ASSUME NEW t \in Token, Protect(t) \/ Release(t) PROVE Replaying'
  BY <1>token, TokenReplays
<1>still. CASE (\E m \in Manifest : Issue(m)) \/ AdvanceHead \/ UNCHANGED seen
  <2>1. UNCHANGED <<entry, tok, pend, stale, live, disk, step, page, left, todo>>
    BY <1>still DEF Issue, AdvanceHead, seen, journal, files, call
  <2>2. /\ \A r : Unfinished(r)' = Unfinished(r)
        /\ \A r, u : Stands(r, u)' <=> Stands(r, u)
    <3>1. \A r : Unfinished(r)' = Unfinished(r)
      BY <2>1 DEF Unfinished, StagedTokens
    <3>2. \A r, u : Stands(r, u)' <=> StandsAt(live', r, u[1]) /\ StandsAt(disk', r, u[2])
      BY <2>1, StandsNext
    <3>3. QED
      BY <2>1, <3>1, <3>2 DEF Stands
  <2>3. Resource' = Resource
    BY DEF Resource
  <2>4. TreesFit'
    BY <1>0, <2>2, <2>3, StationsFixed DEF Replaying, TreesFit
  <2>5. FreshUntouched'
    BY <1>0, <2>1, <2>2 DEF Replaying, FreshUntouched
  <2>6. /\ \A o : Finished(o)' <=> Finished(o)
        /\ \A o : Running(o)' <=> Running(o)
    BY <2>1, <2>2, StationsFixed DEF Finished, Running
  <2>7. ScriptRuns'
    BY <1>0, <2>1, <2>2, <2>6 DEF Replaying, ScriptRuns
  <2>8. QED
    BY <2>4, <2>5, <2>7 DEF Replaying
<1>new. CASE BeginNew
  <2>1. /\ phase = "IDLE" /\ step' = "SPOOL" /\ pend' = EmptyRows
        /\ UNCHANGED <<entry, tok, stale, live, disk>>
    BY <1>0, <1>new DEF BeginNew, ControlInv, JournalReadable, Refuse, files
  <2>2. \A r \in Resource : ~Unfinished(r)'
    BY <1>none, <2>1 DEF Unfinished, EmptyRows, NoRow
  <2>3. QED
    BY <2>1, <2>2, MarkerReplays
<1>spool. CASE ActivatePage
  <2>1. /\ phase = "OPEN" /\ step' = "SPOOL" /\ UNCHANGED <<entry, tok, stale, live, disk>>
        /\ \A r \in Resource : pend'[r] = pend[r] \/ pend'[r].started = FALSE
    BY <1>0, <1>spool DEF ActivatePage, call, files, NoRow, TypeOK
  <2>2. \A r, d : StagedTokens(r, d)' = StagedTokens(r, d)
    BY <2>1 DEF StagedTokens
  <2>3. ASSUME NEW r \in Resource PROVE ~Unfinished(r)'
    <3>1. ~Unfinished(r) /\ stale[r] = "none"
      BY <1>none, <2>1
    <3>2. StagedTokens(r, pend[r].digest)' = StagedTokens(r, pend'[r].digest)
      BY <2>1 DEF StagedTokens
    <3>3. CASE pend'[r] = pend[r]
      BY <2>1, <3>1, <3>2, <3>3 DEF Unfinished
    <3>4. CASE pend'[r].started = FALSE
      BY <2>1, <3>1, <3>4 DEF Unfinished
    <3>5. QED
      BY <2>1, <3>3, <3>4
  <2>4. QED
    BY <2>1, <2>3, MarkerReplays
<1>list. CASE ListStale
  <2>1. /\ step' = "reserveStale" /\ UNCHANGED <<entry, tok, pend, live, disk>>
        /\ \A r \in Resource : stale'[r] = "started" => stale[r] = "started"
    BY <1>0, <1>list DEF ListStale, files
  <2>2. \A r \in Resource : Unfinished(r)' => Unfinished(r) /\ pend'[r].digest = pend[r].digest
    BY <2>1 DEF Unfinished, StagedTokens
  <2>3. QED
    BY <2>1, <2>2, MarkerReplays
<1>perform. CASE Works
  <2>1. CASE step \in {"install", "remove"}
    BY <1>perform, <2>1, ScriptReplays
  <2>2. CASE step \notin {"install", "remove"}
    <3>1. step' = step /\ UNCHANGED <<entry, tok, pend, stale>>
      BY <1>0, <1>perform, <2>2, MarkerPerformed, PerformParts DEF Proceed, journal
    <3>2. \/ live' = live /\ disk' = Synced(live, disk, Marker)
          \/ disk' = disk /\ \A n \in Name : n # Marker => live'[n] = live[n]
      BY <1>0, <1>perform, <2>2, MarkerPerformed DEF Created, Unlinked, Tree
    <3>3. QED
      BY <1>rows, <2>2, <3>1, <3>2
  <2>3. QED
    BY <2>1, <2>2
<1>resumed. CASE BeginResumed
  <2>1. UNCHANGED <<entry, tok, pend, stale, live>> /\ disk' \in {disk, Synced(live, disk, Marker)}
    BY <1>resumed DEF BeginResumed, journal
  <2>2. step' \notin {"install", "remove"}
    BY <1>0, <1>resumed DEF BeginResumed, Refuse, Leave, CheckpointOf, ControlInv, JournalReadable,
       TypeOK
  <2>3. QED
    BY <1>rows, <2>1, <2>2
<1>fenced. CASE ReconcileActivating \/ Complete
  <2>1. /\ UNCHANGED <<entry, tok, pend, stale, live>>
        /\ disk' \in {disk, Synced(live, disk, Marker)}
        /\ step' \notin {"install", "remove"}
    BY <1>fenced DEF ReconcileActivating, Complete, Refuse, Leave, journal
  <2>2. QED
    BY <1>rows, <2>1
<1>1. CASE BeginCompleted \/ Seal \/ ReconcileSealed \/ CommitActivating \/ FinishReconcile
           \/ MarkerRemoved \/ Finalize \/ Interrupt
  <2>1. UNCHANGED <<entry, tok, pend, stale, live, disk>> /\ step' \notin {"install", "remove"}
    BY <1>1 DEF BeginCompleted, Seal, ReconcileSealed, CommitActivating, FinishReconcile,
       MarkerRemoved, Finalize, Interrupt, Refuse, Leave, journal, files
  <2>2. QED
    BY <1>rows, <2>1
<1>2. CASE ReservePendingInstalls \/ StartInstall \/ CommitPendingInstalls
           \/ ReservePendingRemovals \/ StartRemoval \/ CommitPendingRemovals \/ PowerLoss
  BY <1>2, InstallsReserved, InstallStarts, InstallsCommitted, RemovalsReserved, RemovalStarts,
     RemovalsCommitted, LossReplays
<1>3. ~ \E r \in Resource : ForeignWrite(r)
  BY DEF ForeignWrite
<1>4. QED
  BY <1>token, <1>still, <1>new, <1>spool, <1>list, <1>perform, <1>resumed, <1>fenced,
     <1>1, <1>2, <1>3, LookIsHidden DEF Next, CoreNext, ActivatorNext

LEMMA InitReplay == Init => ReplayInv
<1> SUFFICES ASSUME Init PROVE ReplayInv
  OBVIOUS
<1>1. ReadersInv
  BY InitReaders
<1>2. \A r \in Resource : ~Unfinished(r)
  BY DEF Init, Unfinished, EmptyRows, NoRow, NoStale
<1>3. EntriesFit /\ Supplied /\ TreesFit
  BY <1>2 DEF Init, EntriesFit, Supplied, TreesFit, NoPublication
<1>4. FreshUntouched /\ ScriptRuns /\ WorkLeft /\ NeverRefused
  BY DEF Init, FreshUntouched, ScriptRuns, WorkLeft, NeverRefused
<1>5. MarkerFits
  BY MarkerIsName DEF Init, MarkerFits, MarkerShows
<1>6. QED
  BY <1>1, <1>3, <1>4, <1>5 DEF ReplayInv

LEMMA NextReplay ==
    ASSUME ~Foreign, ReplayInv, [Next]_vars
    PROVE  ReplayInv'
<1>1. NeverRefused' /\ ReadersInv'
  BY NextNotRefused, NextReaders DEF ReplayInv
<1>2. refused' = FALSE
  BY <1>1 DEF NeverRefused, ReadersInv, Inv, TypeOK
<1>3. Replaying'
  BY <1>2, NextReplays
<1>4. EntriesFit' /\ Supplied' /\ MarkerFits' /\ WorkLeft'
  BY <1>2, NextEntries, NextSupplied, NextMarker, NextWork
<1>5. QED
  BY <1>1, <1>3, <1>4 DEF ReplayInv, Replaying

\* Wherever a replacement was interrupted, and whatever power loss made of
\* it, its row, its files and the script that runs still fit together.
THEOREM ReplayInvariance == ASSUME ~Foreign PROVE Spec => []ReplayInv
<1>1. Init => ReplayInv
  BY InitReplay
<1>2. ReplayInv /\ [Next]_vars => ReplayInv'
  BY NextReplay
<1>3. QED
  BY <1>1, <1>2, PTL DEF Spec

\* Replay after any fault never meets a tree its checks refuse: no check of
\* begin, reconcile_page, complete or of a filesystem routine raises.
THEOREM ReplayNeverRefused == ASSUME ~Foreign PROVE Spec => []NeverRefused
<1>1. ReplayInv => NeverRefused
  BY DEF ReplayInv
<1>2. QED
  BY <1>1, ReplayInvariance, PTL

LEMMA OldBytesStand ==
    ASSUME ReplayInv
    PROVE  OldBytesOutliveReplacement
<1>0. TreeInv /\ TypeOK /\ OneStaged /\ ControlInv
  BY TreeParts DEF TreeInv
<1>1. SUFFICES ASSUME NEW r \in Resource, entry[r] # NoFile, Spooled(r), ~pend[r].activated
               PROVE  \/ \E n \in {Cur(r), Quar(r, DigestOf[entry[r]])} : disk[n] = entry[r]
                      \/ DigestAt(disk, r) = pend[r].digest
  BY DEF OldBytesOutliveReplacement
<1>2. CASE Unfinished(r)
  <2>1. stale[r] = "none"
    BY <1>0, <1>1 DEF ControlInv, PagesAreDisjoint
  <2>2. StagedTokens(r, pend[r].digest) # {}
    BY <1>2, <2>1 DEF Unfinished
  <2>3. New(r) \in Token /\ DigestOf[New(r)] = pend[r].digest /\ New(r) # NoFile
    BY <1>0, <2>2, NewIs
  <2>4. PICK k \in Station : StandsAt(disk, r, k)
    <3>1. PICK x \in Lags : Stands(r, x)
      BY <1>0, <1>2 DEF TreeInv, TreesFit
    <3>2. QED
      BY <3>1, LagPairs DEF Stands
  <2>5. k \in {1, 2, 3, 4, 5, 6}
    BY DEF Station
  <2>6. CASE k \in {1, 2}
    BY <2>4, <2>6 DEF StandsAt
  <2>7. CASE k \in {3, 4, 5}
    BY <1>1, <2>4, <2>7 DEF StandsAt
  <2>8. CASE k = 6
    <3>1. disk[Cur(r)] = New(r)
      BY <2>4, <2>8 DEF StandsAt
    <3>2. QED
      BY <2>3, <3>1 DEF DigestAt
  <2>9. QED
    BY <2>5, <2>6, <2>7, <2>8
<1>3. CASE ~Unfinished(r)
  BY <1>0, <1>3, CurIsName, OpenMeans DEF TreeInv, AtRest, DurableAtRest, ContentsAtRest
<1>4. QED
  BY <1>2, <1>3

\* The replaced bytes stay on disk until the new ones are at the current name
\* on disk: no instant exists at which power loss leaves neither.
THEOREM OldBytesKept == ASSUME ~Foreign PROVE Spec => []OldBytesOutliveReplacement
<1>1. ReplayInv => OldBytesOutliveReplacement
  BY OldBytesStand
<1>2. QED
  BY <1>1, ReplayInvariance, PTL

-----------------------------------------------------------------------------
(* Files of somebody else. *)

\* Where a replacement moves the recorded file of a resource.
Kept(r) == Quar(r, DigestOf[entry[r]])

\* Every step that the routines plan: none unlinks or overwrites a file that
\* somebody else wrote, and a move goes to current/ or takes a recorded file out
\* of it.
GentleOp ==
    {op \in Op :
        /\ op.do = "unlink" => op.file # Alien
        /\ op.do = "create" => op.src = Marker /\ op.file # Alien
        /\ op.do = "rename" =>
             \E r \in Resource :
                \/ op.src \in StageNames /\ op.dst = Cur(r)
                \/ entry[r] \in Token /\ op.src = Cur(r) /\ op.dst = Kept(r)
        /\ op.do = "captured" =>
             /\ op.file # Alien
             /\ \E r \in Resource : entry[r] \in Token /\ op.src = Kept(r) /\ op.dst = Cur(r)}

\* A move into current/ comes after a look at what was moved out of it.
MovesGuarded(s) ==
    \A r \in Resource : \A i \in 1..Len(s) : Fills(s[i], Cur(r)) =>
        \/ entry[r] = NoFile
        \/ live[Kept(r)] # Alien /\ \A k \in 1..Len(s) : k < i => ~Fills(s[k], Kept(r))
        \/ \E j \in 1..Len(s) :
             /\ j < i /\ s[j].do = "captured" /\ s[j].src = Kept(r)
             /\ \A k \in 1..Len(s) : j < k /\ k < i => ~Fills(s[k], Kept(r))

Gentle(s) == s \in Seq(GentleOp) /\ (Refuses(s) \/ MovesGuarded(s))

\* Foreign files are where they were written or where a capture has moved them.
AliensHeld(tree) ==
    IsFiniteSet(AlienNames(tree)) /\ AlienNames(tree) \subseteq CurNames \cup QuarNames

\* What is still on disk at a current name when a foreign file was captured
\* from it by mistake and the move is not durable.
Stranded(now, safe, r) ==
    entry[r] \in Token /\ safe[Cur(r)] = Alien /\ now[Cur(r)] \in {NoFile, Alien}

\* A foreign file that is seen is on disk, there or where it was captured from.
Backed(now, safe) ==
    \A n \in Name : now[n] = Alien =>
        safe[n] = Alien \/ \E r \in Resource : n = Kept(r) /\ Stranded(now, safe, r)

AlienInv ==
    /\ Gentle(todo)
    /\ AliensHeld(live) /\ AliensHeld(disk) /\ Backed(live, disk)

\* The adapter never takes a foreign file for the one it is going to unlink.
LooksForOwn == verified # Alien

\* What a step of the adapter or the core does to foreign files.
AliensKept ==
    /\ AlienNames(live) # {} => AlienNames(live') # {}
    /\ faults' = faults => Cardinality(AlienNames(live)) <= Cardinality(AlienNames(live'))

-----------------------------------------------------------------------------
(* The scripts. *)

\* Steps without a move, and steps that move nothing but the new file of r.
StillOp == {op \in GentleOp : op.do # "rename"}
MoveOp(r) == {op \in GentleOp : op.do = "rename" => op.dst = Cur(r)}
\* Steps that move nothing into current/.
OutOp == {op \in GentleOp : op.do = "rename" => op.dst \notin CurNames}

LEMMA GentleOps ==
    ASSUME NEW r \in Resource
    PROVE  /\ \A n \in Name, f \in Content :
                /\ FsyncOp(n) \in StillOp /\ CheckOp(n, f) \in StillOp
                /\ f # Alien => UnlinkOp(n, f) \in StillOp
           /\ RefuseOp \in StillOp
           /\ \A t \in Token : RenameOp(Stage(t), Cur(r), t) \in MoveOp(r)
           /\ entry[r] \in Token =>
                /\ RenameOp(Cur(r), Kept(r), entry[r]) \in OutOp
                /\ CapturedOp(Kept(r), Cur(r), entry[r]) \in StillOp
<1>1. \A n \in Name, f \in Content :
        /\ FsyncOp(n) \in StillOp /\ CheckOp(n, f) \in StillOp
        /\ f # Alien => UnlinkOp(n, f) \in StillOp
  BY DEF FsyncOp, CheckOp, UnlinkOp, StillOp, GentleOp, Op, Content
<1>2. RefuseOp \in StillOp
  BY MarkerIsName DEF RefuseOp, StillOp, GentleOp, Op, Content
<1>3. ASSUME NEW t \in Token
      PROVE  RenameOp(Stage(t), Cur(r), t) \in MoveOp(r)
  <2>1. Stage(t) \in StageNames /\ Stage(t) \in Name /\ Cur(r) \in Name /\ t \in Content
    BY StageIsName, CurIsName, TokenIsContent DEF StageNames
  <2>2. QED
    BY <2>1 DEF RenameOp, MoveOp, GentleOp, Op
<1>4. ASSUME entry[r] \in Token
      PROVE  /\ RenameOp(Cur(r), Kept(r), entry[r]) \in OutOp
             /\ CapturedOp(Kept(r), Cur(r), entry[r]) \in StillOp
  <2>1. DigestOf[entry[r]] \in Digest
    BY <1>4, FactsAssumption
  <2>2. Kept(r) \in Name /\ Cur(r) \in Name /\ Kept(r) \notin CurNames
    BY <2>1, CurIsName, QuarIsName, NamesDiffer DEF Kept, CurNames
  <2>3. entry[r] \in Content /\ entry[r] # Alien
    BY <1>4, TokenIsContent, FactsAssumption
  <2>4. QED
    BY <1>4, <2>2, <2>3 DEF RenameOp, CapturedOp, OutOp, StillOp, GentleOp, Op
<1>5. QED
  BY <1>1, <1>2, <1>3, <1>4

LEMMA GentleSets ==
    ASSUME NEW r \in Resource
    PROVE  /\ Seq(StillOp) \subseteq Seq(MoveOp(r)) /\ Seq(StillOp) \subseteq Seq(OutOp)
           /\ Seq(MoveOp(r)) \subseteq Seq(GentleOp) /\ Seq(OutOp) \subseteq Seq(GentleOp)
<1>1. /\ StillOp \subseteq MoveOp(r) /\ StillOp \subseteq OutOp
      /\ MoveOp(r) \subseteq GentleOp /\ OutOp \subseteq GentleOp
  BY DEF StillOp, MoveOp, OutOp
<1>2. QED
  BY <1>1, SeqMonotonic

LEMMA OutIsGentle == \A s \in Seq(OutOp) : Gentle(s)
<1>1. TAKE s \in Seq(OutOp)
<1>2. s \in Seq(GentleOp)
  BY SeqMonotonic DEF OutOp
<1>3. \A i \in 1..Len(s) : s[i] \in OutOp
  OBVIOUS
<1>4. MovesGuarded(s)
  BY <1>3 DEF MovesGuarded, Fills, OutOp, CurNames
<1>5. QED
  BY <1>2, <1>4 DEF Gentle

LEMMA MovesAreGuarded ==
    ASSUME NEW r \in Resource, NEW s \in Seq(MoveOp(r)),
           \/ Refuses(s)
           \/ entry[r] = NoFile
           \/ live[Kept(r)] # Alien
    PROVE  Gentle(s)
<1>1. s \in Seq(GentleOp) /\ \A i \in 1..Len(s) : s[i] \in MoveOp(r)
  BY GentleSets
<1>2. \A i \in 1..Len(s) : ~Fills(s[i], Kept(r)) /\ \A q \in Resource : Fills(s[i], Cur(q)) => q = r
  BY <1>1, NamesDiffer DEF MoveOp, Fills, Kept
<1>3. CASE entry[r] = NoFile \/ live[Kept(r)] # Alien
  BY <1>1, <1>2, <1>3 DEF MovesGuarded, Gentle
<1>4. QED
  BY <1>1, <1>3 DEF Gentle

\* The last of four steps looks at what has been captured.
EndsInLook(c, n) == Len(c) = 4 /\ c[4].do = "captured" /\ c[4].src = n

\* A look at what was captured, then moves of the new file.
LEMMA LookThenMove ==
    ASSUME NEW r \in Resource, NEW c \in Seq(GentleOp), NEW s \in Seq(GentleOp),
           \A i \in 1..Len(c) : c[i] \in OutOp, \A i \in 1..Len(s) : s[i] \in MoveOp(r),
           EndsInLook(c, Kept(r)), NEW all, all = c \o s
    PROVE  Gentle(all)
<1>0. /\ all \in Seq(GentleOp)
      /\ Len(c) \in Nat /\ Len(s) \in Nat /\ Len(all) = Len(c) + Len(s)
      /\ \A i \in 1..Len(c) : i \in 1..Len(all) /\ all[i] = c[i]
      /\ \A i \in 1..Len(s) : /\ i + Len(c) \in 1..Len(all)
                              /\ all[i + Len(c)] = s[i]
  BY JoinedParts
<1>1. /\ all \in Seq(GentleOp) /\ Len(all) = 4 + Len(s) /\ Len(s) \in Nat /\ Len(c) = 4
      /\ \A i \in 1..Len(c) : i \in 1..Len(all) /\ all[i] = c[i]
  BY <1>0 DEF EndsInLook
<1>2. all \in Seq(GentleOp) /\ Len(all) = 4 + Len(s) /\ Len(s) \in Nat
  BY <1>1
<1>3. \A i \in 1..4 : all[i] = c[i] /\ all[i] \in OutOp
  BY <1>1
<1>4. \A i \in 1..Len(all) : i > 4 => all[i] \in MoveOp(r)
  <2>1. ASSUME NEW i \in 1..Len(all), i > 4 PROVE all[i] \in MoveOp(r)
    <3>1. i - 4 \in 1..Len(s) /\ (i - 4) + 4 = i
      BY <1>1, <2>1
    <3>2. all[(i - 4) + 4] = s[i - 4]
      BY <1>0, <1>1, <3>1
    <3>3. QED
      BY <3>1, <3>2
  <2>2. QED
    BY <2>1
<1>5. all[4].do = "captured" /\ all[4].src = Kept(r) /\ 4 \in 1..Len(all)
  BY <1>2, <1>3 DEF EndsInLook
<1>6. ASSUME NEW q \in Resource, NEW i \in 1..Len(all), Fills(all[i], Cur(q))
      PROVE  /\ 4 < i /\ q = r
             /\ \A k \in 1..Len(all) : 4 < k /\ k < i => ~Fills(all[k], Kept(q))
  <2>1. 4 < i
    <3>1. i \notin 1..4
      BY <1>3, <1>6 DEF OutOp, Fills, CurNames
    <3>2. QED
      BY <3>1
  <2>2. q = r
    BY <1>4, <1>6, <2>1, NamesDiffer DEF MoveOp, Fills
  <2>3. \A k \in 1..Len(all) : k > 4 => ~Fills(all[k], Kept(r))
    BY <1>4, NamesDiffer DEF MoveOp, Fills, Kept
  <2>4. QED
    BY <2>1, <2>2, <2>3
<1>7. MovesGuarded(all)
  BY <1>5, <1>6 DEF MovesGuarded
<1>8. QED
  BY <1>2, <1>7 DEF Gentle

\* The capture of a file, then moves of the new one.
LEMMA CaptureIsGuard ==
    ASSUME NEW r \in Resource, entry[r] \in Token, NEW s \in Seq(MoveOp(r))
    PROVE  Gentle(QuarantineCurrent(r, Kept(r), entry[r]) \o s)
<1> DEFINE c == QuarantineCurrent(r, Kept(r), entry[r])
<1>1. /\ Kept(r) \in Name /\ Cur(r) \in Name
  BY FactsAssumption, CurIsName, QuarIsName DEF Kept
<1>2. /\ RenameOp(Cur(r), Kept(r), entry[r]) \in OutOp
      /\ FsyncOp(Kept(r)) \in OutOp /\ FsyncOp(Cur(r)) \in OutOp
      /\ CapturedOp(Kept(r), Cur(r), entry[r]) \in OutOp
  BY <1>1, GentleOps DEF Content, StillOp, OutOp
<1>3. c \in Seq(OutOp) /\ Len(c) = 4 /\ c[4] = CapturedOp(Kept(r), Cur(r), entry[r])
  BY <1>2 DEF QuarantineCurrent
<1>4. EndsInLook(c, Kept(r))
  BY <1>3 DEF CapturedOp, EndsInLook
<1>5. /\ c \in Seq(GentleOp) /\ \A i \in 1..Len(c) : c[i] \in OutOp
      /\ s \in Seq(GentleOp) /\ \A i \in 1..Len(s) : s[i] \in MoveOp(r)
  <2>1. \A i \in 1..Len(s) : s[i] \in MoveOp(r)
    OBVIOUS
  <2> HIDE DEF c
  <2>2. \A i \in 1..Len(c) : c[i] \in OutOp
    BY <1>3, ElementOfSeq
  <2>3. QED
    BY <1>3, <2>1, <2>2, GentleSets
<1> HIDE DEF c
<1>6. Gentle(c \o s)
  BY <1>3, <1>4, <1>5, LookThenMove
<1>7. QED
  BY <1>6 DEF c

\* The script of an installation.
LEMMA InstallGentle ==
    ASSUME NEW p \in Plan, p.old = entry[p.res]
    PROVE  Gentle(PerformPendingInstall(p))
<1> DEFINE r == p.res
           retire == RetireReplacedCurrent(p)
           m == MoveStageIn(r, p.staged)
<1>0. /\ r \in Resource /\ p.old \in Token \cup {NoFile} /\ p.staged \in Token \cup {NoFile}
      /\ p.fresh \in BOOLEAN /\ p.old = entry[r]
  BY DEF Plan
<1>1. retire \in Seq(StillOp)
  <2>1. CASE p.old = NoFile
    BY <2>1 DEF RetireReplacedCurrent
  <2>2. CASE p.old # NoFile
    <3>1. p.old \in Token /\ DigestOf[p.old] \in Digest /\ p.old # Alien
      BY <1>0, <2>2, FactsAssumption
    <3>2. /\ UnlinkOp(Quar(r, DigestOf[p.old]), p.old) \in StillOp
          /\ FsyncOp(Quar(r, DigestOf[p.old])) \in StillOp
      BY <1>0, <3>1, GentleOps, QuarIsName, TokenIsContent
    <3>3. QED
      BY <2>2, <3>2 DEF RetireReplacedCurrent, UnlinkQuarantined
  <2>3. QED
    BY <2>1, <2>2
<1>2. <<RefuseOp>> \in Seq(StillOp) /\ Refuses(<<RefuseOp>>) /\ <<>> \in Seq(StillOp)
  BY <1>0, GentleOps DEF Refuses, RefuseOp
<1>3. \A s \in Seq(StillOp) : Gentle(s) /\ Gentle(s \o retire)
  <2>1. ASSUME NEW s \in Seq(StillOp) PROVE Gentle(s) /\ Gentle(s \o retire)
    <3>1. s \o retire \in Seq(StillOp)
      BY <1>1, ConcatProperties
    <3>2. s \in Seq(OutOp) /\ s \o retire \in Seq(OutOp)
      BY <1>0, <3>1, GentleSets
    <3>3. QED
      BY <3>2, OutIsGentle
  <2>2. QED
    BY <2>1
<1>4. CASE p.staged = NoFile
  BY <1>2, <1>3, <1>4 DEF PerformPendingInstall
<1>5. CASE p.staged # NoFile
  <2>1. /\ Cur(r) \in Name /\ Stage(p.staged) \in Name
        /\ p.staged \in Content /\ p.staged # Alien
    BY <1>0, <1>5, CurIsName, StageIsName, TokenIsContent, FactsAssumption
  <2>2. /\ FsyncOp(Cur(r)) \in StillOp /\ FsyncOp(Stage(p.staged)) \in StillOp
        /\ CheckOp(Cur(r), p.staged) \in StillOp /\ UnlinkOp(Stage(p.staged), p.staged) \in StillOp
        /\ RenameOp(Stage(p.staged), Cur(r), p.staged) \in MoveOp(r)
    BY <1>0, <1>5, <2>1, GentleOps
  <2>3. m \in Seq(MoveOp(r))
    BY <2>2 DEF MoveStageIn, StillOp, MoveOp
  <2>4. m \o retire \in Seq(MoveOp(r))
    BY <1>0, <1>1, <2>3, GentleSets, ConcatProperties
  <2>5. Gentle(CaptureThenMoveIn(p) \o retire)
    <3>1. CASE p.old = NoFile
      <4>1. CaptureThenMoveIn(p) = m
        BY <3>1 DEF CaptureThenMoveIn
      <4> HIDE DEF m, retire
      <4>2. QED
        BY <1>0, <2>4, <3>1, <4>1, MovesAreGuarded
    <3>2. CASE p.old # NoFile
      <4> DEFINE c == CaptureReplacedCurrent(r, p.old)
                 q == Quar(r, DigestOf[p.old])
      <4>1. /\ p.old \in Token /\ p.old \in Content /\ p.old # Alien
            /\ q = Kept(r) /\ q \in Name
        BY <1>0, <3>2, QuarIsName, TokenIsContent, FactsAssumption DEF Kept
      <4>2. CaptureThenMoveIn(p) = c \o m
        BY <3>2 DEF CaptureThenMoveIn
      <4>3. /\ FsyncOp(q) \in StillOp /\ UnlinkOp(Cur(r), p.old) \in StillOp
            /\ RefuseOp \in StillOp
        BY <1>0, <2>1, <4>1, GentleOps
      <4>4. ASSUME c \in Seq(StillOp), Refuses(c) \/ live[Kept(r)] # Alien
            PROVE  Gentle((c \o m) \o retire)
        <5> HIDE DEF c, m, retire
        <5>1. c \in Seq(MoveOp(r)) /\ retire \in Seq(MoveOp(r))
          BY <1>0, <1>1, <4>4, GentleSets
        <5>2. c \o m \in Seq(MoveOp(r)) /\ (c \o m) \o retire \in Seq(MoveOp(r))
          BY <2>3, <5>1, ConcatProperties
        <5>3. Refuses(c) => Refuses((c \o m) \o retire)
          BY <2>3, <5>1, <5>2, JoinedRefuses
        <5>4. QED
          BY <1>0, <4>4, <5>2, <5>3, MovesAreGuarded
      <4>5. CASE live[q] # NoFile /\ live[Cur(r)] # NoFile
        <5>1. c = Heal(Cur(r), q, p.old)
          BY <4>5 DEF CaptureReplacedCurrent
        <5>2. c \in Seq(StillOp)
          BY <2>2, <4>3, <5>1 DEF Heal
        <5>3. Refuses(c) \/ live[Kept(r)] # Alien
          BY <1>2, <4>1, <5>1 DEF Heal
        <5>4. QED
          BY <4>2, <4>4, <5>2, <5>3
      <4>6. CASE live[q] = p.old /\ live[Cur(r)] = NoFile
        <5>0. live[q] = p.old /\ live[Cur(r)] = NoFile /\ p.old # NoFile
          BY <3>2, <4>6
        <5>1. c = FsyncRecoveredCapture(r, q)
          BY <5>0 DEF CaptureReplacedCurrent
        <5>2. c \in Seq(StillOp)
          BY <2>2, <4>3, <5>1 DEF FsyncRecoveredCapture
        <5>3. live[Kept(r)] # Alien
          BY <4>1, <4>6
        <5> HIDE DEF c
        <5>4. QED
          BY <4>2, <4>4, <5>2, <5>3
      <4>7. CASE live[q] = NoFile /\ live[Cur(r)] = p.old
        <5>1. c = QuarantineCurrent(r, Kept(r), entry[r])
          BY <1>0, <3>2, <4>1, <4>7 DEF CaptureReplacedCurrent
        <5>2. Gentle(c \o (m \o retire))
          BY <1>0, <2>4, <4>1, <5>1, CaptureIsGuard
        <5>3. c \in Seq(GentleOp) /\ m \in Seq(GentleOp) /\ retire \in Seq(GentleOp)
          <6>1. CapturedOp(Kept(r), Cur(r), entry[r]) \in StillOp
                /\ RenameOp(Cur(r), Kept(r), entry[r]) \in OutOp
            BY <1>0, <4>1, GentleOps
          <6>2. c \in Seq(GentleOp)
            BY <2>2, <4>1, <4>3, <5>1, <6>1 DEF QuarantineCurrent, StillOp, OutOp
          <6>3. QED
            BY <1>0, <1>1, <2>3, <6>2, GentleSets
        <5> HIDE DEF c, m, retire
        <5>4. c \o (m \o retire) = (c \o m) \o retire
          BY <5>3, ConcatAssociative
        <5>5. QED
          BY <4>2, <5>2, <5>4
      <4>8. CASE /\ ~(live[q] # NoFile /\ live[Cur(r)] # NoFile)
                 /\ ~(live[q] = p.old /\ live[Cur(r)] = NoFile)
                 /\ ~(live[q] = NoFile /\ live[Cur(r)] = p.old)
        <5>1. c = <<RefuseOp>>
          BY <4>8 DEF CaptureReplacedCurrent
        <5>2. QED
          BY <1>2, <4>2, <4>4, <5>1
      <4>9. QED
        BY <4>5, <4>6, <4>7, <4>8
    <3>3. QED
      BY <3>1, <3>2
  <2>6. /\ Heal(Stage(p.staged), Cur(r), p.staged) \in Seq(StillOp)
        /\ FsyncRecoveredInstall(p) \in Seq(StillOp)
    BY <1>2, <2>2 DEF Heal, FsyncRecoveredInstall
  <2> HIDE DEF retire
  <2>7. Gentle(InstallFreshStaged(p) \o retire) /\ Gentle(InstallReplayed(p) \o retire)
    BY <1>2, <1>3, <2>5, <2>6 DEF InstallFreshStaged, InstallReplayed
  <2>8. QED
    BY <1>0, <1>5, <2>7 DEF PerformPendingInstall, retire
<1>6. QED
  BY <1>4, <1>5

\* The script of a removal moves nothing into current/.
LEMMA RemovalGentle ==
    ASSUME NEW p \in Plan, p.old = entry[p.res], p.old \in Token, p.digest = DigestOf[p.old]
    PROVE  Gentle(PerformPendingRemoval(p))
<1> DEFINE r == p.res
           q == Quar(r, p.digest)
           heal == Heal(Cur(r), q, p.old)
           sync == FsyncRecoveredCapture(r, q)
           move == QuarantineCurrent(r, q, p.old)
           retire == UnlinkQuarantined(r, p.old)
<1>0. /\ r \in Resource /\ q = Kept(r) /\ q = Quar(r, DigestOf[p.old])
      /\ q \in Name /\ Cur(r) \in Name /\ p.old \in Content /\ p.old # Alien
      /\ p.old = entry[r]
  BY CurIsName, QuarIsName, TokenIsContent, FactsAssumption DEF Plan, Kept
<1>1. /\ FsyncOp(q) \in StillOp /\ FsyncOp(Cur(r)) \in StillOp /\ RefuseOp \in StillOp
      /\ UnlinkOp(q, p.old) \in StillOp /\ UnlinkOp(Cur(r), p.old) \in StillOp
  BY <1>0, GentleOps
<1>2. RenameOp(Cur(r), q, p.old) \in OutOp /\ CapturedOp(q, Cur(r), p.old) \in StillOp
  BY <1>0, GentleOps
<1>3. /\ heal \in Seq(OutOp) /\ sync \in Seq(OutOp) /\ retire \in Seq(OutOp)
      /\ move \in Seq(OutOp) /\ <<RefuseOp>> \in Seq(OutOp)
  <2>1. /\ FsyncOp(q) \in OutOp /\ FsyncOp(Cur(r)) \in OutOp /\ RefuseOp \in OutOp
        /\ UnlinkOp(q, p.old) \in OutOp /\ UnlinkOp(Cur(r), p.old) \in OutOp
        /\ CapturedOp(q, Cur(r), p.old) \in OutOp
    BY <1>1, <1>2 DEF StillOp, OutOp
  <2>2. <<RefuseOp>> \in Seq(OutOp) /\ sync \in Seq(OutOp)
    BY <2>1 DEF FsyncRecoveredCapture
  <2>3. retire \in Seq(OutOp)
    <3>1. retire = <<UnlinkOp(q, p.old), FsyncOp(q)>>
      BY <1>0 DEF UnlinkQuarantined
    <3>2. QED
      BY <2>1, <3>1
  <2>4. move \in Seq(OutOp)
    BY <1>2, <2>1 DEF QuarantineCurrent
  <2>5. heal \in Seq(OutOp)
    <3>1. <<FsyncOp(q), FsyncOp(Cur(r)), UnlinkOp(Cur(r), p.old), FsyncOp(Cur(r)), FsyncOp(q)>>
            \in Seq(OutOp)
      BY <2>1
    <3>2. QED
      BY <2>2, <3>1 DEF Heal
  <2>6. QED
    BY <2>2, <2>3, <2>4, <2>5
<1>4. PerformPendingRemoval(p) \in {<<RefuseOp>>, move \o retire, sync \o retire,
                                    heal \o sync \o retire}
  BY DEF PerformPendingRemoval
<1> HIDE DEF heal, sync, move, retire
<1>5. PerformPendingRemoval(p) \in Seq(OutOp)
  <2>1. heal \o sync \in Seq(OutOp) /\ sync \o retire \in Seq(OutOp)
        /\ move \o retire \in Seq(OutOp)
    BY <1>3, ConcatProperties
  <2>2. (heal \o sync) \o retire \in Seq(OutOp)
    BY <1>3, <2>1, ConcatProperties
  <2>3. QED
    BY <1>3, <1>4, <2>1, <2>2
<1>6. QED
  BY <1>5, OutIsGentle

LEMMA MarkerGentle ==
    /\ Gentle(<<>>)
    /\ \A c \in Revision : Gentle(RemoveMarker(c))
    /\ pending \in Revision => Gentle(WriteMarker)
<1>1. FsyncOp(Marker) \in OutOp /\ RefuseOp \in OutOp
  BY MarkerIsName DEF FsyncOp, RefuseOp, OutOp, GentleOp, Op, Content
<1>2. \A c \in Revision : UnlinkOp(Marker, c) \in OutOp /\ CreateOp(Marker, c) \in OutOp
  BY MarkerIsName, FactsAssumption DEF UnlinkOp, CreateOp, OutOp, GentleOp, Op, Content, Revision
<1>3. /\ <<>> \in Seq(OutOp) /\ \A c \in Revision : RemoveMarker(c) \in Seq(OutOp)
      /\ pending \in Revision => WriteMarker \in Seq(OutOp)
  BY <1>1, <1>2 DEF RemoveMarker, WriteMarker
<1>4. QED
  BY <1>3, OutIsGentle

-----------------------------------------------------------------------------
(* Foreign files in a tree. *)

LEMMA HeldApart ==
    ASSUME NEW now \in Tree, AliensHeld(now)
    PROVE  now[Marker] # Alien /\ \A t \in Token : now[Stage(t)] # Alien
<1>1. Marker \in Name /\ \A t \in Token : Stage(t) \in Name
  BY MarkerIsName, StageIsName
<1>2. Marker \notin CurNames \cup QuarNames
  BY CurIsName, QuarIsName DEF CurNames, QuarNames
<1>3. \A t \in Token : Stage(t) \notin CurNames \cup QuarNames
  BY NamesDiffer DEF CurNames, QuarNames
<1>4. QED
  BY <1>1, <1>2, <1>3 DEF AliensHeld, AlienNames

\* A name without a foreign file gets another one.
LEMMA AliensSame ==
    ASSUME NEW now \in Tree, NEW n \in Name, NEW c \in Content, now[n] # Alien, c # Alien
    PROVE  AlienNames([now EXCEPT ![n] = c]) = AlienNames(now)
BY DEF AlienNames, Tree

LEMMA AliensRenamed ==
    ASSUME NEW now \in Tree, NEW n \in Name, NEW m \in Name, now[m] = NoFile,
           IsFiniteSet(AlienNames(now))
    PROVE  LET later == AlienNames(Renamed(now, n, m)) IN
           /\ IsFiniteSet(later) /\ Cardinality(later) = Cardinality(AlienNames(now))
           /\ later # {} <=> AlienNames(now) # {}
           /\ now[n] # Alien => later = AlienNames(now)
           /\ later \subseteq AlienNames(now) \cup {m}
<1> DEFINE later == AlienNames(Renamed(now, n, m))
           held == AlienNames(now)
<1>0. NoFile # Alien
  BY FactsAssumption
<1>1. CASE now[n] # Alien
  <2>1. later = held
    BY <1>0, <1>1 DEF AlienNames, Renamed, Tree
  <2>2. QED
    BY <1>1, <2>1
<1>2. CASE now[n] = Alien
  <2>1. n # m /\ n \in held /\ m \notin held
    BY <1>0, <1>2 DEF AlienNames
  <2>2. later = (held \ {n}) \cup {m}
    BY <1>0, <1>2, <2>1 DEF AlienNames, Renamed, Tree
  <2> HIDE DEF later, held
  <2>3. IsFiniteSet(held)
    BY DEF held
  <2>4. IsFiniteSet(held \ {n}) /\ Cardinality(held \ {n}) = Cardinality(held) - 1
    BY <2>1, <2>3, FS_RemoveElement
  <2>5. IsFiniteSet(later) /\ Cardinality(later) = Cardinality(held \ {n}) + 1
    BY <2>1, <2>2, <2>4, FS_AddElement
  <2>6. Cardinality(held) \in Nat
    BY <2>3, FS_CardinalityType
  <2>7. Cardinality(later) = Cardinality(held)
    BY <2>4, <2>5, <2>6
  <2>8. later # {} /\ held # {} /\ later \subseteq held \cup {m}
    BY <2>1, <2>2
  <2>9. QED
    BY <1>2, <2>5, <2>7, <2>8 DEF later, held
<1>3. QED
  BY <1>1, <1>2

\* A tree of which every name is as in one of two others.
LEMMA EitherHeld ==
    ASSUME NEW now \in Tree, NEW safe \in Tree, NEW later \in Tree,
           AliensHeld(now), AliensHeld(safe),
           \A m \in Name : later[m] \in {now[m], safe[m]}
    PROVE  AliensHeld(later)
<1>1. AlienNames(later) \subseteq AlienNames(now) \cup AlienNames(safe)
  BY DEF AlienNames
<1>2. IsFiniteSet(AlienNames(now) \cup AlienNames(safe))
  BY FS_Union DEF AliensHeld
<1>3. IsFiniteSet(AlienNames(later))
  BY <1>1, <1>2, FS_Subset
<1>4. QED
  BY <1>1, <1>3 DEF AliensHeld

LEMMA BackedOnDisk ==
    ASSUME NEW now, NEW safe, Backed(now, safe), AlienNames(now) # {}
    PROVE  AlienNames(safe) # {}
<1>1. PICK n \in Name : now[n] = Alien
  BY DEF AlienNames
<1>2. CASE safe[n] = Alien
  BY <1>2 DEF AlienNames
<1>3. ASSUME NEW r \in Resource, Stranded(now, safe, r) PROVE AlienNames(safe) # {}
  BY <1>3, CurIsName DEF Stranded, AlienNames
<1>4. QED
  BY <1>1, <1>2, <1>3 DEF Backed

LEMMA AliensSynced ==
    ASSUME NEW now \in Tree, NEW safe \in Tree, NEW n \in Name,
           AliensHeld(now), AliensHeld(safe), Backed(now, safe)
    PROVE  LET later == Synced(now, safe, n) IN AliensHeld(later) /\ Backed(now, later)
<1> DEFINE later == Synced(now, safe, n)
<1>1. later \in Tree /\ \A m \in Name : later[m] \in {now[m], safe[m]}
  BY DEF Tree, Synced
<1>2. AliensHeld(later)
  BY <1>1, EitherHeld
<1>3. ASSUME NEW m \in Name, now[m] = Alien
      PROVE  later[m] = Alien \/ \E r \in Resource : m = Kept(r) /\ Stranded(now, later, r)
  <2>1. CASE safe[m] = Alien
    BY <1>1, <1>3, <2>1
  <2>2. ASSUME NEW r \in Resource, m = Kept(r), Stranded(now, safe, r)
        PROVE  later[m] = Alien \/ Stranded(now, later, r)
    <3>1. /\ Cur(r) \in Name /\ safe[Cur(r)] = Alien /\ now[Cur(r)] \in {NoFile, Alien}
          /\ entry[r] \in Token
      BY <2>2, CurIsName DEF Stranded
    <3>2. CASE later[Cur(r)] = Alien
      BY <3>1, <3>2 DEF Stranded
    <3>3. CASE later[Cur(r)] # Alien
      <4>1. now[Cur(r)] = NoFile /\ now[Cur(r)] # Alien
        BY <1>1, <3>1, <3>3, FactsAssumption
      <4>2. ~RenamedAway(now, safe, n, now[Cur(r)])
        BY <4>1, FactsAssumption DEF RenamedAway, File
      <4>3. DirOf(Cur(r)) = DirOf(n)
        BY <3>1, <3>3, <4>2 DEF Synced
      <4>4. RenamedAway(now, safe, n, now[m])
        BY <1>3, <3>1, <4>1, <4>3 DEF RenamedAway, File
      <4>5. QED
        BY <1>3, <4>4 DEF Synced
    <3>4. QED
      BY <3>2, <3>3
  <2>3. QED
    BY <1>3, <2>1, <2>2 DEF Backed
<1> HIDE DEF later
<1>4. Backed(now, later)
  BY <1>3 DEF Backed
<1>5. QED
  BY <1>2, <1>4 DEF later

LEMMA AliensAfterLoss ==
    ASSUME NEW now \in Tree, NEW safe \in Tree, NEW tree \in PowerLossTrees(now, safe),
           AliensHeld(now), AliensHeld(safe), Backed(now, safe)
    PROVE  /\ AliensHeld(tree) /\ Backed(tree, tree)
           /\ AlienNames(now) # {} => AlienNames(tree) # {}
<1>1. tree \in Tree /\ \A n \in Name : tree[n] \in {now[n], safe[n]}
  BY PowerLossMeansEither
<1>2. AliensHeld(tree)
  BY <1>1, EitherHeld
<1>3. Backed(tree, tree)
  BY DEF Backed
<1>4. ASSUME AlienNames(now) # {} PROVE AlienNames(tree) # {}
  <2>1. Linked(now, Alien) /\ Linked(safe, Alien)
    BY <1>4, BackedOnDisk DEF AlienNames, Linked
  <2>2. Linked(tree, Alien)
    BY <2>1 DEF PowerLossTrees, File
  <2>3. QED
    BY <2>2 DEF AlienNames, Linked
<1>5. QED
  BY <1>2, <1>3, <1>4

-----------------------------------------------------------------------------
(* The steps. *)

\* A script that is gentle stays so while what it relies on stays.
LEMMA SameGentle ==
    ASSUME live' = live, entry' = entry, NEW s, todo' = s, Gentle(s)
    PROVE  Gentle(todo)'
<1>1. GentleOp' = GentleOp /\ \A r : Kept(r)' = Kept(r)
  BY DEF GentleOp, Kept
<1>2. \A r : live'[Kept(r)'] = live[Kept(r)]
  BY <1>1
<1>3. todo' \in Seq(GentleOp')
  BY <1>1 DEF Gentle
<1>4. CASE Refuses(s)
  BY <1>3, <1>4 DEF Gentle, Refuses
<1>5. CASE MovesGuarded(s)
  <2>1. MovesGuarded(todo)'
    BY <1>1, <1>2, <1>5 DEF MovesGuarded
  <2>2. QED
    BY <1>3, <2>1 DEF Gentle
<1>6. QED
  BY <1>4, <1>5 DEF Gentle

LEMMA NothingGentle ==
    ASSUME todo' = <<>>
    PROVE  Gentle(todo)'
BY DEF Gentle, MovesGuarded

\* What is kept of what a script relies on: no foreign file has come to where a
\* recorded one is moved, unless the script itself has moved it there.
LEMMA KeptGentle ==
    ASSUME Gentle(todo), todo' = todo, entry' = entry,
           \A r \in Resource : entry[r] \in Token => live'[Kept(r)] = live[Kept(r)],
           TypeOK
    PROVE  Gentle(todo)'
<1>1. GentleOp' = GentleOp /\ \A r : Kept(r)' = Kept(r)
  BY DEF GentleOp, Kept
<1>2. \A r \in Resource : entry'[r] = NoFile \/ live'[Kept(r)'] = live[Kept(r)]
  BY <1>1 DEF TypeOK
<1>3. todo' \in Seq(GentleOp')
  BY <1>1 DEF Gentle
<1>4. CASE Refuses(todo)
  BY <1>3, <1>4 DEF Gentle, Refuses
<1>5. CASE MovesGuarded(todo)
  <2>1. MovesGuarded(todo)'
    BY <1>1, <1>2, <1>5 DEF MovesGuarded
  <2>2. QED
    BY <1>3, <2>1 DEF Gentle
<1>6. QED
  BY <1>4, <1>5 DEF Gentle

LEMMA TailGentle ==
    ASSUME TypeOK, Gentle(todo), todo # <<>>, NextOp.do # "refuse", todo' = Tail(todo),
           entry' = entry,
           \A r \in Resource : entry[r] \in Token /\ live'[Kept(r)] = Alien =>
              live[Kept(r)] = Alien \/ Fills(NextOp, Kept(r)),
           NextOp.do = "captured" => live'[NextOp.src] # Alien
    PROVE  Gentle(todo)'
<1>0. /\ todo \in Seq(GentleOp) /\ NextOp \in GentleOp /\ Tail(todo) \in Seq(GentleOp)
      /\ NextOp = todo[1]
      /\ Len(todo) \in Nat \ {0} /\ Len(Tail(todo)) = Len(todo) - 1
      /\ \A i \in 1..Len(Tail(todo)) : i + 1 \in 1..Len(todo) /\ Tail(todo)[i] = todo[i + 1]
  BY TailAt DEF Gentle, NextOp
<1>1. GentleOp' = GentleOp /\ \A r : Kept(r)' = Kept(r)
  BY DEF GentleOp, Kept
<1>2. MovesGuarded(todo)
  BY <1>0 DEF Gentle, Refuses
<1> DEFINE rest == Tail(todo)
<1>3. ASSUME NEW r \in Resource, NEW i \in 1..Len(rest), Fills(rest[i], Cur(r))
      PROVE  \/ entry[r] = NoFile
             \/ live'[Kept(r)] # Alien /\ \A k \in 1..Len(rest) : k < i => ~Fills(rest[k], Kept(r))
             \/ \E j \in 1..Len(rest) :
                  /\ j < i /\ rest[j].do = "captured" /\ rest[j].src = Kept(r)
                  /\ \A k \in 1..Len(rest) : j < k /\ k < i => ~Fills(rest[k], Kept(r))
  <2>1. i + 1 \in 1..Len(todo) /\ Fills(todo[i + 1], Cur(r))
    BY <1>0, <1>3
  <2>2. 1 \in 1..Len(todo) /\ 1 < i + 1
    BY <1>0
  <2>3. \/ entry[r] = NoFile
        \/ live[Kept(r)] # Alien /\ \A k \in 1..Len(todo) : k < i + 1 => ~Fills(todo[k], Kept(r))
        \/ \E j \in 1..Len(todo) :
             /\ j < i + 1 /\ todo[j].do = "captured" /\ todo[j].src = Kept(r)
             /\ \A k \in 1..Len(todo) : j < k /\ k < i + 1 => ~Fills(todo[k], Kept(r))
    BY <1>2, <2>1 DEF MovesGuarded
  <2>4. \A k \in 1..Len(rest) : /\ k + 1 \in 1..Len(todo) /\ rest[k] = todo[k + 1]
                               /\ k < i => k + 1 < i + 1
    BY <1>0
  <2>5. CASE entry[r] = NoFile
    BY <2>5
  <2>6. CASE live[Kept(r)] # Alien /\ \A k \in 1..Len(todo) : k < i + 1 => ~Fills(todo[k], Kept(r))
    <3>1. ~Fills(NextOp, Kept(r))
      BY <1>0, <2>2, <2>6
    <3>2. entry[r] = NoFile \/ live'[Kept(r)] # Alien
      BY <2>6, <3>1 DEF TypeOK
    <3>3. \A k \in 1..Len(rest) : k < i => ~Fills(rest[k], Kept(r))
      BY <2>4, <2>6
    <3>4. QED
      BY <3>2, <3>3
  <2>7. ASSUME NEW j \in 1..Len(todo), j < i + 1, todo[j].do = "captured", todo[j].src = Kept(r),
               \A k \in 1..Len(todo) : j < k /\ k < i + 1 => ~Fills(todo[k], Kept(r))
        PROVE  \/ live'[Kept(r)] # Alien /\ \A k \in 1..Len(rest) : k < i => ~Fills(rest[k], Kept(r))
               \/ \E h \in 1..Len(rest) :
                    /\ h < i /\ rest[h].do = "captured" /\ rest[h].src = Kept(r)
                    /\ \A k \in 1..Len(rest) : h < k /\ k < i => ~Fills(rest[k], Kept(r))
    <3>1. CASE j = 1
      <4>1. live'[Kept(r)] # Alien
        BY <1>0, <2>7, <3>1
      <4>2. \A k \in 1..Len(rest) : k < i => ~Fills(rest[k], Kept(r))
        BY <2>4, <2>7, <3>1
      <4>3. QED
        BY <4>1, <4>2
    <3>2. CASE j # 1
      <4>1. j - 1 \in 1..Len(rest) /\ (j - 1) + 1 = j /\ j - 1 < i
        BY <1>0, <2>7, <3>2
      <4>2. rest[j - 1].do = "captured" /\ rest[j - 1].src = Kept(r)
        BY <1>0, <2>7, <4>1
      <4>3. \A k \in 1..Len(rest) : j - 1 < k /\ k < i => ~Fills(rest[k], Kept(r))
        BY <2>4, <2>7, <4>1
      <4>4. QED
        BY <4>1, <4>2, <4>3
    <3>3. QED
      BY <3>1, <3>2
  <2>8. QED
    BY <2>3, <2>5, <2>6, <2>7
<1>4. MovesGuarded(todo)'
  <2>1. todo' = rest
    OBVIOUS
  <2> HIDE DEF rest
  <2>2. entry' = entry /\ \A r : Kept(r)' = Kept(r)
    BY <1>1
  <2>3. SUFFICES ASSUME NEW r \in Resource, NEW i \in 1..Len(todo'), Fills(todo'[i], Cur(r))
                 PROVE  \/ entry'[r] = NoFile
                        \/ /\ live'[Kept(r)'] # Alien
                           /\ \A k \in 1..Len(todo') : k < i => ~Fills(todo'[k], Kept(r)')
                        \/ \E j \in 1..Len(todo') :
                             /\ j < i /\ todo'[j].do = "captured" /\ todo'[j].src = Kept(r)'
                             /\ \A k \in 1..Len(todo') :
                                  j < k /\ k < i => ~Fills(todo'[k], Kept(r)')
    BY DEF MovesGuarded
  <2>4. i \in 1..Len(rest) /\ Fills(rest[i], Cur(r))
    BY <2>1, <2>3
  <2>5. Kept(r)' = Kept(r)
    BY <2>2
  <2>6. \/ entry[r] = NoFile
        \/ live'[Kept(r)] # Alien /\ \A k \in 1..Len(rest) : k < i => ~Fills(rest[k], Kept(r))
        \/ \E j \in 1..Len(rest) :
             /\ j < i /\ rest[j].do = "captured" /\ rest[j].src = Kept(r)
             /\ \A k \in 1..Len(rest) : j < k /\ k < i => ~Fills(rest[k], Kept(r))
    BY <1>3, <2>4, Zenon
  <2>7. CASE entry[r] = NoFile
    BY <2>2, <2>7
  <2>8. CASE live'[Kept(r)] # Alien /\ \A k \in 1..Len(rest) : k < i => ~Fills(rest[k], Kept(r))
    BY <2>1, <2>5, <2>8
  <2>9. CASE \E j \in 1..Len(rest) :
             /\ j < i /\ rest[j].do = "captured" /\ rest[j].src = Kept(r)
             /\ \A k \in 1..Len(rest) : j < k /\ k < i => ~Fills(rest[k], Kept(r))
    BY <2>1, <2>5, <2>9
  <2>10. QED
    BY <2>6, <2>7, <2>8, <2>9
<1>5. todo' \in Seq(GentleOp')
  BY <1>0, <1>1
<1>6. QED
  BY <1>4, <1>5 DEF Gentle

LEMMA AlienStep ==
    ASSUME entry' = entry, NEW now, NEW safe, live' = now, disk' = safe,
           AliensHeld(now), AliensHeld(safe), Backed(now, safe),
           AlienNames(live) # {} => AlienNames(now) # {},
           faults' = faults => Cardinality(AlienNames(live)) <= Cardinality(AlienNames(now)),
           Gentle(todo)'
    PROVE  AlienInv' /\ AliensKept
<1>1. \A r : Kept(r)' = Kept(r)
  BY DEF Kept
<1>2. AliensHeld(live)' /\ AliensHeld(disk)'
  BY DEF AliensHeld, AlienNames
<1>3. Backed(live, disk)'
  <2>1. \A r : Stranded(now, safe, r) => Stranded(live, disk, r)'
    BY DEF Stranded
  <2>2. QED
    BY <1>1, <2>1 DEF Backed
<1>4. AliensKept
  BY DEF AliensKept, AlienNames
<1>5. QED
  BY <1>2, <1>3, <1>4 DEF AlienInv

\* The files that are seen stay as they are, and so does what is durable, or it
\* catches up.
LEMMA AlienStay ==
    ASSUME TypeOK, AlienInv, entry' = entry, live' = live,
           disk' = disk \/ \E n \in Name : disk' = Synced(live, disk, n), Gentle(todo)'
    PROVE  AlienInv' /\ AliensKept
<1>0. live \in Tree /\ disk \in Tree /\ AliensHeld(live) /\ AliensHeld(disk) /\ Backed(live, disk)
  BY DEF TypeOK, Tree, AlienInv
<1>1. Cardinality(AlienNames(live)) <= Cardinality(AlienNames(live))
  <2>1. Cardinality(AlienNames(live)) \in Nat
    BY <1>0, FS_CardinalityType DEF AliensHeld
  <2>2. QED
    BY <2>1
<1>2. CASE disk' = disk
  BY <1>0, <1>1, <1>2, AlienStep
<1>3. ASSUME NEW n \in Name, disk' = Synced(live, disk, n)
      PROVE  AlienInv' /\ AliensKept
  <2>1. /\ AliensHeld(Synced(live, disk, n)) /\ Backed(live, Synced(live, disk, n))
    BY <1>0, AliensSynced
  <2>2. QED
    BY <1>0, <1>1, <1>3, <2>1, AlienStep
<1>4. QED
  BY <1>2, <1>3

\* One name that shows no foreign file gets, or loses, a file of the adapter.
LEMMA AlienApart ==
    ASSUME TypeOK, AlienInv, entry' = entry, NEW n \in Name, NEW c \in Content,
           live[n] # Alien, c # Alien, n \in CurNames => c = NoFile,
           live' = [live EXCEPT ![n] = c],
           disk' = disk \/ (n \notin CurNames \cup QuarNames /\ disk' = [disk EXCEPT ![n] = c]),
           Gentle(todo)'
    PROVE  AlienInv' /\ AliensKept
<1> DEFINE now == [live EXCEPT ![n] = c]
<1>0. live \in Tree /\ disk \in Tree /\ AliensHeld(live) /\ AliensHeld(disk) /\ Backed(live, disk)
  BY DEF TypeOK, Tree, AlienInv
<1>1. AlienNames(now) = AlienNames(live)
  BY <1>0, AliensSame
<1>2. AlienNames(disk') = AlienNames(disk)
  <2>1. CASE disk' = disk
    BY <2>1
  <2>2. CASE n \notin CurNames \cup QuarNames /\ disk' = [disk EXCEPT ![n] = c]
    <3>1. disk[n] # Alien
      BY <1>0, <2>2 DEF AliensHeld, AlienNames
    <3>2. QED
      BY <1>0, <2>2, <3>1, AliensSame
  <2>3. QED
    BY <2>1, <2>2
<1>3. \A m \in Name : m # n => now[m] = live[m]
  BY <1>0 DEF Tree
<1>4. now[n] = c
  BY <1>0 DEF Tree
<1>5. \A m \in CurNames \cup QuarNames : m \in Name /\ disk'[m] = disk[m]
  BY <1>0 DEF Tree, Name
<1>6. Backed(now, disk')
  <2>1. ASSUME NEW m \in Name, now[m] = Alien
        PROVE  disk'[m] = Alien \/ \E r \in Resource : m = Kept(r) /\ Stranded(now, disk', r)
    <3>1. m # n /\ live[m] = Alien /\ m \in CurNames \cup QuarNames
      BY <1>0, <1>3, <1>4, <2>1 DEF AliensHeld, AlienNames
    <3>2. CASE disk[m] = Alien
      BY <1>5, <3>1, <3>2
    <3>3. ASSUME NEW r \in Resource, m = Kept(r), Stranded(live, disk, r)
          PROVE  Stranded(now, disk', r)
      <4>1. Cur(r) \in Name /\ Cur(r) \in CurNames
        BY CurIsName DEF CurNames
      <4>2. disk'[Cur(r)] = Alien
        BY <1>5, <3>3, <4>1 DEF Stranded
      <4>3. now[Cur(r)] \in {NoFile, Alien}
        BY <1>3, <1>4, <3>3, <4>1 DEF Stranded
      <4>4. QED
        BY <3>3, <4>2, <4>3 DEF Stranded
    <3>4. QED
      BY <1>0, <2>1, <3>1, <3>2, <3>3 DEF Backed
  <2> HIDE DEF now
  <2>2. QED
    BY <2>1 DEF Backed
<1>7. AliensHeld(now) /\ AliensHeld(disk')
  BY <1>0, <1>1, <1>2 DEF AliensHeld
<1>8. Cardinality(AlienNames(live)) <= Cardinality(AlienNames(live))
  <2>1. Cardinality(AlienNames(live)) \in Nat
    BY <1>0, FS_CardinalityType DEF AliensHeld
  <2>2. QED
    BY <2>1
<1> HIDE DEF now
<1>9. live' = now
  BY DEF now
<1>10. PICK safe : disk' = safe
  OBVIOUS
<1>11. QED
  BY <1>0, <1>1, <1>2, <1>6, <1>7, <1>8, <1>9, <1>10, AlienStep

LEMMA NextIsGentle ==
    ASSUME TypeOK, Gentle(todo), todo # <<>>
    PROVE  NextOp \in GentleOp /\ NextOp.src \in Name /\ NextOp.dst \in Name /\ NextOp.file \in Content
BY NextOpIsTyped, TailAt DEF Gentle, NextOp

\* A move of the adapter.
LEMMA RenameAliens ==
    ASSUME TypeOK, AlienInv, DoRename
    PROVE  AlienInv' /\ AliensKept
<1>0. /\ live \in Tree /\ disk \in Tree /\ AliensHeld(live) /\ AliensHeld(disk)
      /\ Backed(live, disk) /\ Gentle(todo)
  BY DEF TypeOK, Tree, AlienInv
<1> DEFINE n == NextOp.src
           m == NextOp.dst
           now == Renamed(live, n, m)
<1>1. /\ todo # <<>> /\ NextOp.do = "rename" /\ entry' = entry /\ disk' = disk
      /\ n \in Name /\ m \in Name /\ NextOp \in GentleOp
  BY <1>0, NextIsGentle DEF DoRename, Doing, journal
<1>2. CASE ~(live[n] # NoFile /\ live[m] = NoFile)
  <2>1. todo' = <<>> /\ live' = live
    BY <1>2 DEF DoRename, Refuse, Leave
  <2>2. QED
    BY <1>1, <2>1, AlienStay, NothingGentle
<1>3. CASE live[n] # NoFile /\ live[m] = NoFile
  <2>0. live' = now /\ todo' = Tail(todo) /\ n # m
    BY <1>3 DEF DoRename, Proceed
  <2>1. /\ \A x \in Name : x # n /\ x # m => now[x] = live[x]
        /\ now[n] = NoFile /\ now[m] = live[n] /\ now \in Tree
    BY <1>0, <1>1, <2>0 DEF Tree, Renamed, Content
  <2>2. /\ IsFiniteSet(AlienNames(now)) /\ Cardinality(AlienNames(now)) = Cardinality(AlienNames(live))
        /\ AlienNames(now) # {} <=> AlienNames(live) # {}
        /\ live[n] # Alien => AlienNames(now) = AlienNames(live)
        /\ AlienNames(now) \subseteq AlienNames(live) \cup {m}
    BY <1>0, <1>1, <1>3, AliensRenamed DEF AliensHeld
  <2>3. Cardinality(AlienNames(live)) <= Cardinality(AlienNames(now))
    <3>1. Cardinality(AlienNames(now)) \in Nat
      BY <2>2, FS_CardinalityType
    <3>2. QED
      BY <2>2, <3>1
  <2>4. Gentle(todo)'
    <3>1. ASSUME NEW r \in Resource, entry[r] \in Token, now[Kept(r)] = Alien
          PROVE  live[Kept(r)] = Alien \/ Fills(NextOp, Kept(r))
      <4>1. Kept(r) \in Name
        BY <3>1, FactsAssumption, QuarIsName DEF Kept
      <4>2. Kept(r) # n
        BY <2>1, <3>1, FactsAssumption
      <4>3. QED
        BY <1>1, <2>1, <3>1, <4>1, <4>2 DEF Fills
    <3>2. QED
      BY <1>0, <1>1, <2>0, <3>1, TailGentle
  <2>5. PICK r \in Resource :
           \/ n \in StageNames /\ m = Cur(r)
           \/ entry[r] \in Token /\ n = Cur(r) /\ m = Kept(r)
    BY <1>1 DEF GentleOp
  <2>6. /\ Cur(r) \in Name /\ Cur(r) \in CurNames
        /\ entry[r] \in Token => Kept(r) \in QuarNames
    BY CurIsName, FactsAssumption DEF CurNames, QuarNames, Kept
  <2>7. AliensHeld(now)
    <3>1. CASE live[n] # Alien
      BY <1>0, <2>2, <3>1 DEF AliensHeld
    <3>2. CASE live[n] = Alien
      <4>1. m \in CurNames \cup QuarNames
        BY <2>5, <2>6
      <4>2. QED
        BY <1>0, <2>2, <4>1 DEF AliensHeld
    <3>3. QED
      BY <3>1, <3>2
  <2>8. \A q \in Resource : entry[q] \in Token => Kept(q) \in Name /\ Kept(q) \in QuarNames
    BY FactsAssumption, QuarIsName DEF Kept, QuarNames
  <2> HIDE DEF n, m, now
  <2>9. CASE n \in StageNames /\ m = Cur(r)
    <3>1. live[n] # Alien
      BY <1>0, <2>9, HeldApart DEF StageNames
    <3>2. entry[r] \in Token => live[Kept(r)] # Alien
      <4>1. MovesGuarded(todo) /\ NextOp = todo[1] /\ 1 \in 1..Len(todo)
        BY <1>0, <1>1, TailAt DEF Gentle, Refuses, NextOp
      <4>2. Fills(todo[1], Cur(r))
        BY <1>1, <2>9, <4>1 DEF Fills, m
      <4>3. \/ entry[r] = NoFile
            \/ live[Kept(r)] # Alien
            \/ \E j \in 1..Len(todo) : j < 1
        BY <4>1, <4>2 DEF MovesGuarded
      <4>4. QED
        BY <4>3, FactsAssumption
    <3>3. ASSUME NEW x \in Name, now[x] = Alien
          PROVE  disk[x] = Alien \/ \E q \in Resource : x = Kept(q) /\ Stranded(now, disk, q)
      <4>1. x # n /\ x # m /\ live[x] = Alien
        BY <2>1, <3>1, <3>3, FactsAssumption
      <4>2. ASSUME NEW q \in Resource, x = Kept(q), Stranded(live, disk, q)
            PROVE  Stranded(now, disk, q)
        <5>1. q # r
          BY <3>2, <4>1, <4>2 DEF Stranded
        <5>2. Cur(q) # m /\ Cur(q) # n /\ Cur(q) \in Name
          BY <2>9, <5>1, CurIsName, NamesDiffer DEF StageNames
        <5>3. QED
          BY <2>1, <4>2, <5>2 DEF Stranded
      <4>3. QED
        BY <1>0, <4>1, <4>2 DEF Backed
    <3>4. Backed(now, disk)
      BY <3>3 DEF Backed
    <3>5. QED
      BY <1>0, <1>1, <2>0, <2>2, <2>3, <2>4, <2>7, <3>4, AlienStep
  <2>10. CASE entry[r] \in Token /\ n = Cur(r) /\ m = Kept(r)
    <3>1. ASSUME NEW x \in Name, now[x] = Alien
          PROVE  disk[x] = Alien \/ \E q \in Resource : x = Kept(q) /\ Stranded(now, disk, q)
      <4>1. x # n
        BY <2>1, <3>1, FactsAssumption
      <4>2. CASE x = m
        <5>1. live[n] = Alien
          BY <2>1, <3>1, <4>2
        <5>2. \A q : n # Kept(q)
          BY <2>10, NamesDiffer DEF Kept
        <5>3. disk[n] = Alien
          BY <1>0, <1>1, <2>6, <2>10, <5>1, <5>2 DEF Backed
        <5>4. Stranded(now, disk, r)
          BY <2>1, <2>10, <5>3 DEF Stranded
        <5>5. QED
          BY <2>10, <4>2, <5>4
      <4>3. CASE x # m
        <5>1. live[x] = Alien
          BY <2>1, <3>1, <4>1, <4>3
        <5>2. ASSUME NEW q \in Resource, x = Kept(q), Stranded(live, disk, q)
              PROVE  Stranded(now, disk, q)
          <6>1. q # r
            BY <2>10, <4>3, <5>2
          <6>2. Cur(q) # m /\ Cur(q) # n /\ Cur(q) \in Name
            BY <2>10, <6>1, CurIsName, NamesDiffer DEF Kept
          <6>3. QED
            BY <2>1, <5>2, <6>2 DEF Stranded
        <5>3. QED
          BY <1>0, <5>1, <5>2 DEF Backed
      <4>4. QED
        BY <4>2, <4>3
    <3>2. Backed(now, disk)
      BY <3>1 DEF Backed
    <3>3. QED
      BY <1>0, <1>1, <2>0, <2>2, <2>3, <2>4, <2>7, <3>2, AlienStep
  <2>11. QED
    BY <2>5, <2>9, <2>10 DEF n, m
<1>4. QED
  BY <1>2, <1>3

\* Two directories of which the second is the quarantine.
LEMMA SyncedTwice ==
    ASSUME NEW now \in Tree, NEW safe \in Tree, NEW n \in CurNames, NEW m \in QuarNames,
           NEW later, later = Synced(now, Synced(now, safe, n), m)
    PROVE  later \in Tree /\ \A x \in Name : later[x] \in {now[x], safe[x]}
<1> DEFINE first == Synced(now, safe, n)
<1>1. first \in Tree /\ \A x \in Name : first[x] \in {now[x], safe[x]}
  BY DEF Tree, Synced, Name
<1>2. later = Synced(now, first, m)
  OBVIOUS
<1> HIDE DEF first
<1>3. later \in Tree /\ \A x \in Name : later[x] \in {now[x], first[x]}
  BY <1>1, <1>2 DEF Tree, Synced
<1>4. QED
  BY <1>1, <1>3

LEMMA ShownTwice ==
    ASSUME NEW now \in Tree, NEW safe \in Tree, NEW n \in CurNames, NEW m \in QuarNames,
           NEW later, later = Synced(now, Synced(now, safe, n), m)
    PROVE  \A x \in QuarNames \cup {n} : later[x] = now[x]
<1> DEFINE first == Synced(now, safe, n)
<1>1. n \in Name /\ QuarNames \subseteq Name
  BY DEF Name
<1>2. first[n] = now[n]
  BY <1>1 DEF Tree, Synced
<1>3. \A x \in QuarNames : DirOf(x) = DirOf(m)
  BY DEF QuarNames, Quar, DirOf
<1>4. later = Synced(now, first, m)
  OBVIOUS
<1> HIDE DEF first
<1>5. QED
  BY <1>1, <1>2, <1>3, <1>4 DEF Tree, Synced

\* A look at what was captured, and its return.
LEMMA CapturedAliens ==
    ASSUME TypeOK, AlienInv, DoCaptured
    PROVE  AlienInv' /\ AliensKept
<1>0. /\ live \in Tree /\ disk \in Tree /\ AliensHeld(live) /\ AliensHeld(disk)
      /\ Backed(live, disk) /\ Gentle(todo)
  BY DEF TypeOK, Tree, AlienInv
<1>1. /\ todo # <<>> /\ NextOp.do = "captured" /\ entry' = entry /\ NextOp \in GentleOp
  BY <1>0, NextIsGentle DEF DoCaptured, Doing, journal
<1>2. PICK r \in Resource : entry[r] \in Token /\ NextOp.src = Kept(r) /\ NextOp.dst = Cur(r)
  BY <1>1 DEF GentleOp
<1>3. /\ Cur(r) \in Name /\ Cur(r) \in CurNames /\ Kept(r) \in Name /\ Kept(r) \in QuarNames
  BY <1>2, CurIsName, QuarIsName, FactsAssumption DEF CurNames, QuarNames, Kept
<1>4. CASE live[NextOp.src] = NextOp.file
  <2>1. todo' = Tail(todo) /\ live' = live /\ disk' = disk
    BY <1>4 DEF DoCaptured, Proceed, files
  <2>2. live'[NextOp.src] # Alien
    BY <1>1, <1>4, <2>1 DEF GentleOp
  <2>3. Gentle(todo)'
    BY <1>0, <1>1, <2>1, <2>2, TailGentle
  <2>4. QED
    BY <1>1, <2>1, <2>3, AlienStay
<1>5. CASE live[NextOp.src] # NextOp.file
  <2> DEFINE n == Kept(r)
             m == Cur(r)
             now == IF live[m] = NoFile THEN Renamed(live, n, m) ELSE live
             later == Synced(now, Synced(now, disk, m), n)
  <2>1. live' = now /\ disk' = later /\ todo' = <<>>
    BY <1>2, <1>5 DEF DoCaptured, Refuse, Leave
  <2>2. now \in Tree
    BY <1>0, <1>3 DEF Renamed, Tree, Content
  <2>3. \A x \in Name : x # n /\ x # m => now[x] = live[x]
    BY <1>0, <1>3 DEF Renamed, Tree
  <2>4. /\ live[m] # NoFile => now = live
        /\ live[m] = NoFile => now = Renamed(live, n, m) /\ now[m] = live[n]
    <3>1. n # m
      BY NamesDiffer DEF Kept
    <3>2. QED
      BY <1>0, <1>3, <3>1 DEF Renamed, Tree
  <2>5. /\ AliensHeld(now)
        /\ AlienNames(live) # {} <=> AlienNames(now) # {}
        /\ Cardinality(AlienNames(now)) = Cardinality(AlienNames(live))
    <3>1. CASE live[m] = NoFile
      <4>1. /\ IsFiniteSet(AlienNames(Renamed(live, n, m)))
            /\ Cardinality(AlienNames(Renamed(live, n, m))) = Cardinality(AlienNames(live))
            /\ AlienNames(Renamed(live, n, m)) # {} <=> AlienNames(live) # {}
            /\ AlienNames(Renamed(live, n, m)) \subseteq AlienNames(live) \cup {m}
        BY <1>0, <1>3, <3>1, AliensRenamed DEF AliensHeld
      <4>2. QED
        BY <1>0, <1>3, <2>4, <3>1, <4>1 DEF AliensHeld
    <3>2. CASE live[m] # NoFile
      BY <1>0, <2>4, <3>2
    <3>3. QED
      BY <3>1, <3>2
  <2> HIDE DEF now
  <2>6. Cardinality(AlienNames(live)) <= Cardinality(AlienNames(now))
    <3>1. Cardinality(AlienNames(now)) \in Nat
      BY <2>5, FS_CardinalityType DEF AliensHeld
    <3>2. QED
      BY <2>5, <3>1
  <2>7. /\ later \in Tree
        /\ \A x \in Name : later[x] \in {now[x], disk[x]}
        /\ later[m] = now[m]
        /\ \A x \in QuarNames : later[x] = now[x]
    <3>1. Cur(r) \in CurNames /\ Kept(r) \in QuarNames
      BY <1>3
    <3>2. now \in Tree /\ disk \in Tree
      BY <1>0, <2>2
    <3>3. later = Synced(now, Synced(now, disk, Cur(r)), Kept(r))
      OBVIOUS
    <3> HIDE DEF later
    <3>4. later \in Tree /\ \A x \in Name : later[x] \in {now[x], disk[x]}
      BY <3>1, <3>2, <3>3, SyncedTwice
    <3>5. \A x \in QuarNames \cup {Cur(r)} : later[x] = now[x]
      BY <3>1, <3>2, <3>3, ShownTwice
    <3>6. QED
      BY <3>4, <3>5
  <2> HIDE DEF later
  <2>8. AliensHeld(later)
    BY <1>0, <2>2, <2>5, <2>7, EitherHeld
  <2>9. ASSUME NEW x \in Name, now[x] = Alien PROVE later[x] = Alien
    <3>1. x \in CurNames \cup QuarNames
      BY <2>5, <2>9 DEF AliensHeld, AlienNames
    <3>2. ASSUME NEW q \in Resource, x = Cur(q), q # r PROVE later[x] = Alien
      <4>1. x # n /\ x # m /\ \A o : x # Kept(o)
        BY <3>2, NamesDiffer DEF Kept
      <4>2. disk[x] = Alien
        BY <1>0, <2>3, <2>9, <4>1 DEF Backed
      <4>3. QED
        BY <2>7, <2>9, <4>2
    <3>3. QED
      BY <2>7, <2>9, <3>1, <3>2 DEF CurNames
  <2>10. Backed(now, later)
    BY <2>9 DEF Backed
  <2>11. QED
    BY <1>1, <2>1, <2>5, <2>6, <2>8, <2>10, NothingGentle, AlienStep
<1>6. QED
  BY <1>4, <1>5

\* A name that may show a foreign file is unlinked.
LEMMA AlienLost ==
    ASSUME TypeOK, AlienInv, entry' = entry, NEW n \in Name,
           live' = [live EXCEPT ![n] = NoFile], disk' = disk, Gentle(todo)'
    PROVE  AlienInv'
<1> DEFINE now == [live EXCEPT ![n] = NoFile]
<1>0. /\ live \in Tree /\ disk \in Tree /\ AliensHeld(live) /\ AliensHeld(disk)
      /\ Backed(live, disk) /\ NoFile # Alien
  BY FactsAssumption DEF TypeOK, Tree, AlienInv
<1>1. now[n] = NoFile /\ \A m \in Name : m # n => now[m] = live[m]
  BY <1>0 DEF Tree
<1>2. live' = now /\ disk' = disk
  OBVIOUS
<1> HIDE DEF now
<1>3. AliensHeld(now)
  <2>1. AlienNames(now) \subseteq AlienNames(live)
    BY <1>0, <1>1 DEF AlienNames
  <2>2. QED
    BY <1>0, <2>1, FS_Subset DEF AliensHeld
<1>4. ASSUME NEW m \in Name, now[m] = Alien
      PROVE  disk[m] = Alien \/ \E r \in Resource : m = Kept(r) /\ Stranded(now, disk, r)
  <2>1. m # n /\ live[m] = Alien
    BY <1>0, <1>1, <1>4
  <2>2. ASSUME NEW r \in Resource, Stranded(live, disk, r) PROVE Stranded(now, disk, r)
    BY <1>1, <2>2, CurIsName DEF Stranded
  <2>3. QED
    BY <1>0, <2>1, <2>2 DEF Backed
<1>5. Backed(live, disk)'
  <2>1. \A r : Kept(r)' = Kept(r) /\ (Stranded(now, disk, r) => Stranded(live, disk, r)')
    BY <1>2 DEF Kept, Stranded
  <2>2. QED
    BY <1>2, <1>4, <2>1 DEF Backed
<1>6. AliensHeld(live)' /\ AliensHeld(disk)'
  BY <1>0, <1>2, <1>3 DEF AliensHeld, AlienNames
<1>7. QED
  BY <1>5, <1>6 DEF AlienInv

LEMMA PerformAliens ==
    ASSUME TypeOK, AlienInv, LooksForOwn, Perform
    PROVE  AlienInv' /\ (AliensKept \/ (Overtaken /\ DoUnlink))
<1>0. /\ live \in Tree /\ disk \in Tree /\ AliensHeld(live) /\ AliensHeld(disk)
      /\ Backed(live, disk) /\ Gentle(todo)
  BY DEF TypeOK, Tree, AlienInv
<1>1. /\ todo # <<>> /\ entry' = entry /\ NextOp \in GentleOp
      /\ NextOp.src \in Name /\ NextOp.file \in Content
  BY <1>0, NextIsGentle DEF Perform, DoRename, DoVerify, DoUnlink, DoCreate, DoFsync, DoCheck, DoCaptured,
     DoRefuse, Doing, journal
<1> DEFINE n == NextOp.src
<1>v. CASE DoVerify
  <2>1. /\ live' = live /\ disk' = disk /\ NextOp.do = "unlink"
        /\ todo' \in {<<>>, todo, Tail(todo)}
    BY <1>v DEF DoVerify, Doing, files, Refuse, Leave, Proceed
  <2>2. Gentle(todo)'
    BY <1>0, <1>1, <2>1, TailGentle, KeptGentle, NothingGentle
  <2>3. QED
    BY <1>1, <2>1, <2>2, AlienStay
<1>2. CASE DoUnlink
  <2>1. /\ NextOp.do = "unlink" /\ disk' = disk /\ todo' = Tail(todo)
        /\ live' = [live EXCEPT ![n] = NoFile] /\ verified \notin {NoFile, Alien}
    BY <1>2 DEF DoUnlink, Doing, Proceed, Unlinked, LooksForOwn
  <2>2. NoFile \in Content /\ NoFile # Alien
    BY FactsAssumption DEF Content
  <2>3. \A r \in Resource : entry[r] \in Token /\ live'[Kept(r)] = Alien => live[Kept(r)] = Alien
    BY <1>0, <2>1, <2>2, QuarIsName, FactsAssumption DEF Kept, Tree
  <2>4. Gentle(todo)'
    BY <1>0, <1>1, <2>1, <2>3, TailGentle
  <2> HIDE DEF n
  <2>5. n \in Name
    BY <1>1 DEF n
  <2>6. CASE live[n] # Alien
    BY <1>1, <2>1, <2>2, <2>4, <2>5, <2>6, AlienApart
  <2>7. CASE live[n] = Alien
    <3>1. AlienInv'
      BY <1>0, <1>1, <2>1, <2>4, <2>5, AlienLost
    <3>2. Overtaken
      BY <2>1, <2>7 DEF Overtaken, n
    <3>3. QED
      BY <1>2, <3>1, <3>2
  <2>8. QED
    BY <2>6, <2>7
<1>3. CASE DoCreate
  <2>1. /\ NextOp.do = "create" /\ disk' = disk /\ NextOp.file # Alien /\ n = Marker
    BY <1>1, <1>3 DEF DoCreate, Doing, GentleOp
  <2>2. live' = [live EXCEPT ![n] = NextOp.file] /\ todo' = Tail(todo)
    BY <1>3 DEF DoCreate, Proceed, Created
  <2>3. live[n] # Alien /\ n \notin CurNames
    BY <1>0, <2>1, HeldApart, CurIsName DEF CurNames
  <2>4. \A r \in Resource : entry[r] \in Token /\ live'[Kept(r)] = Alien => live[Kept(r)] = Alien
    BY <1>0, <2>1, <2>2, QuarIsName, FactsAssumption DEF Kept, Tree
  <2>5. Gentle(todo)'
    BY <1>0, <1>1, <2>1, <2>2, <2>4, TailGentle
  <2> HIDE DEF n
  <2>6. n \in Name
    BY <1>1 DEF n
  <2>7. QED
    BY <1>1, <2>1, <2>2, <2>3, <2>5, <2>6, AlienApart
<1>4. CASE DoFsync
  <2>1. /\ NextOp.do = "fsync" /\ live' = live /\ disk' = Synced(live, disk, n)
        /\ todo' = Tail(todo)
    BY <1>4 DEF DoFsync, Doing, Proceed
  <2>2. Gentle(todo)'
    BY <1>0, <1>1, <2>1, TailGentle
  <2>3. QED
    BY <1>1, <2>1, <2>2, AlienStay
<1>5. CASE DoCheck \/ DoRefuse
  <2>1. /\ live' = live /\ disk' = disk
        /\ todo' = <<>> \/ (todo' = Tail(todo) /\ NextOp.do = "check")
    BY <1>5 DEF DoCheck, DoRefuse, Doing, files, Refuse, Leave, Proceed
  <2>2. Gentle(todo)'
    BY <1>0, <1>1, <2>1, TailGentle, NothingGentle
  <2>3. QED
    BY <1>1, <2>1, <2>2, AlienStay
<1>6. QED
  BY <1>v, <1>2, <1>3, <1>4, <1>5, RenameAliens, CapturedAliens DEF Perform

LEMMA InitAliens == Init => AlienInv
<1> SUFFICES ASSUME Init PROVE AlienInv
  OBVIOUS
<1>1. AlienNames(live) = {} /\ AlienNames(disk) = {}
  BY FactsAssumption DEF Init, AlienNames
<1>2. \A n \in Name : live[n] # Alien
  BY <1>1 DEF AlienNames
<1>3. QED
  BY <1>1, <1>2, MarkerGentle, FS_EmptySet DEF Init, AlienInv, AliensHeld, Backed

\* A page is committed and its entries change: none of them was captured.
LEMMA CommitAliens ==
    ASSUME TypeOK, AlienInv, live' = live, disk' = disk, todo' = <<>>,
           \A r \in Resource :
              entry'[r] = entry[r] \/ live[Kept(r)] # Alien \/ ~Stranded(live, disk, r)
    PROVE  AlienInv' /\ AliensKept
<1>0. AliensHeld(live) /\ AliensHeld(disk) /\ Backed(live, disk)
  BY DEF AlienInv
<1>1. \A r \in Resource : live[Kept(r)] = Alien /\ Stranded(live, disk, r) =>
                            Kept(r)' = Kept(r) /\ Stranded(live, disk, r)'
  BY DEF Stranded, Kept
<1>2. Backed(live, disk)'
  BY <1>0, <1>1 DEF Backed
<1>3. AlienNames(live)' = AlienNames(live) /\ AlienNames(disk)' = AlienNames(disk)
  BY DEF AlienNames
<1>4. AliensHeld(live)' /\ AliensHeld(disk)'
  BY <1>0, <1>3 DEF AliensHeld
<1>5. AliensKept
  <2>1. Cardinality(AlienNames(live)) \in Nat
    BY <1>0, FS_CardinalityType DEF AliensHeld
  <2>2. QED
    BY <1>3, <2>1 DEF AliensKept
<1>6. Gentle(todo)'
  BY NothingGentle
<1>7. QED
  BY <1>0, <1>2, <1>3, <1>4, <1>5, <1>6 DEF AlienInv

LEMMA ForeignAliens ==
    ASSUME TypeOK, AlienInv, NEW r \in Resource, ForeignWrite(r)
    PROVE  AlienInv' /\ AliensKept
<1>0. /\ live \in Tree /\ disk \in Tree /\ AliensHeld(live) /\ AliensHeld(disk)
      /\ Backed(live, disk) /\ Gentle(todo)
  BY DEF TypeOK, Tree, AlienInv
<1> DEFINE now == [live EXCEPT ![Cur(r)] = Alien]
           safe == [disk EXCEPT ![Cur(r)] = Alien]
<1>1. /\ live' = now /\ disk' = safe /\ entry' = entry /\ todo' = todo /\ faults' = faults + 1
      /\ faults \in Nat /\ faults' # faults
  BY DEF ForeignWrite, journal, call, TypeOK
<1>2. Cur(r) \in Name /\ Cur(r) \in CurNames
  BY CurIsName DEF CurNames
<1>3. /\ now[Cur(r)] = Alien /\ safe[Cur(r)] = Alien
      /\ \A x \in Name : x # Cur(r) => now[x] = live[x] /\ safe[x] = disk[x]
  BY <1>0, <1>2 DEF Tree
<1> HIDE DEF now, safe
<1>4. /\ AlienNames(now) = AlienNames(live) \cup {Cur(r)}
      /\ AlienNames(safe) = AlienNames(disk) \cup {Cur(r)}
  BY <1>2, <1>3 DEF AlienNames
<1>5. AliensHeld(now) /\ AliensHeld(safe)
  <2>1. IsFiniteSet(AlienNames(live) \cup {Cur(r)}) /\ IsFiniteSet(AlienNames(disk) \cup {Cur(r)})
    BY <1>0, FS_AddElement DEF AliensHeld
  <2>2. QED
    BY <1>0, <1>2, <1>4, <2>1 DEF AliensHeld
<1>6. Backed(now, safe)
  <2>1. ASSUME NEW x \in Name, now[x] = Alien
        PROVE  safe[x] = Alien \/ \E q \in Resource : x = Kept(q) /\ Stranded(now, safe, q)
    <3>1. CASE x = Cur(r)
      BY <1>3, <3>1
    <3>2. CASE x # Cur(r)
      <4>1. live[x] = Alien /\ safe[x] = disk[x]
        BY <1>3, <2>1, <3>2
      <4>2. ASSUME NEW q \in Resource, Stranded(live, disk, q) PROVE Stranded(now, safe, q)
        BY <1>3, <4>2, CurIsName DEF Stranded
      <4>3. QED
        BY <1>0, <4>1, <4>2 DEF Backed
    <3>3. QED
      BY <3>1, <3>2
  <2>2. QED
    BY <2>1 DEF Backed
<1>7. Gentle(todo)'
  <2>1. \A q \in Resource : entry[q] \in Token => live'[Kept(q)] = live[Kept(q)]
    BY <1>1, <1>3, NamesDiffer, QuarIsName, FactsAssumption DEF Kept
  <2>2. QED
    BY <1>0, <1>1, <2>1, KeptGentle
<1>8. AlienNames(now) # {}
  BY <1>4
<1>9. QED
  BY <1>1, <1>5, <1>6, <1>7, <1>8, AlienStep

LEMMA LossAliens ==
    ASSUME TypeOK, AlienInv, PowerLoss
    PROVE  AlienInv' /\ AliensKept
<1>0. /\ live \in Tree /\ disk \in Tree /\ AliensHeld(live) /\ AliensHeld(disk)
      /\ Backed(live, disk)
  BY DEF TypeOK, Tree, AlienInv
<1>1. PICK tree \in PowerLossTrees(live, disk) : live' = tree /\ disk' = tree
  BY DEF PowerLoss
<1>2. entry' = entry /\ todo' = <<>> /\ faults' # faults
  BY DEF PowerLoss, Leave, journal, TypeOK
<1>3. /\ AliensHeld(tree) /\ Backed(tree, tree)
      /\ AlienNames(live) # {} => AlienNames(tree) # {}
  BY <1>0, AliensAfterLoss
<1>4. QED
  BY <1>1, <1>2, <1>3, NothingGentle, AlienStep

\* The bytes of a token come to its staging leaf, or leave it.
LEMMA TokenAliens ==
    ASSUME TypeOK, AlienInv, NEW t \in Token, Protect(t) \/ Release(t)
    PROVE  AlienInv' /\ AliensKept
<1>0. live \in Tree /\ disk \in Tree /\ AliensHeld(live) /\ Gentle(todo)
  BY DEF TypeOK, Tree, AlienInv
<1>1. /\ Stage(t) \in Name /\ Stage(t) \notin CurNames \cup QuarNames /\ live[Stage(t)] # Alien
  BY <1>0, HeldApart, StageIsName, NamesDiffer DEF CurNames, QuarNames
<1>2. PICK c \in {t, NoFile} : /\ live' = [live EXCEPT ![Stage(t)] = c]
                               /\ disk' = [disk EXCEPT ![Stage(t)] = c]
  BY DEF Protect, Release, Unlinked
<1>3. entry' = entry /\ todo' = todo /\ c \in Content /\ c # Alien
  BY <1>2, TokenIsContent, FactsAssumption DEF Protect, Release, call, Content
<1>4. \A r \in Resource : entry[r] \in Token => live'[Kept(r)] = live[Kept(r)]
  BY <1>0, <1>1, <1>2, QuarIsName, NamesDiffer, FactsAssumption DEF Kept, Tree
<1>5. Gentle(todo)'
  BY <1>0, <1>3, <1>4, KeptGentle
<1>6. QED
  BY <1>1, <1>2, <1>3, <1>5, AlienApart

\* The actions that leave the files as they are, and the script or its end.
Quiet ==
    \/ BeginNew \/ BeginResumed \/ ActivatePage \/ Seal \/ CommitActivating
    \/ ReconcileActivating \/ ReservePendingInstalls \/ ListStale \/ ReservePendingRemovals
    \/ FinishReconcile \/ AdvanceHead \/ MarkerRemoved \/ Finalize \/ Interrupt
    \/ (\E m \in Manifest : Issue(m))
    \/ UNCHANGED vars

LEMMA QuietAliens ==
    ASSUME TypeOK, AlienInv, Quiet
    PROVE  AlienInv' /\ AliensKept
<1>1. entry' = entry /\ live' = live
  BY DEF Quiet, BeginNew, BeginResumed, ActivatePage, Seal, CommitActivating,
     ReconcileActivating, ReservePendingInstalls, ListStale, ReservePendingRemovals,
     FinishReconcile, AdvanceHead, MarkerRemoved, Finalize, Interrupt, Issue, vars, journal, files
<1>2. disk' = disk \/ \E n \in Name : disk' = Synced(live, disk, n)
  BY MarkerIsName
     DEF Quiet, BeginNew, BeginResumed, ActivatePage, Seal, CommitActivating,
     ReconcileActivating, ReservePendingInstalls, ListStale, ReservePendingRemovals,
     FinishReconcile, AdvanceHead, MarkerRemoved, Finalize, Interrupt, Issue, vars, journal, files
<1>3. todo' = todo \/ todo' = <<>>
  BY DEF Quiet, BeginNew, BeginResumed, ActivatePage, Seal, CommitActivating,
     ReconcileActivating, ReservePendingInstalls, ListStale, ReservePendingRemovals,
     FinishReconcile, AdvanceHead, MarkerRemoved, Finalize, Interrupt, Issue, vars, call,
     Refuse, Leave
<1>4. Gentle(todo)'
  BY <1>1, <1>3, KeptGentle, NothingGentle DEF AlienInv
<1>5. QED
  BY <1>1, <1>2, <1>4, AlienStay

\* The actions that plan a script.
Planning ==
    \/ BeginCompleted \/ ReconcileSealed \/ StartInstall \/ StartRemoval \/ Complete

LEMMA PlanningAliens ==
    ASSUME TypeOK, ControlInv, PagesFitRows, AlienInv, Planning
    PROVE  AlienInv' /\ AliensKept
<1>1. entry' = entry /\ live' = live
  BY DEF Planning, BeginCompleted, ReconcileSealed, StartInstall, StartRemoval, Complete,
     journal, files
<1>2. disk' = disk \/ \E n \in Name : disk' = Synced(live, disk, n)
  BY MarkerIsName
     DEF Planning, BeginCompleted, ReconcileSealed, StartInstall, StartRemoval, Complete, files
<1>3. Gentle(todo)'
  <2>1. CASE BeginCompleted
    <3>1. pub.rev \in Revision /\ todo' = RemoveMarker(pub.rev)
      BY <2>1 DEF BeginCompleted, TypeOK, Revision
    <3>2. QED
      BY <1>1, <3>1, MarkerGentle, SameGentle
  <2>2. CASE ReconcileSealed
    <3>1. pending \in Revision /\ todo' = WriteMarker
      BY <2>2 DEF ReconcileSealed, TypeOK, Revision, ControlInv, JournalReadable
    <3>2. QED
      BY <1>1, <3>1, MarkerGentle, SameGentle
  <2>3. CASE StartInstall
    <3>1. PICK p \in page : todo' = PerformPendingInstall(p) /\ step = "install"
      BY <2>3 DEF StartInstall
    <3>2. p \in Plan /\ p.old = entry[p.res]
      BY <3>1 DEF TypeOK, PagesFitRows
    <3>3. QED
      BY <1>1, <3>1, <3>2, InstallGentle, SameGentle
  <2>4. CASE StartRemoval
    <3>1. PICK p \in page : todo' = PerformPendingRemoval(p) /\ step = "remove"
      BY <2>4 DEF StartRemoval
    <3>2. p \in Plan /\ p.old = entry[p.res] /\ p.old \in Token /\ p.digest = DigestOf[p.old]
      BY <3>1 DEF TypeOK, PagesFitRows, ControlInv, PagesAreDisjoint
    <3>3. QED
      BY <1>1, <3>1, <3>2, RemovalGentle, SameGentle
  <2>5. CASE Complete
    <3>1. CASE todo' = <<>>
      BY <3>1, NothingGentle
    <3>2. CASE todo' = RemoveMarker(pending) /\ live[Marker] = pending
      <4>1. pending \in Revision
        BY <2>5 DEF Complete, TypeOK, Revision, ControlInv, JournalReadable, StepFitsPhase
      <4>2. QED
        BY <1>1, <3>2, <4>1, MarkerGentle, SameGentle
    <3>3. QED
      BY <2>5, <3>1, <3>2 DEF Complete, Refuse, Leave
  <2>6. QED
    BY <2>1, <2>2, <2>3, <2>4, <2>5 DEF Planning
<1>4. QED
  BY <1>1, <1>2, <1>3, AlienStay

LEMMA InstalledAliens ==
    ASSUME TypeOK, PagesFitRows, AlienInv, CommitPendingInstalls
    PROVE  AlienInv' /\ AliensKept
<1>1. live' = live /\ disk' = disk /\ todo' = <<>>
  BY DEF CommitPendingInstalls, files, Refuse, Leave
<1>2. CASE entry' = entry
  BY <1>1, <1>2, CommitAliens
<1>3. CASE /\ entry' = InstalledEntries
           /\ \A p \in page : live[Cur(p.res)] = Outcome(p)
  <2>1. ASSUME NEW r \in Resource, Stranded(live, disk, r) PROVE entry'[r] = entry[r]
    <3>1. ~InPage(r)
      <4>1. SUFFICES ASSUME NEW p \in page, p.res = r PROVE FALSE
        BY DEF InPage
      <4>2. p.old = entry[r] /\ p \in Plan /\ p.old \in Token
        BY <2>1, <4>1 DEF CommitPendingInstalls, PagesFitRows, TypeOK, Stranded
      <4>3. Outcome(p) \in {NoFile, Alien}
        BY <1>3, <2>1, <4>1 DEF Stranded
      <4>4. Outcome(p) \in Token
        BY <4>2 DEF Outcome, Plan
      <4>5. QED
        BY <4>3, <4>4, FactsAssumption
    <3>2. QED
      BY <1>3, <3>1 DEF InstalledEntries
  <2>2. QED
    BY <1>1, <2>1, CommitAliens
<1>4. QED
  BY <1>2, <1>3 DEF CommitPendingInstalls

LEMMA RemovedAliens ==
    ASSUME TypeOK, PagesFitRows, AlienInv, CommitPendingRemovals
    PROVE  AlienInv' /\ AliensKept
<1>1. live' = live /\ disk' = disk /\ todo' = <<>>
  BY DEF CommitPendingRemovals, files, Refuse, Leave
<1>2. CASE entry' = entry
  BY <1>1, <1>2, CommitAliens
<1>3. CASE /\ entry' = [r \in Resource |-> IF InPage(r) THEN NoFile ELSE entry[r]]
           /\ \A p \in page : live[Quar(p.res, p.digest)] = NoFile
  <2>1. ASSUME NEW r \in Resource, live[Kept(r)] = Alien PROVE entry'[r] = entry[r]
    <3>1. ~InPage(r)
      <4>1. SUFFICES ASSUME NEW p \in page, p.res = r PROVE FALSE
        BY DEF InPage
      <4>2. p.old = entry[r] /\ p.digest = DigestOf[p.old]
        BY <4>1 DEF CommitPendingRemovals, PagesFitRows
      <4>3. live[Kept(r)] = NoFile
        BY <1>3, <4>1, <4>2 DEF Kept
      <4>4. QED
        BY <2>1, <4>3, FactsAssumption
    <3>2. QED
      BY <1>3, <3>1
  <2>2. QED
    BY <1>1, <2>1, CommitAliens
<1>4. QED
  BY <1>2, <1>3 DEF CommitPendingRemovals

LEMMA NextLooks ==
    ASSUME TypeOK, AlienInv, LooksForOwn, [Next]_vars
    PROVE  LooksForOwn'
<1> SUFFICES ASSUME verified' # verified, verified' # NoFile PROVE LooksForOwn'
  BY FactsAssumption DEF LooksForOwn
<1>1. ASSUME DoVerify PROVE LooksForOwn'
  <2>1. verified' = NextOp.file /\ NextOp.do = "unlink" /\ todo # <<>>
    BY <1>1 DEF DoVerify, Doing, Proceed, Refuse, Leave
  <2>2. NextOp \in GentleOp
    BY <2>1, NextIsGentle DEF AlienInv
  <2>3. QED
    BY <2>1, <2>2 DEF GentleOp, LooksForOwn
<1>2. ~(\E t \in Token : Protect(t) \/ Release(t)) /\ ~(\E m \in Manifest : Issue(m))
      /\ ~(\E r \in Resource : ForeignWrite(r)) /\ ~UNCHANGED vars
  BY DEF Protect, Release, Issue, ForeignWrite, vars, call
<1>3. ~Interrupt /\ ~PowerLoss /\ ~Finalize /\ ~AdvanceHead
      /\ ~BeginNew /\ ~BeginResumed /\ ~BeginCompleted /\ ~ActivatePage /\ ~Seal
      /\ ~ReconcileSealed /\ ~CommitActivating /\ ~ReconcileActivating
  BY DEF Interrupt, PowerLoss, Finalize, AdvanceHead, BeginNew, BeginResumed, BeginCompleted,
     ActivatePage, Seal, ReconcileSealed, CommitActivating, ReconcileActivating, Refuse, Leave,
     call
<1>4. ~ReservePendingInstalls /\ ~StartInstall /\ ~CommitPendingInstalls /\ ~ListStale
      /\ ~ReservePendingRemovals /\ ~StartRemoval /\ ~CommitPendingRemovals /\ ~FinishReconcile
      /\ ~Complete /\ ~MarkerRemoved
  BY DEF ReservePendingInstalls, StartInstall, CommitPendingInstalls, ListStale,
     ReservePendingRemovals, StartRemoval, CommitPendingRemovals, FinishReconcile, Complete,
     MarkerRemoved, Refuse, Leave
<1>5. ~(DoRename \/ DoUnlink \/ DoCreate \/ DoFsync \/ DoCheck \/ DoCaptured \/ DoRefuse)
  BY DEF DoRename, DoUnlink, DoCreate, DoFsync, DoCheck, DoCaptured, DoRefuse, Proceed, Refuse,
     Leave
<1>6. QED
  BY <1>1, <1>2, <1>3, <1>4, <1>5 DEF Next, CoreNext, ActivatorNext, Perform

LEMMA NextAliens ==
    ASSUME TypeOK, ControlInv, PagesFitRows, AlienInv, LooksForOwn, [Next]_vars
    PROVE  AlienInv' /\ (AliensKept \/ (Overtaken /\ DoUnlink))
<1>1. ASSUME NEW t \in Token, Protect(t) \/ Release(t) PROVE AlienInv' /\ AliensKept
  BY <1>1, TokenAliens
<1>2. CASE Quiet
  BY <1>2, QuietAliens
<1>3. CASE Planning
  BY <1>3, PlanningAliens
<1>4. CASE CommitPendingInstalls
  BY <1>4, InstalledAliens
<1>5. CASE CommitPendingRemovals
  BY <1>5, RemovedAliens
<1>6. CASE Perform
  BY <1>6, PerformAliens
<1>7. CASE PowerLoss
  BY <1>7, LossAliens
<1>8. ASSUME NEW r \in Resource, ForeignWrite(r) PROVE AlienInv' /\ AliensKept
  BY <1>8, ForeignAliens
<1>9. QED
  BY <1>1, <1>2, <1>3, <1>4, <1>5, <1>6, <1>7, <1>8
     DEF Next, CoreNext, ActivatorNext, Quiet, Planning

\* Whoever writes below current/ and whenever, no step of the adapter destroys
\* the bytes: a foreign file that a capture moves aside, because it came between
\* the look and the move, is moved back or kept (library.py 3082).  The one
\* exception is a name that somebody replaces after the adapter has verified the
\* file there and before its os.unlink (library.py 4812-4815, 4936-4940).
THEOREM ForeignBytesKept == Spec => ForeignBytesSurvive
<1>1. Init => PagesFitRows /\ AlienInv /\ LooksForOwn
  BY InitAliens, FactsAssumption DEF Init, PagesFitRows, LooksForOwn
<1>2. Inv /\ PagesFitRows /\ AlienInv /\ LooksForOwn /\ [Next]_vars =>
        PagesFitRows' /\ AlienInv' /\ LooksForOwn'
  BY NextPages, NextAliens, NextLooks DEF Inv
<1>3. Spec => [](PagesFitRows /\ AlienInv /\ LooksForOwn)
  BY <1>1, <1>2, Invariance, PTL DEF Spec
<1>4. Inv /\ PagesFitRows /\ AlienInv /\ LooksForOwn /\ [Next]_vars =>
        [\/ /\ Linked(live, Alien) => Linked(live', Alien)
            /\ faults' = faults =>
                 Cardinality(AlienNames(live)) <= Cardinality(AlienNames(live'))
         \/ Overtaken /\ DoUnlink]_vars
  BY NextAliens DEF Inv, AliensKept, Linked, AlienNames
<1>5. QED
  BY <1>3, <1>4, Invariance, PTL DEF Spec, ForeignBytesSurvive

=============================================================================
