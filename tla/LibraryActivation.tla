------------------------- MODULE LibraryActivation -------------------------
(***************************************************************************)
(* Activation of one catalog revision in the managed library directory:    *)
(* ManagedFilesystemLibraryAdapter.begin .. complete (library.py) driven   *)
(* by the core's publication loop (service.py synchronize_publication).    *)
(*                                                                         *)
(* The journal (SQLite, synchronous = FULL) commits atomically; directory  *)
(* changes become durable only when their directory is fsynced.  The       *)
(* process may be interrupted, and the machine may lose power, between any *)
(* two system calls.                                                       *)
(***************************************************************************)
EXTENDS LibraryFiles

CONSTANTS
    Limit,          \* page size of activate_page and reconcile_page
    MaxFaults,      \* bound: interruptions, power losses, foreign writes
    Foreign,        \* may somebody else write below current/ ?
    NoDigest        \* the digest of a resource a revision does not contain

ASSUME LimitAssumption ==
    /\ Limit \in Nat \ {0}
    /\ MaxFaults \in Nat
    /\ Foreign \in BOOLEAN
    /\ NoDigest \notin Digest

Manifest == [Resource -> Digest \cup {NoDigest}]
EmptyManifest == [r \in Resource |-> NoDigest]
NoPublication == [rev |-> 0, files |-> EmptyManifest]

VARIABLES
    \* the journal: library_state, protection_tokens and the entry tables
    phase, current, pending, cursor,
    tok, entry, pend, stale,
    \* the directory tree, as seen and as durable
    live, disk,
    \* the activator: where its call stands, the plans of its page, the
    \* resources of the page it has not started, its next system calls, and
    \* the file it has verified and is about to unlink
    step, page, left, todo, verified,
    \* the core's catalog: reader head and the publication being activated
    head, shown, pub,
    \* an adapter call raised RuntimeError; faults so far
    refused, faults

journal == <<phase, current, pending, cursor, tok, entry, pend, stale>>
files == <<live, disk>>
call == <<step, page, left, todo, verified>>
catalog == <<head, shown, pub>>
vars == <<journal, files, call, catalog, refused, faults>>

-----------------------------------------------------------------------------
(* Rows of the journal. *)

NoRow == [digest |-> NoDigest, started |-> FALSE, activated |-> FALSE]
PendRow == [digest: Digest \cup {NoDigest}, started: BOOLEAN, activated: BOOLEAN]
EmptyRows == [r \in Resource |-> NoRow]
NoStale == [r \in Resource |-> "none"]

Spooled(r) == pend[r].digest # NoDigest

StagedTokens(r, d) ==
    {t \in Token : ResOf[t] = r /\ DigestOf[t] = d /\ tok[t] = "STAGED"}

\* _staged_candidate_authority; at most one row per path is STAGED.
StagedCandidate(r, d) ==
    IF StagedTokens(r, d) = {} THEN NoFile ELSE CHOOSE t \in StagedTokens(r, d) : TRUE

\* The first Limit members of a set of resources, in key order.
FirstPage(S) == {r \in S : Cardinality({q \in S : q < r}) < Limit}

-----------------------------------------------------------------------------
(* The system calls of each filesystem routine, as decided from the tree   *)
(* the routine finds.  A routine that raises ends in RefuseOp.             *)

\* _heal_same_inode_rename_duplicate: both names must be the inode f.
Heal(src, dst, f) ==
    IF live[src] = f /\ live[dst] = f
    THEN <<FsyncOp(dst), FsyncOp(src), UnlinkOp(src, f), FsyncOp(src), FsyncOp(dst)>>
    ELSE <<RefuseOp>>

\* _quarantine_current: move first, then look at what was moved
QuarantineCurrent(r, q, old) ==
    <<RenameOp(Cur(r), q, old), FsyncOp(q), FsyncOp(Cur(r)), CapturedOp(q, Cur(r), old)>>

\* _fsync_recovered_capture
FsyncRecoveredCapture(r, q) == <<FsyncOp(q), FsyncOp(Cur(r))>>

\* Mutation: make room by unlinking the old file instead of moving it aside.
CaptureByUnlink(r, old) == <<UnlinkOp(Cur(r), old), FsyncOp(Cur(r))>>

\* _capture_replaced_current
CaptureReplacedCurrent(r, old) ==
    LET q == Quar(r, DigestOf[old])
        at == live[Cur(r)]
    IN
    CASE live[q] # NoFile /\ at # NoFile -> Heal(Cur(r), q, old)
      [] live[q] = old /\ at = NoFile    -> FsyncRecoveredCapture(r, q)
      [] live[q] = NoFile /\ at = old    -> QuarantineCurrent(r, q, old)
      [] OTHER                           -> <<RefuseOp>>

\* the end of both install routines: rename, sync both sides, verify
MoveStageIn(r, t) ==
    <<RenameOp(Stage(t), Cur(r), t), FsyncOp(Cur(r)), FsyncOp(Stage(t)),
      CheckOp(Cur(r), t)>>

CaptureThenMoveIn(p) ==
    IF p.old = NoFile THEN MoveStageIn(p.res, p.staged)
    ELSE CaptureReplacedCurrent(p.res, p.old) \o MoveStageIn(p.res, p.staged)

\* _install_fresh_staged
InstallFreshStaged(p) ==
    IF live[Stage(p.staged)] = p.staged /\ live[Cur(p.res)] = p.old
    THEN CaptureThenMoveIn(p)
    ELSE <<RefuseOp>>

\* Mutation: a rename found already done is taken to be durable.
TrustRecoveredInstall(p) == <<>>

\* _fsync_recovered_install
FsyncRecoveredInstall(p) == <<FsyncOp(Cur(p.res)), FsyncOp(Stage(p.staged))>>

\* Mutation: replay a reserved resource as if nothing had been done to it.
InstallReplayedAsFresh(p) == InstallFreshStaged(p)

\* _install_staged for a resource that an earlier call already reserved
InstallReplayed(p) ==
    LET at == live[Cur(p.res)]
        from == live[Stage(p.staged)]
        quarantined == IF p.old = NoFile THEN NoFile
                       ELSE live[Quar(p.res, DigestOf[p.old])]
    IN
    CASE at \notin {NoFile, p.old} /\ from # NoFile ->
            Heal(Stage(p.staged), Cur(p.res), p.staged)
      [] at = p.staged /\ from = NoFile /\ quarantined \in {NoFile, p.old} ->
            FsyncRecoveredInstall(p)
      [] at \in {NoFile, p.old} /\ from = p.staged -> CaptureThenMoveIn(p)
      [] OTHER -> <<RefuseOp>>

\* Mutation: the quarantine directory is not synced after the unlink.
UnlinkQuarantinedUnsynced(r, old) == <<UnlinkOp(Quar(r, DigestOf[old]), old)>>

\* _unlink_quarantined: unlink the old bytes, or make their absence durable
UnlinkQuarantined(r, old) ==
    LET q == Quar(r, DigestOf[old]) IN <<UnlinkOp(q, old), FsyncOp(q)>>

\* _retire_replaced_current
RetireReplacedCurrent(p) ==
    IF p.old = NoFile THEN <<>> ELSE UnlinkQuarantined(p.res, p.old)

\* _perform_pending_install
PerformPendingInstall(p) ==
    CASE p.staged = NoFile ->
            IF /\ p.old # NoFile
               /\ DigestOf[p.old] = p.digest
               /\ live[Quar(p.res, p.digest)] = NoFile
               /\ live[Cur(p.res)] = p.old
            THEN <<>>
            ELSE <<RefuseOp>>
      [] p.staged # NoFile /\ p.fresh  -> InstallFreshStaged(p) \o RetireReplacedCurrent(p)
      [] p.staged # NoFile /\ ~p.fresh -> InstallReplayed(p) \o RetireReplacedCurrent(p)

\* _perform_pending_removal
PerformPendingRemoval(p) ==
    LET q == Quar(p.res, p.digest)
        at == live[Cur(p.res)]
        retire == UnlinkQuarantined(p.res, p.old)
    IN
    CASE p.fresh /\ (at # p.old \/ live[q] # NoFile) -> <<RefuseOp>>
      [] at # NoFile /\ live[q] # NoFile ->
            Heal(Cur(p.res), q, p.old) \o FsyncRecoveredCapture(p.res, q) \o retire
      [] at = p.old /\ live[q] = NoFile -> QuarantineCurrent(p.res, q, p.old) \o retire
      [] at = NoFile /\ live[q] \in {NoFile, p.old} ->
            FsyncRecoveredCapture(p.res, q) \o retire
      [] OTHER -> <<RefuseOp>>

\* Mutation: the marker's directory is not synced.
WriteMarkerUnsynced == IF live[Marker] = NoFile THEN <<CreateOp(Marker, pending)>> ELSE <<>>

\* _write_marker; an existing marker is only verified and synced again
WriteMarker ==
    CASE live[Marker] = NoFile  -> <<CreateOp(Marker, pending), FsyncOp(Marker)>>
      [] live[Marker] = pending -> <<FsyncOp(Marker)>>
      [] OTHER                  -> <<RefuseOp>>

\* _remove_marker, or _replay_removed_marker when the marker is already gone
RemoveMarker(rev) ==
    <<FsyncOp(Marker), UnlinkOp(Marker, rev), FsyncOp(Marker)>>

-----------------------------------------------------------------------------
(* State of one activation call.  Between calls "step" is the checkpoint   *)
(* the adapter last returned to the core (_checkpoint, library.py 3971).   *)

Checkpoints == {"SPOOL", "RECONCILE", "READY", "COMPLETE"}
Steps == Checkpoints \cup
    {"out",                             \* publication_guard is not held
     "mark",                            \* writing the marker, SEALED
     "reserve", "install",              \* _activate_pending
     "list", "reserveStale", "remove",  \* pending_removals, _remove_stale
     "finish",                          \* the last check of reconcile_page
     "unmarkBegin", "unmarkComplete"}   \* removing the marker

Plan == [res: Resource, digest: Digest,
         staged: Token \cup {NoFile}, old: Token \cup {NoFile}, fresh: BOOLEAN]

CheckpointOf(ph) ==
    CASE ph = "OPEN" -> "SPOOL"
      [] ph \in {"SEALED", "ACTIVATING"} -> "RECONCILE"
      [] ph = "READY" -> "READY"

\* Leaving publication_guard releases the lock and forgets the call.
Leave ==
    /\ step' = "out"
    /\ page' = {}
    /\ left' = {}
    /\ todo' = <<>>
    /\ verified' = NoFile

Refuse == Leave /\ refused' = TRUE

Init ==
    /\ phase = "IDLE" /\ current = 0 /\ pending = 0 /\ cursor = 0
    /\ tok = [t \in Token |-> "none"]
    /\ entry = [r \in Resource |-> NoFile]
    /\ pend = EmptyRows /\ stale = NoStale
    /\ live = [n \in Name |-> NoFile] /\ disk = live
    /\ step = "out" /\ page = {} /\ left = {} /\ todo = <<>> /\ verified = NoFile
    /\ head = 0 /\ shown = EmptyManifest /\ pub = NoPublication
    /\ refused = FALSE /\ faults = 0

-----------------------------------------------------------------------------
(* The core, external to src/: it protects bytes, releases protections it  *)
(* no longer needs, and issues one publication at a time whose changed     *)
(* resources all have staged bytes.                                        *)

\* protect(), whole: it ends with the token STAGED and its bytes durable.
\* At most one unfinished token may hold a storage path (library.py 641).
Protect(t) ==
    /\ step = "out"
    /\ tok[t] = "none"
    /\ \A u \in Token : ResOf[u] = ResOf[t] => tok[u] # "STAGED"
    /\ tok' = [tok EXCEPT ![t] = "STAGED"]
    /\ live' = [live EXCEPT ![Stage(t)] = t]
    /\ disk' = [disk EXCEPT ![Stage(t)] = t]
    /\ UNCHANGED <<phase, current, pending, cursor, entry, pend, stale,
                   call, catalog, refused, faults>>

\* Mutation: the journal is not asked whether an activation needs the token.
BlocksNoRelease(t) == FALSE

BlocksRelease(t) ==
    LET row == pend[ResOf[t]] IN
    /\ pending # 0 /\ tok[t] # "none"
    /\ row.digest = DigestOf[t] /\ ~row.activated

\* release(), whole: the token ends RELEASED with no bytes and no leaf.
\* External assumption: until the spool is sealed the core itself keeps the
\* protections of the publication it issued; from then on the journal does.
Release(t) ==
    /\ step = "out"
    /\ tok[t] # "RELEASED"
    /\ ~BlocksRelease(t)
    /\ ~(/\ phase \in {"IDLE", "OPEN"}
         /\ pub.files[ResOf[t]] = DigestOf[t])
    /\ tok' = [tok EXCEPT ![t] = "RELEASED"]
    /\ live' = Unlinked(live, Stage(t))
    /\ disk' = Unlinked(disk, Stage(t))
    /\ UNCHANGED <<phase, current, pending, cursor, entry, pend, stale,
                   call, catalog, refused, faults>>

Issue(m) ==
    /\ pub = NoPublication
    /\ head < MaxRevision
    /\ \A r \in Resource :
          m[r] # NoDigest => m[r] = shown[r] \/ StagedTokens(r, m[r]) # {}
    /\ pub' = [rev |-> head + 1, files |-> m]
    /\ UNCHANGED <<journal, files, call, head, shown, refused, faults>>

\* The reader-head compare-and-swap, between READY and complete().
AdvanceHead ==
    /\ step = "READY"
    /\ head # pub.rev
    /\ head' = pub.rev
    /\ shown' = pub.files
    /\ UNCHANGED <<journal, files, call, pub, refused, faults>>

\* The core records the publication as final and leaves the guard.
Finalize ==
    /\ step = "COMPLETE"
    /\ pub' = NoPublication
    /\ Leave
    /\ UNCHANGED <<journal, files, head, shown, refused, faults>>

-----------------------------------------------------------------------------
(* begin: take the publication lock and resume this exact activation. *)

BeginNew ==
    /\ step = "out" /\ pub.rev # 0 /\ pending = 0 /\ current < pub.rev
    /\ IF live[Marker] # NoFile
       THEN Refuse /\ UNCHANGED journal
       ELSE /\ phase' = "OPEN" /\ pending' = pub.rev /\ cursor' = 0
            /\ pend' = EmptyRows
            /\ step' = "SPOOL"
            /\ UNCHANGED <<current, tok, entry, stale, page, left, todo, verified, refused>>
    /\ UNCHANGED <<files, catalog, faults>>

BeginResumed ==
    /\ step = "out" /\ pub.rev # 0 /\ pending # 0
    /\ IF \/ pending # pub.rev
          \/ phase # "OPEN" /\ live[Marker] \notin {NoFile, pending}
       THEN Refuse /\ UNCHANGED disk
       ELSE /\ step' = CheckpointOf(phase)
            \* _verify_marker fsyncs the marker it finds
            /\ disk' = IF phase # "OPEN" /\ live[Marker] # NoFile
                       THEN Synced(live, disk, Marker) ELSE disk
            /\ UNCHANGED <<page, left, todo, verified, refused>>
    /\ UNCHANGED <<journal, live, catalog, faults>>

BeginCompleted ==
    /\ step = "out" /\ pub.rev # 0 /\ pending = 0 /\ current = pub.rev
    /\ step' = "unmarkBegin"
    /\ todo' = RemoveMarker(pub.rev)
    /\ UNCHANGED <<journal, files, page, left, verified, catalog, refused, faults>>

-----------------------------------------------------------------------------
(* activate_page and seal. *)

Unspooled == {r \in Resource : pub.files[r] # NoDigest /\ r > cursor}

ActivatePage ==
    LET rows == FirstPage(Unspooled) IN
    /\ step = "SPOOL" /\ phase = "OPEN"
    /\ rows # {}
    /\ pend' = [r \in Resource |->
                  IF r \in rows THEN [NoRow EXCEPT !.digest = pub.files[r]]
                  ELSE pend[r]]
    /\ \E last \in rows : cursor' = last /\ \A r \in rows : r <= last
    /\ UNCHANGED <<phase, current, pending, tok, entry, stale,
                   files, call, catalog, refused, faults>>

\* Mutation: sealing leaves the spool cursor behind.
SealKeepsCursor ==
    /\ step = "SPOOL" /\ phase = "OPEN"
    /\ Unspooled = {}
    /\ phase' = "SEALED"
    /\ step' = "RECONCILE"
    /\ UNCHANGED <<current, pending, cursor, tok, entry, pend, stale, page, left, todo, verified,
                   files, catalog, refused, faults>>

Seal ==
    /\ step = "SPOOL" /\ phase = "OPEN"
    /\ Unspooled = {}
    /\ phase' = "SEALED" /\ cursor' = 0
    /\ step' = "RECONCILE"
    /\ UNCHANGED <<current, pending, tok, entry, pend, stale, page, left, todo, verified,
                   files, catalog, refused, faults>>

-----------------------------------------------------------------------------
(* reconcile_page: fence readers first, then one bounded page. *)

\* SEALED: the marker is durable before ACTIVATING is committed.
ReconcileSealed ==
    /\ step = "RECONCILE" /\ phase = "SEALED"
    /\ step' = "mark"
    /\ todo' = WriteMarker
    /\ UNCHANGED <<journal, files, page, left, verified, catalog, refused, faults>>

CommitActivating ==
    /\ step = "mark" /\ todo = <<>>
    /\ phase' = "ACTIVATING" /\ cursor' = 0
    /\ step' = "reserve"
    /\ UNCHANGED <<current, pending, tok, entry, pend, stale,
                   page, left, todo, verified, files, catalog, refused, faults>>

ReconcileActivating ==
    /\ step = "RECONCILE" /\ phase = "ACTIVATING"
    /\ IF live[Marker] # pending
       THEN Refuse /\ UNCHANGED disk
       ELSE /\ step' = "reserve"
            /\ disk' = Synced(live, disk, Marker)
            /\ UNCHANGED <<page, left, todo, verified, refused>>
    /\ UNCHANGED <<journal, live, catalog, faults>>

\* _reserve_pending_installs: one transaction before any file is touched.
Uninstalled == {r \in Resource : Spooled(r) /\ ~pend[r].activated}

ReservePendingInstalls ==
    LET rows == FirstPage(Uninstalled) IN
    /\ step = "reserve"
    /\ page' = {[res |-> r, digest |-> pend[r].digest,
                 staged |-> StagedCandidate(r, pend[r].digest),
                 old |-> entry[r], fresh |-> ~pend[r].started] : r \in rows}
    /\ left' = rows
    /\ pend' = [r \in Resource |->
                  IF r \in rows THEN [pend[r] EXCEPT !.started = TRUE] ELSE pend[r]]
    /\ step' = IF rows = {} THEN "list" ELSE "install"
    /\ UNCHANGED <<phase, current, pending, cursor, tok, entry, stale, todo, verified,
                   files, catalog, refused, faults>>

\* The next plan of the page, in key order.
IsNext(p) == p \in page /\ p.res \in left /\ \A r \in left : p.res <= r

StartInstall ==
    /\ step = "install" /\ todo = <<>>
    /\ \E p \in page :
         /\ IsNext(p)
         /\ todo' = PerformPendingInstall(p)
         /\ left' = left \ {p.res}
    /\ UNCHANGED <<journal, files, step, page, verified, catalog, refused, faults>>

\* What a performed plan left at the current name, checked again at commit.
Outcome(p) == IF p.staged = NoFile THEN p.old ELSE p.staged
PlanOf(r) == CHOOSE p \in page : p.res = r
InPage(r) == \E p \in page : p.res = r
\* _record_reconcile_cursor_in_transaction, in the page's own transaction
RecordReconcileCursor ==
    \E last \in page : cursor' = last.res /\ \A p \in page : p.res <= last.res

\* Mutation: the digest is bound where the identity belongs.
EntriesOfDigests == [r \in Resource |-> IF InPage(r) THEN PlanOf(r).digest ELSE entry[r]]

InstalledEntries == [r \in Resource |-> IF InPage(r) THEN Outcome(PlanOf(r)) ELSE entry[r]]

CommitPendingInstalls ==
    /\ step = "install" /\ todo = <<>> /\ left = {}
    /\ IF \E p \in page :
            \/ live[Cur(p.res)] # Outcome(p)
            \/ p.staged # NoFile /\ tok[p.staged] # "STAGED"
       THEN Refuse /\ UNCHANGED <<tok, entry, pend, cursor>>
       ELSE /\ tok' = [t \in Token |->
                         IF \E p \in page : p.staged = t THEN "INSTALLED" ELSE tok[t]]
            /\ entry' = InstalledEntries
            /\ pend' = [r \in Resource |->
                          IF InPage(r) THEN [pend[r] EXCEPT !.activated = TRUE]
                          ELSE pend[r]]
            /\ RecordReconcileCursor
            /\ step' = "RECONCILE" /\ page' = {}
            /\ UNCHANGED <<left, todo, verified, refused>>
    /\ UNCHANGED <<phase, current, pending, stale, files, catalog, faults>>

\* The removal page is listed in a transaction of its own, when none is left.
Unwanted == {r \in Resource : entry[r] # NoFile /\ ~Spooled(r)}
Listed == {r \in Resource : stale[r] # "none"}

ListStale ==
    /\ step = "list"
    /\ stale' = [r \in Resource |->
                   IF Listed = {} /\ r \in FirstPage(Unwanted) THEN "listed"
                   ELSE stale[r]]
    /\ step' = "reserveStale"
    /\ UNCHANGED <<phase, current, pending, cursor, tok, entry, pend,
                   page, left, todo, verified, files, catalog, refused, faults>>

ReservePendingRemovals ==
    LET rows == FirstPage(Listed) IN
    /\ step = "reserveStale"
    /\ page' = {[res |-> r, digest |-> DigestOf[entry[r]], staged |-> NoFile,
                 old |-> entry[r], fresh |-> stale[r] = "listed"] : r \in rows}
    /\ left' = rows
    /\ stale' = [r \in Resource |-> IF r \in rows THEN "started" ELSE stale[r]]
    /\ step' = IF rows = {} THEN "finish" ELSE "remove"
    /\ UNCHANGED <<phase, current, pending, cursor, tok, entry, pend, todo, verified,
                   files, catalog, refused, faults>>

StartRemoval ==
    /\ step = "remove" /\ todo = <<>>
    /\ \E p \in page :
         /\ IsNext(p)
         /\ todo' = PerformPendingRemoval(p)
         /\ left' = left \ {p.res}
    /\ UNCHANGED <<journal, files, step, page, verified, catalog, refused, faults>>

CommitPendingRemovals ==
    /\ step = "remove" /\ todo = <<>> /\ left = {}
    /\ IF \E p \in page : \/ live[Cur(p.res)] # NoFile
                          \/ live[Quar(p.res, p.digest)] # NoFile
       THEN Refuse /\ UNCHANGED <<entry, stale, cursor>>
       ELSE /\ entry' = [r \in Resource |-> IF InPage(r) THEN NoFile ELSE entry[r]]
            /\ stale' = [r \in Resource |-> IF InPage(r) THEN "none" ELSE stale[r]]
            /\ RecordReconcileCursor
            /\ step' = "RECONCILE" /\ page' = {}
            /\ UNCHANGED <<left, todo, verified, refused>>
    /\ UNCHANGED <<phase, current, pending, tok, pend, files, catalog, faults>>

FinishReconcile ==
    /\ step = "finish"
    /\ IF Uninstalled # {} \/ Listed # {} \/ Unwanted # {}
       THEN Refuse /\ UNCHANGED <<phase, cursor>>
       ELSE /\ phase' = "READY" /\ cursor' = 0
            /\ step' = "READY"
            /\ UNCHANGED <<page, left, todo, verified, refused>>
    /\ UNCHANGED <<current, pending, tok, entry, pend, stale, files, catalog, faults>>

-----------------------------------------------------------------------------
(* complete: record the revision, then remove the marker. *)

Complete ==
    /\ step = "READY" /\ head = pub.rev
    /\ IF live[Marker] # pending
       THEN Refuse /\ UNCHANGED <<phase, current, pending, cursor, disk>>
       ELSE /\ phase' = "IDLE" /\ current' = pending /\ pending' = 0 /\ cursor' = 0
            /\ disk' = Synced(live, disk, Marker)
            /\ todo' = RemoveMarker(pending)
            /\ step' = "unmarkComplete"
            /\ UNCHANGED <<page, left, verified, refused>>
    /\ UNCHANGED <<tok, entry, pend, stale, live, catalog, faults>>

MarkerRemoved ==
    /\ step \in {"unmarkBegin", "unmarkComplete"} /\ todo = <<>>
    /\ step' = "COMPLETE"
    /\ UNCHANGED <<journal, files, page, left, todo, verified, catalog, refused, faults>>

-----------------------------------------------------------------------------
(* One system call or check of the running routine. *)

NextOp == Head(todo)
Doing(kind) == todo # <<>> /\ NextOp.do = kind

Proceed ==
    /\ todo' = Tail(todo) /\ verified' = NoFile
    /\ UNCHANGED <<step, page, left, refused>>

\* RENAME_NOREPLACE (library.py 4972) fails when the destination exists.
DoRename ==
    /\ Doing("rename")
    /\ IF live[NextOp.src] # NoFile /\ live[NextOp.dst] = NoFile
       THEN live' = Renamed(live, NextOp.src, NextOp.dst) /\ Proceed
       ELSE Refuse /\ UNCHANGED live
    /\ UNCHANGED <<journal, disk, catalog, faults>>

\* Mutation: whatever has the name is taken for the file.
VerifyAnything ==
    /\ Doing("unlink") /\ verified = NoFile
    /\ IF live[NextOp.src] = NoFile THEN Proceed
       ELSE verified' = live[NextOp.src] /\ UNCHANGED <<step, page, left, todo, refused>>
    /\ UNCHANGED <<journal, files, catalog, faults>>

\* An unlink verifies the exact file first; an absent name is left absent.
DoVerify ==
    /\ Doing("unlink") /\ verified = NoFile
    /\ CASE live[NextOp.src] = NoFile -> Proceed
         [] live[NextOp.src] = NextOp.file ->
                verified' = NextOp.file /\ UNCHANGED <<step, page, left, todo, refused>>
         [] OTHER -> Refuse
    /\ UNCHANGED <<journal, files, catalog, faults>>

\* os.unlink takes whatever has the name by then.
DoUnlink ==
    /\ Doing("unlink") /\ verified # NoFile
    /\ live' = Unlinked(live, NextOp.src)
    /\ Proceed
    /\ UNCHANGED <<journal, disk, catalog, faults>>

DoCreate ==
    /\ Doing("create")
    /\ live' = Created(live, NextOp.src, NextOp.file)
    /\ Proceed
    /\ UNCHANGED <<journal, disk, catalog, faults>>

DoFsync ==
    /\ Doing("fsync")
    /\ disk' = Synced(live, disk, NextOp.src)
    /\ Proceed
    /\ UNCHANGED <<journal, live, catalog, faults>>

DoCheck ==
    /\ Doing("check")
    /\ IF live[NextOp.src] = NextOp.file THEN Proceed ELSE Refuse
    /\ UNCHANGED <<journal, files, catalog, faults>>

\* A foreign file caught by the capture is moved back unless its old name is
\* taken again; then both are left for the operator (library.py 3082).
DoCaptured ==
    /\ Doing("captured")
    /\ IF live[NextOp.src] = NextOp.file THEN Proceed /\ UNCHANGED files
       ELSE /\ live' = IF live[NextOp.dst] = NoFile
                       THEN Renamed(live, NextOp.src, NextOp.dst) ELSE live
            /\ disk' = Synced(live', Synced(live', disk, NextOp.dst), NextOp.src)
            /\ Refuse
    /\ UNCHANGED <<journal, catalog, faults>>

DoRefuse ==
    /\ Doing("refuse")
    /\ Refuse
    /\ UNCHANGED <<journal, files, catalog, faults>>

Perform ==
    \/ DoRename \/ DoVerify \/ DoUnlink \/ DoCreate \/ DoFsync \/ DoCheck
    \/ DoCaptured \/ DoRefuse

-----------------------------------------------------------------------------
(* Faults.  An interruption is an exception, a stop request or a killed    *)
(* process: the guard is released and the directories stay as they are.    *)

Interrupt ==
    /\ step # "out" /\ faults < MaxFaults
    /\ faults' = faults + 1
    /\ Leave
    /\ UNCHANGED <<journal, files, catalog, refused>>

PowerLoss ==
    /\ faults < MaxFaults
    /\ live # disk
    /\ \E tree \in PowerLossTrees(live, disk) : live' = tree /\ disk' = tree
    /\ faults' = faults + 1
    /\ Leave
    /\ UNCHANGED <<journal, catalog, refused>>

\* Somebody else replaces, or puts a file at, a current name.
ForeignWrite(r) ==
    /\ Foreign /\ faults < MaxFaults
    /\ live[Cur(r)] # Alien
    /\ live' = [live EXCEPT ![Cur(r)] = Alien]
    /\ disk' = [disk EXCEPT ![Cur(r)] = Alien]
    /\ faults' = faults + 1
    /\ UNCHANGED <<journal, call, catalog, refused>>

CoreNext ==
    \/ \E t \in Token : Protect(t) \/ Release(t)
    \/ \E m \in Manifest : Issue(m)

ActivatorNext ==
    \/ BeginNew \/ BeginResumed \/ BeginCompleted
    \/ ActivatePage \/ Seal
    \/ ReconcileSealed \/ CommitActivating \/ ReconcileActivating
    \/ ReservePendingInstalls \/ StartInstall \/ CommitPendingInstalls
    \/ ListStale \/ ReservePendingRemovals \/ StartRemoval \/ CommitPendingRemovals
    \/ FinishReconcile \/ AdvanceHead \/ Complete \/ MarkerRemoved \/ Finalize
    \/ Perform

Next == CoreNext \/ ActivatorNext \/ Interrupt \/ PowerLoss
        \/ \E r \in Resource : ForeignWrite(r)

Spec == Init /\ [][Next]_vars
FairSpec == Spec /\ WF_vars(ActivatorNext)

-----------------------------------------------------------------------------
TypeOK ==
    /\ phase \in {"IDLE", "OPEN", "SEALED", "ACTIVATING", "READY"}
    /\ current \in 0..MaxRevision /\ pending \in 0..MaxRevision
    /\ cursor \in 0..NumResource
    /\ tok \in [Token -> {"none", "STAGED", "INSTALLED", "RELEASED"}]
    /\ entry \in [Resource -> Token \cup {NoFile}]
    /\ pend \in [Resource -> PendRow]
    /\ stale \in [Resource -> {"none", "listed", "started"}]
    /\ live \in [Name -> Content] /\ disk \in [Name -> Content]
    /\ step \in Steps
    /\ page \subseteq Plan /\ left \subseteq Resource
    /\ todo \in Seq(Op) /\ verified \in Content
    /\ head \in 0..MaxRevision /\ shown \in Manifest
    /\ pub \in [rev: 0..MaxRevision, files: Manifest]
    /\ refused \in BOOLEAN /\ faults \in 0..MaxFaults

\* The bytes a reader finds at the current names.
DigestAt(tree, r) == IF tree[Cur(r)] = NoFile THEN NoDigest ELSE DigestOf[tree[Cur(r)]]

\* A reader that finds no ACTIVATING marker finds exactly the files of the
\* catalog head, whatever was interrupted and whenever power was lost.
UnfencedReadersSeeHead ==
    live[Marker] = NoFile => \A r \in Resource : DigestAt(live, r) = shown[r]

\* What _journal_state (library.py 4002) would refuse as corruption is never
\* committed: a pending revision exactly while an activation is open, and a
\* spool cursor that is exactly the last spooled resource.
JournalReadable ==
    /\ phase = "IDLE" <=> pending = 0
    /\ cursor # 0 => phase \in {"OPEN", "ACTIVATING"}
    /\ phase = "OPEN" =>
         /\ cursor # 0 => Spooled(cursor)
         /\ \A r \in Resource : Spooled(r) <=> r <= cursor /\ pub.files[r] # NoDigest

\* While files are being moved the marker is on disk, not only in memory:
\* readers stay fenced over a power loss in the middle of a page.
FenceIsDurable ==
    phase \in {"ACTIVATING", "READY"} =>
        live[Marker] = pending /\ disk[Marker] = pending

\* A journal that says READY is backed by synced directories: power loss can
\* no longer undo what complete() is about to publish.
ReadyIsDurable ==
    phase = "READY" => \A n \in CurNames \cup QuarNames \cup StageNames : disk[n] = live[n]

\* Replay after any fault never meets a tree its checks refuse.
NeverRefused == ~refused

\* Bytes that no journal row owns are nowhere, not even on disk: a released
\* or installed token has no staging leaf left to come back after power
\* loss, and quarantine holds only what an unfinished operation put there.
NoOrphanBytes ==
    /\ \A t \in Token :
         tok[t] \in {"INSTALLED", "RELEASED", "none"} =>
             live[Stage(t)] = NoFile /\ disk[Stage(t)] = NoFile
    /\ \A r \in Resource, d \in Digest :
         \/ pend[r].started /\ ~pend[r].activated
         \/ stale[r] = "started"
         \/ live[Quar(r, d)] = NoFile /\ disk[Quar(r, d)] = NoFile

\* The replaced bytes stay on disk until the new ones are at the current
\* name on disk: no instant exists at which power loss leaves neither.
OldBytesOutliveReplacement ==
    \A r \in Resource :
        entry[r] # NoFile /\ Spooled(r) /\ ~pend[r].activated =>
            \/ \E n \in {Cur(r), Quar(r, DigestOf[entry[r]])} : disk[n] = entry[r]
            \/ DigestAt(disk, r) = pend[r].digest

(***************************************************************************)
(* Refinement: every behaviour is one of PublishedLibrary, when the marker *)
(* is the fence and the current names are the files.                       *)
(***************************************************************************)
ReaderView ==
    IF live[Marker] # NoFile THEN NoFile
    ELSE [r \in Resource |-> DigestAt(live, r)]

Published == INSTANCE PublishedLibrary
    WITH Manifests <- Manifest, NoFiles <- EmptyManifest, Maintenance <- NoFile,
         view <- ReaderView, headFiles <- shown

\* Readers are served one whole revision after another, never a mixture.
ImplementsPublishedLibrary == Published!Spec

\* Somebody replaced the file between its verification and its unlink.
Overtaken == verified \notin {NoFile, Alien} /\ live[NextOp.src] = Alien

\* Bytes the adapter did not write are never lost to it: moved aside by a
\* capture that raced with the writer they are moved back, or kept in
\* quarantine when their name was taken again.  Only what was put at a name
\* after the adapter had verified the file there, and before it unlinked it,
\* is lost: no check can prevent that (verification/README.md 57).
AlienNames(tree) == {n \in Name : tree[n] = Alien}
ForeignBytesSurvive ==
    [][\/ /\ Linked(live, Alien) => Linked(live', Alien)
          /\ faults' = faults =>
               Cardinality(AlienNames(live)) <= Cardinality(AlienNames(live'))
       \/ Overtaken /\ DoUnlink]_vars

\* An issued publication is eventually what readers see, unfenced.
EventuallyPublished == \A v \in Revision :
    pub.rev = v ~> (head >= v /\ live[Marker] = NoFile /\ pub.rev # v)
=============================================================================
