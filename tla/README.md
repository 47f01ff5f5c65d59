# Verification of h2hdb-ingest

TLA+ models of the parts of h2hdb-ingest in which ordering, failure and
concurrency decide whether the program is correct; TLC configurations that
check them on small instances; and proofs, checked by TLAPS, of what holds for
every value of the constants. Paths below are relative to
`src/h2hdb_ingest/` unless they start with `src/`.

h2hdb-ingest watches a download folder, has a transactional core (the h2hdb
package, not part of this repository) record its galleries, renders them to
CBZ and JPEG files, and publishes those into a *managed library* that readers
open while ingest runs. The core owns the catalog; this repository owns the
files, the journal beside them, the process that drives both, and everything
that has to happen when any of that is interrupted.

## 1. Inventory

| Component | State | Operations | Hard because | Correct when | Module |
| --- | --- | --- | --- | --- | --- |
| Library activation (`library.py`, `_library_journal.py`) | SQLite journal (phase, current and pending revision, cursors, entry/pending/removal/token rows), the files below `current/` and `.h2hdb-state/`, the `ACTIVATING` marker | `begin`, `activate_page`, `seal`, `reconcile_page`, `complete`, all resumable | every system call can be the last one before a crash; directory changes survive a power loss only after an fsync; journal and files cannot change together | readers see one whole revision or the marker; replay accepts whatever is left; no bytes are lost or left without owner | `LibraryFiles`, `LibraryActivation`, `PublishedLibrary` |
| Library protection and cleanup (same files) | token rows (WRITING, STAGED, INSTALLED, RELEASED), staging files and their temporaries, file locks | `protect`, `release`, `maintain_cleanup` | callers race with each other and with cleanup; a temporary may be short or garbled after a power loss | what is reported as stored is durable; no row is forgotten before its bytes; cleanup always gets on | `LibraryFiles`, `LibraryProtection` |
| Library relocation (`library_relocation.py`, `_relocation_files.py`, `_library_maintenance.py`, `relocate.py`) | session row (phase, cursor, root, original marker), records of verified files, the marker | `relocate_library`, in steps | inode identities of the journal are all stale; files must be told apart by bytes in any state a publication left; files may change meanwhile | readers stay out until every row is bound to the right bytes; an interrupted one gets done | `LibraryRelocation` |
| Source scan schedule (`source_schedule.py`) | last change, hard deadline, active ticket | `note_change`, `next_scan_at`, `start_scan`, `finish_scan` | two threads, clocks read before the lock | no change lost, waits bounded, no tight loop | `ScanLedger`, `SourceSchedule` |
| Source change monitor (`source_monitor.py`) | temporary SQLite index of completion markers, a thread | `reconcile` passes | notes changes outside of the transaction that may be rolled back | no change is forgotten, no endless scanning | `ScanLedger`, `SourceMonitor` |
| Synchronization service (`service.py`, `core_source.py`, `policy.py`) | counters of one cycle | `synchronize_once` and its phases | resumes a cut that a predecessor sealed; stops between phases | every stop leaves work another cycle resumes | partly, in `SourceMonitor`, `GalleryObservation` and `LibraryActivation` |
| Ingest session and heartbeat (`session.py`) | receipt, failure, lock, heartbeat thread | `call`, `outside_session`, `renew`, `complete`, `stop` | lost responses, locked database, lease taken by another process | calls carry the newest receipt, failures fence, no deadlock | `IngestSession` |
| Resident loop (`resident.py`, `maintenance.py`, `_source_retry.py`, `storage_capacity.py`) | session slot, waiting state, reobservation hints, stop event | polling, maintenance, claim, attempt, completion | a dozen ways an attempt ends, each with its own way of giving the lease back | work gets published; leases are given back | `ResidentProcess` |
| Runtime and database audit (`runtime.py`, `database_audit.py`, `_resource_cleanup.py`, `__main__.py`) | resources in order, audit session of the core and its heartbeat | build, admission, renewal, close, acknowledgement | an error in the last close of five resources decides what the first recorded | only a faultless process is recorded as clean | `ResidentProcess` |
| Disk scratch (`scratch.py`) | run directories, owner files, their locks | `__enter__`, `cleanup_page`, `__exit__` | several processes clean up after each other's deaths | nobody removes a live workspace; what the dead leave is removed | `Scratch` |
| Library layout and identity (`_library_layout.py`, `library_identity.py`, `storage.py`, `_storage_paths.py`, `_limits.py`) | none that changes after start | checks | – | refuses foreign trees | not modelled |
| Image qualification, decoding, page workers (`image_qualification.py`, `source_image.py`, `page_workers.py`) | decode slots, the error buffer of the native library, the window of pages in flight, their spools | `__call__`, `load_source_image`, `acquire` | exclusive decodes overtake regular ones; one error buffer for all threads; pages fail while others run | a gallery is excluded only for bad bytes and accepted only when all pages were decoded; slots, threads and buffers are given back | `DecodeSlots`, `PagePipeline` |
| Artifact rendering (`artifact/`) | page buffers of one batch, the archive being written | `_render_archive`, `_render_page_batch`, `_ArchiveScratch` | a page of a batch, a submit or a write fails | every buffer is closed; the archive is whole or discarded | partly, in `PagePipeline` |
| Filesystem source (`filesystem.py`, `core_source.py`) | the inventory of locators, the snapshot of one gallery, the audits of earlier ones | discovery, `gallery_exists`, `observe_gallery`, `list_files` and its siblings, `content_parts`, `observe_completion_marker` | the folder is downloaded to, edited, moved and unmounted between any two system calls | inventories have what stayed, absence is real, what is accepted was there at one moment and complete | `SourceFolder`, `SourceDiscovery`, `GalleryObservation` |
| Progress and metrics, diagnostics, configuration | observation only | formatting, logging | – | documented as never being authority | not modelled |
| Bootstrap (`bootstrap.py`) | none of its own | one-shot command | – | – | not modelled |

How they interact: the *monitor* notes changes in the *schedule*, which tells
the *resident loop* when a scan is due; the resident maintains library and
catalog, claims an *ingest session*, and runs the *service* inside it; the
service has the core read the *filesystem source* and qualify the pages of
new galleries (*qualification* and *rendering* share the *page pipeline* and its
decode slots), and then call `protect` and `release` (for rendered artifacts) and
`begin` … `complete` (for a publication) of the *library*. The session and
the audit each have a heartbeat thread and a lock shared with it. The *runtime*
owns all of them, the *scratch* directory included, and closes them in order.
*Relocation* is a command of its own that takes the library's exclusive locks
and blocks the runtime until it is done.

The hazards this leaves are listed, each at its line and with the properties
that would catch it, under `hazards` in `PROJECT.json`.

## 2. Plan

Order, most important first. Everything above the line is done. Each further
module uses the vocabulary of the ones before it: `GalleryObservation` extends
`SourceDiscovery`, which extends `SourceFolder`; `PagePipeline` extends
`DecodeSlots`; `SourceMonitor` and `SourceSchedule` meet in `ScanLedger`.

1. `LibraryFiles`, `LibraryActivation`, `PublishedLibrary`: the publication.
2. `LibraryProtection`: where the published bytes come from.
3. `ScanLedger`, `SourceSchedule`, `SourceMonitor`: what is scanned and when.
4. `IngestSession`, `ResidentProcess`: leases, heartbeats, life of a process.
5. `Scratch`, `LibraryRelocation`: recovery around the core path.
6. `SourceFolder`, `SourceDiscovery`, `GalleryObservation`: what is read of a
   folder that changes; `DecodeSlots`, `PagePipeline`: what becomes of its pages.
7. The proofs of section 5: every safety property that a passing run checks, and
   both refinements, in `LibraryActivation_proofs`, `LibraryProtection_proofs`,
   `IngestThreads_proofs` (schedule, monitor and session),
   `LibraryRelocation_proofs`, `ResidentProcess_proofs`, `PagePipeline_proofs`,
   `Scratch_proofs` and `GalleryObservation_proofs`.

---

8. The types of `ResidentProcess` and `LibraryRelocation` as theorems of their own
   (their proofs carry the parts they need).
9. The order of the phases of `service.py` with the stop checks between them.

Abstract specifications: `PublishedLibrary` (implemented by
`LibraryActivation`) and `ScanLedger` (implemented by `SourceSchedule`; its
actions are also the ones `SourceMonitor` is composed with).

## 3. Modules and the code

`map` in `PROJECT.json` gives, for every definition, the lines it stands for.
Definitions under a comment `Mutation:` are not part of a model: they are
wrong versions of the definition that follows, and show that the properties
notice them.

### LibraryFiles and LibraryActivation

A directory tree maps names to what is in them: `Cur(r)`, `Quar(r, d)`,
`Stage(t)` and `Marker`. `live` is what processes see, `disk` what a power loss
finds. A call of the library is a journal transaction (an action) that plans
a script of system calls, then one `Perform` for each of them. An unlink is two
steps, as in the code: `DoVerify` looks at the name and remembers in `verified` that
the right file is there, `DoUnlink` takes whatever has the name by then. `Interrupt`
drops the script anywhere: it stands for exceptions, stop requests and kills.
`PowerLoss` also lets every name changed since its last fsync go back or stay;
a renamed file is under its old name, its new one, or both, never neither.
`ForeignWrite` is another writer below `current/`. Journal transactions are
atomic, as SQLite's are. What the core does (`Issue`, `AdvanceHead`,
`Finalize`) is external and modelled from how this code uses it.

Left to the state: signatures stand for inode, size and times; receipts are
identified with revisions, one to one; the marker's own temporary is part of
its creation; rows of finished revisions, which maintenance deletes, are left
out. `Protect` and `Release` are single steps here: the shared lock they hold
excludes the exclusive lock of every call of an activation. The core does not release a token of a
publication before its spool is sealed. Calling `reconcile_page` again once the phase
is READY changes nothing and is left out. The core moves the reader head only
between READY and `complete`.

### LibraryProtection

Each system call of `protect`, `release` and cleanup is a step of a script;
two writers under the shared lock and per-stripe locks, a cleaner under the
exclusive one. `data` says whether a file is a prefix, garbled or full;
`synced` whether that is durable. There is one staging inode per token. The
branch of the second transaction of `protect` that finds its row RELEASED is
defensive and cannot be reached, as the locks exclude it. An activation that
installs is two steps (`OpenActivation`, `Install`).

### SourceSchedule, SourceMonitor

`SourceSchedule` has the clock and the times each caller has read but not yet
passed on, which arrive out of order. Sequence and generation of a ticket are
not modelled: no decision reads them. `SourceMonitor` composes the untimed
`ScanLedger` with the monitor's passes (one read per gallery, a sweep of rows
not seen, commit or roll back) and the resident's cycles (observe up to a
batch, seal, publish; or resume what a predecessor sealed). A version of a
gallery is a number, even versions are absent; an incomplete gallery is one
whose observation is put off. A restart empties the index and asks for a scan.

### IngestSession

The worker, the heartbeat thread, the lock both use, and the lease of the
core, a number that grows with each renewal. A renewal may take effect and
lose its response, find the database locked, or find the lease gone. The
deadline of retries is counted in tries.

### ResidentProcess

One process after the other, from the admission of its audit session to its
last close. An attempt is one step, ended by any of the outcomes of
`_process_cycle_step`; its threads are `IngestSession`. `clutter` is what
maintenance has to clean before a claim; `backlog` what is to be published;
`outdated` and the hints say which galleries a retry has to observe again
(the hints of a failed attempt may or may not have been kept by the core).
The slot of a crashed predecessor is freed when library maintenance finishes.
`Raise` covers every error that ends the process, lost storage identity
included. The `--once` mode, preflight and postflight checks are left out, and so is
at the start the bounded cleanup of superseded core rows (`resident.py` 226): most of
its failures are only logged, the others end the start as those of the library
maintenance just before it do.

### Scratch

A run is a set of entries (its directory, its data directory, the owner file and
that file's payload, `bytes` and a `foreign` link), seen and durable. One data
file and one link stand for all. The system may write an entry back before anyone
syncs it (`WriteBack`, for the entries in the bound `Early`). `torn` remembers the
runs whose data directory was removed by a process that ended before it had synced
the removal. The owner file's lock is in `owner`; the kernel drops it when a process
dies. A directory listing is what was there when it was opened. Checks against
replaced directories are left out; an error at start or exit is a `Kill`.

### LibraryRelocation

An *item* is a storage path with its rows and the files at its four places, or
a released token. `Init` takes any combination of the situations that an
interrupted protection, activation, removal or release leaves, with at most
`MaxUnusual` items not simply published. There is one token per path; a
signature includes the root, so that inode numbers used again after a copy
are told apart as `same_inode` does with the device. Duplicates that a power
loss leaves in the middle of a rename are not in `Init`: copied, they are two
files, and refusing them is the documented intent. The copy itself is taken to
be durable. Two commands at once exclude each other by locks and are one
command that fails; so are locks that others hold.

### SourceFolder, SourceDiscovery, GalleryObservation

`SourceFolder` is the environment: a downloader that writes pages and, when all
of them are complete, the marker; an owner who edits, replaces, deletes, renames
and moves, with or without keeping modification times; a disk that is unmounted.
Each change takes a new stamp, so a stat never comes back: that is the assumption
under which comparing stats can show anything (change times and inodes are not
set back). The marker is written in one step. Two collections lie below the
root, galleries below them.

`SourceDiscovery` is the walk that fills the table of locators, a step for each
lookup (`_discover_directory`), and `gallery_exists`, which opens one component
after the other and then checks the names that led to them. The stat and the open of
a component are one step, which allows what the code would refuse when the two
differ, and the root is looked at once where the code does so twice.
`GalleryObservation`
is what the core is given of one gallery: the snapshot (`_build_gallery_snapshot`,
one step per entry), the pages of files, the directory and the tags, each checked
against the disk as it is returned, and the last probe of the marker with its
audit of the whole directory. The snapshot may be displaced by that of another
gallery in between (`EvictSnapshot`) and is then built again and compared. Hashing
a file between two equal stats of its descriptor is one step, and so is the check
of a returned page, because no stat comes back: what is unchanged when it is looked
at was unchanged all along, unless directories are swapped there and back between
the stats of a single check. `FilesystemSourceChangedError` defers the gallery;
every other error fails the attempt, which is the same followed by `EndAttempt`.
The order of the core's calls (files, entries, tags, marker) is external.

What is claimed is relative to the root the index was built from: the code
compares the root by identity only at each call, so a disk unmounted and mounted
again in between is the same folder.

### DecodeSlots and PagePipeline

`DecodeSlots` is `load_source_image` of each page thread: the header under a
regular slot, the pixels under a regular or an exclusive one, and after a native
failure everything again alone. `errors` is the error buffer of the native
library, one for the process: successes of others may clear it, failures add
lines, the exception takes it away. `PagePipeline` adds the owner. In mode
`qualify` it spools pages and keeps a window of `Workers` in flight; a bad page
ends the reading, not the taking of results. In mode `render` it hands over whole
batches, writes their images in order and closes them. A call that raised is made
again; an accepted gallery is rendered, so its pages are good. The stream an archive
is written to outlives the call: `EnterScratch` empties it, `DiscardPartial` does so
again after a failure, and both may fail; a call that could not empty it returns
`unclean` (an exception, with or without the note of `_ArchiveScratch.__exit__`), and
its bytes stay for the next one to remove. Which pages are bad (`invalid`) and which
ask for an exclusive decode (`interlaced`) is chosen in `Init`. With one worker the
code renders without a pool, which is the pool of one thread. `buffer` is one
state per page, for its spool or its rendered image. Left out: interrupts
(`KeyboardInterrupt`) of a thread that waits for a slot, and the preflight of the
members, whose failure is that of `EnterScratch`.

## 4. What the runs show

Deadlock is checked in `gallery_observation` and `page_pipeline`, whose models
never stop. It is off in the others because those stop by design at a bound (all
revisions issued, clock at its end, no faults left). `TypeOK` of a module states
the ranges of its variables for the reader and for the proofs; the
configurations leave it out.

| Run | Instance | Shows |
| --- | --- | --- |
| `library_activation` | 2 resources, 2 digests, 3 tokens, 3 revisions, pages of 2, 2 faults, fairness; 211 158 states | `JournalReadable`: no sequence of calls and faults commits what `_journal_state` refuses. `UnfencedReadersSeeHead`: without the marker, readers find exactly the head. `FenceIsDurable`, `ReadyIsDurable`: the marker and the moved files are on disk when the phase says so. `NeverRefused`: replay accepts every tree that faults leave. `NoOrphanBytes`: no bytes without a row, not even on disk. `OldBytesOutliveReplacement`: at no instant would a power loss leave neither old nor new bytes. `EventuallyPublished`: calls that are retried become what readers see. `ImplementsPublishedLibrary`: every behaviour is one of the abstract library. |
| `library_foreign` | the same with 4 tokens, 2 revisions and a foreign writer; 966 818 | `ForeignBytesSurvive`: bytes the adapter did not write are not destroyed by it, unless they were put at a name between its verification and its unlink. |
| `library_protection` | 3 tokens on 2 paths, 2 writers, cleanup of 1 item a call, 2 faults, fairness; 222 418 | `EvidenceIsDurable`, `NoOrphanStaging`, `CleanupNeverRefused`, `ReleasedIsCleaned`. |
| `source_schedule` | quiet 2, maximum 3, clock to 7; 93 660 | `WaitIsBounded`, `RetryBacksOff`, `ImplementsScanLedger`. |
| `source_monitor` | a busy gallery (3 changes) and a quiet one (1), batches of 1, 1 fault, fairness; 565 000 | `NoChangeForgotten`: what the committed index will not report again is published or about to be scanned. `EveryChangeIsPublished`, `Quiesces`. |
| `gallery_observation` | 2 collections with a gallery each, the files of one of them change, 3 entries a gallery, pages of 1, 2 changes; 343 607 | `SteadyGalleriesFound`: what stays is in the inventory. `AbsenceWasReal`: a gallery reported gone was gone. `ObservedAtOnce`: what is accepted was there at one moment. `OnlyFinishedDownloads`: with no page half written. |
| `page_pipeline` | 3 pages, 2 threads, 3 faults, fairness; 148 532 | `RejectedIsInvalid`: only bad bytes are called bad. `ErrorsPropagate`: a bad page hides no other failure. `NothingLeftBehind`: threads, buffers, partial archives, also those that could not be discarded at first. `EventuallySettled`: nobody starves. |
| `ingest_session` | 3 calls, 2 retries, 8 renewals, fairness; 7 220 | `CallsCarryTheNewestReceipt`, `FailureFencesCalls`, `SessionEnds`. |
| `resident_process` | 2 galleries, room for 1 hint, 2 publications, 3 faults, fairness; 198 355 | `AcknowledgedOnlyIfClean`, `LeaseReturned`, `WorkGetsPublished`. |
| `scratch` | 2 processes, 2 runs, pages of 3, 2 faults, early write-back of the bytes, fairness; 502 818 | `LiveWorkspaceKept`, `NoUnownedBytes`, `AbandonedReclaimed`. |
| `library_relocation` | 2 items, 1 unusual, pages of 1, 1 later move, 1 foreign change, any number of kills and power losses, fairness; 473 644 | `ReadersFenced`, `CertifiedIsTrue`, `RelocationCompletes`. |
| `relocation_resumed` | 2 published items, 1 change, fairness | a violation, see below. |

Why the bounds are enough to be interesting. Activation: two resources make a
page that is half done, two digests a replacement by other and by equal bytes,
three revisions an installation over one that was itself a replacement, two
faults a fault during recovery from a fault. Protection: two tokens of one
path contend for its slot and a third races beside them. Schedule: with
quiet < maximum < end of the clock every branch of the deadline is taken, and
several scans fit in. Monitor: two galleries in batches of one make a scan that
leaves one behind; a restart in the middle of any of that is the fault.
Observation: two changes suffice for the
nastiest pairs (a swap of two directories, a disk that goes and comes back, a page
rewritten and the marker after it); entries sort as marker, other file, page, so
that with pages of one an entry already returned changes while later ones are read.
Both galleries are found and probed, but files change in one (`Edited`), since the
index keeps one snapshot at a time. Page pipeline: three pages and two threads
leave one page waiting while two run, and make a full and a partial batch; three
faults are a page, the discarding of its archive and the next call's entry. Scratch: two runs let a process die while it removes the run of another;
bytes are the entry whose early write-back matters to `NoUnownedBytes`.
Resident: one hint for two galleries is the smallest full set. Relocation: a
page of one item makes every item a step that can be interrupted, and one
unusual item goes through all situations. `MaxFaults`, `MaxRevision`,
`MaxChanges`, `Edited`, `Linked`, `Early`, `MaxMoves`, `MaxLease`, `MaxTime`, `MaxCalls`, `MaxBacklog` and
`MaxUnusual` are bounds of the models, not of the code.

### Fairness

* `LibraryActivation`: a call that was started goes on and an interrupted one is
  called again, since the resident repeats its cycle; `WF` on the activator.
* `LibraryProtection`: started calls go on; a cycle's writers are done before
  the next cycle, which begins with maintenance, so all writers are idle again
  and again; `SF` on maintenance and on the installation of an opened activation,
  which the same cycles repeat.
* `SourceMonitor`: both threads run; a wanted scan becomes due
  (`WaitIsBounded` of the schedule) and is then started.
* `PagePipeline`: the owner and each page thread keep running (`WF`); the
  condition variable wakes everybody at each change, and what a thread waits for
  stays true until it is taken or is taken by one that gets further. Calls that
  raised are made again by the next cycle.
* `IngestSession`: `SF` on the worker because the heartbeat gives the lock back
  for an interval between two renewals; `WF` on the heartbeat.
* `ResidentProcess`: the process polls and is started again by its supervisor;
  leases that nobody renews expire; `SF` on the main thread because the audit
  heartbeat holds its lock only now and then.
* `Scratch`: a process keeps cleaning as long as it lives, and gets the
  registry, which is free again and again. The liveness property is excused
  when no process is at work.
* `LibraryRelocation`: the operator reruns the command, which at some time is
  no longer killed. `RelocationCompletes` is excused when files were changed by
  somebody else, when the library was moved on, and for a replacement by
  byte-identical content interrupted between its renames, which the code
  refuses by design because bytes cannot tell the two files apart.

### Finding: rerunning the relocation is not always enough

`relocate.py` line 40 advises: "Correct the reported condition and rerun the
same command to resume the journal checkpoint." `CorrectedIsResumed` states
that: when every file is such that the scan would accept it, rerunning the
command gets the relocation done. TLC refutes it. After the scan has recorded a
file, its metadata changes (its mode, or it is put there again from a backup).
The audit compares the recorded signature, change time included, and refuses;
every new command starts the audit over and refuses again; a new session
cannot be begun while this one is unfinished, and the runtime refuses to start
meanwhile. A changed change time cannot be changed back, so nothing the
operator may do with the file corrects the condition.

Also seen while modelling, and not a defect by the documents: a gallery that is
created, published and deleted between two passes of the monitor leaves no trace
in the monitor's index, so its deletion is found only by the next scan that has
another reason (`Behind` in `SourceMonitor` leaves this case out).

Three more corners, which the properties excuse and the models show:

* Unlink. The healing of a duplicate and the removal of a private leaf verify a name
  and then unlink it (`library.py` 4815 to 4827 and 4929 to 4941). A file that
  somebody renames over the name in between is unlinked instead. `verification/README.md`
  57 to 60 names this limit; `ForeignBytesSurvive` excuses the step (`Overtaken`).
* Scratch. A cleaner removes the data directory of a run and is killed before it
  syncs the run directory. The next one finds no data directory, so it has nothing
  to sync for it, and removes the owner file. A power loss at that moment may bring
  back the data directory with its bytes but not the owner file, and no cleanup
  adopts a run without one (`_Reaper.__init__` and the step at `scratch.py` 195 to
  208). `NoUnownedBytes` and `AbandonedReclaimed` leave out the runs in `torn`.
* Final probe. `observe_completion_marker` of `core_source.py` reads the marker
  through the path and then has the whole directory compared with its audit
  (`revalidate_observed_gallery`). When another directory has the name during the
  first and the audited one has it again during the second, the marker returned is
  that of another gallery.

## 5. What is proved

Every invariant and every action property that a passing run checks is a theorem,
and so are both refinements. Each `*_proofs` module states the inductive
invariants it uses and holds its theorems; the parts of an invariant have names of
their own, and `Init` and every action a step or a lemma. What the theorems assume of
the constants is `FactsAssumption` and `LimitAssumption` (activation),
`ProtectionAssumption`, `ScheduleAssumption`, `MonitorAssumption`,
`SessionAssumption`, `RelocationAssumption`, `ResidentAssumption`,
`SlotsAssumption` and `WorkersAssumption`, `ScratchAssumption`, and
`FolderAssumption`, `DiscoveryAssumption` and `ObservationAssumption`: each is an
`ASSUME` of the module that declares the constants, and TLC evaluates it in every
run of that module.

### LibraryActivation_proofs

For any number of resources, tokens, digests, revisions and faults and any page
size. Four inductive invariants, each resting on the one before it except the last,
which rests on the first.

`Inv == TypeOK /\ ControlInv /\ FenceInv` gives `TypeCorrectness`,
`JournalIsReadable` (`JournalReadable`) and `FenceDurability` (`FenceIsDurable`).
`JournalReadable` is not inductive: that a spooled row fits the cursor needs that
the open revision is the issued one (`PendingIsIssued`), that a call in progress is
one of its phase (`StepFitsPhase`), and that installs and removals never meet on
one resource (`PagesAreDisjoint`). `FenceIsDurable` speaks of two trees while
scripts run, so `FenceInv` adds that no script of file moves touches the marker
(`ScriptsAvoidMarker`) and, for every point of the script that writes it, what both
trees already show (`MarkerScript`).

`ReadersInv` says which names an unfinished row may have changed (`OpenNames`), that
every other name is durable and shows what its row says (`AtRest`), that a page of
plans still fits its rows (`PagesFitRows`), what the rest of a script is certain to
achieve (`ScriptSettles`), and how the rows of a revision compare with what the
catalog shows (`RowsFitCatalog`). From it follow `ReadersSeeHead`
(`UnfencedReadersSeeHead`), `ReadyBackedByDisk` (`ReadyIsDurable`), `NoOrphans`
(`NoOrphanBytes`) and `PublishedRefinement` (`ImplementsPublishedLibrary`): `Init`
maps to the initial state of `PublishedLibrary`, and each action to one of its
actions or to a stutter.

`ReplayInv` follows one replacement through its six stations, from the old file at
its current name to the new one there with the old one gone, in both trees at once.
The disk is never further behind than the pairs in `Lags` (`TreesFit`), what is left
of a script leads from the present station to the last (`ScriptRuns`), and a plan
whose script has not begun has moved nothing (`FreshUntouched`). `EntriesFit`,
`Supplied`, `MarkerFits` and `WorkLeft` say that what the routines look for is
there. From it follow `ReplayNeverRefused` (`NeverRefused`) and `OldBytesKept`
(`OldBytesOutliveReplacement`).

All of `ReadersInv` and `ReplayInv` speak of a library that nobody else writes into;
so do the theorems that need it (`~Foreign` is a hypothesis of theirs or a part of
the property).
What holds with other writers is `ForeignBytesKept` (`ForeignBytesSurvive`), an
action property, from `AlienInv`: foreign files are where they were written or where
a capture has moved them (`AliensHeld`), one that is seen is durable there or, if a
capture has moved it and the move is not synced, where it was captured from
(`Backed`), and whatever is left of a script is `Gentle`: nothing in it is meant to
unlink such a file, and every move into `current/` comes after a look at what was
moved out. The last part is what makes it inductive: a capture that raced with the
writer has put the foreign file into quarantine, and only the look that comes next
moves it back. `LooksForOwn` adds that no foreign file passes the verification before
an unlink; what is left is the step the property excepts, a name taken over since.
The other three invariants do not mention `verified`: a verification that finds its
file changes nothing they speak of (`LookIsHidden`).

### LibraryProtection_proofs

`TypeCorrectness`, `DurableEvidence` (`EvidenceIsDurable`), `NoOrphans`
(`NoOrphanStaging`) and `CleanupSucceeds` (`CleanupNeverRefused`). `Inv` says who
holds which lock at each place (`LocksHeld`), that what a writer or the cleaner has
in hand is what its row says (`WorkFitsRow`), and that the files of a row's state
and the rest of the script fit each other (`FilesFitRow`, `ScriptsFitFiles`): a
script may be cut off after any of its system calls, so the part has to hold for
every tail.

### IngestThreads_proofs

Three specifications, one invariant for each.

`ScheduleInv` relates the two deadlines, which are all that the code keeps, to the
history of changes and scans: a scan is wanted exactly when the history says since
when (`WantedSince`), the hard deadline is one maximum wait after that or after the
last end (`DeadlineIsBounded`), and what an ended scan asked for holds until the
next start (`RequestIsKept`). From it follow `ScheduleTypeCorrectness`,
`BoundedWait` (`WaitIsBounded`), `FailureBacksOff` (`RetryBacksOff`) and
`LedgerRefinement` (`ImplementsScanLedger`).

`MonitorInv` gives `MonitorTypeCorrectness` and `ChangesAreKept`
(`NoChangeForgotten`). A version of a gallery is covered when a scan is wanted, when
it is published, or when the running scan will still meet it; the committed rows are
covered (`KnownCovered`), and so is what a pass has read, before it commits
(`PassCovered`): that is the part a rolled-back pass would break. Each step of the
scan keeps what was covered (`CoverKept`).

`SessionInv` says who holds the lock at each place of the two threads
(`LockIsHeld`), when the heartbeat thread exists (`HeartbeatLives`), that the
receipt is the newest unless a failure is recorded (`ReceiptIsNewest`), that an
attempt is left to whoever waits for a locked database (`AttemptsAreLeft`), and that
a recorded failure leaves no call in flight (`CallsAreFenced`). It gives
`SessionTypeCorrectness`, `NewestReceipt` (`CallsCarryTheNewestReceipt`) and
`FailureFence` (`FailureFencesCalls`).

### LibraryRelocation_proofs

`FencedReaders` (`ReadersFenced`) from `Inv`, which follows the marker through the
steps of the command (`MarkerFollowsStep`) and says that the marker of an unfinished
publication is never replaced (`PublicationGuarded`): without it the session could
take the marker it writes before the scan for the one that a publication needs.

`CertificateIsTrue` (`CertifiedIsTrue`) from `CertInv`: rows behind the cursor are
bound to files on record (`RecordsFit`, `ItemsVerified`), and whatever was wrong
when an audit began is ahead of its cursor or has ended it (`AuditFinds`), a missing
file treated apart from a different one. That the next row is the least one ahead of
the cursor uses the well-foundedness of the natural numbers from the library.

### ResidentProcess_proofs

`LeaseIsReturned` (`LeaseReturned`) and `CleanAcknowledgement`
(`AcknowledgedOnlyIfClean`). `Inv` says where an attempt may still have the ingest
lease (`LeaseIsExplained`), that some flag which the end of the process looks at
remembers every error (`WrongLeavesATrace`, `StartsClean`), and that the audit,
with its heartbeat, is closed before the admin (`ClosedInOrder`).

### PagePipeline_proofs

`TypeCorrectness`, `OnlyBadPagesRejected` (`RejectedIsInvalid`), `FailuresAreRaised`
(`ErrorsPropagate`) and `CallsCleanUp` (`NothingLeftBehind`), for any number of
pages, threads and faults. That a rejection is never the work of another thread
rests on the slots: the two counters are the numbers of threads that hold and that
wait (`SlotsAreCounted`), so whoever holds an exclusive slot is alone
(`ExclusiveIsAlone`), and the text it reads after it has cleared the buffer is its
own (`BlameIsOwn`). `QueueIsFresh` and `ResultsAreTaken` tie what the owner knows to
what became of each page. For the cleaning up, each open buffer belongs to a thread
or to a place the owner still closes (`OpenIsOwned`), and the pages handed over,
rendered and written are a run of consecutive pages at every place of the owner
behind the emptied stream (`BatchFitsOwner`), which makes the archive the whole
gallery in its order whatever the stream held before.

### Scratch_proofs

`TypeCorrectness`, `WorkspaceKept` (`LiveWorkspaceKept`) and `BytesAreOwned`
(`NoUnownedBytes`). `IInv` says that a run is claimed by at most one process and its
owner file locked by that one (`ClaimsApart`), that a run under construction has what
its process has created so far, synced up to the last step (`BuiltSoFar`), and, of
both trees, that bytes lie where an owner file can be adopted (`Adoptable`), unless
the removal that would take them is seen and about to be synced (`SyncPending`) or
the run is `torn`.

### GalleryObservation_proofs

`InventoryComplete` (`SteadyGalleriesFound`), `AbsenceTrue` (`AbsenceWasReal`),
`ObservationAtOnce` (`ObservedAtOnce`) and `DownloadsFinished`
(`OnlyFinishedDownloads`), from `ObservationInvariance`. `IInv` is layered as the
modules are. Of the folder (`FolderInv`): names are apart, nothing has a stamp of the
future, and what is half written is newer than the marker. Of the walk and the probe
(`DiscoveryInv`): a gallery that has stayed is in the table or ahead of the walk, and
one found absent is so still, unless an ancestor was swapped, which the check of the
names then sees. Of the snapshot (`ObservationInv`): stats never come back (`Past`,
`Before`), each part of what was returned was there at the moment of its check and
unless a later check fails still is (`Paged`, `ProbedFits`, `ViewsFit`), and so there
is one moment of all of them (`Moment`), at which what is accepted was complete
(`AcceptedFits`).

### What is only model-checked

Liveness: `EventuallyPublished`, `ReleasedIsCleaned`, `EveryChangeIsPublished`,
`Quiesces`, `EventuallySettled`, `AbandonedReclaimed`, `WorkGetsPublished`,
`RelocationCompletes` and `SessionEnds`; and the refuted `CorrectedIsResumed`. Liveness
under fairness, `ENABLED` and induction over data are out of the prover's reach. No
module here uses a recursive operator.

## 6. What is not modelled

Pixel work, ZIP and JPEG encoding, formatting, logging, metrics and validation
of settings have no control to check. Layout and identity checks only refuse to
start. SQL is modelled by its effect; a transaction is atomic and, once
committed, durable. Progress is never authority, and bootstrap keeps no state of
its own. Of `service.py` the analysis loop only drives the core, and the order of
its phases is the order in which the modelled steps become possible; that a stop
between two of them is harmless is covered by the interruptions of the modules
the phases belong to, not by a composition of all of them. Two processes that
publish at once exclude each other by the publication lock and are the
interruption of one of them. The core is external throughout: its leases, its
reader head, its rows and its maintenance appear as far as this code relies on
them.
