--------------------------- MODULE SourceMonitor ---------------------------
(***************************************************************************)
(* How a change of the download folder reaches the catalog: the monitor    *)
(* thread (source_monitor.py) compares completion markers with its         *)
(* private index and notes changes in the scan schedule; the resident loop *)
(* (resident.py _run_forever) scans when one is wanted.  The schedule is   *)
(* taken as ScanLedger, which SourceSchedule implements.                   *)
(*                                                                         *)
(* A locator's version counts the changes of its gallery: odd while it is  *)
(* there, even while it is not.  A marker's fingerprint (device, inode,    *)
(* times, digest) never comes back, so it is the version.                  *)
(***************************************************************************)
EXTENDS Naturals, FiniteSets, ScanLedger

CONSTANTS
    Locator,
    BatchLimit,     \* publication_batch_galleries
    MaxChanges,     \* bound: changes of each locator
    MaxFaults,      \* bound: failed probes, failed scans and restarts
    NoCut           \* no sealed source cut is waiting for its publication

ASSUME MonitorAssumption ==
    /\ BatchLimit \in Nat \ {0} /\ MaxChanges \in [Locator -> Nat] /\ MaxFaults \in Nat

VARIABLES
    source,             \* the version of each locator
    published, sealed,  \* durable: the versions of the last two cuts
    index,              \* the monitor's committed marker table, 0 for no row
    probe, unread, draft, seen, moved,  \* the pass under way
    scan, cut, unobserved, admitted, resumed, again, dirty, \* the scan under way
    known,              \* history: the versions a committed index has accounted for
    faults

pass == <<probe, unread, draft, seen, moved>>
attempt == <<scan, cut, unobserved, admitted, resumed, again, dirty>>
durable == <<published, sealed>>
vars == <<pending, active, source, durable, index, pass, attempt, known, faults>>

Versions == [Locator -> Nat]
NoRows == [l \in Locator |-> 0]
Present(v) == v % 2 = 1

NoAttempt ==
    /\ scan' = "out" /\ cut' = NoRows /\ unobserved' = {} /\ admitted' = 0
    /\ resumed' = FALSE /\ again' = FALSE /\ dirty' = {}

NoPass == probe' = "wait" /\ unread' = {} /\ draft' = NoRows /\ seen' = {} /\ moved' = FALSE

Init ==
    /\ LedgerInit
    /\ source = NoRows /\ published = NoRows /\ sealed = NoCut
    /\ index = NoRows /\ known = NoRows
    /\ probe = "wait" /\ unread = {} /\ draft = NoRows /\ seen = {} /\ moved = FALSE
    /\ scan = "out" /\ cut = NoRows /\ unobserved = {} /\ admitted = 0
    /\ resumed = FALSE /\ again = FALSE /\ dirty = {}
    /\ faults = 0

-----------------------------------------------------------------------------
(* The downloader creates, replaces and deletes galleries at any time.     *)

ChangeSource(l) ==
    /\ \E v \in {source[l] + 1, source[l] + 2} :
         v <= MaxChanges[l] /\ source' = [source EXCEPT ![l] = v]
    /\ dirty' = IF scan = "observing" THEN dirty \cup {l} ELSE dirty
    /\ moved' = (probe # "wait")
    /\ UNCHANGED <<ledger, durable, index, probe, unread, draft, seen,
                   scan, cut, unobserved, admitted, resumed, again, known, faults>>

-----------------------------------------------------------------------------
(* One pass of the monitor: _MarkerIndex.reconcile over a marker probe, in *)
(* one transaction that a failure rolls back.                              *)

ProbeStart ==
    /\ probe = "wait"
    /\ probe' = "reading" /\ unread' = Locator /\ draft' = index
    /\ seen' = {} /\ moved' = FALSE
    /\ UNCHANGED <<ledger, source, durable, index, attempt, known, faults>>

\* Mutation: only new rows are compared.
IsNewRow(old, v) == old = 0
IsNews(old, v) == old # v

\* Mutation: an existing row is only marked as seen.
SeenRow(old, v) == IF old = 0 THEN v ELSE old
Upsert(old, v) == v

\* The marker is read first, and noted and stored after that.
ReadMarker(l) ==
    /\ probe = "reading" /\ l \in unread
    /\ unread' = unread \ {l}
    /\ IF Present(source[l])
       THEN /\ draft' = [draft EXCEPT ![l] = Upsert(@, source[l])]
            /\ seen' = seen \cup {l}
            /\ probe' = IF IsNews(draft[l], source[l]) THEN "noting" ELSE "reading"
       ELSE UNCHANGED <<draft, seen, probe>>
    /\ UNCHANGED <<ledger, source, durable, index, moved, attempt, known, faults>>

NoteMarker ==
    /\ probe = "noting" /\ probe' = "reading"
    /\ Note
    /\ UNCHANGED <<source, durable, index, unread, draft, seen, moved, attempt, known, faults>>

Missing == {l \in Locator : draft[l] # 0 /\ l \notin seen}

Sweep ==
    /\ probe = "reading" /\ unread = {}
    /\ probe' = "swept"
    /\ IF Missing = {} THEN UNCHANGED ledger ELSE Note
    /\ UNCHANGED <<source, durable, index, unread, draft, seen, moved, attempt, known, faults>>

\* Mutation: a missing row is kept as a record of the absence.
RowsMarkedGone == [l \in Locator |-> IF l \in Missing THEN draft[l] + 1 ELSE draft[l]]
RowsLeft == [l \in Locator |-> IF l \in Missing THEN 0 ELSE draft[l]]

CommitPass ==
    /\ probe = "swept"
    /\ index' = RowsLeft
    /\ known' = [l \in Locator |-> IF l \in Missing THEN draft[l] + 1
                                   ELSE IF l \in seen THEN draft[l] ELSE known[l]]
    /\ NoPass
    /\ UNCHANGED <<ledger, source, durable, attempt, faults>>

\* FilesystemSourceChangedError: noted, and compared again by the next pass
PassDisturbed ==
    /\ probe \in {"reading", "noting"} /\ moved
    /\ Note
    /\ NoPass
    /\ UNCHANGED <<source, durable, index, attempt, known, faults>>

\* A full disk is tolerated, whether a row or the commit met it.
PassWithoutSpace ==
    /\ probe # "wait" /\ faults < MaxFaults
    /\ faults' = faults + 1
    /\ NoPass
    /\ UNCHANGED <<ledger, source, durable, index, attempt, known>>

-----------------------------------------------------------------------------
(* One scan of the resident: service.py synchronize_once on a claimed      *)
(* session.  A handoff of the downloader may start one that nobody wanted. *)

\* A sealed cut of an interrupted attempt is published before a new one is
\* taken, unless a failed gallery has to be observed again.
ScanStart ==
    /\ scan = "out"
    /\ Start
    /\ \/ /\ sealed # NoCut
          /\ scan' = "publishing" /\ resumed' = TRUE
          /\ UNCHANGED <<cut, unobserved>>
       \/ /\ scan' = "observing" /\ cut' = published /\ unobserved' = Locator
          /\ UNCHANGED resumed
    /\ UNCHANGED <<admitted, again, dirty, source, durable, index, pass, known, faults>>

\* A new gallery beyond the batch limit is left for the next batch, one that
\* changes while it is read for a retry.
Observe(l) ==
    LET new == Present(source[l]) /\ ~Present(published[l]) IN
    /\ scan = "observing" /\ l \in unobserved
    /\ unobserved' = unobserved \ {l}
    /\ \/ /\ ~new \/ admitted < BatchLimit
          /\ cut' = [cut EXCEPT ![l] = source[l]]
          /\ admitted' = IF new THEN admitted + 1 ELSE admitted
          /\ UNCHANGED again
       \/ /\ l \in dirty \/ (new /\ admitted = BatchLimit)
          /\ again' = TRUE
          /\ UNCHANGED <<cut, admitted>>
    /\ UNCHANGED <<scan, resumed, dirty, ledger, source, durable, index, pass, known, faults>>

Seal ==
    /\ scan = "observing" /\ unobserved = {}
    /\ sealed' = cut
    /\ scan' = "publishing"
    /\ cut' = NoRows /\ admitted' = 0 /\ dirty' = {}
    /\ UNCHANGED <<unobserved, resumed, again,
                   ledger, source, published, index, pass, known, faults>>

Publish ==
    /\ scan = "publishing"
    /\ published' = sealed /\ sealed' = NoCut
    /\ scan' = "finishing"
    /\ UNCHANGED <<cut, unobserved, admitted, resumed, again, dirty,
                   ledger, source, index, pass, known, faults>>

\* Mutation: a resumed cut counts as a scan of the source.
ResumedIsEnough == again
\* BATCH_PUBLISHED, or INGESTED with waiting galleries: resident.py 830-852
WantsAnother == resumed \/ again

ScanFinish ==
    /\ scan = "finishing"
    /\ Finish(WantsAnother)
    /\ NoAttempt
    /\ UNCHANGED <<source, durable, index, pass, known, faults>>

\* Any outcome that is no publication; the sealed cut stays.
ScanFail ==
    /\ scan \in {"observing", "publishing"}
    /\ \/ dirty # {} /\ UNCHANGED faults
       \/ faults < MaxFaults /\ faults' = faults + 1
    /\ Finish(TRUE)
    /\ NoAttempt
    /\ UNCHANGED <<source, durable, index, pass, known>>

\* The index and the schedule are private to a process.
Restart ==
    /\ faults < MaxFaults /\ faults' = faults + 1
    /\ pending' = TRUE /\ active' = FALSE
    /\ index' = NoRows
    /\ NoPass /\ NoAttempt
    /\ UNCHANGED <<source, durable, known>>

MonitorNext ==
    \/ ProbeStart \/ NoteMarker \/ Sweep \/ CommitPass
    \/ PassDisturbed
    \/ \E l \in Locator : ReadMarker(l)

ResidentNext ==
    \/ (\E l \in Locator : Observe(l)) \/ Seal \/ Publish \/ ScanFinish

Next ==
    \/ MonitorNext \/ PassWithoutSpace
    \/ ResidentNext \/ ScanStart \/ ScanFail
    \/ Restart
    \/ \E l \in Locator : ChangeSource(l)

Spec == Init /\ [][Next]_vars

\* Both threads keep running; a scan that is wanted becomes due, and the
\* resident then claims a session for it.
FairSpec ==
    /\ Spec
    /\ WF_vars(MonitorNext) /\ WF_vars(ResidentNext)
    /\ WF_vars(pending /\ ScanStart)

-----------------------------------------------------------------------------
TypeOK ==
    /\ pending \in BOOLEAN /\ active \in BOOLEAN
    /\ source \in Versions /\ published \in Versions
    /\ sealed \in Versions \cup {NoCut}
    /\ index \in Versions /\ \A l \in Locator : index[l] = 0 \/ Present(index[l])
    /\ probe \in {"wait", "reading", "noting", "swept"}
    /\ unread \subseteq Locator /\ draft \in Versions /\ seen \subseteq Locator
    /\ moved \in BOOLEAN
    /\ scan \in {"out", "observing", "publishing", "finishing"}
    /\ active <=> scan # "out"
    /\ cut \in Versions /\ unobserved \subseteq Locator /\ admitted \in 0..BatchLimit
    /\ resumed \in BOOLEAN /\ again \in BOOLEAN /\ dirty \subseteq Locator
    /\ known \in Versions /\ faults \in 0..MaxFaults

\* Whatever the committed index will not report again has been published, or
\* a scan that will see it is wanted or under way: neither a rolled back
\* pass, nor a resumed cut, nor a change in the middle of a scan loses it.
NoChangeForgotten ==
    ~pending /\ ~active => \A l \in Locator : published[l] >= known[l]

\* A gallery that is there, and the deletion of one the monitor has had in
\* its index, reach the catalog.  (A gallery created, published and deleted
\* between two passes leaves no trace the monitor could find.)
Behind(l) ==
    /\ published[l] < source[l]
    /\ Present(source[l]) \/ index[l] # 0 \/ published[l] < known[l]
EveryChangeIsPublished == \A l \in Locator : Behind(l) ~> ~Behind(l)

\* A source that stays as it is is not scanned for ever.
Quiesces == <>[]~pending
=============================================================================
