------------------------ MODULE IngestThreads_proofs ------------------------
(***************************************************************************)
(* Proofs about the places where threads of one process hand something to  *)
(* each other: the schedule of source scans and the change monitor, which  *)
(* share ScanLedger, and the ingest session with its heartbeat.            *)
(*                                                                         *)
(* SourceSchedule implements ScanLedger, for every quiet delay and maximum *)
(* wait and however long the clock runs.  ScheduleInv relates the          *)
(* deadlines, which are all that the schedule remembers, to the history    *)
(* variables: since when a scan is wanted, when the last one ended and     *)
(* what that end has asked for.                                            *)
(*                                                                         *)
(* SourceMonitor, which relies on the ledger, forgets no change.           *)
(* MonitorInv says of every version the monitor has taken note of, in its  *)
(* committed index or in the pass under way, that it is covered: a scan is *)
(* wanted, or the catalog has it, or the scan under way will bring it or   *)
(* ask for another one.  A version that the source has had stays covered   *)
(* whatever happens (CoveredKept), which is the heart of the proof: the    *)
(* handover between two threads has no gap.                                *)
(*                                                                         *)
(* In IngestSession, for any number of calls, retries and receipts,        *)
(* SessionInv says who holds the controller's lock at each point of the    *)
(* two threads, when the heartbeat thread exists, and that without a       *)
(* recorded failure the controller has the newest receipt.                 *)
(***************************************************************************)
EXTENDS SourceSchedule, SourceMonitor, IngestSession, TLAPS

-----------------------------------------------------------------------------
(* SourceSchedule *)

\* The history says "wanted" exactly when the schedule does.
WantedSince == Wanted <=> since # NoTime

\* The hard deadline is one maximum wait after the first change, or after the
\* end of a scan.
DeadlineIsBounded ==
    Wanted => \/ hardDeadline <= since + MaxWait
              \/ hardDeadline <= finishedAt + MaxWait

\* What a scan has asked for at its end holds until the next one starts.
RequestIsKept ==
    /\ asked # "nothing" => ~Active
    /\ asked = "batch" => Wanted /\ hardDeadline <= finishedAt
    /\ asked \in {"failed", "waiting"} =>
         /\ Wanted /\ lastChangeAt >= finishedAt
         /\ hardDeadline >= finishedAt + MaxWait

ScheduleInv == ScheduleTypeOK /\ WantedSince /\ DeadlineIsBounded /\ RequestIsKept

-----------------------------------------------------------------------------
LEMMA ScheduleInitInv == ScheduleInit => ScheduleInv
BY ScheduleAssumption, SMT
DEF ScheduleInit, ScheduleInv, ScheduleTypeOK, Time, Caller, Outcomes, Wanted, Active,
    WantedSince, DeadlineIsBounded, RequestIsKept

LEMMA NoteChangeInv == ScheduleInv /\ NoteChange => ScheduleInv'
<1> SUFFICES ASSUME ScheduleInv, NoteChange PROVE ScheduleInv'
  OBVIOUS
<1> USE ScheduleAssumption DEF ScheduleInv, ScheduleTypeOK, Time, Wanted, Active
<1> DEFINE at == read["monitor"]
<1>1. at \in Nat /\ read' \in [Caller -> Time]
  BY DEF NoteChange, Passed, Caller
<1>2. lastChangeAt' \in Nat /\ lastChangeAt' >= at
  BY <1>1 DEF NoteChange, Later
<1>3. Wanted => lastChangeAt' >= lastChangeAt /\ hardDeadline' = hardDeadline /\ since' = since
  BY <1>1 DEF NoteChange, Later, CapAfterChange
<1>4. ~Wanted => hardDeadline' = at + MaxWait /\ since' = at
  BY DEF NoteChange, CapAfterChange
<1>5. UNCHANGED <<now, startedAt, finishedAt, asked>>
  BY DEF NoteChange
<1>6. hardDeadline' \in Nat /\ since' \in Nat
  BY <1>1, <1>3, <1>4 DEF WantedSince
<1>7. ScheduleTypeOK'
  BY <1>1, <1>2, <1>5, <1>6
<1>8. WantedSince' /\ DeadlineIsBounded'
  <2>1. WantedSince'
    BY <1>2, <1>6 DEF WantedSince
  <2>2. CASE Wanted
    BY <1>3, <1>5, <2>1, <2>2 DEF DeadlineIsBounded
  <2>3. CASE ~Wanted
    BY <1>1, <1>4, <2>1, <2>3 DEF DeadlineIsBounded
  <2>4. QED
    BY <2>1, <2>2, <2>3
<1>9. RequestIsKept'
  BY <1>2, <1>3, <1>5, <1>6 DEF RequestIsKept
<1>10. QED
  BY <1>7, <1>8, <1>9

LEMMA StartScanInv == ScheduleInv /\ StartScan => ScheduleInv'
BY ScheduleAssumption
DEF ScheduleInv, ScheduleTypeOK, Time, Caller, Wanted, Active, WantedSince, DeadlineIsBounded,
    RequestIsKept, StartScan, Passed, Outcomes

LEMMA FinishScanInv ==
    ASSUME NEW how \in Outcomes
    PROVE  ScheduleInv /\ FinishScan(how) => ScheduleInv'
<1> SUFFICES ASSUME ScheduleInv, FinishScan(how) PROVE ScheduleInv'
  OBVIOUS
<1> USE ScheduleAssumption DEF ScheduleInv, ScheduleTypeOK, Time, Wanted, Active
<1> DEFINE at == read["resident"]
<1>1. at \in Nat /\ read' \in [Caller -> Time]
  BY DEF FinishScan, Passed, Caller
<1>2. /\ startedAt' = NoTime /\ finishedAt' = at /\ asked' = how
      /\ UNCHANGED now
  BY DEF FinishScan
<1>3. Retries(how) => lastChangeAt' = at
  BY DEF FinishScan, ChangeAfter
<1>4. ~Retries(how) => lastChangeAt' = lastChangeAt /\ how = "clean"
  BY DEF FinishScan, ChangeAfter, Retries, Outcomes
<1>5. /\ how = "batch" => hardDeadline' = at
      /\ how # "batch" /\ lastChangeAt' # NoTime => hardDeadline' = at + MaxWait
      /\ how # "batch" /\ lastChangeAt' = NoTime => hardDeadline' = hardDeadline
  BY DEF FinishScan, DeadlineAfter
<1>6. since' = IF Wanted \/ how = "clean" THEN since ELSE at
  BY DEF FinishScan
<1>7. lastChangeAt' \in Time /\ (lastChangeAt' = NoTime <=> hardDeadline' = NoTime)
      /\ hardDeadline' \in Time /\ since' \in Time
  BY <1>1, <1>3, <1>4, <1>5, <1>6 DEF Retries
<1>8. ScheduleTypeOK'
  BY <1>1, <1>2, <1>7 DEF Outcomes
<1>9. WantedSince'
  BY <1>1, <1>3, <1>4, <1>6 DEF WantedSince, Retries
<1>10. DeadlineIsBounded' /\ RequestIsKept'
  BY <1>1, <1>2, <1>3, <1>5 DEF DeadlineIsBounded, RequestIsKept, Retries
<1>11. QED
  BY <1>8, <1>9, <1>10

LEMMA ScheduleNextInv == ScheduleInv /\ [ScheduleNext]_scheduleVars => ScheduleInv'
<1> SUFFICES ASSUME ScheduleInv, [ScheduleNext]_scheduleVars PROVE ScheduleInv'
  OBVIOUS
<1> USE DEF ScheduleInv
<1>1. CASE Tick
  BY <1>1 DEF Tick, ScheduleTypeOK, Wanted, Active, WantedSince, DeadlineIsBounded, RequestIsKept,
              schedule, history
<1>2. ASSUME NEW c \in Caller, ReadClock(c) PROVE ScheduleInv'
  BY <1>2 DEF ReadClock, ScheduleTypeOK, Time, Wanted, Active, WantedSince, DeadlineIsBounded,
              RequestIsKept, schedule, history
<1>3. CASE NoteChange
  BY <1>3, NoteChangeInv
<1>4. CASE StartScan
  BY <1>4, StartScanInv
<1>5. ASSUME NEW how \in Outcomes, FinishScan(how) PROVE ScheduleInv'
  BY <1>5, FinishScanInv
<1>6. CASE UNCHANGED scheduleVars
  BY <1>6 DEF scheduleVars, ScheduleTypeOK, Wanted, Active, WantedSince, DeadlineIsBounded, RequestIsKept,
              schedule, history
<1>7. QED
  BY <1>1, <1>2, <1>3, <1>4, <1>5, <1>6 DEF ScheduleNext

\* The deadlines of the schedule are, in every reachable state, what the
\* history of changes and scans makes them.
THEOREM ScheduleInvariance == ScheduleSpec => []ScheduleInv
BY ScheduleInitInv, ScheduleNextInv, PTL DEF ScheduleSpec

-----------------------------------------------------------------------------
\* Every method of the schedule keeps its times well formed: a deadline
\* exactly when a change is pending.
THEOREM ScheduleTypeCorrectness == ScheduleSpec => []ScheduleTypeOK
<1>1. ScheduleInv => ScheduleTypeOK
  BY DEF ScheduleInv
<1>2. QED
  BY <1>1, ScheduleInvariance, PTL

LEMMA NextScanTime ==
    ASSUME ScheduleInv, Wanted, ~Active
    PROVE  /\ NextScanAt \in Nat /\ NextScanAt <= hardDeadline
           /\ \/ NextScanAt = hardDeadline
              \/ NextScanAt = lastChangeAt + Quiet
BY ScheduleAssumption DEF ScheduleInv, ScheduleTypeOK, Time, Wanted, NextScanAt, Lesser

\* A source that keeps changing cannot put off its scan for longer than the
\* maximum wait, and the next batch of a scan is due at once
\* (note_change and finish_scan, source_schedule.py).
THEOREM BoundedWait == ScheduleSpec => []WaitIsBounded
<1>1. ScheduleInv => WaitIsBounded
  <2> SUFFICES ASSUME ScheduleInv PROVE WaitIsBounded
    OBVIOUS
  <2>1. Wanted /\ ~Active => WaitIsBounded
    BY NextScanTime, ScheduleAssumption
    DEF ScheduleInv, ScheduleTypeOK, Time, Wanted, WantedSince, DeadlineIsBounded, RequestIsKept, WaitIsBounded
  <2>2. ~(Wanted /\ ~Active) => WaitIsBounded
    BY DEF ScheduleInv, RequestIsKept, WaitIsBounded, NextScanAt
  <2>3. QED
    BY <2>1, <2>2
<1>2. QED
  BY <1>1, ScheduleInvariance, PTL

\* A failed scan, and one that met unstable galleries, is not repeated before
\* a fresh quiet delay (finish_scan, source_schedule.py).
THEOREM FailureBacksOff == ScheduleSpec => []RetryBacksOff
<1>1. ScheduleInv => RetryBacksOff
  BY NextScanTime, ScheduleAssumption
  DEF ScheduleInv, ScheduleTypeOK, Time, Wanted, RequestIsKept, RetryBacksOff
<1>2. QED
  BY <1>1, ScheduleInvariance, PTL

-----------------------------------------------------------------------------
(* Refinement: every step is one of ScanLedger, or leaves its ledger alone. *)

LEMMA ScheduleInitSimulates == ScheduleInit => Ledger!LedgerInit
BY ScheduleAssumption DEF ScheduleInit, Ledger!LedgerInit, Wanted, Active

LEMMA ScheduleStepSimulates ==
    ASSUME ScheduleInv, ScheduleNext
    PROVE  [Ledger!LedgerNext]_(Ledger!ledger)
<1> USE ScheduleAssumption DEF Wanted, Active, Ledger!ledger
<1>1. CASE Tick
  BY <1>1 DEF Tick, schedule
<1>2. ASSUME NEW c \in Caller, ReadClock(c) PROVE UNCHANGED Ledger!ledger
  BY <1>2 DEF ReadClock, schedule
<1>3. CASE NoteChange
  <2>1. Ledger!Note
    BY <1>3 DEF NoteChange, Passed, Later, ScheduleInv, ScheduleTypeOK, Time, Ledger!Note
  <2>2. QED
    BY <2>1 DEF Ledger!LedgerNext
<1>4. CASE StartScan
  <2>1. Ledger!Start
    BY <1>4 DEF StartScan, Passed, Ledger!Start
  <2>2. QED
    BY <2>1 DEF Ledger!LedgerNext
<1>5. ASSUME NEW how \in Outcomes, FinishScan(how) PROVE Ledger!LedgerNext
  <2>1. Ledger!Finish(Retries(how))
    BY <1>5 DEF FinishScan, Passed, ChangeAfter, Ledger!Finish, Retries
  <2>2. Retries(how) \in BOOLEAN
    BY DEF Retries
  <2>3. QED
    BY <2>1, <2>2 DEF Ledger!LedgerNext
<1>6. QED
  BY <1>1, <1>2, <1>3, <1>4, <1>5 DEF ScheduleNext

\* The timed schedule implements the ledger: no change is lost between two
\* scans, and none is invented (source_schedule.py).
THEOREM LedgerRefinement == ScheduleSpec => ImplementsScanLedger
<1>1. ScheduleInv /\ [ScheduleNext]_scheduleVars => [Ledger!LedgerNext]_(Ledger!ledger)
  <2>1. UNCHANGED scheduleVars => UNCHANGED Ledger!ledger
    BY DEF scheduleVars, schedule, Wanted, Active, Ledger!ledger
  <2>2. QED
    BY <2>1, ScheduleStepSimulates
<1>2. QED
  BY <1>1, ScheduleInitSimulates, ScheduleInvariance, PTL DEF ScheduleSpec, ImplementsScanLedger, Ledger!LedgerSpec

-----------------------------------------------------------------------------
(* SourceMonitor *)

\* The scan under way brings version v of l to the catalog, or asks for a successor.
WillSee(l, v) ==
    \/ resumed \/ again
    \/ scan = "observing" /\ (l \in unobserved \/ cut[l] >= v)
    \/ scan = "publishing" /\ sealed[l] >= v

Covered(l, v) == pending \/ published[l] >= v \/ (active /\ WillSee(l, v))

\* Everybody's knowledge is of the past of the source.
OnlyPast ==
    \A l \in Locator :
        /\ known[l] <= source[l] /\ index[l] <= known[l]
        /\ draft[l] <= source[l] /\ published[l] <= source[l]
        /\ cut[l] <= source[l]

\* A row that was not found again has been deleted since.
SweptRowsGone ==
    \A l \in Locator : l \notin unread /\ l \notin seen /\ draft[l] # 0 => draft[l] + 1 <= source[l]

DraftRows == \A l \in Locator : draft[l] = 0 \/ Present(draft[l])

\* A cut never takes the catalog back.
CutsAdvance ==
    /\ scan = "observing" => \A l \in Locator : published[l] <= cut[l]
    /\ scan = "publishing" => sealed \in Versions
    /\ sealed \in Versions /\ sealed # NoCut =>
         \A l \in Locator : published[l] <= sealed[l] /\ sealed[l] <= source[l]
    /\ scan = "publishing" =>
         \A l \in Locator : published[l] <= sealed[l] /\ sealed[l] <= source[l]

PassCovered ==
    /\ probe \in {"reading", "swept"} => \A l \in Locator : Covered(l, draft[l])
    /\ probe = "swept" => unread = {} /\ \A l \in Missing : Covered(l, draft[l] + 1)

KnownCovered == \A l \in Locator : Covered(l, known[l])

MonitorInv ==
    /\ TypeOK /\ OnlyPast /\ SweptRowsGone /\ DraftRows
    /\ CutsAdvance /\ PassCovered /\ KnownCovered

\* Covered, after the step: for versions that the step itself changes.
CoveredNext(l, v) ==
    \/ pending' \/ published'[l] >= v
    \/ /\ active'
       /\ \/ resumed' \/ again'
          \/ scan' = "observing" /\ (l \in unobserved' \/ cut'[l] >= v)
          \/ scan' = "publishing" /\ sealed'[l] >= v

CoverKept == \A l \in Locator : \A v \in 0..source[l] : Covered(l, v) => CoveredNext(l, v)

-----------------------------------------------------------------------------
(* What is covered stays covered. *)

\* Nothing is forgotten by a step that leaves the schedule, the catalog and
\* the scan under way alone, or that only asks for a scan.
LEMMA MonitorKeepsCover ==
    ASSUME UNCHANGED <<durable, scan, cut, unobserved, resumed, again>>,
           UNCHANGED ledger \/ Note
    PROVE  CoverKept
BY DEF CoverKept, Covered, WillSee, CoveredNext, durable, ledger, Note

\* A scan takes what is wanted upon itself when it starts.
LEMMA StartKeepsCover ==
    ASSUME MonitorInv, ScanStart
    PROVE  CoverKept
BY DEF MonitorInv, ScanStart, Start, CoverKept, Covered, WillSee, CoveredNext, durable

\* A gallery is observed as it is now, or left for the next scan.
LEMMA ObserveKeepsCover ==
    ASSUME MonitorInv, NEW k \in Locator, Observe(k)
    PROVE  CoverKept
<1> SUFFICES ASSUME NEW l \in Locator, NEW v \in 0..source[l], Covered(l, v)
             PROVE  CoveredNext(l, v)
  BY DEF CoverKept
<1> USE DEF MonitorInv, TypeOK, Versions
<1>1. UNCHANGED <<pending, active, published, resumed, scan, sealed>> /\ scan = "observing"
  BY DEF Observe, ledger, durable
<1>2. again => again'
  BY DEF Observe
<1>3. CASE l = k
  <2>1. l \in unobserved
    BY <1>3 DEF Observe
  <2>2. again' \/ cut'[l] = source[l]
    BY <1>3 DEF Observe
  <2> QED
    BY <1>1, <1>2, <2>1, <2>2 DEF Covered, WillSee, CoveredNext
<1>4. CASE l # k
  <2>1. l \in unobserved => l \in unobserved'
    BY <1>4 DEF Observe
  <2>2. cut'[l] = cut[l]
    BY <1>4 DEF Observe
  <2> QED
    BY <1>1, <1>2, <2>1, <2>2 DEF Covered, WillSee, CoveredNext
<1> QED
  BY <1>3, <1>4

\* Sealing and publishing carry the cut on to the catalog.
LEMMA PublicationKeepsCover ==
    ASSUME MonitorInv, Seal \/ Publish
    PROVE  CoverKept
<1> SUFFICES ASSUME NEW l \in Locator, NEW v \in 0..source[l], Covered(l, v)
             PROVE  CoveredNext(l, v)
  BY DEF CoverKept
<1> USE DEF MonitorInv, TypeOK, Versions
<1>1. CASE Seal
  BY <1>1 DEF Seal, Covered, WillSee, CoveredNext, ledger
<1>2. CASE Publish
  <2>1. sealed \in Versions /\ published[l] <= sealed[l]
    BY <1>2 DEF Publish, CutsAdvance
  <2>2. published'[l] = sealed[l] /\ UNCHANGED <<pending, active, resumed, again>>
    BY <1>2 DEF Publish, ledger
  <2>3. scan = "publishing"
    BY <1>2 DEF Publish
  <2>4. published[l] \in Nat /\ sealed[l] \in Nat /\ v \in Nat
    BY <2>1
  <2> QED
    BY <2>1, <2>2, <2>3, <2>4 DEF Covered, WillSee, CoveredNext
<1> QED
  BY <1>1, <1>2

\* The end of a scan that resumed an old cut, left a gallery out or failed
\* is the wish for another one.
LEMMA EndKeepsCover ==
    ASSUME MonitorInv, ScanFinish \/ ScanFail \/ Restart
    PROVE  CoverKept
BY DEF MonitorInv, TypeOK, ScanFinish, ScanFail, Restart, Finish, WantsAnother, NoAttempt,
       CoverKept, Covered, WillSee, CoveredNext, durable

LEMMA CoveredKept ==
    ASSUME MonitorInv, [Next]_vars
    PROVE  CoverKept
<1>1. CASE UNCHANGED vars
  BY <1>1, MonitorKeepsCover DEF vars, attempt, ledger
<1>2. CASE MonitorNext \/ PassWithoutSpace
  <2>1. UNCHANGED <<durable, attempt>>
    BY <1>2 DEF MonitorNext, PassWithoutSpace, ProbeStart, ReadMarker, NoteMarker, Sweep,
                CommitPass, PassDisturbed
  <2>2. UNCHANGED ledger \/ Note
    BY <1>2 DEF MonitorNext, PassWithoutSpace, ProbeStart, ReadMarker, NoteMarker, Sweep,
                CommitPass, PassDisturbed
  <2> QED
    BY <2>1, <2>2, MonitorKeepsCover DEF attempt
<1>3. CASE \E k \in Locator : ChangeSource(k)
  BY <1>3, MonitorKeepsCover DEF ChangeSource
<1>4. CASE ResidentNext \/ ScanStart \/ ScanFail \/ Restart
  BY <1>4, StartKeepsCover, ObserveKeepsCover, PublicationKeepsCover, EndKeepsCover
  DEF ResidentNext
<1> QED
  BY <1>1, <1>2, <1>3, <1>4 DEF Next

-----------------------------------------------------------------------------
(* The invariant. *)

LEMMA MonitorInitInv == Init => MonitorInv
<1> SUFFICES ASSUME Init PROVE MonitorInv
  OBVIOUS
<1> USE MonitorAssumption DEF Init, NoRows, Versions, LedgerInit
<1>1. TypeOK
  <2>1. 0 \in 0..BatchLimit /\ 0 \in 0..MaxFaults
    OBVIOUS
  <2>2. source \in Versions /\ \A l \in Locator : index[l] = 0
    OBVIOUS
  <2> QED
    BY <2>1, <2>2 DEF TypeOK
<1>2. OnlyPast /\ SweptRowsGone /\ DraftRows
  BY DEF OnlyPast, SweptRowsGone, DraftRows
<1>3. CutsAdvance
  BY DEF CutsAdvance
<1>4. PassCovered /\ KnownCovered
  BY DEF PassCovered, KnownCovered, Covered
<1> QED
  BY <1>1, <1>2, <1>3, <1>4 DEF MonitorInv

LEMMA TypeStep ==
    ASSUME TypeOK, DraftRows, CutsAdvance, [Next]_vars
    PROVE  TypeOK' /\ DraftRows'
<1> USE MonitorAssumption DEF TypeOK, DraftRows, Versions, NoRows
<1>1. CASE UNCHANGED vars
  BY <1>1 DEF vars, durable, pass, attempt
<1>2. CASE ProbeStart
  BY <1>2 DEF ProbeStart, ledger, durable, attempt
<1>3. CASE NoteMarker
  BY <1>3 DEF NoteMarker, Note, durable, attempt
<1>4. CASE Sweep
  BY <1>4 DEF Sweep, Note, ledger, durable, attempt
<1>5. CASE CommitPass
  <2>1. index' \in Versions /\ \A l \in Locator : index'[l] = 0 \/ Present(index'[l])
    BY <1>5 DEF CommitPass, RowsLeft
  <2>2. known' \in Versions
    BY <1>5 DEF CommitPass
  <2> QED
    BY <1>5, <2>1, <2>2 DEF CommitPass, NoPass, ledger, durable, attempt
<1>6. CASE PassDisturbed
  BY <1>6 DEF PassDisturbed, NoPass, Note, durable, attempt
<1>7. ASSUME NEW l \in Locator, ReadMarker(l) PROVE TypeOK' /\ DraftRows'
  <2>1. CASE Present(source[l])
    BY <1>7, <2>1 DEF ReadMarker, Upsert, ledger, durable, attempt
  <2>2. CASE ~Present(source[l])
    BY <1>7, <2>2 DEF ReadMarker, ledger, durable, attempt
  <2> QED
    BY <2>1, <2>2
<1>8. CASE PassWithoutSpace
  <2>1. faults' \in 0..MaxFaults
    BY <1>8 DEF PassWithoutSpace
  <2> QED
    BY <1>8, <2>1 DEF PassWithoutSpace, NoPass, ledger, durable, attempt
<1>9. ASSUME NEW l \in Locator, Observe(l) PROVE TypeOK' /\ DraftRows'
  <2>1. cut' \in Versions
    BY <1>9 DEF Observe
  <2>2. admitted' \in 0..BatchLimit
    BY <1>9 DEF Observe
  <2>3. again' \in BOOLEAN
    BY <1>9 DEF Observe
  <2> QED
    BY <1>9, <2>1, <2>2, <2>3 DEF Observe, ledger, durable, pass
<1>10. CASE Seal
  BY <1>10 DEF Seal, ledger, pass
<1>11. ASSUME Publish PROVE TypeOK' /\ DraftRows'
  BY <1>11 DEF Publish, ledger, pass, CutsAdvance
<1>12. CASE ScanFinish
  <2>1. pending' \in BOOLEAN /\ active' = FALSE
    BY <1>12, Zenon DEF ScanFinish, Finish, WantsAnother
  <2>2. 0 \in 0..BatchLimit
    OBVIOUS
  <2> QED
    BY <1>12, <2>1, <2>2 DEF ScanFinish, NoAttempt, durable, pass
<1>13. CASE ScanFail
  <2>1. pending' \in BOOLEAN /\ active' = FALSE
    BY <1>13, Zenon DEF ScanFail, Finish
  <2>2. 0 \in 0..BatchLimit /\ faults' \in 0..MaxFaults
    BY <1>13 DEF ScanFail
  <2> QED
    BY <1>13, <2>1, <2>2 DEF ScanFail, NoAttempt, durable, pass
<1>14. CASE ScanStart
  BY <1>14 DEF ScanStart, Start, durable, pass
<1>15. CASE Restart
  <2>1. 0 \in 0..BatchLimit /\ faults' \in 0..MaxFaults
    BY <1>15 DEF Restart
  <2> QED
    BY <1>15, <2>1 DEF Restart, NoPass, NoAttempt, durable
<1>16. ASSUME NEW l \in Locator, ChangeSource(l) PROVE TypeOK' /\ DraftRows'
  BY <1>16 DEF ChangeSource, ledger, durable
<1> QED
  BY <1>1, <1>2, <1>3, <1>4, <1>5, <1>6, <1>7, <1>8, <1>9, <1>10, <1>11, <1>12, <1>13,
     <1>14, <1>15, <1>16 DEF Next, MonitorNext, ResidentNext

\* What a step of the monitor leaves alone.
LEMMA MonitorFrame ==
    ASSUME MonitorNext \/ PassWithoutSpace
    PROVE  UNCHANGED <<source, durable, attempt>> /\ (UNCHANGED ledger \/ Note)
BY DEF MonitorNext, PassWithoutSpace, ProbeStart, ReadMarker, NoteMarker, Sweep, CommitPass,
       PassDisturbed

\* What a step of the resident leaves alone.
LEMMA ResidentFrame ==
    ASSUME ResidentNext \/ ScanStart \/ ScanFail
    PROVE  UNCHANGED <<source, index, pass, known>>
BY DEF ResidentNext, ScanStart, ScanFail, Observe, Seal, Publish, ScanFinish

\* The source only moves on.
LEMMA SourceGrows ==
    ASSUME TypeOK, TypeOK', [Next]_vars
    PROVE  \A l \in Locator : source[l] <= source'[l]
<1> USE DEF TypeOK, Versions
<1>1. ASSUME NEW k \in Locator, ChangeSource(k)
      PROVE  \A l \in Locator : source[l] <= source'[l]
  BY <1>1 DEF ChangeSource
<1>2. CASE UNCHANGED source
  BY <1>2
<1> QED
  BY <1>1, <1>2, MonitorFrame, ResidentFrame DEF Next, vars, Restart

LEMMA PastStep ==
    ASSUME MonitorInv, TypeOK', [Next]_vars
    PROVE  OnlyPast' /\ SweptRowsGone'
<1> USE DEF MonitorInv, TypeOK, Versions
<1>g. \A l \in Locator : source[l] <= source'[l]
  BY SourceGrows
<1>u. CASE UNCHANGED <<index, known, draft, published, cut, unread, seen>>
  BY <1>u, <1>g DEF OnlyPast, SweptRowsGone
<1>1. CASE UNCHANGED vars
  BY <1>1, <1>u DEF vars, durable, pass, attempt
<1>2. CASE ProbeStart
  BY <1>2 DEF ProbeStart, durable, attempt, OnlyPast, SweptRowsGone
<1>3. CASE NoteMarker
  BY <1>3, <1>u DEF NoteMarker, durable, attempt
<1>4. CASE Sweep
  BY <1>4, <1>u DEF Sweep, durable, attempt
<1>5. CASE CommitPass
  <2>1. SweptRowsGone'
    BY <1>5 DEF CommitPass, NoPass, NoRows, SweptRowsGone
  <2>2. UNCHANGED <<source, published, cut>> /\ draft' = NoRows
    BY <1>5 DEF CommitPass, NoPass, durable, attempt
  <2>3. ASSUME NEW l \in Locator PROVE known'[l] <= source[l] /\ index'[l] <= known'[l]
    <3>1. l \in Missing => draft[l] + 1 <= source[l]
      BY <1>5 DEF CommitPass, Missing, PassCovered, SweptRowsGone
    <3>2. CASE l \in Missing
      BY <1>5, <3>1, <3>2 DEF CommitPass, RowsLeft
    <3>3. CASE l \notin Missing /\ l \in seen
      BY <1>5, <3>3 DEF CommitPass, RowsLeft, OnlyPast
    <3>4. CASE l \notin Missing /\ l \notin seen
      <4>1. draft[l] = 0
        BY <3>4 DEF Missing
      <4> QED
        BY <1>5, <3>4, <4>1 DEF CommitPass, RowsLeft, OnlyPast
    <3> QED
      BY <3>2, <3>3, <3>4
  <2> QED
    BY <2>1, <2>2, <2>3 DEF OnlyPast, NoRows
<1>6. CASE PassDisturbed \/ PassWithoutSpace
  BY <1>6 DEF PassDisturbed, PassWithoutSpace, NoPass, NoRows, durable, attempt, OnlyPast,
              SweptRowsGone
<1>7. ASSUME NEW k \in Locator, ReadMarker(k) PROVE OnlyPast' /\ SweptRowsGone'
  <2>1. UNCHANGED <<source, index, known, published, cut>> /\ unread' = unread \ {k}
    BY <1>7 DEF ReadMarker, durable, attempt
  <2>2. CASE Present(source[k])
    <3>1. draft' = [draft EXCEPT ![k] = source[k]] /\ seen' = seen \cup {k}
      BY <1>7, <2>2 DEF ReadMarker, Upsert
    <3> QED
      BY <2>1, <3>1 DEF OnlyPast, SweptRowsGone
  <2>3. CASE ~Present(source[k])
    <3>1. UNCHANGED <<draft, seen>>
      BY <1>7, <2>3 DEF ReadMarker
    <3>2. draft[k] = 0 \/ draft[k] # source[k]
      BY <2>3 DEF DraftRows
    <3>3. draft[k] # 0 => draft[k] + 1 <= source[k]
      BY <3>2 DEF OnlyPast
    <3> QED
      BY <2>1, <3>1, <3>3 DEF OnlyPast, SweptRowsGone
  <2> QED
    BY <2>2, <2>3
<1>8. ASSUME NEW k \in Locator, Observe(k) PROVE OnlyPast' /\ SweptRowsGone'
  <2>1. UNCHANGED <<source, index, known, draft, published, unread, seen>>
    BY <1>8 DEF Observe, durable, pass
  <2>2. cut' = cut \/ cut' = [cut EXCEPT ![k] = source[k]]
    BY <1>8 DEF Observe
  <2> QED
    BY <2>1, <2>2 DEF OnlyPast, SweptRowsGone
<1>9. CASE Seal
  BY <1>9 DEF Seal, pass, NoRows, OnlyPast, SweptRowsGone
<1>10. CASE Publish
  BY <1>10 DEF Publish, pass, OnlyPast, SweptRowsGone, CutsAdvance
<1>11. CASE ScanFinish \/ ScanFail
  <2>1. UNCHANGED <<source, index, known, draft, published, unread, seen>>
    BY <1>11 DEF ScanFinish, ScanFail, durable, pass
  <2>2. cut' = NoRows
    BY <1>11 DEF ScanFinish, ScanFail, NoAttempt
  <2> QED
    BY <2>1, <2>2 DEF NoRows, OnlyPast, SweptRowsGone
<1>12. CASE ScanStart
  BY <1>12 DEF ScanStart, durable, pass, OnlyPast, SweptRowsGone
<1>13. CASE Restart
  BY <1>13 DEF Restart, NoPass, NoAttempt, NoRows, durable, OnlyPast, SweptRowsGone
<1>14. ASSUME NEW k \in Locator, ChangeSource(k) PROVE OnlyPast' /\ SweptRowsGone'
  BY <1>14, <1>u DEF ChangeSource, durable
<1> QED
  BY <1>1, <1>2, <1>3, <1>4, <1>5, <1>6, <1>7, <1>8, <1>9, <1>10, <1>11, <1>12, <1>13, <1>14
  DEF Next, MonitorNext, ResidentNext

LEMMA CutsStep ==
    ASSUME MonitorInv, TypeOK', [Next]_vars
    PROVE  CutsAdvance'
<1> USE DEF MonitorInv, TypeOK, Versions
<1>u. CASE UNCHANGED <<published, sealed, scan, cut>>
  BY <1>u, SourceGrows DEF CutsAdvance
<1>1. CASE UNCHANGED vars
  BY <1>1, <1>u DEF vars, durable, attempt
<1>2. CASE MonitorNext \/ PassWithoutSpace
  BY <1>2, <1>u, MonitorFrame DEF durable, attempt
<1>3. ASSUME NEW k \in Locator, Observe(k) PROVE CutsAdvance'
  <2>1. UNCHANGED <<source, published, sealed, scan>> /\ scan = "observing"
    BY <1>3 DEF Observe, durable
  <2>2. cut' = cut \/ cut' = [cut EXCEPT ![k] = source[k]]
    BY <1>3 DEF Observe
  <2> QED
    BY <2>1, <2>2 DEF CutsAdvance, OnlyPast
<1>4. CASE Seal
  BY <1>4 DEF Seal, CutsAdvance, OnlyPast
<1>5. CASE Publish
  BY <1>5 DEF Publish, CutsAdvance
<1>6. CASE ScanFinish \/ ScanFail \/ Restart
  BY <1>6 DEF ScanFinish, ScanFail, Restart, NoAttempt, durable, CutsAdvance
<1>7. CASE ScanStart
  BY <1>7 DEF ScanStart, durable, CutsAdvance, OnlyPast
<1>8. ASSUME NEW k \in Locator, ChangeSource(k) PROVE CutsAdvance'
  BY <1>8, <1>u DEF ChangeSource, durable
<1> QED
  BY <1>1, <1>2, <1>3, <1>4, <1>5, <1>6, <1>7, <1>8 DEF Next, ResidentNext

\* What was covered up to now is covered after the step, as long as it is a
\* version the source has had.
LEMMA StillCovered ==
    ASSUME MonitorInv, TypeOK', [Next]_vars, NEW l \in Locator,
           known'[l] = known[l]
    PROVE  CoveredNext(l, known'[l])
<1>1. known[l] \in 0..source[l]
  BY DEF MonitorInv, OnlyPast, TypeOK, Versions
<1> QED
  BY <1>1, CoveredKept DEF CoverKept, KnownCovered, MonitorInv

\* Covered is downward closed.
LEMMA CoversLess ==
    ASSUME TypeOK, NEW l \in Locator, NEW v \in Nat, NEW w \in Nat, v <= w, Covered(l, w),
           scan = "publishing" => sealed \in Versions
    PROVE  Covered(l, v)
BY DEF TypeOK, Versions, Covered, WillSee

LEMMA PassStep ==
    ASSUME MonitorInv, TypeOK', [Next]_vars
    PROVE  PassCovered'
<1> USE DEF MonitorInv
<1>k. CoverKept
  BY CoveredKept
<1>p. ASSUME pending' PROVE \A l \in Locator : Covered(l, draft[l])' /\ Covered(l, draft[l] + 1)'
  BY <1>p DEF Covered
<1>u. ASSUME UNCHANGED <<probe, draft, seen, unread>> PROVE PassCovered'
  <2>1. ASSUME NEW l \in Locator, Covered(l, draft[l]) PROVE Covered(l, draft[l])'
    <3>1. draft[l] \in 0..source[l]
      BY DEF OnlyPast, TypeOK, Versions
    <3>2. CoveredNext(l, draft[l])
      BY <1>k, <2>1, <3>1 DEF CoverKept
    <3> QED
      BY <3>2, <1>u DEF Covered, WillSee, CoveredNext
  <2>2. ASSUME NEW l \in Missing, Covered(l, draft[l] + 1), unread = {}
        PROVE  Covered(l, draft[l] + 1)'
    <3>1. l \in Locator /\ draft[l] + 1 \in 0..source[l]
      BY <2>2 DEF Missing, SweptRowsGone, TypeOK, Versions
    <3>2. CoveredNext(l, draft[l] + 1)
      BY <1>k, <2>2, <3>1 DEF CoverKept
    <3> QED
      BY <3>2, <1>u DEF Covered, WillSee, CoveredNext
  <2>3. Missing' = Missing
    BY <1>u DEF Missing
  <2> QED
    BY <2>1, <2>2, <2>3, <1>u DEF PassCovered
<1>1. CASE UNCHANGED vars
  BY <1>1, <1>u DEF vars, pass
<1>2. CASE ProbeStart
  <2>1. UNCHANGED <<ledger, durable, attempt>> /\ draft' = index /\ probe' = "reading"
    BY <1>2 DEF ProbeStart
  <2>2. ASSUME NEW l \in Locator PROVE Covered(l, draft[l])'
    <3>1. Covered(l, index[l])
      BY CoversLess DEF KnownCovered, OnlyPast, TypeOK, Versions, CutsAdvance
    <3> QED
      BY <2>1, <3>1 DEF Covered, WillSee, ledger, durable, attempt
  <2> QED
    BY <2>1, <2>2 DEF PassCovered
<1>3. CASE NoteMarker
  BY <1>3, <1>p DEF NoteMarker, Note, PassCovered
<1>4. CASE Sweep
  <2>1. UNCHANGED <<durable, attempt, unread, draft, seen>> /\ unread = {} /\ probe = "reading"
    BY <1>4 DEF Sweep
  <2>2. Missing' = Missing
    BY <2>1 DEF Missing
  <2>3. CASE Missing = {}
    <3>1. UNCHANGED ledger
      BY <1>4, <2>3 DEF Sweep
    <3> QED
      BY <2>1, <2>2, <2>3, <3>1 DEF PassCovered, Covered, WillSee, ledger, durable, attempt
  <2>4. CASE Missing # {}
    <3>1. pending'
      BY <1>4, <2>4 DEF Sweep, Note
    <3>2. Missing \subseteq Locator
      BY DEF Missing
    <3> QED
      BY <2>1, <2>2, <3>1, <3>2, <1>p DEF PassCovered
  <2> QED
    BY <2>3, <2>4
<1>5. CASE CommitPass \/ PassDisturbed \/ PassWithoutSpace \/ Restart
  BY <1>5 DEF CommitPass, PassDisturbed, PassWithoutSpace, Restart, NoPass, PassCovered
<1>6. ASSUME NEW k \in Locator, ReadMarker(k) PROVE PassCovered'
  <2>1. UNCHANGED <<ledger, durable, attempt>> /\ probe' \in {"reading", "noting"}
    BY <1>6 DEF ReadMarker
  <2>2. ASSUME probe' = "reading" PROVE draft' = draft
    BY <1>6, <2>2 DEF ReadMarker, Upsert, IsNews, TypeOK, Versions
  <2>3. probe = "reading"
    BY <1>6 DEF ReadMarker
  <2> QED
    BY <2>1, <2>2, <2>3 DEF PassCovered, Covered, WillSee, ledger, durable, attempt
<1>7. CASE ResidentNext \/ ScanStart \/ ScanFail
  BY <1>7, <1>u, ResidentFrame DEF pass
<1>8. ASSUME NEW k \in Locator, ChangeSource(k) PROVE PassCovered'
  BY <1>8, <1>u DEF ChangeSource
<1> QED
  BY <1>1, <1>2, <1>3, <1>4, <1>5, <1>6, <1>7, <1>8 DEF Next, MonitorNext

LEMMA KnownStep ==
    ASSUME MonitorInv, TypeOK', [Next]_vars
    PROVE  KnownCovered'
<1> USE DEF MonitorInv
<1>1. ASSUME NEW l \in Locator, known'[l] = known[l] PROVE Covered(l, known[l])'
  BY <1>1, StillCovered DEF Covered, WillSee, CoveredNext
<1>2. CASE CommitPass
  <2>1. UNCHANGED <<ledger, durable, attempt>> /\ probe = "swept"
    BY <1>2 DEF CommitPass
  <2>2. ASSUME NEW l \in Locator PROVE Covered(l, known[l])'
    <3>1. CASE l \in Missing
      <4>1. known'[l] = draft[l] + 1 /\ Covered(l, draft[l] + 1)
        BY <1>2, <2>1, <3>1 DEF CommitPass, PassCovered
      <4> QED
        BY <2>1, <4>1 DEF Covered, WillSee, ledger, durable, attempt
    <3>2. CASE l \notin Missing /\ l \in seen
      <4>1. known'[l] = draft[l] /\ Covered(l, draft[l])
        BY <1>2, <2>1, <3>2 DEF CommitPass, PassCovered
      <4> QED
        BY <2>1, <4>1 DEF Covered, WillSee, ledger, durable, attempt
    <3>3. CASE l \notin Missing /\ l \notin seen
      BY <1>1, <1>2, <3>3 DEF CommitPass
    <3> QED
      BY <3>1, <3>2, <3>3
  <2> QED
    BY <2>2 DEF KnownCovered
<1>3. CASE UNCHANGED known
  BY <1>1, <1>3 DEF KnownCovered
<1>4. UNCHANGED known \/ CommitPass
  BY ResidentFrame DEF vars, Next, MonitorNext, ProbeStart, NoteMarker, Sweep, PassDisturbed,
     ReadMarker, PassWithoutSpace, Restart, ChangeSource
<1> QED
  BY <1>2, <1>3, <1>4

\* The invariant of the monitor, and with it the types.
THEOREM MonitorInvariance == Spec => []MonitorInv
<1>1. MonitorInv /\ [Next]_vars => MonitorInv'
  <2> SUFFICES ASSUME MonitorInv, [Next]_vars PROVE MonitorInv'
    OBVIOUS
  <2>1. TypeOK' /\ DraftRows'
    BY TypeStep DEF MonitorInv
  <2> QED
    BY <2>1, PastStep, CutsStep, PassStep, KnownStep DEF MonitorInv
<1> QED
  BY MonitorInitInv, <1>1, PTL DEF Spec

THEOREM MonitorTypeCorrectness == Spec => []TypeOK
<1>1. MonitorInv => TypeOK
  BY DEF MonitorInv
<1> QED
  BY MonitorInvariance, <1>1, PTL

\* Whatever the committed index of the monitor will not report again
\* (source_monitor.py _MarkerIndex.reconcile) has been published, or a scan
\* that will see it is wanted or under way.
THEOREM ChangesAreKept == Spec => []NoChangeForgotten
<1>1. MonitorInv => NoChangeForgotten
  BY DEF MonitorInv, KnownCovered, Covered, NoChangeForgotten
<1> QED
  BY MonitorInvariance, <1>1, PTL

-----------------------------------------------------------------------------
(* IngestSession *)


\* A renewal, with its retries, and a facade call hold the lock throughout.
LockIsHeld ==
    /\ worker \in {"renewing", "retrying", "calling", "completing"} => lock = "worker"
    /\ heartbeat \in {"renewing", "retrying"} => lock = "heartbeat"

\* The thread is started after the renewal of __enter__ and joined before
\* the session is left.
HeartbeatLives ==
    /\ worker \in {"asking", "renewing", "retrying"} => heartbeat = "off"
    /\ worker \in {"leaving", "completing", "idle"} => heartbeat \in {"off", "dead"}

\* The controller's receipt is stale only after a failure it has recorded.
ReceiptIsNewest == worker # "idle" /\ owner = "us" /\ ~failed => session = lease

\* A call or local step that is under way is one of those still to do.
CallIsCounted == worker \in {"calling", "outside"} => work > 0

\* A renewal that waits for a locked database has an attempt left.
AttemptsAreLeft == "retrying" \in {worker, heartbeat} => tries < MaxRetries

CallsAreFenced == failed => ~InFlight

SessionInv ==
    /\ SessionTypeOK /\ LockIsHeld /\ HeartbeatLives
    /\ ReceiptIsNewest /\ CallIsCounted /\ AttemptsAreLeft /\ CallsAreFenced

-----------------------------------------------------------------------------
LEMMA InitSessionInv == SessionInit => SessionInv
<1> SUFFICES ASSUME SessionInit PROVE SessionInv
  OBVIOUS
<1> USE SessionAssumption DEF SessionInit
<1>1. 0 \in 0..MaxLease /\ 0 \in 0..MaxCalls /\ 0 \in 0..MaxRetries /\ 0 \in 0..0
  OBVIOUS
<1>2. SessionTypeOK
  BY <1>1 DEF SessionTypeOK, WorkerAt, HeartbeatAt
<1>3. QED
  BY <1>2 DEF SessionInv, LockIsHeld, HeartbeatLives, ReceiptIsNewest, CallIsCounted,
              AttemptsAreLeft, CallsAreFenced, InFlight

LEMMA RenewalInv ==
    ASSUME NEW who \in {"worker", "heartbeat"}
    PROVE  SessionInv /\ Renewal(who) => SessionInv'
<1> SUFFICES ASSUME SessionInv, Renewal(who) PROVE SessionInv'
  OBVIOUS
<1> USE SessionAssumption
    DEF SessionInv, SessionTypeOK, WorkerAt, HeartbeatAt, LockIsHeld, HeartbeatLives, ReceiptIsNewest,
        CallIsCounted, AttemptsAreLeft, CallsAreFenced, InFlight, core, controller, At
<1>1. CASE RenewStart(who)
  <2>1. CASE failed
    <3>1. CASE who = "worker"
      BY <1>1, <2>1, <3>1 DEF RenewStart, Fails
    <3>2. CASE who = "heartbeat"
      BY <1>1, <2>1, <3>2 DEF RenewStart, Fails
    <3>3. QED
      BY <3>1, <3>2
  <2>2. CASE ~failed
    <3>1. 1 \in 0..MaxRetries
      OBVIOUS
    <3>2. CASE who = "worker"
      BY <1>1, <2>2, <3>1, <3>2 DEF RenewStart, Goto, LockHeld
    <3>3. CASE who = "heartbeat"
      BY <1>1, <2>2, <3>1, <3>3 DEF RenewStart, Goto, LockHeld
    <3>4. QED
      BY <3>2, <3>3
  <2>3. QED
    BY <2>1, <2>2
<1>2. CASE Renewed(who)
  BY <1>2 DEF Renewed
<1>3. CASE RenewFailed(who)
  <2>1. lease' \in 0..MaxLease /\ session' \in 0..lease'
    BY <1>3 DEF RenewFailed
  <2>2. CASE who = "worker"
    BY <1>3, <2>1, <2>2 DEF RenewFailed, Fails
  <2>3. CASE who = "heartbeat"
    BY <1>3, <2>1, <2>3 DEF RenewFailed, Fails
  <2>4. QED
    BY <2>2, <2>3
<1>4. CASE RenewBusy(who)
  BY <1>4 DEF RenewBusy, Goto, Late
<1>5. CASE RenewAgain(who)
  BY <1>5 DEF RenewAgain, Goto
<1>6. QED
  BY <1>1, <1>2, <1>3, <1>4, <1>5 DEF Renewal

LEMMA WorkerInv == SessionInv /\ WorkerNext => SessionInv'
<1> SUFFICES ASSUME SessionInv, WorkerNext PROVE SessionInv'
  OBVIOUS
<1> USE SessionAssumption
    DEF SessionInv, SessionTypeOK, WorkerAt, HeartbeatAt, LockIsHeld, HeartbeatLives, ReceiptIsNewest,
        CallIsCounted, AttemptsAreLeft, CallsAreFenced, InFlight, core, controller, Exit, Fenced
<1>1. CASE Renewal("worker")
  BY <1>1, RenewalInv
<1>2. CASE CallStart
  BY <1>2 DEF CallStart
<1>3. CASE CallEnd
  <2>1. work' \in 0..MaxCalls
    BY <1>3 DEF CallEnd
  <2>2. QED
    BY <1>3, <2>1 DEF CallEnd
<1>4. CASE OutsideStart
  BY <1>4 DEF OutsideStart
<1>5. CASE OutsideEnd
  <2>1. work' \in 0..MaxCalls
    BY <1>5 DEF OutsideEnd
  <2>2. QED
    BY <1>5, <2>1 DEF OutsideEnd
<1>6. CASE Recheck
  BY <1>6 DEF Recheck
<1>7. CASE Done
  BY <1>7 DEF Done
<1>8. CASE Leave
  BY <1>8 DEF Leave, Joined
<1>9. CASE CompleteStart
  BY <1>9 DEF CompleteStart
<1>10. CASE CompleteEnd
  BY <1>10 DEF CompleteEnd
<1>11. CASE Abandon
  BY <1>11 DEF Abandon
<1>12. QED
  BY <1>1, <1>2, <1>3, <1>4, <1>5, <1>6, <1>7, <1>8, <1>9, <1>10, <1>11 DEF WorkerNext

LEMMA NextSessionInv == SessionInv /\ [SessionNext]_sessionVars => SessionInv'
<1> SUFFICES ASSUME SessionInv, [SessionNext]_sessionVars PROVE SessionInv'
  OBVIOUS
<1> USE SessionAssumption
    DEF SessionInv, SessionTypeOK, WorkerAt, HeartbeatAt, LockIsHeld, HeartbeatLives, ReceiptIsNewest,
        CallIsCounted, AttemptsAreLeft, CallsAreFenced, InFlight, core, controller, threads
<1>1. CASE Claim
  <2>1. /\ lease' \in 0..MaxLease /\ session' \in 0..lease'
        /\ work' \in 0..MaxCalls /\ tries' \in 0..MaxRetries
    BY <1>1 DEF Claim
  <2>2. QED
    BY <1>1, <2>1 DEF Claim
<1>2. CASE Expire
  BY <1>2 DEF Expire
<1>3. CASE OtherLeaves
  BY <1>3 DEF OtherLeaves
<1>4. CASE Killed
  BY <1>4 DEF Killed
<1>5. CASE WorkerNext
  BY <1>5, WorkerInv
<1>6. CASE Renewal("heartbeat")
  BY <1>6, RenewalInv
<1>7. CASE HeartbeatStopped
  BY <1>7 DEF HeartbeatStopped
<1>8. CASE HeartbeatDue
  BY <1>8 DEF HeartbeatDue
<1>9. CASE UNCHANGED sessionVars
  BY <1>9 DEF sessionVars
<1>10. QED
  BY <1>1, <1>2, <1>3, <1>4, <1>5, <1>6, <1>7, <1>8, <1>9 DEF SessionNext, HeartbeatNext

\* Lock, heartbeat thread, receipt and recorded failure fit together in every
\* reachable state.
THEOREM SessionInvariance == SessionSpec => []SessionInv
BY InitSessionInv, NextSessionInv, PTL DEF SessionSpec

-----------------------------------------------------------------------------
\* A facade call, and the completion of the session, carry the newest receipt
\* from their start to their end (IngestSessionController.call, session.py).
THEOREM NewestReceipt == SessionSpec => []CallsCarryTheNewestReceipt
<1>1. SessionInv => CallsCarryTheNewestReceipt
  BY DEF SessionInv, ReceiptIsNewest, CallsAreFenced, CallsCarryTheNewestReceipt, InFlight
<1>2. QED
  BY <1>1, SessionInvariance, PTL

\* No facade call is in flight after a failed renewal, and none completes a
\* session whose heartbeat may still renew it (session.py).
THEOREM FailureFence == SessionSpec => []FailureFencesCalls
<1>1. SessionInv => FailureFencesCalls
  BY DEF SessionInv, HeartbeatLives, CallsAreFenced, FailureFencesCalls
<1>2. QED
  BY <1>1, SessionInvariance, PTL

\* Receipts, attempts and the places of both threads stay in their ranges.
THEOREM SessionTypeCorrectness == SessionSpec => []SessionTypeOK
<1>1. SessionInv => SessionTypeOK
  BY DEF SessionInv
<1>2. QED
  BY <1>1, SessionInvariance, PTL
=============================================================================
