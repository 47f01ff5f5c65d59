--------------------------- MODULE SourceSchedule ---------------------------
(***************************************************************************)
(* SourceScanSchedule (source_schedule.py): the debounce the source        *)
(* monitor and the resident loop share.  Each method runs under the lock,  *)
(* but its caller reads the clock before it gets the lock, so the times    *)
(* two callers pass may arrive out of order.                               *)
(*                                                                         *)
(* The ticket's sequence and generation numbers are left out: no decision  *)
(* of the code reads them (a ticket is compared by identity).              *)
(***************************************************************************)
EXTENDS Naturals

CONSTANTS
    Quiet, MaxWait,     \* quiet_seconds, max_wait_seconds
    MaxTime,            \* bound: the last time the clock shows
    NoTime              \* None

ASSUME ScheduleAssumption ==
    /\ Quiet \in Nat \ {0} /\ MaxWait \in Nat \ {0} /\ Quiet <= MaxWait
    /\ MaxTime \in Nat
    /\ NoTime \notin Nat

Time == Nat \cup {NoTime}
Caller == {"monitor", "resident"}

VARIABLES
    now,            \* the monotonic clock
    read,           \* the time each caller has read and not yet passed on
    lastChangeAt, hardDeadline,
    startedAt,      \* of the active ticket
    \* History, read by the properties only: since when a scan is wanted, the
    \* end of the last scan, and what that end has asked for
    since, finishedAt, asked

schedule == <<lastChangeAt, hardDeadline, startedAt>>
history == <<since, finishedAt, asked>>
scheduleVars == <<now, read, schedule, history>>

Lesser(a, b) == IF a <= b THEN a ELSE b

Later(a, b) == IF a >= b THEN a ELSE b

Active == startedAt # NoTime
Wanted == lastChangeAt # NoTime

\* next_scan_at()
NextScanAt ==
    IF Active \/ ~Wanted THEN NoTime
    ELSE Lesser(lastChangeAt + Quiet, hardDeadline)

ScheduleInit ==
    /\ now = 0 /\ read = [c \in Caller |-> NoTime]
    /\ lastChangeAt = 0 /\ hardDeadline = 0 /\ startedAt = NoTime
    /\ since = 0 /\ finishedAt = 0 /\ asked = "nothing"

Tick ==
    /\ now < MaxTime
    /\ now' = now + 1
    /\ UNCHANGED <<read, schedule, history>>

ReadClock(c) ==
    /\ read[c] = NoTime
    /\ read' = [read EXCEPT ![c] = now]
    /\ UNCHANGED <<now, schedule, history>>

Passed(c) == read[c] # NoTime /\ read' = [read EXCEPT ![c] = NoTime]

\* Mutation: every change starts the maximum wait again.
CapAfterEveryChange(at) == at + MaxWait
CapAfterChange(at) == IF Wanted THEN hardDeadline ELSE at + MaxWait

NoteChange ==
    LET at == read["monitor"] IN
    /\ Passed("monitor")
    /\ lastChangeAt' = IF Wanted THEN Later(lastChangeAt, at) ELSE at
    /\ hardDeadline' = CapAfterChange(at)
    /\ since' = IF Wanted THEN since ELSE at
    /\ UNCHANGED <<now, startedAt, finishedAt, asked>>

\* Not only when due: a downloader's handoff starts a scan at any time.
StartScan ==
    /\ Passed("resident")
    /\ ~Active
    /\ startedAt' = read["resident"]
    /\ lastChangeAt' = NoTime /\ hardDeadline' = NoTime
    /\ since' = NoTime /\ asked' = "nothing"
    /\ UNCHANGED <<now, finishedAt>>

\* How a scan may end: succeeded, pending_batch and waiting_galleries.
Outcomes == {"clean", "batch", "waiting", "failed"}

\* Mutation: a failed scan keeps whatever was pending before.
RetriesUnlessFailed(how) == how \in {"batch", "waiting"}
Retries(how) == how \in {"batch", "waiting", "failed"}

DeadlineAfter(how, at) ==
    CASE how = "batch"                            -> at
      [] how # "batch" /\ lastChangeAt' # NoTime  -> at + MaxWait
      [] how # "batch" /\ lastChangeAt' = NoTime  -> hardDeadline

\* Mutation: the end of a scan acknowledges every change noted so far.
ChangeForgotten(how, at) == IF Retries(how) THEN at ELSE NoTime
ChangeAfter(how, at) == IF Retries(how) THEN at ELSE lastChangeAt

FinishScan(how) ==
    LET at == read["resident"] IN
    /\ Passed("resident")
    /\ Active
    /\ lastChangeAt' = ChangeAfter(how, at)
    /\ hardDeadline' = DeadlineAfter(how, at)
    /\ startedAt' = NoTime
    /\ since' = IF Wanted \/ how = "clean" THEN since ELSE at
    /\ finishedAt' = at /\ asked' = how
    /\ UNCHANGED now

ScheduleNext ==
    \/ Tick \/ NoteChange \/ StartScan
    \/ \E c \in Caller : ReadClock(c)
    \/ \E how \in Outcomes : FinishScan(how)

ScheduleSpec == ScheduleInit /\ [][ScheduleNext]_scheduleVars

-----------------------------------------------------------------------------
ScheduleTypeOK ==
    /\ now \in Nat
    /\ read \in [Caller -> Time]
    /\ lastChangeAt \in Time /\ hardDeadline \in Time /\ startedAt \in Time
    /\ lastChangeAt = NoTime <=> hardDeadline = NoTime
    /\ since \in Time /\ finishedAt \in Nat
    /\ asked \in Outcomes \cup {"nothing"}

\* A source that keeps changing cannot put off its scan for longer than the
\* maximum wait, counted from the first change or from the end of the scan
\* during which it was noted; and the next batch of a scan is due at once,
\* whatever has been noted since.
WaitIsBounded ==
    /\ NextScanAt # NoTime =>
         since # NoTime /\ (NextScanAt <= since + MaxWait \/ NextScanAt <= finishedAt + MaxWait)
    /\ asked = "batch" /\ ~Active => NextScanAt # NoTime /\ NextScanAt <= finishedAt

\* A failed scan, and one that met unstable galleries, is not repeated before
\* a fresh quiet delay, however old the changes are that are still pending.
RetryBacksOff ==
    asked \in {"failed", "waiting"} /\ ~Active =>
        NextScanAt # NoTime /\ NextScanAt >= finishedAt + Quiet

Ledger == INSTANCE ScanLedger WITH pending <- Wanted, active <- Active

\* No change is lost between two scans, and none is invented.
ImplementsScanLedger == Ledger!LedgerSpec
=============================================================================
