--------------------------- MODULE ResidentProcess ---------------------------
(***************************************************************************)
(* One ingest process from its start to its end, again and again: the      *)
(* database audit session (database_audit.py), the cycles of the resident  *)
(* (resident.py) with their maintenance, claims and failures, the hints    *)
(* for reobservation (_source_retry.py), and the closing of the runtime    *)
(* (runtime.py).  The core (external) keeps the ingest lease, the audit    *)
(* session and what maintenance has to clean.                              *)
(*                                                                         *)
(* IngestSession models the threads of one session and SourceMonitor what  *)
(* makes a scan due; here a session is one attempt with all the ways it    *)
(* can end.                                                                *)
(***************************************************************************)
EXTENDS Naturals, Sequences, FiniteSets

CONSTANTS
    Galleries,      \* locators of the galleries a publication needs
    MaxLocators,    \* hints kept before everything is observed again (128)
    MaxBacklog,     \* bound: publications one burst of work needs
    MaxFaults       \* bound: errors, kills, stops and source changes

ASSUME ResidentAssumption ==
    MaxLocators \in Nat /\ MaxBacklog \in Nat \ {0} /\ MaxFaults \in Nat

VARIABLES
    lease, admission,   \* core: ingest lease and audit lease
    record,             \* core: the audit session is acknowledged or not
    clutter, slot,      \* what maintenance has to clean; a staging slot taken
    backlog, outdated,  \* work to publish; galleries whose sealed facts are old
    at, why,            \* where the resident is, how its attempt ended
    stop, waiting,      \* stop request; _capacity_waiting
    locators, full,     \* SourceReobservation
    missed,             \* outdated galleries the attempt does not look at
    admitted, failure,  \* IngestDatabaseAudit: its report and its failure
    lock, heartbeat, quit,  \* its lock, its thread, its stop event
    open, primary,      \* resources still to close; close_resources' error
    unclean,            \* IngestRuntime._unclean
    wrong,              \* history: something has gone wrong in this process
    faults

core == <<lease, admission, record>>
work == <<clutter, slot, backlog, outdated>>
resident == <<at, why, stop, waiting>>
hints == <<locators, full, missed>>
audit == <<admitted, failure, lock, heartbeat, quit>>
runtime == <<open, primary, unclean, wrong>>
vars == <<core, work, resident, hints, audit, runtime, faults>>

Units == {"library", "catalog"}
Outcomes == {"DONE", "PROGRESSED", "BLOCKED", "FULL"}

\* The order in which the runtime closes what it owns.
Resources == <<"progress", "facade", "catalog", "scratch", "audit", "admin">>

Init ==
    /\ lease = "free" /\ admission = "free" /\ record = "clean"
    /\ clutter = {} /\ slot = FALSE /\ backlog = 0 /\ outdated = {}
    /\ at = "off" /\ why = "none" /\ stop = FALSE /\ waiting = FALSE
    /\ locators = {} /\ full = FALSE /\ missed = {}
    /\ admitted = FALSE /\ failure = "none" /\ lock = "free"
    /\ heartbeat = "off" /\ quit = FALSE
    /\ open = << >> /\ primary = FALSE /\ unclean = FALSE /\ wrong = FALSE
    /\ faults = 0

Fault == faults < MaxFaults /\ faults' = faults + 1
NoFault == UNCHANGED faults
Goto(where) == at' = where /\ UNCHANGED <<why, stop, waiting>>

-----------------------------------------------------------------------------
(* Start: admission to the audit session, storage, first maintenance. *)

Start ==
    /\ at = "off"
    /\ Goto("admission")
    /\ open' = Resources
    /\ UNCHANGED <<core, work, hints, audit, primary, unclean, wrong, faults>>

\* start waits while the session of a predecessor has not expired.
Admit ==
    /\ at = "admission" /\ ~stop /\ admission = "free"
    /\ admission' = "ours" /\ record' = "open"
    /\ admitted' = TRUE /\ heartbeat' = "waiting"
    /\ Goto("storing")
    /\ UNCHANGED <<lease, work, hints, failure, lock, quit, runtime, faults>>

StartupStopped ==
    /\ at = "admission" /\ stop
    /\ Goto("closing")
    /\ UNCHANGED <<core, work, hints, audit, runtime, faults>>

\* One bounded maintenance call, and what it reports.
Possible(unit, outcome) ==
    CASE outcome = "DONE" -> unit \notin clutter
      [] outcome = "PROGRESSED" -> unit \in clutter
      [] OTHER -> TRUE

\* What is left of the units in "left"; what the catalog releases of a
\* predecessor's slot is for the library to remove.
Cleaned(left, unit, outcome) ==
    IF outcome # "PROGRESSED" THEN left
    ELSE IF unit = "catalog" /\ slot THEN (left \ {unit}) \cup {"library"}
    ELSE left \ {unit}

SlotFreed == slot' = (slot /\ ~(clutter # {} /\ clutter' = {}))
Trouble(outcomes) ==
    /\ faults' = faults + Len(SelectSeq(outcomes, LAMBDA o : o \in {"BLOCKED", "FULL"}))
    /\ faults' <= MaxFaults

Maintained(unit, outcome) ==
    /\ Possible(unit, outcome) /\ Trouble(<<outcome>>)
    /\ clutter' = Cleaned(clutter, unit, outcome)
    /\ SlotFreed

Stored ==
    /\ at = "storing"
    /\ \E outcome \in Outcomes \ {"FULL"} : Maintained("library", outcome)
    /\ Goto("polling")
    /\ UNCHANGED <<core, backlog, outdated, hints, audit, runtime>>

-----------------------------------------------------------------------------
(* Failures leave the resident; every later state is unclean. *)

\* Whoever looks at the failure has observed it.
Observed == failure' = IF failure = "none" THEN "none" ELSE "seen"

Raised ==
    /\ Goto("failing")
    /\ wrong' = TRUE
    /\ lock' = IF lock = "main" THEN "free" ELSE lock
    /\ Observed
    /\ UNCHANGED <<admitted, heartbeat, quit, open, primary, unclean>>

NotRaised == UNCHANGED <<audit, runtime>>

Busy == {"admission", "storing", "polling", "scheduling", "tending", "sweeping", "claiming",
         "ingesting", "completing", "catchup", "tidying"}

\* An error that no handler of the cycle turns into a retry; a call that
\* raised may have taken effect, and an attempt may have lost its lease.
Raise ==
    /\ at \in Busy /\ Fault
    /\ Raised
    /\ lease' \in IF at \in {"ingesting", "completing"} THEN {lease, "free"} ELSE {lease}
    /\ \/ UNCHANGED <<admission, record>>
       \/ at = "admission" /\ admission = "free" /\ admission' = "stale" /\ record' = "open"
    /\ UNCHANGED <<work, hints>>

\* raise_if_failed at every check for a stop
AuditFailed ==
    /\ at \in {"polling", "checking", "tending", "sweeping", "claiming", "ingesting",
               "catchup", "settling"}
    /\ failure # "none" /\ lock = "free"
    /\ Raised
    /\ UNCHANGED <<core, work, hints, faults>>

\* IngestDatabaseAudit.fail, then the end of the with statement in __main__
Failed ==
    /\ at = "failing" /\ lock = "free"
    /\ failure' = IF failure = "none" THEN "seen" ELSE failure
    /\ Goto("closing")
    /\ unclean' = TRUE
    /\ UNCHANGED <<core, work, hints, admitted, lock, heartbeat, quit, open, primary,
                   wrong, faults>>

-----------------------------------------------------------------------------
(* One cycle: audit schedule, maintenance, claim, attempt. *)

NotFailed == failure = "none" /\ lock = "free"

Poll ==
    /\ at = "polling" /\ NotFailed
    /\ Goto(IF stop THEN "closing" ELSE "checking")
    /\ UNCHANGED <<core, work, hints, audit, runtime, faults>>

\* check_between_sessions holds the lock while the core audits.
CheckStart ==
    /\ at = "checking" /\ NotFailed
    /\ lock' = "main"
    /\ Goto("scheduling")
    /\ UNCHANGED <<core, work, hints, admitted, failure, heartbeat, quit, runtime, faults>>

CheckEnd ==
    /\ at = "scheduling"
    /\ lock' = "free"
    /\ Goto("tending")
    /\ UNCHANGED <<core, work, hints, admitted, failure, heartbeat, quit, runtime, faults>>

StopSeen ==
    /\ at \in {"tending", "sweeping", "claiming"} /\ stop /\ NotFailed
    /\ Goto("settling")
    /\ UNCHANGED <<core, work, hints, audit, runtime, faults>>

\* A full disk ends the cycle; a failed or blocked unit does not.
AfterMaintenance(outcome, next) ==
    /\ at' = IF outcome \in {"PROGRESSED", "FULL"} THEN "settling" ELSE next
    /\ waiting' = (waiting \/ outcome = "FULL")
    /\ UNCHANGED <<why, stop>>

Tend(where, unit, next) ==
    /\ at = where /\ ~stop /\ NotFailed
    /\ \E outcome \in Outcomes :
         Maintained(unit, outcome) /\ AfterMaintenance(outcome, next)
    /\ UNCHANGED <<core, backlog, outdated, hints, audit, runtime>>

TendLibrary == Tend("tending", "library", "sweeping")
TendCatalog == Tend("sweeping", "catalog", "claiming")

Claim ==
    /\ at = "claiming" /\ ~stop /\ NotFailed
    /\ IF lease = "free" /\ backlog > 0
       THEN /\ lease' = "ours" /\ Goto("ingesting")
            /\ missed' = IF full THEN {} ELSE outdated \ locators
       ELSE Goto("settling") /\ UNCHANGED <<lease, missed>>
    /\ UNCHANGED <<admission, record, work, locators, full, audit, runtime, faults>>

\* The attempt has ended, the session's heartbeat with it.
Ended(reason) ==
    /\ at' = "completing" /\ why' = reason
    /\ waiting' = (waiting \/ reason = "pressure")
    /\ UNCHANGED stop

Publish ==
    /\ at = "ingesting" /\ missed = {} /\ ~slot
    /\ backlog' = backlog - 1 /\ outdated' = {}
    /\ \E more \in SUBSET Units : clutter' = clutter \cup more
    /\ Ended("published")
    /\ UNCHANGED <<core, slot, hints, audit, runtime, faults>>

\* Mutations: the bound is not looked at; the last failing locator alone is kept.
KeepAll(l) == locators' = locators \cup {l} /\ UNCHANGED full
KeepLast(l) == locators' = {l} /\ UNCHANGED full
Keep(l) ==
    IF l \in locators \/ full THEN UNCHANGED <<locators, full>>
    ELSE IF Cardinality(locators) = MaxLocators THEN locators' = {} /\ full' = TRUE
    ELSE locators' = locators \cup {l} /\ UNCHANGED full

\* A sealed fact is found to be old.  What this attempt has observed anew may
\* be used again, or not.
SourceChanged ==
    /\ at = "ingesting"
    /\ \/ /\ \E l \in missed : Keep(l)
          /\ NoFault
       \/ /\ Fault  \* the error carries no locator, or reading it fails
          /\ \/ UNCHANGED <<locators, full>>
             \/ locators' = {} /\ full' = TRUE
    /\ outdated' \in {outdated, missed}
    /\ \E more \in SUBSET Units : clutter' = clutter \cup more
    /\ Ended("changed")
    /\ UNCHANGED <<core, slot, backlog, missed, audit, runtime>>

\* The slot of a predecessor: now its candidate is of no use to anybody.
SlotConflict ==
    /\ at = "ingesting" /\ slot
    /\ clutter' = Units
    /\ Ended("slot")
    /\ UNCHANGED <<core, slot, backlog, outdated, hints, audit, runtime, faults>>

\* Backpressure of the staging tables, a full disk, a rejected manifest
OutOf ==
    /\ at = "ingesting" /\ Fault
    /\ \E reason \in {"staging", "pressure", "mismatch"} : Ended(reason)
    /\ \E more \in SUBSET Units : clutter' = clutter \cup more
    /\ UNCHANGED <<core, slot, backlog, outdated, hints, audit, runtime>>

\* _IngestStopRequested: the lease is left to expire.
AttemptStopped ==
    /\ at = "ingesting" /\ stop /\ NotFailed
    /\ Goto("settling")
    /\ UNCHANGED <<core, work, hints, audit, runtime, faults>>

-----------------------------------------------------------------------------
(* The end of an attempt: completion, catch-up, maintenance. *)

\* Mutation: the handler of a slot conflict leaves the session to expire.
KeepsOnConflict == why = "slot"
KeepsLease == FALSE

Complete ==
    /\ at = "completing"
    /\ lease' = IF KeepsLease THEN lease ELSE "free"
    /\ at' = CASE why = "published" /\ backlog = 0 -> "catchup"
               [] why = "pressure" -> "settling"
               [] OTHER -> "tidying"
    /\ IF why = "published"
       THEN waiting' = FALSE /\ locators' = {} /\ full' = FALSE
       ELSE UNCHANGED <<waiting, locators, full>>
    /\ UNCHANGED <<admission, record, work, why, stop, missed, audit, runtime, faults>>

\* A full disk keeps even the completion from being recorded.
CompleteFull ==
    /\ at = "completing" /\ Fault
    /\ lease' \in {lease, "free"}
    /\ IF why \in {"published", "pressure"}
       THEN at' = "settling" /\ waiting' = TRUE /\ UNCHANGED <<why, stop>> /\ NotRaised
       ELSE Raised
    /\ UNCHANGED <<admission, record, work, hints>>

CatchUp ==
    /\ at = "catchup" /\ NotFailed
    /\ Goto("tidying")
    /\ UNCHANGED <<core, work, hints, audit, runtime, faults>>

\* Which results of the two units end the process: nobody will free the slot.
Hopeless(library, catalog) ==
    \/ "FULL" \in {library, catalog} /\ why # "published"
    \/ why = "mismatch"
    \/ why = "slot" /\ library # "PROGRESSED" /\ catalog = "DONE"

\* The two units in one step; a full disk in the first skips the second.
Tidy ==
    /\ at = "tidying"
    /\ \E library, catalog \in Outcomes :
         /\ Possible("library", library) /\ Possible("catalog", catalog)
         /\ Trouble(<<library, catalog>>)
         /\ clutter' = Cleaned(Cleaned(clutter, "library", library), "catalog",
                               IF library = "FULL" THEN "FULL" ELSE catalog)
         /\ IF Hopeless(library, catalog) THEN Raised
            ELSE /\ at' = "settling"
                 /\ waiting' = (waiting \/ "FULL" \in {library, catalog})
                 /\ UNCHANGED <<why, stop>> /\ NotRaised
    /\ SlotFreed
    /\ UNCHANGED <<core, backlog, outdated, hints>>

Settle ==
    /\ at = "settling" /\ NotFailed
    /\ Goto("polling")
    /\ UNCHANGED <<core, work, hints, audit, runtime, faults>>

-----------------------------------------------------------------------------
(* The audit heartbeat, a thread of its own. *)

Beat(where) == heartbeat' = where /\ UNCHANGED <<admitted, quit>>

HeartbeatDue ==
    /\ heartbeat = "waiting" /\ ~quit
    /\ Beat("asking")
    /\ UNCHANGED <<core, work, resident, hints, failure, lock, runtime, faults>>

RenewStart ==
    /\ heartbeat = "asking" /\ lock = "free"
    /\ IF quit THEN Beat("waiting") /\ UNCHANGED <<lock, failure>>
       ELSE IF failure # "none" THEN Beat("dead") /\ UNCHANGED lock /\ Observed
       ELSE Beat("renewing") /\ lock' = "heartbeat" /\ UNCHANGED failure
    /\ UNCHANGED <<core, work, resident, hints, runtime, faults>>

Renewed ==
    /\ heartbeat = "renewing"
    /\ Beat("waiting") /\ lock' = "free"
    /\ UNCHANGED <<core, work, resident, hints, failure, runtime, faults>>

\* A locked SQLite database is tried again, with the lock held.
RenewBusy ==
    /\ heartbeat = "renewing" /\ Fault
    /\ Beat("retrying")
    /\ UNCHANGED <<core, work, resident, hints, failure, lock, runtime>>

RenewAgain ==
    /\ heartbeat = "retrying"
    /\ IF quit THEN Beat("waiting") /\ lock' = "free"
       ELSE Beat("renewing") /\ UNCHANGED lock
    /\ UNCHANGED <<core, work, resident, hints, failure, runtime, faults>>

\* The lock is released before _run takes it again to record the failure.
RenewFails ==
    /\ heartbeat = "renewing" /\ Fault
    /\ Beat("failed") /\ lock' = "free"
    /\ wrong' = TRUE
    /\ UNCHANGED <<core, work, resident, hints, failure, open, primary, unclean>>

RecordFailure ==
    /\ heartbeat = "failed" /\ lock = "free"
    /\ failure' = IF failure = "none" THEN "unseen" ELSE failure
    /\ Beat("dead")
    /\ UNCHANGED <<core, work, resident, hints, lock, runtime, faults>>

HeartbeatStopped ==
    /\ heartbeat = "waiting" /\ quit
    /\ Beat("dead")
    /\ UNCHANGED <<core, work, resident, hints, failure, lock, runtime, faults>>

-----------------------------------------------------------------------------
(* Closing: every resource is closed, whatever the others raise. *)

\* Mutation: an error is forgotten when a later resource closes well.
LastError(raises) == raises
FirstError(raises) == primary \/ raises

ClosedWith(raises) ==
    /\ open' = Tail(open)
    /\ primary' = FirstError(raises)
    /\ wrong' = (wrong \/ raises)
    /\ UNCHANGED <<core, work, resident, hints, admitted, lock, heartbeat, unclean>>

Close ==
    /\ at = "closing" /\ open # << >> /\ Head(open) # "audit"
    /\ \/ ClosedWith(FALSE) /\ NoFault
       \/ ClosedWith(TRUE) /\ Fault
    /\ UNCHANGED <<failure, quit>>

\* close(): the event, then the join, then the failure nobody has seen
AskHeartbeatToQuit ==
    /\ at = "closing" /\ open # << >> /\ Head(open) = "audit" /\ ~quit
    /\ quit' = TRUE
    /\ UNCHANGED <<core, work, resident, hints, admitted, failure, lock, heartbeat,
                   runtime, faults>>

CloseAudit ==
    /\ at = "closing" /\ open # << >> /\ Head(open) = "audit" /\ quit
    /\ heartbeat \in {"off", "dead"} /\ lock = "free"
    /\ ClosedWith(failure = "unseen")
    /\ Observed
    /\ UNCHANGED <<quit, faults>>

\* What is left of a process is its leases, until they expire.
Gone ==
    /\ at' = "off" /\ why' = "none" /\ stop' = FALSE /\ waiting' = FALSE
    /\ locators' = {} /\ full' = FALSE /\ missed' = {}
    /\ admitted' = FALSE /\ failure' = "none" /\ lock' = "free"
    /\ heartbeat' = "off" /\ quit' = FALSE
    /\ open' = << >> /\ primary' = FALSE /\ unclean' = FALSE /\ wrong' = FALSE
    /\ lease' = IF lease = "ours" THEN "stale" ELSE lease

Closed ==
    /\ at = "closing" /\ open = << >>
    /\ IF primary \/ failure # "none" \/ unclean \/ ~admitted
       THEN Gone /\ admission' = (IF admission = "ours" THEN "stale" ELSE admission)
       ELSE Goto("acknowledging") /\ UNCHANGED <<lease, admission, hints, audit, runtime>>
    /\ UNCHANGED <<record, work, faults>>

\* _finish_database_audit, with an admin of its own
Acknowledge ==
    /\ at = "acknowledging"
    /\ \/ record' = "clean" /\ admission' = "free" /\ NoFault
       \/ record' = "open" /\ admission' = "stale" /\ Fault
    /\ Gone
    /\ UNCHANGED work

-----------------------------------------------------------------------------
(* The environment. *)

Kill ==
    /\ at # "off" /\ Fault
    /\ Gone /\ admission' = (IF admission = "ours" THEN "stale" ELSE admission)
    /\ slot' \in IF at = "ingesting" THEN {slot, TRUE} ELSE {slot}
    /\ UNCHANGED <<record, clutter, backlog, outdated>>

StopRequest ==
    /\ at # "off" /\ ~stop /\ Fault
    /\ stop' = TRUE
    /\ UNCHANGED <<core, work, at, why, waiting, hints, audit, runtime>>

\* Leases that nobody renews: of a predecessor, or kept after an attempt
ExpireLease ==
    /\ \/ lease = "stale"
       \/ lease = "ours" /\ at \notin {"ingesting", "completing"}
    /\ lease' = "free"
    /\ UNCHANGED <<admission, record, work, resident, hints, audit, runtime, faults>>

ExpireAdmission ==
    /\ admission = "stale"
    /\ admission' = "free"
    /\ UNCHANGED <<lease, record, work, resident, hints, audit, runtime, faults>>

NewWork ==
    /\ backlog = 0 /\ at # "ingesting"
    /\ backlog' = MaxBacklog
    /\ UNCHANGED <<core, clutter, slot, outdated, resident, hints, audit, runtime, faults>>

SourceChanges(l) ==
    /\ Fault
    /\ outdated' = outdated \cup {l}
    /\ missed' = IF at = "ingesting" THEN missed \cup {l} ELSE missed
    /\ UNCHANGED <<core, clutter, slot, backlog, resident, locators, full, audit, runtime>>

-----------------------------------------------------------------------------
Main ==
    \/ Start \/ Admit \/ StartupStopped \/ Stored
    \/ Raise \/ AuditFailed \/ Failed
    \/ Poll \/ CheckStart \/ CheckEnd \/ StopSeen \/ TendLibrary \/ TendCatalog \/ Claim
    \/ Publish \/ SourceChanged \/ SlotConflict \/ OutOf \/ AttemptStopped
    \/ Complete \/ CompleteFull \/ CatchUp \/ Tidy \/ Settle
    \/ Close \/ AskHeartbeatToQuit \/ CloseAudit \/ Closed \/ Acknowledge

Heartbeat ==
    \/ RenewStart \/ Renewed \/ RenewBusy \/ RenewAgain \/ RenewFails \/ RecordFailure
    \/ HeartbeatStopped

Next ==
    \/ Main \/ Heartbeat \/ HeartbeatDue
    \/ Kill \/ StopRequest \/ ExpireLease \/ ExpireAdmission \/ NewWork
    \/ \E l \in Galleries : SourceChanges(l)

Spec == Init /\ [][Next]_vars

\* The resident polls for ever and is started again when it has ended; the
\* heartbeat gives the lock back most of the time; leases expire.
FairSpec ==
    /\ Spec
    /\ SF_vars(Main) /\ WF_vars(Heartbeat)
    /\ WF_vars(ExpireLease) /\ WF_vars(ExpireAdmission)

-----------------------------------------------------------------------------
TypeOK ==
    /\ lease \in {"free", "ours", "stale"} /\ admission \in {"free", "ours", "stale"}
    /\ record \in {"clean", "open"}
    /\ clutter \subseteq Units /\ slot \in BOOLEAN
    /\ backlog \in 0..MaxBacklog /\ outdated \subseteq Galleries
    /\ at \in Busy \cup {"off", "checking", "settling", "failing", "closing",
                         "acknowledging"}
    /\ why \in {"none", "published", "changed", "slot", "staging", "pressure", "mismatch"}
    /\ locators \subseteq Galleries /\ Cardinality(locators) <= MaxLocators
    /\ missed \subseteq Galleries
    /\ {stop, waiting, full, admitted, quit, primary, unclean, wrong} \subseteq BOOLEAN
    /\ failure \in {"none", "unseen", "seen"} /\ lock \in {"free", "main", "heartbeat"}
    /\ heartbeat \in {"off", "waiting", "asking", "renewing", "retrying", "failed", "dead"}
    /\ \E n \in 0..Len(Resources) : open = SubSeq(Resources, n + 1, Len(Resources))
    /\ faults \in 0..MaxFaults

\* The audit session is acknowledged as clean only by a process in which
\* nothing has gone wrong: no error left the resident, no renewal failed, and
\* every resource closed well, the heartbeat included.
AcknowledgedOnlyIfClean ==
    [][record = "open" /\ record' = "clean" =>
         ~wrong /\ open = << >> /\ heartbeat \in {"off", "dead"}]_vars

\* The resident does not come back to its poll with an ingest lease that it
\* no longer renews, so it never waits for its own lease to expire, unless
\* the disk is too full to release it or it was told to stop.
LeaseReturned == at = "polling" /\ lease = "ours" => waiting \/ stop

\* Work that is there is published once errors, stops and changes of the
\* source cease: no retry of conflicts, full disks, galleries that fail in
\* turn, abandoned sessions or unclean ends goes round in circles.
WorkGetsPublished == backlog > 0 ~> backlog = 0
=============================================================================
