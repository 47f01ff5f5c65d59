----------------------- MODULE ResidentProcess_proofs -----------------------
(***************************************************************************)
(* Proofs about ResidentProcess, for any galleries, any amount of work and *)
(* any number of errors, kills, stop requests and changes of the source.   *)
(*                                                                         *)
(* The inductive invariant Inv says where an attempt may still hold the    *)
(* ingest lease, that the trace of an error is never lost until the last   *)
(* close, and that the audit's heartbeat has ended by then.                *)
(***************************************************************************)
EXTENDS ResidentProcess, TLAPS

Flags == {stop, waiting, admitted, quit, primary, unclean, wrong} \subseteq BOOLEAN

\* A lease that is not renewed any more is one that could not be given back.
LeaseIsExplained ==
    lease = "ours" =>
        \/ at \in {"ingesting", "completing", "failing", "closing", "acknowledging"}
        \/ waiting \/ stop

\* What has gone wrong is remembered by one of those that Closed asks.
WrongLeavesATrace ==
    wrong => \/ at = "failing" \/ unclean \/ primary
             \/ failure # "none" \/ heartbeat = "failed"

\* A new process has not gone wrong yet, and its audit has no heartbeat.
StartsClean == at \in {"off", "admission"} => ~wrong /\ heartbeat = "off"

\* The resources still to close: with or without the audit.
WithAudit == {<<"progress", "facade", "catalog", "scratch", "audit", "admin">>,
              <<"facade", "catalog", "scratch", "audit", "admin">>,
              <<"catalog", "scratch", "audit", "admin">>,
              <<"scratch", "audit", "admin">>,
              <<"audit", "admin">>}
WithoutAudit == {<<"admin">>, << >>}

ClosedInOrder ==
    /\ at # "off" => open \in WithAudit \cup WithoutAudit
    /\ at # "off" /\ open \in WithoutAudit => heartbeat \in {"off", "dead"}
    /\ open \in WithoutAudit => at \in {"off", "closing", "acknowledging"}
    /\ at = "acknowledging" => open = << >> /\ ~wrong

Inv == Flags /\ LeaseIsExplained /\ WrongLeavesATrace /\ StartsClean /\ ClosedInOrder

-----------------------------------------------------------------------------
\* Closing the next resource: the audit is the last but one.
LEMMA NextResource ==
    ASSUME NEW s \in WithAudit \cup WithoutAudit, s # << >>
    PROVE  /\ Tail(s) \in WithAudit \cup WithoutAudit
           /\ s \in WithAudit /\ Head(s) # "audit" => Tail(s) \in WithAudit
           /\ s \in WithoutAudit => s = <<"admin">> /\ Tail(s) = << >> /\ Head(s) # "audit"
<1>1. CASE s = <<"progress", "facade", "catalog", "scratch", "audit", "admin">>
  <2>1. Tail(s) = <<"facade", "catalog", "scratch", "audit", "admin">> /\ Head(s) = "progress"
    BY <1>1
  <2>2. QED
    BY <1>1, <2>1 DEF WithAudit, WithoutAudit
<1>2. CASE s = <<"facade", "catalog", "scratch", "audit", "admin">>
  <2>1. Tail(s) = <<"catalog", "scratch", "audit", "admin">> /\ Head(s) = "facade"
    BY <1>2
  <2>2. QED
    BY <1>2, <2>1 DEF WithAudit, WithoutAudit
<1>3. CASE s = <<"catalog", "scratch", "audit", "admin">>
  <2>1. Tail(s) = <<"scratch", "audit", "admin">> /\ Head(s) = "catalog"
    BY <1>3
  <2>2. QED
    BY <1>3, <2>1 DEF WithAudit, WithoutAudit
<1>4. CASE s = <<"scratch", "audit", "admin">>
  <2>1. Tail(s) = <<"audit", "admin">> /\ Head(s) = "scratch"
    BY <1>4
  <2>2. QED
    BY <1>4, <2>1 DEF WithAudit, WithoutAudit
<1>5. CASE s = <<"audit", "admin">>
  <2>1. Tail(s) = <<"admin">> /\ Head(s) = "audit"
    BY <1>5
  <2>2. QED
    BY <1>5, <2>1 DEF WithAudit, WithoutAudit
<1>6. CASE s = <<"admin">>
  <2>1. Tail(s) = << >> /\ Head(s) = "admin"
    BY <1>6
  <2>2. QED
    BY <1>6, <2>1 DEF WithAudit, WithoutAudit
<1>7. QED
  BY <1>1, <1>2, <1>3, <1>4, <1>5, <1>6 DEF WithAudit, WithoutAudit

LEMMA InitInv == Init => Inv
BY DEF Init, Inv, Flags, LeaseIsExplained, WrongLeavesATrace, StartsClean, ClosedInOrder

LEMMA ResourceSets ==
    /\ Resources \in WithAudit /\ << >> \in WithoutAudit
    /\ \A s \in WithAudit : s \notin WithoutAudit
<1>1. \A s \in WithAudit : s # << >> /\ Head(s) # "admin"
  BY DEF WithAudit
<1>2. \A s \in WithoutAudit : s = << >> \/ Head(s) = "admin"
  BY DEF WithoutAudit
<1>3. QED
  BY <1>1, <1>2 DEF Resources, WithAudit, WithoutAudit

\* The attempts of one process; most leave the runtime and the audit alone.
LEMMA CycleInv ==
    ASSUME Inv,
           \/ Poll \/ CheckStart \/ CheckEnd \/ StopSeen \/ TendLibrary \/ TendCatalog \/ Claim
           \/ Publish \/ SourceChanged \/ SlotConflict \/ OutOf \/ AttemptStopped
           \/ CatchUp \/ Settle
    PROVE  Inv'
<1> USE DEF Inv, Flags, LeaseIsExplained, WrongLeavesATrace, StartsClean, ClosedInOrder,
            core, work, resident, hints, audit, runtime, Goto
<1>1. CASE Poll
  BY <1>1 DEF Poll
<1>2. CASE CheckStart
  BY <1>2 DEF CheckStart
<1>3. CASE CheckEnd
  BY <1>3 DEF CheckEnd
<1>4. CASE StopSeen
  BY <1>4 DEF StopSeen
<1>5. CASE TendLibrary
  BY <1>5 DEF TendLibrary, Tend, AfterMaintenance
<1>6. CASE TendCatalog
  BY <1>6 DEF TendCatalog, Tend, AfterMaintenance
<1>7. CASE Claim
  BY <1>7 DEF Claim
<1>8. CASE Publish
  BY <1>8 DEF Publish, Ended
<1>9. CASE SourceChanged
  BY <1>9 DEF SourceChanged, Ended
<1>10. CASE SlotConflict
  BY <1>10 DEF SlotConflict, Ended
<1>11. CASE OutOf
  BY <1>11 DEF OutOf, Ended
<1>12. CASE AttemptStopped
  BY <1>12 DEF AttemptStopped
<1>13. CASE CatchUp
  BY <1>13 DEF CatchUp
<1>14. CASE Settle
  BY <1>14 DEF Settle
<1>15. QED
  BY <1>1, <1>2, <1>3, <1>4, <1>5, <1>6, <1>7, <1>8, <1>9, <1>10, <1>11, <1>12, <1>13, <1>14

\* An error that leaves the resident, from wherever it is at work.
LEMMA RaisedInv ==
    ASSUME Inv, Raised, at \in Busy \cup {"checking", "settling"},
           lease' \in {lease, "free"}
    PROVE  Inv'
BY DEF Inv, Flags, LeaseIsExplained, WrongLeavesATrace, StartsClean, ClosedInOrder, Raised,
       Observed, Goto, Busy

\* Start, errors, the end of an attempt.
LEMMA TurnInv ==
    ASSUME Inv,
           \/ Start \/ Admit \/ StartupStopped \/ Stored \/ Raise \/ AuditFailed \/ Failed
           \/ Complete \/ CompleteFull \/ Tidy
    PROVE  Inv'
<1> USE DEF Inv, Flags, LeaseIsExplained, WrongLeavesATrace, StartsClean, ClosedInOrder,
            core, work, resident, hints, audit, runtime, Goto
<1>1. CASE Start
  BY <1>1, ResourceSets DEF Start
<1>2. CASE Admit
  BY <1>2, ResourceSets DEF Admit
<1>3. CASE StartupStopped
  BY <1>3 DEF StartupStopped
<1>4. CASE Stored
  BY <1>4 DEF Stored
<1>5. CASE Raise
  BY <1>5, RaisedInv DEF Raise
<1>6. CASE AuditFailed
  BY <1>6, RaisedInv DEF AuditFailed, Busy
<1>7. CASE Failed
  BY <1>7 DEF Failed
<1>8. CASE Complete
  BY <1>8 DEF Complete, KeepsLease
<1>9. CASE CompleteFull
  <2>1. CASE Raised
    BY <1>9, <2>1, RaisedInv DEF CompleteFull, Busy
  <2>2. CASE ~Raised
    BY <1>9, <2>2 DEF CompleteFull, NotRaised
  <2>3. QED
    BY <2>1, <2>2
<1>10. CASE Tidy
  <2>1. at = "tidying" /\ UNCHANGED lease
    BY <1>10 DEF Tidy
  <2>2. CASE Raised
    BY <2>1, <2>2, RaisedInv DEF Busy
  <2>3. CASE ~Raised
    <3>1. /\ at' = "settling" /\ waiting' \in BOOLEAN /\ (waiting => waiting')
          /\ UNCHANGED <<stop, audit, runtime>>
      BY <1>10, <2>3 DEF Tidy, NotRaised
    <3>2. QED
      BY <2>1, <3>1
  <2>4. QED
    BY <2>2, <2>3
<1>11. QED
  BY <1>1, <1>2, <1>3, <1>4, <1>5, <1>6, <1>7, <1>8, <1>9, <1>10

LEMMA GoneInv ==
    ASSUME Gone
    PROVE  Inv'
BY ResourceSets
DEF Gone, Inv, Flags, LeaseIsExplained, WrongLeavesATrace, StartsClean, ClosedInOrder

LEMMA CloseInv ==
    ASSUME Inv, Close \/ AskHeartbeatToQuit \/ CloseAudit \/ Closed \/ Acknowledge
    PROVE  Inv'
<1> USE DEF Inv, Flags, LeaseIsExplained, WrongLeavesATrace, StartsClean, ClosedInOrder,
            core, work, resident, hints, audit, runtime, Goto
<1>1. CASE Close
  <2>1. /\ open' = Tail(open) /\ open # << >> /\ Head(open) # "audit" /\ at = "closing"
        /\ UNCHANGED <<lease, at, stop, waiting, admitted, heartbeat, quit, unclean, failure>>
        /\ \/ primary' = primary /\ wrong' = wrong
           \/ primary' = TRUE /\ wrong' = TRUE
    BY <1>1 DEF Close, ClosedWith, FirstError
  <2>2. Flags'
    BY <2>1
  <2>3. LeaseIsExplained' /\ WrongLeavesATrace' /\ StartsClean'
    <3> HIDE DEF Flags, ClosedInOrder
    <3>1. QED
      BY <2>1
  <2>4. ClosedInOrder'
    BY <2>1, NextResource, ResourceSets
  <2>5. QED
    BY <2>2, <2>3, <2>4
<1>2. CASE AskHeartbeatToQuit
  BY <1>2 DEF AskHeartbeatToQuit
<1>3. CASE CloseAudit
  BY <1>3, NextResource, ResourceSets DEF CloseAudit, ClosedWith, FirstError, Observed
<1>4. CASE Closed
  <2>1. CASE Gone
    BY <2>1, GoneInv
  <2>2. CASE ~Gone
    BY <1>4, <2>2, ResourceSets DEF Closed
  <2>3. QED
    BY <2>1, <2>2
<1>5. CASE Acknowledge
  BY <1>5, GoneInv DEF Acknowledge
<1>6. QED
  BY <1>1, <1>2, <1>3, <1>4, <1>5

LEMMA HeartbeatInv == Inv /\ (Heartbeat \/ HeartbeatDue) => Inv'
<1> SUFFICES ASSUME Inv, Heartbeat \/ HeartbeatDue PROVE Inv'
  OBVIOUS
<1> USE DEF Inv, Flags, LeaseIsExplained, WrongLeavesATrace, StartsClean, ClosedInOrder,
            core, work, resident, hints, runtime, Beat
<1>1. CASE HeartbeatDue
  BY <1>1 DEF HeartbeatDue
<1>2. CASE RenewStart
  BY <1>2 DEF RenewStart, Observed
<1>3. CASE Renewed
  BY <1>3 DEF Renewed
<1>4. CASE RenewBusy
  BY <1>4 DEF RenewBusy
<1>5. CASE RenewAgain
  BY <1>5 DEF RenewAgain
<1>6. CASE RenewFails
  BY <1>6, ResourceSets DEF RenewFails
<1>7. CASE RecordFailure
  BY <1>7 DEF RecordFailure
<1>8. CASE HeartbeatStopped
  BY <1>8 DEF HeartbeatStopped
<1>9. QED
  BY <1>1, <1>2, <1>3, <1>4, <1>5, <1>6, <1>7, <1>8 DEF Heartbeat

LEMMA NextInv == Inv /\ [Next]_vars => Inv'
<1> SUFFICES ASSUME Inv, [Next]_vars PROVE Inv'
  OBVIOUS
<1> USE DEF core, work, resident, hints, audit, runtime
<1>1. CASE Main
  BY <1>1, CycleInv, TurnInv, CloseInv DEF Main
<1>2. CASE Heartbeat \/ HeartbeatDue
  BY <1>2, HeartbeatInv
<1>3. CASE Kill
  BY <1>3, GoneInv DEF Kill
<1> USE DEF Inv, Flags, LeaseIsExplained, WrongLeavesATrace, StartsClean, ClosedInOrder
<1>4. CASE StopRequest
  BY <1>4 DEF StopRequest
<1>5. CASE ExpireLease
  BY <1>5 DEF ExpireLease
<1>6. CASE ExpireAdmission
  BY <1>6 DEF ExpireAdmission
<1>7. CASE NewWork
  BY <1>7 DEF NewWork
<1>8. ASSUME NEW l \in Galleries, SourceChanges(l) PROVE Inv'
  BY <1>8 DEF SourceChanges
<1>9. CASE UNCHANGED vars
  BY <1>9 DEF vars
<1>10. QED
  BY <1>1, <1>2, <1>3, <1>4, <1>5, <1>6, <1>7, <1>8, <1>9 DEF Next

\* Leases, errors and the resources still to close fit together in every
\* reachable state.
THEOREM Invariance == Spec => []Inv
BY InitInv, NextInv, PTL DEF Spec

-----------------------------------------------------------------------------
\* The resident never polls with an ingest lease it does not renew, unless
\* the disk is full or it was told to stop (_process_cycle_step, resident.py).
THEOREM LeaseIsReturned == Spec => []LeaseReturned
<1>1. Inv => LeaseReturned
  BY DEF Inv, LeaseIsExplained, LeaseReturned
<1>2. QED
  BY <1>1, Invariance, PTL

\* Only a process in which nothing has gone wrong, the closing of its
\* resources included, is recorded as clean (_finish_database_audit,
\* runtime.py).
THEOREM CleanAcknowledgement == Spec => AcknowledgedOnlyIfClean
<1> DEFINE OnlyIfClean == record = "open" /\ record' = "clean" =>
                            ~wrong /\ open = << >> /\ heartbeat \in {"off", "dead"}
<1>1. Inv /\ [Next]_vars => OnlyIfClean
  <2> SUFFICES ASSUME Inv, [Next]_vars, record = "open", record' = "clean"
               PROVE  Acknowledge
    BY ResourceSets DEF Acknowledge, Inv, ClosedInOrder
  <2> USE DEF core, work, resident, hints, audit, runtime
  <2>1. QED
    BY DEF Next, Main, Heartbeat, vars, Start, Admit, StartupStopped, Stored, Raise, AuditFailed,
           Failed, Poll, CheckStart, CheckEnd, StopSeen, TendLibrary, TendCatalog, Tend, Claim,
           Publish, SourceChanged, SlotConflict, OutOf, AttemptStopped, Complete, CompleteFull,
           CatchUp, Tidy, Settle, Close, ClosedWith, AskHeartbeatToQuit, CloseAudit, Closed,
           RenewStart, Renewed, RenewBusy, RenewAgain, RenewFails, RecordFailure,
           HeartbeatStopped, HeartbeatDue, Kill, StopRequest, ExpireLease, ExpireAdmission,
           NewWork, SourceChanges
<1>2. QED
  BY <1>1, Invariance, PTL DEF Spec, AcknowledgedOnlyIfClean
=============================================================================
