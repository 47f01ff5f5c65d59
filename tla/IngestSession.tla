---------------------------- MODULE IngestSession ----------------------------
(***************************************************************************)
(* The renewable ingest session of one resident process (session.py):      *)
(* IngestSessionController serialises every use of the exact receipt,      *)
(* IngestLeaseHeartbeat renews it from a thread of its own, and the worker *)
(* is the resident's cycle (resident.py _process_cycle_step) around them.  *)
(*                                                                         *)
(* The core (external) accepts only the newest receipt it has handed out:  *)
(* "lease" numbers the receipts.  A renewal may take effect although its   *)
(* response is lost, and a lease that is not renewed may pass to another   *)
(* owner.                                                                  *)
(***************************************************************************)
EXTENDS Naturals

CONSTANTS
    MaxCalls,       \* bound: facade calls and local steps of one session
    MaxRetries,     \* attempts of one renewal before its deadline
    MaxLease        \* bound: receipts the core hands out

ASSUME SessionAssumption ==
    MaxCalls \in Nat /\ MaxRetries \in Nat \ {0} /\ MaxLease \in Nat

VARIABLES
    lease, owner,       \* the core: newest receipt and who owns the lease
    session, failed,    \* the controller: its receipt and its failure
    lock,               \* who holds the controller's lock
    worker, heartbeat,  \* where the two threads stand
    stop,               \* the heartbeat's stop event
    raised,             \* the worker leaves its session with an exception
    work,               \* calls and local steps the worker has still to do
    tries               \* attempts of the renewal under way

core == <<lease, owner>>
controller == <<session, failed, lock>>
threads == <<worker, heartbeat, stop, raised, work>>
sessionVars == <<core, controller, threads, tries>>

WorkerAt == {"idle", "asking", "renewing", "retrying", "between", "calling",
             "outside", "recheck", "joining", "leaving", "completing"}
HeartbeatAt == {"off", "waiting", "asking", "renewing", "retrying", "dead"}

At == [worker |-> worker, heartbeat |-> heartbeat]
Goto(who, where) ==
    IF who = "worker" THEN worker' = where /\ UNCHANGED heartbeat
    ELSE heartbeat' = where /\ UNCHANGED worker

SessionInit ==
    /\ lease = 0 /\ owner = "nobody"
    /\ session = 0 /\ failed = FALSE /\ lock = "free"
    /\ worker = "idle" /\ heartbeat = "off"
    /\ stop = FALSE /\ raised = FALSE /\ work = 0 /\ tries = 0

-----------------------------------------------------------------------------
(* The core's side. *)

\* try_claim_ingest; a new controller and a new heartbeat for the session
Claim ==
    /\ worker = "idle" /\ owner = "nobody" /\ lease < MaxLease
    /\ lease' = lease + 1 /\ owner' = "us"
    /\ session' = lease + 1 /\ failed' = FALSE /\ lock' = "free"
    /\ worker' = "asking" /\ heartbeat' = "off"
    /\ stop' = FALSE /\ raised' = FALSE /\ work' = MaxCalls /\ tries' = 0

\* The lease of a stopped or stuck process expires, and another one may take it.
Expire ==
    /\ owner = "us"
    /\ owner' \in {"nobody", "other"}
    /\ UNCHANGED <<lease, controller, threads, tries>>

OtherLeaves ==
    /\ owner = "other" /\ lease < MaxLease
    /\ owner' = "nobody" /\ lease' = lease + 1
    /\ UNCHANGED <<controller, threads, tries>>

-----------------------------------------------------------------------------
(* renew: the whole attempt, retries included, holds the lock. *)

\* Mutation: the lock is given back while the facade renews.
LockReturned(who) == lock' = "free"
LockHeld(who) == lock' = who

\* The exception of renew() leaves __enter__, or ends the heartbeat.
Fails(who) ==
    IF who = "worker" THEN worker' = "leaving" /\ raised' = TRUE /\ UNCHANGED heartbeat
    ELSE heartbeat' = "dead" /\ UNCHANGED <<worker, raised>>

RenewStart(who) ==
    /\ At[who] = "asking" /\ lock = "free"
    /\ IF failed THEN Fails(who) /\ UNCHANGED <<lock, tries>>
       ELSE Goto(who, "renewing") /\ LockHeld(who) /\ tries' = 1 /\ UNCHANGED raised
    /\ UNCHANGED <<core, session, failed, stop, work>>

\* The interval passes; stop may still be set before the lock is acquired.
HeartbeatDue ==
    /\ heartbeat = "waiting" /\ ~stop
    /\ heartbeat' = "asking"
    /\ UNCHANGED <<core, controller, worker, stop, raised, work, tries>>

Renewed(who) ==
    /\ At[who] = "renewing"
    /\ owner = "us" /\ session = lease /\ lease < MaxLease
    /\ lease' = lease + 1 /\ session' = lease + 1
    /\ lock' = "free"
    \* __enter__ starts the thread after its own renewal
    /\ IF who = "worker" THEN worker' = "between" /\ heartbeat' = "waiting"
       ELSE heartbeat' = "waiting" /\ UNCHANGED worker
    /\ UNCHANGED <<owner, failed, stop, raised, work, tries>>

\* Mutation: a lock error is retried without looking at the deadline.
NeverLate == FALSE
Late == tries >= MaxRetries

\* Any other error, a lease lost to another owner, or a lock error past the
\* deadline.  The core may have renewed all the same.
RenewFailed(who) ==
    /\ At[who] = "renewing"
    /\ \/ UNCHANGED lease
       \/ owner = "us" /\ session = lease /\ lease < MaxLease /\ lease' = lease + 1
    /\ failed' = TRUE /\ lock' = "free"
    /\ Fails(who)
    /\ UNCHANGED <<owner, session, stop, work, tries>>

\* SQLite is locked and the deadline not reached: wait for 0.1 s or for stop.
RenewBusy(who) ==
    /\ At[who] = "renewing" /\ ~Late
    /\ Goto(who, "retrying")
    /\ UNCHANGED <<core, controller, stop, raised, work, tries>>

RenewAgain(who) ==
    /\ At[who] = "retrying" /\ ~stop
    /\ tries' = IF tries > MaxRetries THEN tries ELSE tries + 1
    /\ Goto(who, "renewing")
    /\ UNCHANGED <<core, controller, stop, raised, work>>

\* stop() interrupts both waits of the thread; nothing has failed.
HeartbeatStopped ==
    /\ heartbeat \in {"waiting", "retrying"} /\ stop
    /\ heartbeat' = "dead"
    /\ lock' = IF heartbeat = "retrying" THEN "free" ELSE lock
    /\ UNCHANGED <<core, session, failed, worker, stop, raised, work, tries>>

-----------------------------------------------------------------------------
(* The worker between __enter__ and __exit__. *)

\* Mutation: the failure is not looked at under the lock.
Unfenced == TRUE
Fenced == ~failed

\* stop(): the event is set and the thread joined, never with the lock held.
Exit(exception) ==
    /\ stop' = TRUE /\ raised' = exception
    /\ worker' = "joining"

\* call, complete excepted: one facade operation under the lock
CallStart ==
    /\ worker = "between" /\ work > 0 /\ lock = "free"
    /\ IF Fenced
       THEN worker' = "calling" /\ lock' = "worker" /\ UNCHANGED <<stop, raised>>
       ELSE Exit(TRUE) /\ UNCHANGED lock
    /\ UNCHANGED <<core, session, failed, heartbeat, work, tries>>

\* The core rejects a stale receipt, and any call may raise.
CallEnd ==
    /\ worker = "calling"
    /\ lock' = "free" /\ work' = work - 1
    /\ \/ owner = "us" /\ session = lease /\ worker' = "between" /\ UNCHANGED <<stop, raised>>
       \/ Exit(TRUE)
    /\ UNCHANGED <<core, session, failed, heartbeat, tries>>

\* outside_session and prepare: the lock is held for the check alone
OutsideStart ==
    /\ worker = "between" /\ work > 0 /\ lock = "free"
    /\ IF Fenced THEN worker' = "outside" /\ UNCHANGED <<stop, raised>> ELSE Exit(TRUE)
    /\ UNCHANGED <<core, controller, heartbeat, work, tries>>

OutsideEnd ==
    /\ worker = "outside"
    /\ work' = work - 1
    /\ \/ worker' = "recheck" /\ UNCHANGED <<stop, raised>>
       \/ Exit(TRUE)
    /\ UNCHANGED <<core, controller, heartbeat, tries>>

Recheck ==
    /\ worker = "recheck" /\ lock = "free"
    /\ IF Fenced THEN worker' = "between" /\ UNCHANGED <<stop, raised>> ELSE Exit(TRUE)
    /\ UNCHANGED <<core, controller, heartbeat, work, tries>>

Done ==
    /\ worker = "between" /\ work = 0
    /\ Exit(FALSE)
    /\ UNCHANGED <<core, controller, heartbeat, work, tries>>

-----------------------------------------------------------------------------
(* __exit__, and what the resident does with the session after it. *)

\* Mutation: the thread is told to stop but not waited for.
NotWaitedFor == TRUE
Joined == heartbeat \in {"off", "dead"}

Leave ==
    /\ worker = "joining" /\ Joined /\ lock = "free"
    /\ worker' = "leaving" /\ raised' = (raised \/ failed)
    /\ UNCHANGED <<core, controller, heartbeat, stop, work, tries>>

\* complete(); after most exceptions too, so that maintenance can go on
CompleteStart ==
    /\ worker = "leaving" /\ lock = "free" /\ Fenced
    /\ worker' = "completing" /\ lock' = "worker"
    /\ UNCHANGED <<core, session, failed, heartbeat, stop, raised, work, tries>>

CompleteEnd ==
    /\ worker = "completing"
    /\ lock' = "free" /\ worker' = "idle"
    /\ IF owner = "us" /\ session = lease THEN owner' \in {"nobody", "us"} ELSE UNCHANGED owner
    /\ UNCHANGED <<lease, session, failed, heartbeat, stop, raised, work, tries>>

\* A stop request, a fatal exception or a failed lease: left to expire
Abandon ==
    /\ worker = "leaving" /\ raised
    /\ worker' = "idle"
    /\ UNCHANGED <<core, controller, heartbeat, stop, raised, work, tries>>

\* The process is killed; its lease remains until it expires.
Killed ==
    /\ worker # "idle"
    /\ worker' = "idle" /\ heartbeat' = "off" /\ lock' = "free" /\ raised' = TRUE
    /\ UNCHANGED <<core, session, failed, stop, work, tries>>

Renewal(who) ==
    RenewStart(who) \/ Renewed(who) \/ RenewFailed(who) \/ RenewBusy(who) \/ RenewAgain(who)

WorkerNext ==
    \/ Renewal("worker")
    \/ CallStart \/ CallEnd \/ OutsideStart \/ OutsideEnd \/ Recheck \/ Done
    \/ Leave \/ CompleteStart \/ CompleteEnd \/ Abandon

HeartbeatNext == Renewal("heartbeat") \/ HeartbeatStopped

SessionNext ==
    \/ Claim \/ Expire \/ OtherLeaves \/ Killed
    \/ WorkerNext \/ HeartbeatNext \/ HeartbeatDue

SessionSpec == SessionInit /\ [][SessionNext]_sessionVars

\* Both threads run; the lock is not given to the same thread for ever.
FairSessionSpec == SessionSpec /\ SF_sessionVars(WorkerNext) /\ WF_sessionVars(HeartbeatNext)

-----------------------------------------------------------------------------
SessionTypeOK ==
    /\ lease \in 0..MaxLease /\ owner \in {"us", "other", "nobody"}
    /\ session \in 0..lease /\ failed \in BOOLEAN
    /\ lock \in {"free", "worker", "heartbeat"}
    /\ worker \in WorkerAt /\ heartbeat \in HeartbeatAt
    /\ stop \in BOOLEAN /\ raised \in BOOLEAN
    /\ work \in 0..MaxCalls /\ tries \in 0..MaxRetries

InFlight == worker \in {"calling", "completing"}

\* A call carries the newest receipt the core has handed to this process
\* from its start to its end, also when the response of a renewal was lost:
\* the core never sees a receipt it has replaced.
CallsCarryTheNewestReceipt == InFlight /\ owner = "us" => session = lease

\* A failed renewal meets no facade call in flight, and none starts after it:
\* the failure is recorded and looked at under the lock that calls hold.  Nor
\* does a renewal meet a lease that is being, or has been, released: the
\* session is completed after its heartbeat has ended.
FailureFencesCalls ==
    /\ failed => ~InFlight
    /\ worker \in {"completing", "idle"} => heartbeat \in {"off", "dead"}

\* A session ends: neither a locked database nor the two threads waiting for
\* each other keep the resident in it.
SessionEnds == worker # "idle" ~> worker = "idle"
=============================================================================
