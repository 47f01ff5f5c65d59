------------------------------- MODULE Scratch -------------------------------
(***************************************************************************)
(* Process-owned disk scratch below one library (scratch.py): every        *)
(* process works in a private run directory that holds a data directory    *)
(* and an owner file it keeps locked; whoever lives removes, in bounded    *)
(* pages, what killed processes have left behind.                          *)
(*                                                                         *)
(* A run is modelled by the set of its entries, once as the processes see  *)
(* it and once as the disk holds it.  Only fsync is sure to make the two   *)
(* agree on the entries of a directory, though the system may write any    *)
(* entry back earlier, and a power loss leaves either version of every     *)
(* entry on which they differ.                                             *)
(***************************************************************************)
EXTENDS Naturals, Sequences

CONSTANTS
    Procs,      \* processes that use the library
    Runs,       \* names of run directories, each used once (uuid4)
    Linked,     \* bound: runs that may come to hold a link
    Early,      \* bound: entries of runs that may be on disk before an fsync
    Limit,      \* steps of one cleanup page (128)
    MaxFaults,  \* bound: kills, failing system calls and power losses
    NoRun, Nobody

ASSUME ScratchAssumption ==
    /\ Linked \subseteq Runs /\ NoRun \notin Runs /\ Nobody \notin Procs
    /\ Limit \in Nat \ {0} /\ MaxFaults \in Nat

VARIABLES
    seen, durable,  \* the entries of every run
    owner,          \* who has locked the owner file of a run
    registry,       \* who has locked the registry
    used,           \* run names given out
    at, mine, todo, \* where a process is, its run, what is left to create
    scan, scanning, \* names its open scan of the scratch has still to return
    reaping,        \* the run its reaper holds
    blocked,        \* the reaper met an entry it must not remove
    unsynced,       \* the directory its last removal has to sync
    left,           \* steps left in its page
    torn,           \* history: runs whose data directory was removed by a
                    \* process that ended before it had synced the removal
    faults

disk == <<seen, durable>>
reaper == <<reaping, blocked, unsynced>>
page == <<scan, scanning, left>>
mishaps == <<torn, faults>>
vars == <<disk, owner, registry, used, at, mine, todo, reaper, page, mishaps>>

Entries == {"run", "data", "owner", "payload", "bytes", "foreign"}
Directories == {"scratch", "run", "owner", "data"}

\* The directory that names an entry; "owner" stands for the file's content.
Holder == [run |-> "scratch", data |-> "run", owner |-> "run",
           payload |-> "owner", bytes |-> "data", foreign |-> "data"]

Ancestors == [run |-> {}, data |-> {"run"}, owner |-> {"run"},
              payload |-> {"run", "owner"}, bytes |-> {"run", "data"},
              foreign |-> {"run", "data"}]

Reachable(entries) == {e \in entries : Ancestors[e] \subseteq entries}

Sync(w, dir) ==
    durable' = [durable EXCEPT ![w] =
        {e \in @ : Holder[e] # dir} \cup {e \in seen[w] : Holder[e] = dir}]

Add(w, e) == seen' = [seen EXCEPT ![w] = @ \cup {e}]
Remove(w, es) == seen' = [seen EXCEPT ![w] = @ \ es]

\* _create_run, one system call after the other
Make(e) == [call |-> "make", of |-> e]
Fsync(dir) == [call |-> "fsync", of |-> dir]
Lock == [call |-> "lock", of |-> "owner"]

\* Mutation: the run directory is not synced again once it names its owner.
CreationUnsynced ==
    << Make("run"), Make("data"), Fsync("data"), Fsync("run"), Make("owner"), Lock,
       Make("payload"), Fsync("owner"), Fsync("data"), Fsync("scratch") >>
Creation ==
    << Make("run"), Make("data"), Fsync("data"), Fsync("run"), Make("owner"), Lock,
       Make("payload"), Fsync("owner"), Fsync("data"), Fsync("run"), Fsync("scratch") >>

Init ==
    /\ seen = [w \in Runs |-> {}] /\ durable = seen
    /\ owner = [w \in Runs |-> Nobody] /\ registry = Nobody /\ used = {}
    /\ at = [p \in Procs |-> "off"] /\ mine = [p \in Procs |-> NoRun]
    /\ todo = [p \in Procs |-> << >>]
    /\ scan = [p \in Procs |-> {}] /\ scanning = [p \in Procs |-> FALSE]
    /\ reaping = [p \in Procs |-> NoRun] /\ blocked = [p \in Procs |-> FALSE]
    /\ unsynced = [p \in Procs |-> "none"] /\ left = [p \in Procs |-> 0]
    /\ torn = {} /\ faults = 0

Visible == {w \in Runs : "run" \in seen[w]}

-----------------------------------------------------------------------------
(* A process's life: startup cleanup, its own run, work, and exit. *)

Start(p) ==
    /\ at[p] = "off"
    /\ at' = [at EXCEPT ![p] = "starting"]
    /\ UNCHANGED <<disk, owner, registry, used, mine, todo, reaper, page, mishaps>>

\* A new name; which one makes no difference.
Fresh == CHOOSE w \in Runs : w \notin used

\* The startup scan is finished and the registry locked again.
CreateStart(p) ==
    /\ at[p] = "swept" /\ registry = Nobody
    /\ registry' = p
    /\ at' = [at EXCEPT ![p] = "creating"]
    /\ used # Runs
    /\ used' = used \cup {Fresh}
    /\ mine' = [mine EXCEPT ![p] = Fresh]
    /\ todo' = [todo EXCEPT ![p] = Creation]
    /\ UNCHANGED <<disk, owner, reaper, page, mishaps>>

CreateStep(p) ==
    /\ at[p] = "creating" /\ todo[p] # << >>
    /\ LET w == mine[p]  next == Head(todo[p])
       IN \/ /\ next.call = "make" /\ Add(w, next.of)
             /\ UNCHANGED <<durable, owner>>
          \/ /\ next.call = "fsync" /\ Sync(w, next.of)
             /\ UNCHANGED <<seen, owner>>
          \/ /\ next.call = "lock" /\ owner[w] = Nobody
             /\ owner' = [owner EXCEPT ![w] = p]
             /\ UNCHANGED disk
    /\ todo' = [todo EXCEPT ![p] = Tail(@)]
    /\ UNCHANGED <<registry, used, at, mine, reaper, page, mishaps>>

Created(p) ==
    /\ at[p] = "creating" /\ todo[p] = << >>
    /\ at' = [at EXCEPT ![p] = "active"]
    /\ registry' = Nobody
    /\ UNCHANGED <<disk, owner, used, mine, todo, reaper, page, mishaps>>

\* Temporary files of the process's threads come and go.
Work(p) ==
    /\ at[p] = "active"
    /\ \/ Add(mine[p], "bytes")
       \/ "bytes" \in seen[mine[p]] /\ Remove(mine[p], {"bytes"})
    /\ UNCHANGED <<durable, owner, registry, used, at, mine, todo, reaper, page, mishaps>>

\* Something else than a plain file of its own gets there: a link.
PutForeign(p) ==
    /\ at[p] = "active" /\ mine[p] \in Linked
    /\ Add(mine[p], "foreign")
    /\ UNCHANGED <<durable, owner, registry, used, at, mine, todo, reaper, page, mishaps>>

\* __exit__: the owner file is released first, so that its own page can claim it.
Leave(p) ==
    /\ at[p] = "active" /\ registry # p
    /\ at' = [at EXCEPT ![p] = "leaving"]
    /\ owner' = [owner EXCEPT ![mine[p]] = Nobody]
    /\ scan' = [scan EXCEPT ![p] = {}]
    /\ scanning' = [scanning EXCEPT ![p] = FALSE]
    /\ UNCHANGED <<disk, registry, used, mine, todo, reaper, left, mishaps>>

-----------------------------------------------------------------------------
(* cleanup_page: bounded steps under the registry lock. *)

PageStart(p) ==
    /\ at[p] \in {"starting", "active", "leaving"} /\ registry = Nobody
    /\ registry' = p
    /\ left' = [left EXCEPT ![p] = Limit]
    /\ IF scanning[p] THEN UNCHANGED <<scan, scanning>>
       ELSE /\ scan' = [scan EXCEPT ![p] = Visible]
            /\ scanning' = [scanning EXCEPT ![p] = TRUE]
    /\ UNCHANGED <<disk, owner, used, at, mine, todo, reaper, mishaps>>

InPage(p) == registry = p /\ at[p] # "creating" /\ unsynced[p] = "none"

\* Mutation: the page is not limited.
SteppingOn(p) == InPage(p)
Stepping(p) == InPage(p) /\ left[p] > 0

Spend(p) == left' = [left EXCEPT ![p] = @ - 1]

\* Mutation: any run with a readable owner file is claimed, locked or not.
ClaimableUnlocked(w) == {"run", "owner", "payload"} \subseteq seen[w]
\* _claim: the owner file opens, locks at once, and names this very run
Claimable(w) == {"run", "owner", "payload"} \subseteq seen[w] /\ owner[w] = Nobody

Claim(p) ==
    /\ Stepping(p) /\ reaping[p] = NoRun
    /\ \E w \in scan[p] :
         /\ scan' = [scan EXCEPT ![p] = @ \ {w}]
         /\ IF Claimable(w)
            THEN /\ owner' = [owner EXCEPT ![w] = p]
                 /\ reaping' = [reaping EXCEPT ![p] = w]
            ELSE UNCHANGED <<owner, reaping>>
    /\ Spend(p)
    /\ blocked' = [blocked EXCEPT ![p] = FALSE]
    /\ UNCHANGED <<disk, registry, used, at, mine, todo, unsynced, scanning, mishaps>>

\* step: one entry, or one directory, of the claimed run
Reap(p, es, dir) ==
    /\ Stepping(p) /\ reaping[p] # NoRun
    /\ Remove(reaping[p], es)
    /\ unsynced' = [unsynced EXCEPT ![p] = dir]
    /\ Spend(p)
    /\ UNCHANGED <<durable, owner, registry, used, at, mine, todo, reaping, blocked,
                   scan, scanning, mishaps>>

Held(p) == IF reaping[p] = NoRun THEN {} ELSE seen[reaping[p]]

UnlinkBytes(p) == "bytes" \in Held(p) /\ Reap(p, {"bytes"}, "data")

\* A symbolic link, a mount or a file with other names stays.
SkipForeign(p) ==
    /\ Stepping(p) /\ "foreign" \in Held(p) /\ ~blocked[p]
    /\ blocked' = [blocked EXCEPT ![p] = TRUE]
    /\ Spend(p)
    /\ UNCHANGED <<disk, owner, registry, used, at, mine, todo, reaping, unsynced,
                   scan, scanning, mishaps>>

RmdirData(p) ==
    /\ "data" \in Held(p) /\ Held(p) \cap {"bytes", "foreign"} = {} /\ ~blocked[p]
    /\ Reap(p, {"data"}, "run")

\* The owner file goes last: until then the run can be claimed again.
UnlinkOwner(p) ==
    /\ "owner" \in Held(p) /\ "data" \notin Held(p)
    /\ Reap(p, {"owner", "payload"}, "run")

RmdirRun(p) == Held(p) = {"run"} /\ Reap(p, {"run"}, "scratch")

\* The reaper is closed when its run is gone, or has to stay.
CloseReaper(p) ==
    /\ reaping' = [reaping EXCEPT ![p] = NoRun]
    /\ owner' = [owner EXCEPT ![reaping[p]] = Nobody]
    /\ blocked' = [blocked EXCEPT ![p] = FALSE]

ReapDone(p) ==
    /\ Stepping(p) /\ reaping[p] # NoRun
    /\ blocked[p] /\ "bytes" \notin Held(p)
    /\ CloseReaper(p) /\ Spend(p)
    /\ UNCHANGED <<disk, registry, used, at, mine, todo, unsynced, scan, scanning, mishaps>>

ReapFsync(p) ==
    /\ unsynced[p] # "none" /\ reaping[p] # NoRun
    /\ Sync(reaping[p], unsynced[p])
    /\ unsynced' = [unsynced EXCEPT ![p] = "none"]
    /\ IF unsynced[p] = "scratch" THEN CloseReaper(p) ELSE UNCHANGED <<reaping, owner, blocked>>
    /\ UNCHANGED <<seen, registry, used, at, mine, todo, page, mishaps>>

\* Mutation: a scan that has returned its last name is not closed.
StaysOpen(pending) == TRUE
StillOpen(pending) == pending

\* What a process does after its page; __exit__ makes one page and disposes.
AfterPage(p, pending) ==
    IF at[p] = "leaving"
    THEN /\ at' = [at EXCEPT ![p] = "off"] /\ mine' = [mine EXCEPT ![p] = NoRun]
         /\ scan' = [scan EXCEPT ![p] = {}] /\ scanning' = [scanning EXCEPT ![p] = FALSE]
         /\ IF reaping[p] = NoRun THEN UNCHANGED <<owner, reaping, blocked>> ELSE CloseReaper(p)
    ELSE /\ at' = [at EXCEPT ![p] = IF @ = "starting" /\ ~pending THEN "swept" ELSE @]
         /\ scanning' = [scanning EXCEPT ![p] = StillOpen(pending)]
         /\ UNCHANGED <<mine, scan, owner, reaping, blocked>>

PageEnd(p) ==
    /\ InPage(p)
    /\ \/ left[p] = 0 /\ AfterPage(p, TRUE)
       \/ left[p] > 0 /\ reaping[p] = NoRun /\ scan[p] = {} /\ AfterPage(p, FALSE)
    /\ registry' = Nobody
    /\ left' = [left EXCEPT ![p] = 0]
    /\ UNCHANGED <<disk, used, todo, unsynced, mishaps>>

-----------------------------------------------------------------------------
(* Faults. *)

\* A removal of a data directory may be cut off before it is synced, and the
\* next process to claim the run has nothing left to sync.
TornBy(p) ==
    IF unsynced[p] = "run" /\ "owner" \in Held(p) THEN torn \cup {reaping[p]} ELSE torn

\* A step raises: its reaper is closed, and the resident goes on.
StepFails(p) ==
    /\ faults < MaxFaults /\ faults' = faults + 1
    /\ torn' = TornBy(p)
    /\ registry = p /\ at[p] = "active" /\ reaping[p] # NoRun
    /\ CloseReaper(p)
    /\ unsynced' = [unsynced EXCEPT ![p] = "none"]
    /\ registry' = Nobody /\ left' = [left EXCEPT ![p] = 0]
    /\ UNCHANGED <<disk, used, at, mine, todo, scan, scanning>>

\* The process ends where it is; its locks end with it.
Stopped(ps) ==
    /\ at' = [p \in Procs |-> IF p \in ps THEN "off" ELSE at[p]]
    /\ mine' = [p \in Procs |-> IF p \in ps THEN NoRun ELSE mine[p]]
    /\ todo' = [p \in Procs |-> IF p \in ps THEN << >> ELSE todo[p]]
    /\ scan' = [p \in Procs |-> IF p \in ps THEN {} ELSE scan[p]]
    /\ scanning' = [p \in Procs |-> scanning[p] /\ p \notin ps]
    /\ reaping' = [p \in Procs |-> IF p \in ps THEN NoRun ELSE reaping[p]]
    /\ blocked' = [p \in Procs |-> blocked[p] /\ p \notin ps]
    /\ unsynced' = [p \in Procs |-> IF p \in ps THEN "none" ELSE unsynced[p]]
    /\ left' = [p \in Procs |-> IF p \in ps THEN 0 ELSE left[p]]
    /\ owner' = [w \in Runs |-> IF owner[w] \in ps THEN Nobody ELSE owner[w]]
    /\ registry' = IF registry \in ps THEN Nobody ELSE registry

Kill(p) ==
    /\ at[p] # "off"
    /\ faults < MaxFaults /\ faults' = faults + 1
    /\ torn' = TornBy(p)
    /\ Stopped({p})
    /\ UNCHANGED <<disk, used>>

Unsettled == {c \in Runs \X Entries : (c[2] \in seen[c[1]]) # (c[2] \in durable[c[1]])}

PowerLoss ==
    /\ faults < MaxFaults /\ faults' = faults + 1
    /\ Stopped(Procs)
    /\ \E old \in SUBSET Unsettled :
         seen' = [w \in Runs |-> Reachable(
             {e \in Entries : e \in (IF <<w, e>> \in old THEN durable[w] ELSE seen[w])})]
    /\ durable' = seen'
    /\ UNCHANGED <<used, torn>>

\* The system writes an entry back before anyone asks for it.
WriteBack ==
    /\ \E w \in Runs : \E e \in seen[w] \ durable[w] :
         <<w, e>> \in Early /\ durable' = [durable EXCEPT ![w] = @ \cup {e}]
    /\ UNCHANGED <<seen, owner, registry, used, at, mine, todo, reaper, page, mishaps>>

CleanupStep(p) ==
    \/ Claim(p) \/ UnlinkBytes(p) \/ SkipForeign(p) \/ RmdirData(p) \/ UnlinkOwner(p)
    \/ RmdirRun(p) \/ ReapDone(p) \/ ReapFsync(p) \/ PageEnd(p)

Next ==
    \/ \E p \in Procs :
         \/ Start(p) \/ CreateStart(p) \/ CreateStep(p) \/ Created(p)
         \/ Work(p) \/ PutForeign(p) \/ Leave(p) \/ PageStart(p) \/ CleanupStep(p)
         \/ StepFails(p) \/ Kill(p)
    \/ PowerLoss \/ WriteBack

Spec == Init /\ [][Next]_vars

\* A process runs, keeps cleaning as long as it lives, and gets the registry
\* when it is free again and again.
FairSpec ==
    /\ Spec
    /\ \A p \in Procs : /\ WF_vars(CleanupStep(p) \/ CreateStep(p) \/ Created(p))
                        /\ SF_vars(PageStart(p) \/ CreateStart(p))

-----------------------------------------------------------------------------
States == {"off", "starting", "swept", "creating", "active", "leaving"}

TypeOK ==
    /\ seen \in [Runs -> SUBSET Entries] /\ durable \in [Runs -> SUBSET Entries]
    /\ owner \in [Runs -> Procs \cup {Nobody}] /\ registry \in Procs \cup {Nobody}
    /\ used \subseteq Runs
    /\ at \in [Procs -> States] /\ mine \in [Procs -> Runs \cup {NoRun}]
    /\ scan \in [Procs -> SUBSET Runs] /\ scanning \in [Procs -> BOOLEAN]
    /\ reaping \in [Procs -> Runs \cup {NoRun}] /\ blocked \in [Procs -> BOOLEAN]
    /\ unsynced \in [Procs -> Directories \cup {"none"}]
    /\ left \in [Procs -> 0..Limit] /\ torn \subseteq Runs /\ faults \in 0..MaxFaults
    /\ \A p \in Procs : \E n \in 0..Len(Creation) :
         todo[p] = SubSeq(Creation, Len(Creation) - n + 1, Len(Creation))

\* As long as a process works in its run, nobody removes a part of it or
\* holds its owner file: cleanup never takes the workspace of a live process.
LiveWorkspaceKept ==
    \A p \in Procs : at[p] = "active" =>
        /\ {"run", "data", "owner", "payload"} \subseteq seen[mine[p]]
        /\ owner[mine[p]] = p

\* Temporary bytes lie in a run whose owner file says so, also after a kill or
\* a power loss between any two system calls, so that a later cleanup adopts
\* them; only where a removal of the data directory was cut off before its sync
\* may a power loss bring back that directory, and not the owner file that the
\* next process has removed.
NoUnownedBytes ==
    \A w \in Runs \ torn : "bytes" \in seen[w] => {"owner", "payload"} \subseteq seen[w]

Abandoned(w) ==
    /\ "bytes" \in seen[w] /\ "foreign" \notin seen[w] /\ w \notin torn
    /\ \A p \in Procs : mine[p] # w

\* What a dead process has left is removed as long as one process stays at
\* work, whoever else dies or gives up in the middle of removing it.
AbandonedReclaimed ==
    \A w \in Runs : Abandoned(w) ~>
        (~Abandoned(w) \/ \A p \in Procs : at[p] # "active")
=============================================================================
