--------------------------- MODULE Scratch_proofs ---------------------------
(***************************************************************************)
(* Proofs about Scratch: no cleanup takes the workspace of a live process, *)
(* and bytes keep the owner file that lets a later cleanup adopt them, for *)
(* any processes, runs, page size, early write-backs and number of faults. *)
(*                                                                         *)
(* The inductive invariant follows the disk through the system calls of    *)
(* _create_run (BuiltSoFar), keeps processes, workspaces and claims apart  *)
(* (ClaimsApart), and says of every run that its owner file is on disk and *)
(* seen wherever its bytes are either (Adoptable), because a removal of    *)
(* the data directory is synced before the owner file goes (SyncPending).  *)
(***************************************************************************)
EXTENDS Scratch, SequenceTheorems, TLAPS

Calls == [call : {"make", "fsync", "lock"}, of : Entries \cup Directories]

\* What is left of the creation when n of its steps are.
Rest(n) == SubSeq(Creation, Len(Creation) - n + 1, Len(Creation))

-----------------------------------------------------------------------------
(* The steps of a creation. *)

LEMMA CreationIs ==
    /\ Creation \in Seq(Calls) /\ Len(Creation) = 11
    /\ Creation[1] = Make("run") /\ Creation[2] = Make("data")
    /\ Creation[3] = Fsync("data") /\ Creation[4] = Fsync("run")
    /\ Creation[5] = Make("owner") /\ Creation[6] = Lock
    /\ Creation[7] = Make("payload") /\ Creation[8] = Fsync("owner")
    /\ Creation[9] = Fsync("data") /\ Creation[10] = Fsync("run")
    /\ Creation[11] = Fsync("scratch")
BY DEF Creation, Calls, Make, Fsync, Lock, Entries, Directories

LEMMA RestIs ==
    ASSUME NEW n \in 0..11
    PROVE  /\ Rest(n) \in Seq(Calls) /\ Len(Rest(n)) = n
           /\ \A k \in 1..n : Rest(n)[k] = Creation[11 - n + k]
<1>1. Creation \in Seq(Calls) /\ Len(Creation) = 11
  BY CreationIs
<1>2. Rest(n) = SubSeq(Creation, 12 - n, 11)
  BY <1>1 DEF Rest
<1>3. \A k \in (12 - n)..11 : Creation[k] \in Calls
  <2>1. \A k \in 1..11 : Creation[k] \in Calls
    BY <1>1, ElementOfSeq
  <2>2. \A k \in (12 - n)..11 : k \in 1..11
    OBVIOUS
  <2>3. QED
    BY <2>1, <2>2
<1>4. /\ SubSeq(Creation, 12 - n, 11) \in Seq(Calls)
      /\ Len(SubSeq(Creation, 12 - n, 11)) = IF 12 - n <= 11 THEN 11 - (12 - n) + 1 ELSE 0
      /\ \A k \in 1..(11 - (12 - n) + 1) :
           SubSeq(Creation, 12 - n, 11)[k] = Creation[(12 - n) + k - 1]
  <2>1. 12 - n \in Int /\ 11 \in Int
    OBVIOUS
  <2>2. QED
    BY <1>3, <2>1, SubSeqProperties
<1>5. 11 - (12 - n) + 1 = n /\ \A k \in 1..n : (12 - n) + k - 1 = 11 - n + k
  OBVIOUS
<1>6. Len(Rest(n)) = n
  BY <1>2, <1>4, <1>5
<1>7. QED
  BY <1>2, <1>4, <1>5, <1>6

LEMMA RestStep ==
    ASSUME NEW n \in 1..11
    PROVE  /\ Rest(n) # << >> /\ Head(Rest(n)) = Creation[12 - n]
           /\ Tail(Rest(n)) = Rest(n - 1)
<1>1. /\ Rest(n) \in Seq(Calls) /\ Len(Rest(n)) = n
      /\ \A k \in 1..n : Rest(n)[k] = Creation[11 - n + k]
  <2>1. n \in 0..11
    OBVIOUS
  <2>2. QED
    BY <2>1, RestIs
<1>2. /\ Rest(n - 1) \in Seq(Calls) /\ Len(Rest(n - 1)) = n - 1
      /\ \A k \in 1..(n - 1) : Rest(n - 1)[k] = Creation[11 - (n - 1) + k]
  <2>1. n - 1 \in 0..11
    OBVIOUS
  <2>2. QED
    BY <2>1, RestIs
<1>3. Rest(n) # << >> /\ Head(Rest(n)) = Creation[12 - n]
  BY <1>1
<1>4. /\ Tail(Rest(n)) \in Seq(Calls) /\ Len(Tail(Rest(n))) = n - 1
      /\ \A k \in 1..(n - 1) : Tail(Rest(n))[k] = Rest(n)[k + 1]
  BY <1>1, <1>3, HeadTailProperties
<1>5. \A k \in 1..(n - 1) : Tail(Rest(n))[k] = Rest(n - 1)[k]
  BY <1>1, <1>2, <1>4
<1>6. Tail(Rest(n)) = Rest(n - 1)
  BY <1>2, <1>4, <1>5, SeqEqual
<1>7. QED
  BY <1>3, <1>6

LEMMA RestEnds == Rest(0) = << >> /\ Rest(11) = Creation
<1>1. Creation \in Seq(Calls) /\ Len(Creation) = 11
  BY CreationIs
<1>2. Rest(0) \in Seq(Calls) /\ Len(Rest(0)) = 0
  BY RestIs
<1>3. /\ Rest(11) \in Seq(Calls) /\ Len(Rest(11)) = 11
      /\ \A k \in 1..11 : Rest(11)[k] = Creation[k]
  BY RestIs
<1>4. Rest(11) = Creation
  BY <1>1, <1>3, SeqEqual
<1>5. Rest(0) = << >>
  BY <1>2, EmptySeq
<1>6. QED
  BY <1>4, <1>5

-----------------------------------------------------------------------------
(* Types. *)

StepsLeft(p) == \E n \in 0..11 : todo[p] = Rest(n)

Typed ==
    /\ seen \in [Runs -> SUBSET Entries] /\ durable \in [Runs -> SUBSET Entries]
    /\ owner \in [Runs -> Procs \cup {Nobody}] /\ registry \in Procs \cup {Nobody}
    /\ used \subseteq Runs
    /\ at \in [Procs -> States] /\ mine \in [Procs -> Runs \cup {NoRun}]
    /\ scan \in [Procs -> SUBSET Runs] /\ scanning \in [Procs -> BOOLEAN]
    /\ reaping \in [Procs -> Runs \cup {NoRun}] /\ blocked \in [Procs -> BOOLEAN]
    /\ unsynced \in [Procs -> Directories \cup {"none"}]
    /\ left \in [Procs -> 0..Limit] /\ torn \subseteq Runs /\ faults \in 0..MaxFaults
    /\ todo \in [Procs -> Seq(Calls)] /\ \A p \in Procs : StepsLeft(p)

LEMMA TypedIsTypeOK == Typed => TypeOK
<1>1. Len(Creation) = 11
  BY CreationIs
<1>2. \A p \in Procs : StepsLeft(p) =>
        \E n \in 0..Len(Creation) :
          todo[p] = SubSeq(Creation, Len(Creation) - n + 1, Len(Creation))
  BY <1>1 DEF StepsLeft, Rest
<1>3. QED
  BY <1>2 DEF Typed, TypeOK

LEMMA InitTyped == Init => Typed
<1> SUFFICES ASSUME Init PROVE Typed
  OBVIOUS
<1>1. \A p \in Procs : StepsLeft(p)
  <2>1. 0 \in 0..11
    OBVIOUS
  <2>2. QED
    BY <2>1, RestEnds DEF Init, StepsLeft
<1>2. left \in [Procs -> 0..Limit] /\ faults \in 0..MaxFaults
  BY ScratchAssumption DEF Init
<1>3. todo \in [Procs -> Seq(Calls)]
  BY EmptySeq DEF Init
<1>4. QED
  BY <1>1, <1>2, <1>3 DEF Init, Typed, States

LEMMA SyncTyped ==
    ASSUME Typed, NEW w, NEW dir, Sync(w, dir)
    PROVE  durable' \in [Runs -> SUBSET Entries]
<1>1. w \in Runs => {e \in durable[w] : Holder[e] # dir} \cup {e \in seen[w] : Holder[e] = dir}
                      \in SUBSET Entries
  BY DEF Typed
<1>2. QED
  BY <1>1 DEF Typed, Sync

LEMMA CreateTyped ==
    ASSUME Typed, NEW p \in Procs, CreateStart(p) \/ CreateStep(p) \/ Created(p)
    PROVE  Typed'
<1>1. CASE CreateStart(p)
  <2>1. Fresh \in Runs
    BY <1>1 DEF CreateStart, Fresh, Typed
  <2>2. \A q \in Procs : StepsLeft(q)'
    BY <1>1, RestEnds DEF CreateStart, StepsLeft, Typed
  <2>3. todo' \in [Procs -> Seq(Calls)]
    BY <1>1, CreationIs DEF CreateStart, Typed
  <2>4. QED
    BY <1>1, <2>1, <2>2, <2>3 DEF CreateStart, Typed, States, disk, reaper, page, mishaps
<1>2. CASE CreateStep(p)
  <2>1. todo' = [todo EXCEPT ![p] = Tail(@)]
        /\ UNCHANGED <<registry, used, at, mine, reaper, page, mishaps>>
    BY <1>2 DEF CreateStep
  <2>2. PICK n \in 0..11 : todo[p] = Rest(n)
    BY DEF Typed, StepsLeft
  <2>3. n \in 1..11
    BY <1>2, <2>2, RestEnds DEF CreateStep
  <2>4. Tail(todo[p]) = Rest(n - 1) /\ n - 1 \in 0..11
    <3>1. n - 1 \in 0..11
      BY <2>3
    <3>2. Tail(Rest(n)) = Rest(n - 1)
      BY <2>3, RestStep
    <3>3. QED
      BY <2>2, <3>1, <3>2
  <2>5. Rest(n - 1) \in Seq(Calls)
    BY <2>4, RestIs
  <2>6. todo' \in [Procs -> Seq(Calls)] /\ \A q \in Procs : StepsLeft(q)'
    BY <2>1, <2>4, <2>5 DEF Typed, StepsLeft
  <2>7. \/ \E e : Head(todo[p]) = Make(e) /\ Add(mine[p], e) /\ UNCHANGED <<durable, owner>>
        \/ \E d : Sync(mine[p], d) /\ UNCHANGED <<seen, owner>>
        \/ owner' = [owner EXCEPT ![mine[p]] = p] /\ UNCHANGED disk
    <3>1. Head(todo[p]) \in Calls
      BY <1>2, HeadTailProperties DEF CreateStep, Typed
    <3>2. Head(todo[p]).call = "make" => Head(todo[p]) = Make(Head(todo[p]).of)
      BY <3>1 DEF Calls, Make
    <3>3. QED
      BY <1>2, <3>2 DEF CreateStep
  <2>8. seen' \in [Runs -> SUBSET Entries] /\ durable' \in [Runs -> SUBSET Entries]
        /\ owner' \in [Runs -> Procs \cup {Nobody}]
    <3>1. \A e : Head(todo[p]) = Make(e) => e \in Entries
      <4>1. Head(todo[p]) = Creation[12 - n]
        BY <2>2, <2>3, RestStep
      <4>2. \A k \in 1..11 : \A e : Creation[k] = Make(e) => e \in Entries
        BY CreationIs DEF Make, Fsync, Lock, Entries
      <4>3. QED
        BY <2>3, <4>1, <4>2
    <3>2. ASSUME NEW e, Head(todo[p]) = Make(e), Add(mine[p], e), UNCHANGED <<durable, owner>>
          PROVE  seen' \in [Runs -> SUBSET Entries]
      BY <3>1, <3>2 DEF Add, Typed
    <3>3. QED
      BY <2>7, <3>2, SyncTyped DEF Typed, disk
  <2>9. QED
    BY <2>1, <2>6, <2>8 DEF Typed, reaper, page, mishaps
<1>3. CASE Created(p)
  BY <1>3 DEF Created, Typed, States, StepsLeft, disk, reaper, page, mishaps
<1>4. QED
  BY <1>1, <1>2, <1>3

LEMMA LifeTyped ==
    ASSUME Typed, NEW p \in Procs,
           Start(p) \/ Work(p) \/ PutForeign(p) \/ Leave(p) \/ PageStart(p)
    PROVE  Typed'
<1> USE DEF StepsLeft, disk, reaper, page, mishaps
<1>1. CASE Start(p)
  BY <1>1 DEF Start, Typed, States
<1>2. CASE Work(p)
  <2>1. \/ seen' = [seen EXCEPT ![mine[p]] = @ \cup {"bytes"}]
        \/ seen' = [seen EXCEPT ![mine[p]] = @ \ {"bytes"}]
    BY <1>2 DEF Work, Add, Remove
  <2>2. "bytes" \in Entries
    BY DEF Entries
  <2>3. seen' \in [Runs -> SUBSET Entries]
    <3>1. CASE mine[p] \in Runs
      <4>1. /\ seen[mine[p]] \cup {"bytes"} \in SUBSET Entries
            /\ seen[mine[p]] \ {"bytes"} \in SUBSET Entries
        BY <2>2, <3>1 DEF Typed
      <4>2. QED
        BY <2>1, <4>1 DEF Typed
    <3>2. CASE mine[p] \notin Runs
      BY <2>1, <3>2 DEF Typed
    <3>3. QED
      BY <3>1, <3>2
  <2>4. QED
    BY <1>2, <2>3 DEF Work, Typed
<1>3. CASE PutForeign(p)
  BY <1>3 DEF PutForeign, Add, Typed, Entries
<1>4. CASE Leave(p)
  BY <1>4 DEF Leave, Typed, States
<1>5. CASE PageStart(p)
  <2>1. left' \in [Procs -> 0..Limit]
    BY <1>5, ScratchAssumption DEF PageStart, Typed
  <2>2. scan' \in [Procs -> SUBSET Runs] /\ scanning' \in [Procs -> BOOLEAN]
    <3>1. Visible \in SUBSET Runs
      BY DEF Visible
    <3>2. \/ UNCHANGED <<scan, scanning>>
          \/ /\ scan' = [scan EXCEPT ![p] = Visible]
             /\ scanning' = [scanning EXCEPT ![p] = TRUE]
      BY <1>5 DEF PageStart
    <3>3. QED
      BY <3>1, <3>2 DEF Typed
  <2>3. QED
    BY <1>5, <2>1, <2>2 DEF PageStart, Typed
<1>6. QED
  BY <1>1, <1>2, <1>3, <1>4, <1>5

LEMMA SpendTyped ==
    ASSUME Typed, NEW p \in Procs, left[p] > 0, Spend(p)
    PROVE  left' \in [Procs -> 0..Limit]
BY ScratchAssumption DEF Typed, Spend

LEMMA CloseTyped ==
    ASSUME Typed, NEW p \in Procs, CloseReaper(p)
    PROVE  /\ reaping' \in [Procs -> Runs \cup {NoRun}]
           /\ owner' \in [Runs -> Procs \cup {Nobody}] /\ blocked' \in [Procs -> BOOLEAN]
BY DEF Typed, CloseReaper

LEMMA CleanupTyped ==
    ASSUME Typed, NEW p \in Procs, CleanupStep(p)
    PROVE  Typed'
<1> USE DEF StepsLeft, disk, reaper, page, mishaps
<1>1. CASE Claim(p)
  <2>1. left' \in [Procs -> 0..Limit]
    BY <1>1, SpendTyped DEF Claim, Stepping
  <2>2. PICK w \in scan[p] :
          /\ scan' = [scan EXCEPT ![p] = @ \ {w}]
          /\ \/ owner' = [owner EXCEPT ![w] = p] /\ reaping' = [reaping EXCEPT ![p] = w]
             \/ UNCHANGED <<owner, reaping>>
    BY <1>1 DEF Claim
  <2>3. w \in Runs
    BY <2>2 DEF Typed
  <2>4. /\ reaping' \in [Procs -> Runs \cup {NoRun}]
        /\ owner' \in [Runs -> Procs \cup {Nobody}] /\ scan' \in [Procs -> SUBSET Runs]
    BY <2>2, <2>3 DEF Typed
  <2>5. QED
    BY <1>1, <2>1, <2>4 DEF Claim, Typed
<1>2. ASSUME NEW es, NEW dir \in Directories, Reap(p, es, dir) PROVE Typed'
  <2>1. left' \in [Procs -> 0..Limit]
    BY <1>2, SpendTyped DEF Reap, Stepping
  <2>2. seen' \in [Runs -> SUBSET Entries]
    BY <1>2 DEF Reap, Remove, Typed
  <2>3. QED
    BY <1>2, <2>1, <2>2 DEF Reap, Typed
<1>3. CASE UnlinkBytes(p) \/ RmdirData(p) \/ UnlinkOwner(p) \/ RmdirRun(p)
  <2>1. {"data", "run", "scratch"} \subseteq Directories
    BY DEF Directories
  <2>2. QED
    BY <1>2, <1>3, <2>1 DEF UnlinkBytes, RmdirData, UnlinkOwner, RmdirRun
<1>4. CASE SkipForeign(p)
  <2>1. left' \in [Procs -> 0..Limit]
    BY <1>4, SpendTyped DEF SkipForeign, Stepping
  <2>2. QED
    BY <1>4, <2>1 DEF SkipForeign, Typed
<1>5. CASE ReapDone(p)
  <2>1. left' \in [Procs -> 0..Limit]
    BY <1>5, SpendTyped DEF ReapDone, Stepping
  <2>2. QED
    BY <1>5, <2>1, CloseTyped DEF ReapDone, Typed
<1>6. CASE ReapFsync(p)
  <2>1. durable' \in [Runs -> SUBSET Entries]
    BY <1>6, SyncTyped DEF ReapFsync
  <2>2. QED
    BY <1>6, <2>1, CloseTyped DEF ReapFsync, Typed
<1>7. CASE PageEnd(p)
  <2>1. PICK pending \in BOOLEAN : AfterPage(p, pending)
    BY <1>7 DEF PageEnd
  <2>2. /\ reaping' \in [Procs -> Runs \cup {NoRun}]
        /\ owner' \in [Runs -> Procs \cup {Nobody}] /\ blocked' \in [Procs -> BOOLEAN]
    BY <2>1, CloseTyped DEF AfterPage, Typed
  <2>3. /\ at' \in [Procs -> States] /\ mine' \in [Procs -> Runs \cup {NoRun}]
        /\ scan' \in [Procs -> SUBSET Runs] /\ scanning' \in [Procs -> BOOLEAN]
    BY <2>1 DEF AfterPage, StillOpen, Typed, States
  <2>4. left' \in [Procs -> 0..Limit]
    BY <1>7, ScratchAssumption DEF PageEnd, Typed
  <2>5. QED
    BY <1>7, <2>2, <2>3, <2>4 DEF PageEnd, Typed
<1>8. QED
  BY <1>1, <1>3, <1>4, <1>5, <1>6, <1>7 DEF CleanupStep

LEMMA StoppedTyped ==
    ASSUME Typed, NEW ps \in SUBSET Procs, Stopped(ps)
    PROVE  /\ owner' \in [Runs -> Procs \cup {Nobody}] /\ registry' \in Procs \cup {Nobody}
           /\ at' \in [Procs -> States] /\ mine' \in [Procs -> Runs \cup {NoRun}]
           /\ scan' \in [Procs -> SUBSET Runs] /\ scanning' \in [Procs -> BOOLEAN]
           /\ reaping' \in [Procs -> Runs \cup {NoRun}] /\ blocked' \in [Procs -> BOOLEAN]
           /\ unsynced' \in [Procs -> Directories \cup {"none"}]
           /\ left' \in [Procs -> 0..Limit]
           /\ todo' \in [Procs -> Seq(Calls)] /\ \A p \in Procs : StepsLeft(p)'
<1>1. todo' \in [Procs -> Seq(Calls)] /\ \A p \in Procs : StepsLeft(p)'
  BY RestEnds DEF Stopped, Typed, StepsLeft
<1>2. left' \in [Procs -> 0..Limit]
  BY ScratchAssumption DEF Stopped, Typed
<1>3. at' \in [Procs -> States]
  BY DEF Stopped, Typed, States
<1>4. QED
  BY <1>1, <1>2, <1>3 DEF Stopped, Typed

LEMMA FaultsTyped ==
    ASSUME Typed, (\E p \in Procs : StepFails(p) \/ Kill(p)) \/ PowerLoss \/ WriteBack
    PROVE  Typed'
<1>1. faults < MaxFaults => faults + 1 \in 0..MaxFaults
  BY ScratchAssumption DEF Typed
<1>2. ASSUME NEW p \in Procs, StepFails(p) PROVE Typed'
  <2>1. TornBy(p) \subseteq Runs
    BY <1>2 DEF TornBy, StepFails, Typed
  <2>2. left' \in [Procs -> 0..Limit]
    BY <1>2, ScratchAssumption DEF StepFails, Typed
  <2>3. faults' \in 0..MaxFaults
    BY <1>1, <1>2 DEF StepFails
  <2>4. QED
    BY <1>2, <2>1, <2>2, <2>3, CloseTyped DEF StepFails, Typed, StepsLeft, disk
<1>3. ASSUME NEW p \in Procs, Kill(p) PROVE Typed'
  <2>1. TornBy(p) \subseteq Runs
    <3>1. unsynced[p] = "run" /\ "owner" \in Held(p) => reaping[p] \in Runs
      BY DEF Held, Typed
    <3>2. QED
      BY <3>1 DEF TornBy, Typed
  <2>2. faults' \in 0..MaxFaults /\ Stopped({p})
    BY <1>1, <1>3 DEF Kill
  <2>3. QED
    BY <1>3, <2>1, <2>2, StoppedTyped DEF Kill, Typed, disk
<1>4. CASE PowerLoss
  <2>1. faults' \in 0..MaxFaults /\ Stopped(Procs)
    BY <1>1, <1>4 DEF PowerLoss
  <2>2. seen' \in [Runs -> SUBSET Entries]
    BY <1>4 DEF PowerLoss, Reachable
  <2>3. QED
    BY <1>4, <2>1, <2>2, StoppedTyped DEF PowerLoss, Typed
<1>5. CASE WriteBack
  BY <1>5 DEF WriteBack, Typed, StepsLeft, reaper, page, mishaps
<1>6. QED
  BY <1>2, <1>3, <1>4, <1>5

LEMMA NextTyped == Typed /\ [Next]_vars => Typed'
<1> SUFFICES ASSUME Typed, [Next]_vars PROVE Typed'
  OBVIOUS
<1>1. CASE UNCHANGED vars
  BY <1>1 DEF vars, Typed, StepsLeft, disk, reaper, page, mishaps
<1>2. QED
  BY <1>1, CreateTyped, LifeTyped, CleanupTyped, FaultsTyped DEF Next

\* Every entry, lock and step of a run stays in its range.
THEOREM TypeCorrectness == Spec => []TypeOK
BY InitTyped, NextTyped, TypedIsTypeOK, PTL DEF Spec

-----------------------------------------------------------------------------
(* The invariant. *)

Core == {"run", "data", "owner", "payload"}

\* A process in its workspace: it is made, or being made, and not yet left.
AtHome(p) == at[p] \in {"creating", "active"}

\* Whose a run is.
ClaimsApart ==
    /\ \A p \in Procs :
        /\ reaping[p] # NoRun => owner[reaping[p]] = p /\ reaping[p] \in used
        /\ unsynced[p] # "none" => reaping[p] # NoRun
        /\ at[p] \in {"off", "swept", "creating"} => reaping[p] = NoRun
        /\ registry = p => at[p] \notin {"off", "swept"}
        /\ AtHome(p) => mine[p] \in used
        /\ at[p] = "active" => owner[mine[p]] = p
    /\ \A p, q \in Procs :
        /\ AtHome(p) => reaping[q] # mine[p]
        /\ AtHome(p) /\ AtHome(q) /\ p # q => mine[p] # mine[q]

\* A name that was not given out stands for nothing.
UnusedEmpty == \A w \in Runs \ used : seen[w] = {} /\ durable[w] = {}

\* What the system calls of _create_run have done so far.
Built(p, w, n) ==
    /\ "bytes" \notin seen[w] /\ "bytes" \notin durable[w]
    /\ n <= 10 => "run" \in seen[w]
    /\ n <= 9 => "data" \in seen[w]
    /\ n <= 6 => "owner" \in seen[w]
    /\ IF n <= 4 THEN "payload" \in seen[w] ELSE "payload" \notin seen[w]
    /\ n <= 5 => owner[w] = p
    /\ n <= 3 => "payload" \in durable[w]
    /\ n <= 1 => {"data", "owner"} \subseteq durable[w]
    /\ n = 0 => "run" \in durable[w]
BuiltSoFar == \A p \in Procs : at[p] = "creating" => Built(p, mine[p], Len(todo[p]))

\* A workspace is there, on disk as well.
WorkspaceThere ==
    \A p \in Procs : at[p] = "active" => Core \subseteq seen[mine[p]] \cap durable[mine[p]]

\* Bytes that are there, or would be after a power loss, can be adopted.
Adoptable(w) ==
    /\ "bytes" \in seen[w] => "data" \in seen[w]
    /\ w \notin torn /\ {"bytes", "data"} \subseteq seen[w] \cup durable[w] =>
         {"owner", "payload"} \subseteq seen[w] \cap durable[w]

\* A data directory that only a power loss would bring back with its bytes: the
\* one who has removed it is about to sync that.
Syncing(w) == \E p \in Procs : reaping[p] = w /\ unsynced[p] = "run"
SyncPending(w) ==
    w \notin torn /\ {"bytes", "data"} \subseteq durable[w] /\ "data" \notin seen[w] => Syncing(w)

BytesOwned == \A w \in Runs : Adoptable(w) /\ SyncPending(w)

IInv == Typed /\ ClaimsApart /\ UnusedEmpty /\ BuiltSoFar /\ WorkspaceThere /\ BytesOwned

LEMMA InitIInv == Init => IInv
<1> SUFFICES ASSUME Init PROVE IInv
  OBVIOUS
<1>1. ClaimsApart
  BY ScratchAssumption DEF Init, ClaimsApart, AtHome
<1>2. UnusedEmpty /\ BuiltSoFar /\ WorkspaceThere
  BY DEF Init, UnusedEmpty, BuiltSoFar, WorkspaceThere
<1>3. BytesOwned
  BY DEF Init, BytesOwned, Adoptable, SyncPending
<1>4. QED
  BY <1>1, <1>2, <1>3, InitTyped DEF IInv

-----------------------------------------------------------------------------
(* What a step leaves alone. *)

\* A step by which nobody's claims change and the disk is not touched.
LEMMA DiskKept ==
    ASSUME IInv, UNCHANGED <<seen, durable, torn>>, used \subseteq used',
           \A w \in Runs : w \notin torn /\ {"bytes", "data"} \subseteq durable[w]
                             /\ "data" \notin seen[w] /\ Syncing(w) => Syncing(w)'
    PROVE  UnusedEmpty' /\ BytesOwned'
<1>1. UnusedEmpty'
  BY DEF IInv, UnusedEmpty
<1>2. BytesOwned'
  BY DEF IInv, BytesOwned, Adoptable, SyncPending
<1>3. QED
  BY <1>1, <1>2

LEMMA LenLeft ==
    ASSUME Typed, NEW p \in Procs
    PROVE  Len(todo[p]) \in 0..11 /\ todo[p] = Rest(Len(todo[p]))
<1>1. PICK n \in 0..11 : todo[p] = Rest(n)
  BY DEF Typed, StepsLeft
<1>2. QED
  BY <1>1, RestIs

\* The workspaces that a step does not touch.
LEMMA HomesKept ==
    ASSUME IInv, NEW ps \in SUBSET Procs,
           \A q \in Procs : AtHome(q)' /\ q \notin ps =>
             /\ at'[q] = at[q] /\ mine'[q] = mine[q] /\ todo'[q] = todo[q]
             /\ seen'[mine[q]] = seen[mine[q]] /\ durable'[mine[q]] = durable[mine[q]]
             /\ owner'[mine[q]] = owner[mine[q]]
    PROVE  \A q \in Procs : q \notin ps =>
             /\ at'[q] = "creating" => Built(q, mine[q], Len(todo[q]))'
             /\ at'[q] = "active" => Core \subseteq seen'[mine'[q]] \cap durable'[mine'[q]]
<1> SUFFICES ASSUME NEW q \in Procs, q \notin ps
             PROVE  /\ at'[q] = "creating" => Built(q, mine[q], Len(todo[q]))'
                    /\ at'[q] = "active" => Core \subseteq seen'[mine'[q]] \cap durable'[mine'[q]]
  OBVIOUS
<1>1. CASE at'[q] = "creating"
  <2>1. /\ at[q] = "creating" /\ mine'[q] = mine[q] /\ todo'[q] = todo[q]
        /\ seen'[mine[q]] = seen[mine[q]] /\ durable'[mine[q]] = durable[mine[q]]
        /\ owner'[mine[q]] = owner[mine[q]]
    BY <1>1 DEF AtHome
  <2>2. Built(q, mine[q], Len(todo[q]))
    BY <2>1 DEF IInv, BuiltSoFar
  <2>3. QED
    BY <1>1, <2>1, <2>2 DEF Built
<1>2. CASE at'[q] = "active"
  BY <1>2 DEF AtHome, IInv, WorkspaceThere
<1>3. QED
  BY <1>1, <1>2

LEMMA AllHomesKept ==
    ASSUME IInv,
           \A q \in Procs : AtHome(q)' =>
             /\ at'[q] = at[q] /\ mine'[q] = mine[q] /\ todo'[q] = todo[q]
             /\ seen'[mine[q]] = seen[mine[q]] /\ durable'[mine[q]] = durable[mine[q]]
             /\ owner'[mine[q]] = owner[mine[q]]
    PROVE  BuiltSoFar' /\ WorkspaceThere'
<1>1. \A q \in Procs : AtHome(q)' /\ q \notin {} =>
        /\ at'[q] = at[q] /\ mine'[q] = mine[q] /\ todo'[q] = todo[q]
        /\ seen'[mine[q]] = seen[mine[q]] /\ durable'[mine[q]] = durable[mine[q]]
        /\ owner'[mine[q]] = owner[mine[q]]
  OBVIOUS
<1>2. {} \in SUBSET Procs
  OBVIOUS
<1>3. \A q \in Procs : q \notin {} =>
        /\ at'[q] = "creating" => Built(q, mine[q], Len(todo[q]))'
        /\ at'[q] = "active" => Core \subseteq seen'[mine'[q]] \cap durable'[mine'[q]]
  BY <1>1, <1>2, HomesKept
<1>4. QED
  BY <1>3 DEF BuiltSoFar, WorkspaceThere

\* A step that changes one run only.
LEMMA OtherRuns ==
    ASSUME IInv, NEW w \in Runs, UNCHANGED torn, Adoptable(w)', SyncPending(w)',
           \A v \in Runs : v # w =>
             /\ seen'[v] = seen[v] /\ durable'[v] = durable[v] /\ (Syncing(v) => Syncing(v)')
    PROVE  BytesOwned'
<1>1. ASSUME NEW v \in Runs, v # w PROVE Adoptable(v)' /\ SyncPending(v)'
  BY <1>1 DEF IInv, BytesOwned, Adoptable, SyncPending
<1>2. QED
  BY <1>1 DEF BytesOwned

LEMMA SyncIs ==
    ASSUME Typed, NEW w \in Runs, NEW dir, Sync(w, dir)
    PROVE  /\ \A e \in Entries : e \in durable'[w] <=>
                IF Holder[e] = dir THEN e \in seen[w] ELSE e \in durable[w]
           /\ durable'[w] \subseteq Entries
           /\ \A v \in Runs : v # w => durable'[v] = durable[v]
BY DEF Sync, Typed

LEMMA HolderIs ==
    /\ Entries = {"run", "data", "owner", "payload", "bytes", "foreign"}
    /\ Holder["run"] = "scratch" /\ Holder["data"] = "run" /\ Holder["owner"] = "run"
    /\ Holder["payload"] = "owner" /\ Holder["bytes"] = "data" /\ Holder["foreign"] = "data"
BY DEF Entries, Holder

-----------------------------------------------------------------------------
(* Creating a run. *)

LEMMA CreateStartIInv ==
    ASSUME IInv, NEW p \in Procs, CreateStart(p)
    PROVE  IInv'
<1>1. /\ at[p] = "swept" /\ at' = [at EXCEPT ![p] = "creating"] /\ registry' = p
      /\ used' = used \cup {Fresh} /\ mine' = [mine EXCEPT ![p] = Fresh]
      /\ todo' = [todo EXCEPT ![p] = Creation]
      /\ UNCHANGED <<seen, durable, torn, owner, reaping, unsynced>>
  BY DEF CreateStart, disk, reaper, mishaps
<1>2. PICK w \in Runs : w = Fresh /\ w \notin used
  BY DEF CreateStart, Fresh, IInv, Typed
<1>3. Typed'
  BY CreateTyped DEF IInv
<1>4. w # NoRun /\ reaping[p] = NoRun /\ \A q \in Procs : reaping[q] # w
  BY <1>1, <1>2, ScratchAssumption DEF IInv, ClaimsApart
<1>5. at'[p] = "creating" /\ mine'[p] = w /\ todo'[p] = Creation
      /\ \A q \in Procs : q # p => at'[q] = at[q] /\ mine'[q] = mine[q] /\ todo'[q] = todo[q]
  BY <1>1, <1>2 DEF IInv, Typed
<1>6. ClaimsApart'
  <2>1. \A q \in Procs : AtHome(q) => mine[q] # w
    BY <1>2 DEF IInv, ClaimsApart
  <2>2. QED
    BY <1>1, <1>2, <1>4, <1>5, <2>1 DEF IInv, ClaimsApart, AtHome
<1>7. UnusedEmpty' /\ BytesOwned'
  BY <1>1, DiskKept DEF Syncing
<1>8. Built(p, mine[p], Len(todo[p]))'
  <2>1. Len(todo'[p]) = 11
    BY <1>5, CreationIs
  <2>2. seen'[w] = {} /\ durable'[w] = {}
    BY <1>1, <1>2 DEF IInv, UnusedEmpty
  <2>3. QED
    BY <1>5, <2>1, <2>2 DEF Built
<1>9. BuiltSoFar' /\ WorkspaceThere'
  <2>1. \A q \in Procs : AtHome(q)' /\ q \notin {p} =>
             /\ at'[q] = at[q] /\ mine'[q] = mine[q] /\ todo'[q] = todo[q]
             /\ seen'[mine[q]] = seen[mine[q]] /\ durable'[mine[q]] = durable[mine[q]]
             /\ owner'[mine[q]] = owner[mine[q]]
    BY <1>1, <1>5
  <2>2. \A q \in Procs : q \notin {p} =>
             /\ at'[q] = "creating" => Built(q, mine[q], Len(todo[q]))'
             /\ at'[q] = "active" => Core \subseteq seen'[mine'[q]] \cap durable'[mine'[q]]
    BY <2>1, HomesKept
  <2>3. QED
    BY <1>5, <1>8, <2>2 DEF BuiltSoFar, WorkspaceThere
<1>10. QED
  BY <1>3, <1>6, <1>7, <1>9 DEF IInv

\* What each system call adds.
LEMMA CreateStepBuilds ==
    ASSUME IInv, NEW p \in Procs, CreateStep(p), NEW w \in Runs, w = mine[p]
    PROVE  /\ Built(p, w, Len(todo[p]))'
           /\ \A v \in Runs : v # w => seen'[v] = seen[v] /\ durable'[v] = durable[v]
           /\ \A v \in Runs : owner'[v] # owner[v] => owner[v] = Nobody /\ v = w
<1> DEFINE n == Len(todo[p])
           next == Head(todo[p])
<1>1. n \in 1..11 /\ next = Creation[12 - n] /\ Len(todo'[p]) = n - 1
  <2>1. n \in 0..11 /\ todo[p] = Rest(n) /\ todo[p] # << >>
    BY LenLeft DEF IInv, CreateStep
  <2>2. n \in 1..11
    BY <2>1, RestEnds
  <2>3. next = Creation[12 - n] /\ Tail(todo[p]) = Rest(n - 1)
    BY <2>1, <2>2, RestStep
  <2>4. todo'[p] = Rest(n - 1)
    BY <2>3 DEF CreateStep, IInv, Typed
  <2>5. n - 1 \in 0..11
    BY <2>2
  <2>6. QED
    BY <2>2, <2>3, <2>4, <2>5, RestIs
<1>2. /\ seen \in [Runs -> SUBSET Entries] /\ durable \in [Runs -> SUBSET Entries]
      /\ owner \in [Runs -> Procs \cup {Nobody}]
  BY DEF IInv, Typed
<1>3. Built(p, w, n)
  BY DEF CreateStep, IInv, BuiltSoFar
<1>4. \A e \in Entries : next = Make(e) =>
        seen' = [seen EXCEPT ![w] = @ \cup {e}] /\ UNCHANGED <<durable, owner>>
  BY DEF CreateStep, Make, Add
<1>5. \A d \in Directories : next = Fsync(d) => Sync(w, d) /\ UNCHANGED <<seen, owner>>
  BY DEF CreateStep, Fsync
<1>6. next = Lock => /\ owner[w] = Nobody /\ owner' = [owner EXCEPT ![w] = p]
                     /\ UNCHANGED <<seen, durable>>
  BY DEF CreateStep, Lock, disk
<1>7. ASSUME NEW e \in Entries, next = Make(e)
      PROVE  /\ seen'[w] = seen[w] \cup {e} /\ durable' = durable /\ owner' = owner
             /\ \A v \in Runs : v # w => seen'[v] = seen[v]
  BY <1>2, <1>4, <1>7
<1>8. ASSUME NEW d \in Directories, next = Fsync(d)
      PROVE  /\ seen' = seen /\ owner' = owner
             /\ \A e \in Entries : e \in durable'[w] <=>
                  IF Holder[e] = d THEN e \in seen[w] ELSE e \in durable[w]
             /\ \A v \in Runs : v # w => durable'[v] = durable[v]
  BY <1>5, <1>8, SyncIs DEF IInv
<1>9. {"run", "data", "owner", "payload", "bytes"} \subseteq Entries
      /\ {"data", "run", "owner", "scratch"} \subseteq Directories
  BY DEF Entries, Directories
<1> HIDE DEF next
<1>10. CASE n = 11
  <2>1. next = Make("run")
    BY <1>1, <1>10, CreationIs
  <2>2. QED
    BY <1>1, <1>3, <1>7, <1>9, <1>10, <2>1 DEF Built
<1>11. CASE n = 10
  <2>1. next = Make("data")
    BY <1>1, <1>11, CreationIs
  <2>2. QED
    BY <1>1, <1>3, <1>7, <1>9, <1>11, <2>1 DEF Built
<1>12. CASE n = 9
  <2>1. next = Fsync("data")
    BY <1>1, <1>12, CreationIs
  <2>2. QED
    BY <1>1, <1>3, <1>8, <1>9, <1>12, <2>1, HolderIs DEF Built
<1>13. CASE n = 8
  <2>1. next = Fsync("run")
    BY <1>1, <1>13, CreationIs
  <2>2. QED
    BY <1>1, <1>3, <1>8, <1>9, <1>13, <2>1, HolderIs DEF Built
<1>14. CASE n = 7
  <2>1. next = Make("owner")
    BY <1>1, <1>14, CreationIs
  <2>2. QED
    BY <1>1, <1>3, <1>7, <1>9, <1>14, <2>1 DEF Built
<1>15. CASE n = 6
  <2>1. next = Lock
    BY <1>1, <1>15, CreationIs
  <2>2. owner'[w] = p /\ owner[w] = Nobody /\ \A v \in Runs : v # w => owner'[v] = owner[v]
    BY <1>2, <1>6, <2>1
  <2>3. QED
    BY <1>1, <1>3, <1>6, <1>15, <2>1, <2>2 DEF Built
<1>16. CASE n = 5
  <2>1. next = Make("payload")
    BY <1>1, <1>16, CreationIs
  <2>2. QED
    BY <1>1, <1>3, <1>7, <1>9, <1>16, <2>1 DEF Built
<1>17. CASE n = 4
  <2>1. next = Fsync("owner")
    BY <1>1, <1>17, CreationIs
  <2>2. QED
    BY <1>1, <1>3, <1>8, <1>9, <1>17, <2>1, HolderIs DEF Built
<1>18. CASE n = 3
  <2>1. next = Fsync("data")
    BY <1>1, <1>18, CreationIs
  <2>2. QED
    BY <1>1, <1>3, <1>8, <1>9, <1>18, <2>1, HolderIs DEF Built
<1>19. CASE n = 2
  <2>1. next = Fsync("run")
    BY <1>1, <1>19, CreationIs
  <2>2. QED
    BY <1>1, <1>3, <1>8, <1>9, <1>19, <2>1, HolderIs DEF Built
<1>20. CASE n = 1
  <2>1. next = Fsync("scratch")
    BY <1>1, <1>20, CreationIs
  <2>2. QED
    BY <1>1, <1>3, <1>8, <1>9, <1>20, <2>1, HolderIs DEF Built
<1>21. QED
  BY <1>1, <1>10, <1>11, <1>12, <1>13, <1>14, <1>15, <1>16, <1>17, <1>18, <1>19, <1>20

LEMMA CreateStepIInv ==
    ASSUME IInv, NEW p \in Procs, CreateStep(p)
    PROVE  IInv'
<1>1. at[p] = "creating" /\ UNCHANGED <<registry, used, at, mine, reaping, unsynced, torn>>
      /\ todo' = [todo EXCEPT ![p] = Tail(@)]
  BY DEF CreateStep, reaper, mishaps
<1>2. PICK w \in Runs : w = mine[p] /\ w \in used
  BY <1>1 DEF IInv, Typed, ClaimsApart, AtHome
<1>3. /\ Built(p, w, Len(todo[p]))'
      /\ \A v \in Runs : v # w => seen'[v] = seen[v] /\ durable'[v] = durable[v]
      /\ \A v \in Runs : owner'[v] # owner[v] => owner[v] = Nobody /\ v = w
  BY <1>2, CreateStepBuilds
<1>4. Typed'
  BY CreateTyped DEF IInv
<1>5. ClaimsApart'
  <2>1. \A v \in Runs : owner[v] # Nobody => owner'[v] = owner[v]
    BY <1>3
  <2>2. \A q \in Procs : q # Nobody
    BY ScratchAssumption
  <2>3. \A q \in Procs : reaping[q] # NoRun => owner'[reaping[q]] = q
    BY <2>1, <2>2 DEF IInv, Typed, ClaimsApart
  <2>4. \A q \in Procs : at[q] = "active" => owner'[mine[q]] = q
    BY <2>1, <2>2 DEF IInv, Typed, ClaimsApart, AtHome
  <2>5. QED
    BY <1>1, <2>3, <2>4 DEF IInv, ClaimsApart, AtHome
<1>6. UnusedEmpty'
  BY <1>1, <1>2, <1>3 DEF IInv, UnusedEmpty
<1>7. BuiltSoFar' /\ WorkspaceThere'
  <2>1. \A q \in Procs : AtHome(q)' /\ q \notin {p} =>
             /\ at'[q] = at[q] /\ mine'[q] = mine[q] /\ todo'[q] = todo[q]
             /\ seen'[mine[q]] = seen[mine[q]] /\ durable'[mine[q]] = durable[mine[q]]
             /\ owner'[mine[q]] = owner[mine[q]]
    <3>1. \A q \in Procs : AtHome(q) /\ q # p => mine[q] \in Runs /\ mine[q] # w
      BY <1>1, <1>2 DEF IInv, Typed, ClaimsApart, AtHome
    <3>2. QED
      BY <1>1, <1>3, <3>1 DEF AtHome, IInv, Typed
  <2>2. \A q \in Procs : q \notin {p} =>
             /\ at'[q] = "creating" => Built(q, mine[q], Len(todo[q]))'
             /\ at'[q] = "active" => Core \subseteq seen'[mine'[q]] \cap durable'[mine'[q]]
    BY <2>1, HomesKept
  <2>3. QED
    BY <1>1, <1>2, <1>3, <2>2 DEF BuiltSoFar, WorkspaceThere
<1>8. BytesOwned'
  <2>1. "bytes" \notin seen'[w] /\ "bytes" \notin durable'[w]
    BY <1>3 DEF Built
  <2>2. Adoptable(w)' /\ SyncPending(w)'
    BY <2>1 DEF Adoptable, SyncPending
  <2>3. \A v \in Runs : Syncing(v) => Syncing(v)'
    BY <1>1 DEF Syncing
  <2>4. UNCHANGED torn
    BY <1>1
  <2>5. QED
    BY <1>3, <2>2, <2>3, <2>4, OtherRuns
<1>9. QED
  BY <1>4, <1>5, <1>6, <1>7, <1>8 DEF IInv

LEMMA CreatedIInv ==
    ASSUME IInv, NEW p \in Procs, Created(p)
    PROVE  IInv'
<1>1. /\ at[p] = "creating" /\ at' = [at EXCEPT ![p] = "active"] /\ registry' = Nobody
      /\ UNCHANGED <<seen, durable, owner, used, mine, todo, reaping, unsynced, torn>>
  BY DEF Created, disk, reaper, mishaps
<1>2. at'[p] = "active" /\ \A q \in Procs : q # p => at'[q] = at[q]
  BY <1>1 DEF IInv, Typed
<1>3. Core \subseteq seen[mine[p]] \cap durable[mine[p]] /\ owner[mine[p]] = p
  <2>1. Len(todo[p]) = 0
    BY EmptySeq DEF Created
  <2>2. Built(p, mine[p], 0)
    BY <1>1, <2>1 DEF IInv, BuiltSoFar
  <2>3. QED
    BY <2>2 DEF Built, Core
<1>4. Typed'
  BY CreateTyped DEF IInv
<1>5. ClaimsApart'
  <2>1. \A q \in Procs : q # Nobody
    BY ScratchAssumption
  <2>2. QED
    BY <1>1, <1>2, <1>3, <2>1 DEF IInv, ClaimsApart, AtHome
<1>6. UnusedEmpty' /\ BytesOwned'
  BY <1>1, DiskKept DEF Syncing
<1>7. BuiltSoFar' /\ WorkspaceThere'
  <2>1. \A q \in Procs : AtHome(q)' /\ q \notin {p} =>
             /\ at'[q] = at[q] /\ mine'[q] = mine[q] /\ todo'[q] = todo[q]
             /\ seen'[mine[q]] = seen[mine[q]] /\ durable'[mine[q]] = durable[mine[q]]
             /\ owner'[mine[q]] = owner[mine[q]]
    BY <1>1, <1>2
  <2>2. \A q \in Procs : q \notin {p} =>
             /\ at'[q] = "creating" => Built(q, mine[q], Len(todo[q]))'
             /\ at'[q] = "active" => Core \subseteq seen'[mine'[q]] \cap durable'[mine'[q]]
    BY <2>1, HomesKept
  <2>3. QED
    BY <1>1, <1>2, <1>3, <2>2 DEF BuiltSoFar, WorkspaceThere
<1>8. QED
  BY <1>4, <1>5, <1>6, <1>7 DEF IInv

-----------------------------------------------------------------------------
(* Life in a run. *)

\* Steps that touch neither disk nor claims.
LEMMA QuietIInv ==
    ASSUME IInv, NEW p \in Procs, Start(p) \/ PageStart(p) \/ SkipForeign(p)
    PROVE  IInv'
<1>1. UNCHANGED <<seen, durable, owner, used, mine, todo, reaping, unsynced, torn>>
  BY DEF Start, PageStart, SkipForeign, disk, reaper, mishaps
<1>2. \/ at[p] = "off" /\ at' = [at EXCEPT ![p] = "starting"] /\ registry' = registry
      \/ UNCHANGED at /\ registry' = registry
      \/ UNCHANGED at /\ registry' = p /\ at[p] \notin {"off", "swept"}
  BY DEF Start, PageStart, SkipForeign
<1>3. Typed'
  BY LifeTyped, CleanupTyped DEF IInv, CleanupStep
<1>4. \A q \in Procs : AtHome(q)' => AtHome(q) /\ at'[q] = at[q]
  BY <1>2 DEF AtHome, IInv, Typed
<1>5. ClaimsApart'
  <2>1. CASE at[p] = "off" /\ at' = [at EXCEPT ![p] = "starting"] /\ registry' = registry
    BY <1>1, <1>4, <2>1 DEF IInv, Typed, ClaimsApart, AtHome
  <2>2. CASE UNCHANGED at
    BY <1>1, <1>2, <2>2 DEF IInv, ClaimsApart, AtHome
  <2>3. QED
    BY <1>2, <2>1, <2>2
<1>6. UnusedEmpty' /\ BytesOwned'
  BY <1>1, DiskKept DEF Syncing
<1>7. BuiltSoFar' /\ WorkspaceThere'
  BY <1>1, <1>4, AllHomesKept
<1>8. QED
  BY <1>3, <1>5, <1>6, <1>7 DEF IInv

\* Files come and go in the data directory of a workspace.
LEMMA WorkIInv ==
    ASSUME IInv, NEW p \in Procs, Work(p) \/ PutForeign(p)
    PROVE  IInv'
<1>1. /\ at[p] = "active"
      /\ UNCHANGED <<durable, owner, registry, used, at, mine, todo, reaping, unsynced, torn>>
  BY DEF Work, PutForeign, reaper, mishaps
<1>2. PICK w \in Runs : w = mine[p] /\ w \in used
  BY <1>1 DEF IInv, Typed, ClaimsApart, AtHome
<1>3. \/ seen' = [seen EXCEPT ![w] = @ \cup {"bytes"}]
      \/ seen' = [seen EXCEPT ![w] = @ \ {"bytes"}]
      \/ seen' = [seen EXCEPT ![w] = @ \cup {"foreign"}]
  BY <1>2 DEF Work, PutForeign, Add, Remove
<1>4. Typed'
  BY LifeTyped DEF IInv
<1>5. /\ \A v \in Runs : v # w => seen'[v] = seen[v]
      /\ seen'[w] \cap Core = seen[w] \cap Core
  BY <1>3 DEF IInv, Typed, Core
<1>6. Core \subseteq seen[w] \cap durable[w]
  BY <1>1, <1>2 DEF IInv, WorkspaceThere
<1>7. ClaimsApart'
  BY <1>1 DEF IInv, ClaimsApart, AtHome
<1>8. UnusedEmpty'
  BY <1>1, <1>2, <1>5 DEF IInv, UnusedEmpty
<1>9. BuiltSoFar' /\ WorkspaceThere'
  <2>1. \A q \in Procs : AtHome(q)' /\ q \notin {p} =>
             /\ at'[q] = at[q] /\ mine'[q] = mine[q] /\ todo'[q] = todo[q]
             /\ seen'[mine[q]] = seen[mine[q]] /\ durable'[mine[q]] = durable[mine[q]]
             /\ owner'[mine[q]] = owner[mine[q]]
    <3>1. \A q \in Procs : AtHome(q) /\ q # p => mine[q] \in Runs /\ mine[q] # w
      BY <1>1, <1>2 DEF IInv, Typed, ClaimsApart, AtHome
    <3>2. QED
      BY <1>1, <1>5, <3>1 DEF AtHome
  <2>2. \A q \in Procs : q \notin {p} =>
             /\ at'[q] = "creating" => Built(q, mine[q], Len(todo[q]))'
             /\ at'[q] = "active" => Core \subseteq seen'[mine'[q]] \cap durable'[mine'[q]]
    BY <2>1, HomesKept
  <2>3. Core \subseteq seen'[w] \cap durable'[w]
    BY <1>1, <1>5, <1>6
  <2>4. QED
    BY <1>1, <1>2, <2>2, <2>3 DEF BuiltSoFar, WorkspaceThere
<1>10. BytesOwned'
  <2>1. {"data", "owner", "payload"} \subseteq seen'[w] \cap durable'[w]
    BY <1>1, <1>5, <1>6 DEF Core
  <2>2. Adoptable(w)' /\ SyncPending(w)'
    BY <2>1 DEF Adoptable, SyncPending
  <2>3. \A v \in Runs : Syncing(v) => Syncing(v)'
    BY <1>1 DEF Syncing
  <2>4. UNCHANGED torn
    BY <1>1
  <2>5. QED
    BY <1>1, <1>5, <2>2, <2>3, <2>4, OtherRuns
<1>11. QED
  BY <1>4, <1>7, <1>8, <1>9, <1>10 DEF IInv

LEMMA LeaveIInv ==
    ASSUME IInv, NEW p \in Procs, Leave(p)
    PROVE  IInv'
<1>1. /\ at[p] = "active" /\ registry # p /\ at' = [at EXCEPT ![p] = "leaving"]
      /\ owner' = [owner EXCEPT ![mine[p]] = Nobody]
      /\ UNCHANGED <<seen, durable, registry, used, mine, todo, reaping, unsynced, torn>>
  BY DEF Leave, disk, reaper, mishaps
<1>2. at'[p] = "leaving" /\ \A q \in Procs : q # p => at'[q] = at[q]
  BY <1>1 DEF IInv, Typed
<1>3. mine[p] \in Runs /\ \A q \in Procs : reaping[q] # mine[p]
  BY <1>1 DEF IInv, Typed, ClaimsApart, AtHome
<1>4. \A v : v # mine[p] => owner'[v] = owner[v]
  <2>1. \A v \in Runs : v # mine[p] => owner'[v] = owner[v]
    BY <1>1 DEF IInv, Typed
  <2>2. \A v : v \notin Runs => owner'[v] = owner[v]
    BY <1>1 DEF IInv, Typed
  <2>3. QED
    BY <2>1, <2>2
<1>5. \A q \in Procs : AtHome(q)' =>
        q # p /\ AtHome(q) /\ at'[q] = at[q] /\ mine[q] # mine[p]
  BY <1>1, <1>2 DEF AtHome, IInv, ClaimsApart
<1>6. Typed'
  BY LifeTyped DEF IInv
<1>7. ClaimsApart'
  BY <1>1, <1>2, <1>3, <1>4, <1>5 DEF IInv, ClaimsApart, AtHome
<1>8. UnusedEmpty' /\ BytesOwned'
  BY <1>1, DiskKept DEF Syncing
<1>9. BuiltSoFar' /\ WorkspaceThere'
  BY <1>1, <1>4, <1>5, AllHomesKept
<1>10. QED
  BY <1>6, <1>7, <1>8, <1>9 DEF IInv

-----------------------------------------------------------------------------
(* Cleanup. *)

\* The steps of a page leave every process at home where it is.
LEMMA ClaimIInv ==
    ASSUME IInv, NEW p \in Procs, Claim(p)
    PROVE  IInv'
<1>1. /\ registry = p /\ at[p] # "creating" /\ unsynced[p] = "none" /\ reaping[p] = NoRun
      /\ UNCHANGED <<seen, durable, registry, used, at, mine, todo, unsynced, torn>>
  BY DEF Claim, Stepping, InPage, disk, mishaps
<1>2. Typed'
  BY CleanupTyped DEF IInv, CleanupStep
<1>3. CASE UNCHANGED <<owner, reaping>>
  <2>1. ClaimsApart'
    BY <1>1, <1>3 DEF IInv, ClaimsApart, AtHome
  <2>2. UnusedEmpty' /\ BytesOwned'
    BY <1>1, <1>3, DiskKept DEF Syncing
  <2>3. BuiltSoFar' /\ WorkspaceThere'
    BY <1>1, <1>3, AllHomesKept DEF AtHome
  <2>4. QED
    BY <1>2, <2>1, <2>2, <2>3 DEF IInv
<1>4. CASE \E w \in Runs : /\ Claimable(w) /\ owner' = [owner EXCEPT ![w] = p]
                           /\ reaping' = [reaping EXCEPT ![p] = w]
  <2>1. PICK w \in Runs : /\ Claimable(w) /\ owner' = [owner EXCEPT ![w] = p]
                          /\ reaping' = [reaping EXCEPT ![p] = w]
    BY <1>4
  <2>2. w \in used /\ w # NoRun /\ owner[w] = Nobody /\ "payload" \in seen[w]
    BY <2>1, ScratchAssumption DEF Claimable, IInv, UnusedEmpty
  <2>3. /\ owner'[w] = p /\ \A v \in Runs : v # w => owner'[v] = owner[v]
        /\ reaping'[p] = w /\ \A q \in Procs : q # p => reaping'[q] = reaping[q]
    BY <2>1 DEF IInv, Typed
  <2>4. \A q \in Procs : q # Nobody
    BY ScratchAssumption
  <2>5. \A q \in Procs : reaping[q] # w
    <3>1. \A q \in Procs : reaping[q] # NoRun => owner[reaping[q]] = q
      BY DEF IInv, ClaimsApart
    <3>2. QED
      BY <2>2, <2>4, <3>1
  <2>6. ASSUME NEW q \in Procs, AtHome(q) PROVE mine[q] \in Runs /\ mine[q] # w
    <3>1. mine[q] \in Runs
      BY <2>6 DEF IInv, Typed, ClaimsApart
    <3>2. CASE at[q] = "active"
      BY <2>2, <2>4, <3>1, <3>2 DEF IInv, ClaimsApart
    <3>3. CASE at[q] = "creating" /\ mine[q] = w
      <4>1. Built(q, w, Len(todo[q])) /\ Len(todo[q]) \in 0..11
        BY <3>3, LenLeft DEF IInv, BuiltSoFar
      <4>2. Len(todo[q]) <= 4
        BY <2>2, <4>1 DEF Built
      <4>3. owner[w] = q
        BY <4>1, <4>2 DEF Built
      <4>4. QED
        BY <2>2, <2>4, <4>3
    <3>4. QED
      BY <2>6, <3>1, <3>2, <3>3 DEF AtHome
  <2>7. at[p] \notin {"off", "swept", "creating"}
    BY <1>1 DEF IInv, ClaimsApart
  <2>8. ClaimsApart'
    <3>1. \A q \in Procs : reaping'[q] # NoRun => owner'[reaping'[q]] = q /\ reaping'[q] \in used
      <4>1. \A q \in Procs : reaping[q] # NoRun =>
              reaping[q] \in Runs /\ owner[reaping[q]] = q /\ reaping[q] \in used
        BY DEF IInv, Typed, ClaimsApart
      <4>2. QED
        BY <2>2, <2>3, <2>5, <4>1
    <3>2. \A q \in Procs : at[q] = "active" => owner'[mine[q]] = q
      BY <2>3, <2>6 DEF IInv, ClaimsApart, AtHome
    <3>3. \A q, r \in Procs : AtHome(q) => reaping'[r] # mine[q]
      BY <2>3, <2>6 DEF IInv, ClaimsApart
    <3>4. QED
      BY <1>1, <2>2, <2>3, <2>7, <3>1, <3>2, <3>3 DEF IInv, ClaimsApart, AtHome
  <2>9. UnusedEmpty' /\ BytesOwned'
    <3>1. \A v \in Runs : Syncing(v) => Syncing(v)'
      BY <1>1, <2>3 DEF Syncing
    <3>2. QED
      BY <1>1, <3>1, DiskKept
  <2>10. BuiltSoFar' /\ WorkspaceThere'
    <3>1. \A q \in Procs : AtHome(q)' => AtHome(q)
      BY <1>1 DEF AtHome
    <3>2. QED
      BY <1>1, <2>3, <2>6, <3>1, AllHomesKept
  <2>11. QED
    BY <1>2, <2>8, <2>9, <2>10 DEF IInv
<1>5. QED
  <2>1. scan[p] \subseteq Runs
    BY DEF IInv, Typed
  <2>2. QED
    BY <1>3, <1>4, <2>1 DEF Claim

\* A run that somebody reaps is nobody's workspace, and nobody else syncs it.
LEMMA ReapedAlone ==
    ASSUME IInv, NEW p \in Procs, reaping[p] # NoRun
    PROVE  /\ reaping[p] \in Runs /\ reaping[p] \in used /\ owner[reaping[p]] = p
           /\ \A q \in Procs : AtHome(q) => mine[q] \in Runs /\ mine[q] # reaping[p]
           /\ \A q \in Procs : q # p => reaping[q] # reaping[p]
           /\ Syncing(reaping[p]) <=> unsynced[p] = "run"
<1>1. reaping[p] \in Runs /\ reaping[p] \in used /\ owner[reaping[p]] = p
  BY DEF IInv, Typed, ClaimsApart
<1>2. \A q \in Procs : AtHome(q) => mine[q] \in Runs /\ mine[q] # reaping[p]
  BY DEF IInv, Typed, ClaimsApart
<1>3. \A q \in Procs : q # p => reaping[q] # reaping[p]
  BY <1>1 DEF IInv, ClaimsApart
<1>4. QED
  BY <1>1, <1>2, <1>3 DEF Syncing

\* A removal leaves the rest of the invariant when the run it changes is right.
LEMMA ReapKeeps ==
    ASSUME IInv, NEW p \in Procs, NEW es, NEW dir \in Directories, Reap(p, es, dir),
           NEW w \in Runs, w = reaping[p], Adoptable(w)', SyncPending(w)', Typed'
    PROVE  IInv'
<1>1. /\ unsynced[p] = "none" /\ reaping[p] # NoRun
      /\ seen' = [seen EXCEPT ![w] = @ \ es] /\ unsynced' = [unsynced EXCEPT ![p] = dir]
      /\ UNCHANGED <<durable, owner, registry, used, at, mine, todo, reaping, torn>>
  BY DEF Reap, Stepping, InPage, Remove, mishaps
<1>2. /\ \A v \in Runs : v # w => seen'[v] = seen[v]
      /\ unsynced'[p] = dir /\ \A q \in Procs : q # p => unsynced'[q] = unsynced[q]
  BY <1>1 DEF IInv, Typed
<1>3. w \in used /\ \A q \in Procs : AtHome(q) => mine[q] \in Runs /\ mine[q] # w
  BY <1>1, ReapedAlone
<1>4. ClaimsApart'
  BY <1>1, <1>2 DEF IInv, ClaimsApart, AtHome
<1>5. UnusedEmpty'
  BY <1>1, <1>2, <1>3 DEF IInv, UnusedEmpty
<1>6. BuiltSoFar' /\ WorkspaceThere'
  <2>1. \A q \in Procs : AtHome(q)' => AtHome(q)
    BY <1>1 DEF AtHome
  <2>2. QED
    BY <1>1, <1>2, <1>3, <2>1, AllHomesKept
<1>7. BytesOwned'
  <2>1. \A v \in Runs : v # w /\ Syncing(v) => Syncing(v)'
    BY <1>1, <1>2 DEF Syncing
  <2>2. UNCHANGED torn
    BY <1>1
  <2>3. QED
    BY <1>1, <1>2, <2>1, <2>2, OtherRuns
<1>8. QED
  BY <1>4, <1>5, <1>6, <1>7 DEF IInv

LEMMA ReapIInv ==
    ASSUME IInv, NEW p \in Procs,
           UnlinkBytes(p) \/ RmdirData(p) \/ UnlinkOwner(p) \/ RmdirRun(p)
    PROVE  IInv'
<1>1. reaping[p] # NoRun /\ unsynced[p] = "none"
  BY DEF UnlinkBytes, RmdirData, UnlinkOwner, RmdirRun, Reap, Stepping, InPage
<1>2. PICK w \in Runs : w = reaping[p]
  BY <1>1, ReapedAlone
<1>3. Held(p) = seen[w] /\ ~Syncing(w) /\ Adoptable(w) /\ SyncPending(w)
  <2>1. ~Syncing(w)
    BY <1>1, <1>2, ReapedAlone
  <2>2. QED
    BY <1>1, <1>2, <2>1 DEF Held, IInv, BytesOwned
<1>4. Typed'
  BY CleanupTyped DEF IInv, CleanupStep
<1>5. ASSUME NEW es, NEW dir \in Directories, Reap(p, es, dir)
      PROVE  /\ seen'[w] = seen[w] \ es /\ durable' = durable /\ torn' = torn
             /\ reaping'[p] = w /\ unsynced'[p] = dir
  BY <1>2, <1>5 DEF Reap, Remove, mishaps, IInv, Typed
<1>6. {"data", "run", "scratch"} \subseteq Directories
  BY DEF Directories
<1>7. CASE UnlinkBytes(p)
  <2>1. Reap(p, {"bytes"}, "data") /\ "bytes" \in seen[w]
    BY <1>3, <1>7 DEF UnlinkBytes
  <2>2. seen'[w] = seen[w] \ {"bytes"} /\ durable' = durable /\ torn' = torn
    BY <1>5, <1>6, <2>1
  <2>3. Adoptable(w)' /\ SyncPending(w)'
    BY <1>3, <2>1, <2>2 DEF Adoptable, SyncPending
  <2>4. QED
    BY <1>2, <1>4, <1>6, <2>1, <2>3, ReapKeeps
<1>8. CASE RmdirData(p)
  <2>1. Reap(p, {"data"}, "run") /\ "bytes" \notin seen[w]
    BY <1>3, <1>8 DEF RmdirData
  <2>2. /\ seen'[w] = seen[w] \ {"data"} /\ durable' = durable /\ torn' = torn
        /\ reaping'[p] = w /\ unsynced'[p] = "run"
    BY <1>5, <1>6, <2>1
  <2>3. SyncPending(w)'
    BY <2>2 DEF SyncPending, Syncing
  <2>4. Adoptable(w)'
    BY <1>3, <2>1, <2>2 DEF Adoptable
  <2>5. QED
    BY <1>2, <1>4, <1>6, <2>1, <2>3, <2>4, ReapKeeps
<1>9. ASSUME NEW es, NEW dir \in Directories, Reap(p, es, dir), "data" \notin seen[w]
      PROVE  IInv'
  <2>1. seen'[w] = seen[w] \ es /\ durable' = durable /\ torn' = torn
    BY <1>5, <1>9
  <2>2. "bytes" \notin seen[w] /\ (w \in torn \/ ~({"bytes", "data"} \subseteq durable[w]))
    BY <1>3, <1>9 DEF Adoptable, SyncPending
  <2>3. Adoptable(w)' /\ SyncPending(w)'
    BY <1>9, <2>1, <2>2 DEF Adoptable, SyncPending
  <2>4. QED
    BY <1>2, <1>4, <1>9, <2>3, ReapKeeps
<1>10. CASE UnlinkOwner(p)
  BY <1>3, <1>6, <1>9, <1>10 DEF UnlinkOwner
<1>11. CASE RmdirRun(p)
  <2>1. "data" \notin seen[w]
    BY <1>3, <1>11 DEF RmdirRun
  <2>2. QED
    BY <1>6, <1>9, <1>11, <2>1 DEF RmdirRun
<1>12. QED
  BY <1>7, <1>8, <1>10, <1>11

\* A reaper lets its run go: the run had no one at home.
LEMMA CloseKeeps ==
    ASSUME IInv, NEW p \in Procs, reaping[p] # NoRun, CloseReaper(p)
    PROVE  /\ reaping'[p] = NoRun /\ \A q \in Procs : q # p => reaping'[q] = reaping[q]
           /\ \A v \in Runs : v # reaping[p] => owner'[v] = owner[v]
           /\ \A q \in Procs : AtHome(q) => owner'[mine[q]] = owner[mine[q]]
           /\ \A q \in Procs : reaping'[q] # NoRun =>
                owner'[reaping'[q]] = q /\ reaping'[q] \in used
<1>1. /\ reaping'[p] = NoRun /\ \A q \in Procs : q # p => reaping'[q] = reaping[q]
      /\ \A v \in Runs : v # reaping[p] => owner'[v] = owner[v]
  BY DEF CloseReaper, IInv, Typed
<1>2. \A q \in Procs : AtHome(q) => owner'[mine[q]] = owner[mine[q]]
  BY <1>1, ReapedAlone
<1>3. \A q \in Procs : reaping'[q] # NoRun => owner'[reaping'[q]] = q /\ reaping'[q] \in used
  <2>1. \A q \in Procs : reaping[q] # NoRun =>
          reaping[q] \in Runs /\ owner[reaping[q]] = q /\ reaping[q] \in used
    BY DEF IInv, Typed, ClaimsApart
  <2>2. \A q \in Procs : q # p => reaping[q] # reaping[p]
    BY ReapedAlone
  <2>3. QED
    BY <1>1, <2>1, <2>2
<1>4. QED
  BY <1>1, <1>2, <1>3

LEMMA ReapDoneIInv ==
    ASSUME IInv, NEW p \in Procs, ReapDone(p)
    PROVE  IInv'
<1>1. /\ unsynced[p] = "none" /\ reaping[p] # NoRun /\ CloseReaper(p)
      /\ UNCHANGED <<seen, durable, registry, used, at, mine, todo, unsynced, torn>>
  BY DEF ReapDone, Stepping, InPage, disk, mishaps
<1>2. /\ reaping'[p] = NoRun /\ \A q \in Procs : q # p => reaping'[q] = reaping[q]
      /\ \A q \in Procs : AtHome(q) => owner'[mine[q]] = owner[mine[q]]
      /\ \A q \in Procs : reaping'[q] # NoRun =>
           owner'[reaping'[q]] = q /\ reaping'[q] \in used
  BY <1>1, CloseKeeps
<1>3. Typed'
  BY CleanupTyped DEF IInv, CleanupStep
<1>4. \A q \in Procs : AtHome(q)' => AtHome(q)
  BY <1>1 DEF AtHome
<1>5. ClaimsApart'
  <2>1. \A q \in Procs : reaping'[q] \in {reaping[q], NoRun}
    BY <1>2
  <2>2. \A q, r \in Procs : AtHome(q) => reaping'[r] # mine[q]
    BY <2>1, ScratchAssumption DEF IInv, Typed, ClaimsApart
  <2>3. QED
    BY <1>1, <1>2, <2>1, <2>2 DEF IInv, ClaimsApart, AtHome
<1>6. UnusedEmpty' /\ BytesOwned'
  <2>1. \A v \in Runs : Syncing(v) => Syncing(v)'
    BY <1>1, <1>2 DEF Syncing
  <2>2. QED
    BY <1>1, <2>1, DiskKept
<1>7. BuiltSoFar' /\ WorkspaceThere'
  BY <1>1, <1>2, <1>4, AllHomesKept
<1>8. QED
  BY <1>3, <1>5, <1>6, <1>7 DEF IInv

\* The directory of a removal is synced: what it brings to disk was seen before.
LEMMA ReapFsyncIInv ==
    ASSUME IInv, NEW p \in Procs, ReapFsync(p)
    PROVE  IInv'
<1>1. /\ unsynced[p] # "none" /\ reaping[p] # NoRun /\ Sync(reaping[p], unsynced[p])
      /\ unsynced' = [unsynced EXCEPT ![p] = "none"]
      /\ CloseReaper(p) \/ UNCHANGED <<reaping, owner>>
      /\ UNCHANGED <<seen, registry, used, at, mine, todo, torn>>
  BY DEF ReapFsync, mishaps
<1>2. PICK w \in Runs : w = reaping[p]
  BY <1>1, ReapedAlone
<1>3. /\ w \in used /\ \A q \in Procs : AtHome(q) => mine[q] \in Runs /\ mine[q] # w
      /\ \A q \in Procs : q # p => reaping[q] # w
      /\ Syncing(w) <=> unsynced[p] = "run"
  BY <1>1, <1>2, ReapedAlone
<1>4. /\ \A e \in Entries : e \in durable'[w] <=>
           IF Holder[e] = unsynced[p] THEN e \in seen[w] ELSE e \in durable[w]
      /\ \A v \in Runs : v # w => durable'[v] = durable[v]
  BY <1>1, <1>2, SyncIs DEF IInv
<1>5. unsynced'[p] = "none" /\ \A q \in Procs : q # p => unsynced'[q] = unsynced[q]
  BY <1>1 DEF IInv, Typed
<1>6. /\ \A q \in Procs : q # p => reaping'[q] = reaping[q]
      /\ \A q \in Procs : AtHome(q) => owner'[mine[q]] = owner[mine[q]]
      /\ \A q \in Procs : reaping'[q] # NoRun =>
           owner'[reaping'[q]] = q /\ reaping'[q] \in used
      /\ reaping'[p] \in {reaping[p], NoRun}
  <2>1. CASE CloseReaper(p)
    BY <1>1, <2>1, CloseKeeps
  <2>2. CASE UNCHANGED <<reaping, owner>>
    BY <2>2 DEF IInv, ClaimsApart
  <2>3. QED
    BY <1>1, <2>1, <2>2
<1>7. Typed'
  BY CleanupTyped DEF IInv, CleanupStep
<1>8. ClaimsApart'
  <2>1. \A q \in Procs : reaping'[q] \in {reaping[q], NoRun}
    BY <1>6
  <2>2. \A q, r \in Procs : AtHome(q) => reaping'[r] # mine[q]
    BY <2>1, ScratchAssumption DEF IInv, Typed, ClaimsApart
  <2>3. \A q \in Procs : unsynced'[q] # "none" => reaping'[q] # NoRun
    BY <1>5, <1>6 DEF IInv, ClaimsApart
  <2>4. QED
    BY <1>1, <1>6, <2>1, <2>2, <2>3 DEF IInv, ClaimsApart, AtHome
<1>9. UnusedEmpty'
  BY <1>1, <1>3, <1>4 DEF IInv, UnusedEmpty
<1>10. BuiltSoFar' /\ WorkspaceThere'
  <2>1. \A q \in Procs : AtHome(q)' => AtHome(q)
    BY <1>1 DEF AtHome
  <2>2. QED
    BY <1>1, <1>3, <1>4, <1>6, <2>1, AllHomesKept
<1>11. BytesOwned'
  <2>1. {"data", "owner", "payload", "bytes"} \subseteq Entries
    BY DEF Entries
  <2>2. Adoptable(w) /\ SyncPending(w)
    BY DEF IInv, BytesOwned
  <2>3. Adoptable(w)'
    BY <1>1, <1>4, <2>1, <2>2 DEF Adoptable
  <2>4. SyncPending(w)'
    <3>1. SUFFICES ASSUME w \notin torn, {"bytes", "data"} \subseteq durable'[w],
                          "data" \notin seen[w]
                   PROVE  FALSE
      BY <1>1 DEF SyncPending
    <3>2. unsynced[p] # "run" /\ "data" \in durable[w]
      BY <1>4, <2>1, <3>1, HolderIs
    <3>3. "bytes" \notin seen[w]
      BY <2>2, <3>1 DEF Adoptable
    <3>4. "bytes" \in durable[w]
      BY <1>4, <2>1, <3>1, <3>3
    <3>5. QED
      BY <1>3, <2>2, <3>1, <3>2, <3>4 DEF SyncPending
  <2>5. \A v \in Runs : v # w /\ Syncing(v) => Syncing(v)'
    BY <1>2, <1>5, <1>6 DEF Syncing
  <2>6. UNCHANGED torn
    BY <1>1
  <2>7. QED
    BY <1>1, <1>4, <2>3, <2>4, <2>5, <2>6, OtherRuns
<1>12. QED
  BY <1>7, <1>8, <1>9, <1>10, <1>11 DEF IInv

LEMMA PageEndIInv ==
    ASSUME IInv, NEW p \in Procs, PageEnd(p)
    PROVE  IInv'
<1>1. /\ registry = p /\ at[p] # "creating" /\ unsynced[p] = "none" /\ registry' = Nobody
      /\ UNCHANGED <<seen, durable, used, todo, unsynced, torn>>
  BY DEF PageEnd, InPage, disk, mishaps
<1>2. /\ \/ at[p] = "leaving" /\ at' = [at EXCEPT ![p] = "off"]
            /\ mine' = [mine EXCEPT ![p] = NoRun]
            /\ \/ reaping[p] = NoRun /\ UNCHANGED <<owner, reaping>>
               \/ reaping[p] # NoRun /\ CloseReaper(p)
         \/ at[p] = "starting" /\ reaping[p] = NoRun /\ at' = [at EXCEPT ![p] = "swept"]
            /\ UNCHANGED <<mine, owner, reaping>>
         \/ at' = at /\ UNCHANGED <<mine, owner, reaping>>
  BY DEF PageEnd, AfterPage, IInv, Typed
<1>3. Typed'
  BY CleanupTyped DEF IInv, CleanupStep
<1>4. /\ reaping'[p] \in {reaping[p], NoRun}
      /\ \A q \in Procs : q # p => reaping'[q] = reaping[q]
      /\ \A q \in Procs : AtHome(q) => owner'[mine[q]] = owner[mine[q]]
      /\ \A q \in Procs : reaping'[q] # NoRun =>
           owner'[reaping'[q]] = q /\ reaping'[q] \in used
  <2>1. CASE UNCHANGED <<owner, reaping>>
    BY <2>1 DEF IInv, ClaimsApart
  <2>2. CASE reaping[p] # NoRun /\ CloseReaper(p)
    BY <2>2, CloseKeeps
  <2>3. QED
    BY <1>2, <2>1, <2>2
<1>5. \A q \in Procs : AtHome(q)' => AtHome(q) /\ at'[q] = at[q] /\ mine'[q] = mine[q]
  BY <1>2 DEF AtHome, IInv, Typed
<1>6. at'[p] \in {"off", "swept", "creating"} => reaping'[p] = NoRun
  <2>1. CASE at[p] = "leaving" /\ (\/ reaping[p] = NoRun /\ UNCHANGED reaping
                                   \/ reaping[p] # NoRun /\ CloseReaper(p))
    BY <2>1, CloseKeeps
  <2>2. CASE at[p] = "starting" /\ reaping[p] = NoRun /\ UNCHANGED reaping
    BY <2>2
  <2>3. CASE at' = at /\ UNCHANGED reaping
    BY <2>3 DEF IInv, ClaimsApart
  <2>4. QED
    BY <1>2, <2>1, <2>2, <2>3
<1>7. ClaimsApart'
  <2>1. \A q \in Procs : q # Nobody
    BY ScratchAssumption
  <2>2. \A q \in Procs : reaping'[q] \in {reaping[q], NoRun}
    BY <1>4
  <2>3. \A q, r \in Procs : AtHome(q) => reaping'[r] # mine[q]
    BY <2>2, ScratchAssumption DEF IInv, Typed, ClaimsApart
  <2>4. \A q \in Procs : q # p => at'[q] = at[q]
    BY <1>2 DEF IInv, Typed
  <2>5. \A q \in Procs : at'[q] \in {"off", "swept", "creating"} => reaping'[q] = NoRun
    BY <1>4, <1>6, <2>4 DEF IInv, ClaimsApart
  <2>6. \A q \in Procs : unsynced'[q] # "none" => reaping'[q] # NoRun
    BY <1>1, <1>4 DEF IInv, ClaimsApart
  <2>7. \A q \in Procs : at'[q] = "active" => owner'[mine'[q]] = q
    BY <1>4, <1>5 DEF IInv, ClaimsApart, AtHome
  <2>8. QED
    BY <1>1, <1>4, <1>5, <2>1, <2>3, <2>5, <2>6, <2>7 DEF IInv, ClaimsApart
<1>8. UnusedEmpty' /\ BytesOwned'
  <2>1. \A v \in Runs : Syncing(v) => Syncing(v)'
    BY <1>1, <1>4 DEF Syncing
  <2>2. QED
    BY <1>1, <2>1, DiskKept
<1>9. BuiltSoFar' /\ WorkspaceThere'
  BY <1>1, <1>4, <1>5, AllHomesKept
<1>10. QED
  BY <1>3, <1>7, <1>8, <1>9 DEF IInv

-----------------------------------------------------------------------------
(* Faults. *)

\* Whoever ends, or gives up its reaper, between a removal and its sync leaves a
\* run with its owner file, or one whose data directory was torn off.
LEMMA TornKeeps ==
    ASSUME IInv, NEW p \in Procs, torn' = TornBy(p), UNCHANGED <<seen, durable>>,
           \A q \in Procs : q # p => reaping'[q] = reaping[q] /\ unsynced'[q] = unsynced[q]
    PROVE  BytesOwned'
<1> SUFFICES ASSUME NEW w \in Runs PROVE Adoptable(w)' /\ SyncPending(w)'
  BY DEF BytesOwned
<1>1. Adoptable(w) /\ SyncPending(w) /\ torn \subseteq torn'
  BY DEF IInv, BytesOwned, TornBy
<1>2. Adoptable(w)'
  BY <1>1 DEF Adoptable
<1>3. SyncPending(w)'
  <2>1. SUFFICES ASSUME w \notin torn', {"bytes", "data"} \subseteq durable[w],
                        "data" \notin seen[w]
                 PROVE  Syncing(w)'
    BY DEF SyncPending
  <2>2. PICK q \in Procs : reaping[q] = w /\ unsynced[q] = "run"
    BY <1>1, <2>1 DEF SyncPending, Syncing
  <2>3. "owner" \in seen[w]
    BY <1>1, <2>1 DEF Adoptable
  <2>4. q # p
    <3>1. w # NoRun
      BY ScratchAssumption
    <3>2. ASSUME q = p PROVE w \in torn'
      BY <2>2, <2>3, <3>1, <3>2 DEF TornBy, Held
    <3>3. QED
      BY <2>1, <3>2
  <2>5. QED
    BY <2>2, <2>4 DEF Syncing
<1>4. QED
  BY <1>2, <1>3

LEMMA StepFailsIInv ==
    ASSUME IInv, NEW p \in Procs, StepFails(p)
    PROVE  IInv'
<1>1. /\ torn' = TornBy(p) /\ at[p] = "active" /\ reaping[p] # NoRun /\ CloseReaper(p)
      /\ unsynced' = [unsynced EXCEPT ![p] = "none"] /\ registry' = Nobody
      /\ UNCHANGED <<seen, durable, used, at, mine, todo>>
  BY DEF StepFails, disk
<1>2. /\ reaping'[p] = NoRun /\ \A q \in Procs : q # p => reaping'[q] = reaping[q]
      /\ \A q \in Procs : AtHome(q) => owner'[mine[q]] = owner[mine[q]]
      /\ \A q \in Procs : reaping'[q] # NoRun =>
           owner'[reaping'[q]] = q /\ reaping'[q] \in used
  BY <1>1, CloseKeeps
<1>3. unsynced'[p] = "none" /\ \A q \in Procs : q # p => unsynced'[q] = unsynced[q]
  BY <1>1 DEF IInv, Typed
<1>4. Typed'
  BY FaultsTyped DEF IInv
<1>5. ClaimsApart'
  <2>1. \A q \in Procs : reaping'[q] \in {reaping[q], NoRun}
    BY <1>2
  <2>2. \A q, r \in Procs : AtHome(q) => reaping'[r] # mine[q]
    BY <2>1, ScratchAssumption DEF IInv, Typed, ClaimsApart
  <2>3. \A q \in Procs : unsynced'[q] # "none" => reaping'[q] # NoRun
    BY <1>2, <1>3 DEF IInv, ClaimsApart
  <2>4. \A q \in Procs : q # Nobody
    BY ScratchAssumption
  <2>5. QED
    BY <1>1, <1>2, <2>1, <2>2, <2>3, <2>4 DEF IInv, ClaimsApart, AtHome
<1>6. UnusedEmpty'
  BY <1>1 DEF IInv, UnusedEmpty
<1>7. BytesOwned'
  BY <1>1, <1>2, <1>3, TornKeeps
<1>8. BuiltSoFar' /\ WorkspaceThere'
  BY <1>1, <1>2, AllHomesKept DEF AtHome
<1>9. QED
  BY <1>4, <1>5, <1>6, <1>7, <1>8 DEF IInv

\* Who stops holds nothing any more, and everybody else what it held.
LEMMA StoppedApart ==
    ASSUME IInv, NEW ps \in SUBSET Procs, Stopped(ps), UNCHANGED used
    PROVE  ClaimsApart'
<1>1. \A q \in Procs :
        /\ q \in ps => at'[q] = "off" /\ reaping'[q] = NoRun /\ unsynced'[q] = "none"
        /\ q \notin ps => /\ at'[q] = at[q] /\ mine'[q] = mine[q]
                          /\ reaping'[q] = reaping[q] /\ unsynced'[q] = unsynced[q]
  BY DEF Stopped
<1>2. \A w \in Runs : owner[w] \notin ps => owner'[w] = owner[w]
  BY DEF Stopped
<1>3. \A q \in Procs : registry' = q => registry = q /\ q \notin ps
  BY ScratchAssumption DEF Stopped
<1>4. \A q \in Procs : reaping'[q] # NoRun => owner'[reaping'[q]] = q /\ reaping'[q] \in used
  <2>1. \A q \in Procs : reaping[q] # NoRun =>
          reaping[q] \in Runs /\ owner[reaping[q]] = q /\ reaping[q] \in used
    BY DEF IInv, Typed, ClaimsApart
  <2>2. QED
    BY <1>1, <1>2, <2>1
<1>5. \A q \in Procs : AtHome(q)' => q \notin ps /\ AtHome(q) /\ mine'[q] = mine[q]
  BY <1>1 DEF AtHome
<1>6. \A q \in Procs : at'[q] = "active" => owner'[mine'[q]] = q
  <2>1. \A q \in Procs : at[q] = "active" => mine[q] \in Runs /\ owner[mine[q]] = q
    BY DEF IInv, Typed, ClaimsApart, AtHome
  <2>2. QED
    BY <1>1, <1>2, <2>1
<1>7. \A q, r \in Procs : AtHome(q)' => reaping'[r] # mine'[q]
  <2>1. \A q, r \in Procs : AtHome(q) => reaping[r] # mine[q] /\ NoRun # mine[q]
    BY ScratchAssumption DEF IInv, Typed, ClaimsApart
  <2>2. QED
    BY <1>1, <1>5, <2>1
<1>8. QED
  BY <1>1, <1>3, <1>4, <1>5, <1>6, <1>7 DEF IInv, ClaimsApart

LEMMA KillIInv ==
    ASSUME IInv, NEW p \in Procs, Kill(p)
    PROVE  IInv'
<1>1. torn' = TornBy(p) /\ Stopped({p}) /\ UNCHANGED <<seen, durable, used>>
  BY DEF Kill, disk
<1>2. /\ at'[p] = "off"
      /\ \A q \in Procs : q # p =>
           /\ at'[q] = at[q] /\ mine'[q] = mine[q] /\ todo'[q] = todo[q]
           /\ reaping'[q] = reaping[q] /\ unsynced'[q] = unsynced[q]
  BY <1>1 DEF Stopped
<1>3. Typed' /\ ClaimsApart'
  <2>1. {p} \in SUBSET Procs
    OBVIOUS
  <2>2. ClaimsApart'
    BY <1>1, <2>1, StoppedApart
  <2>3. QED
    BY <2>2, FaultsTyped DEF IInv
<1>4. UnusedEmpty'
  BY <1>1 DEF IInv, UnusedEmpty
<1>5. BytesOwned'
  BY <1>1, <1>2, TornKeeps
<1>6. BuiltSoFar' /\ WorkspaceThere'
  <2>1. ASSUME NEW q \in Procs, AtHome(q)'
        PROVE  q # p /\ at'[q] = at[q] /\ AtHome(q)
    BY <1>2, <2>1 DEF AtHome
  <2>2. ASSUME NEW q \in Procs, at'[q] = "creating" PROVE Built(q, mine[q], Len(todo[q]))'
    <3>1. q # p /\ at[q] = "creating" /\ mine'[q] = mine[q] /\ todo'[q] = todo[q]
      BY <1>2, <2>1, <2>2 DEF AtHome
    <3>2. Built(q, mine[q], Len(todo[q])) /\ mine[q] \in Runs
      BY <3>1 DEF IInv, Typed, ClaimsApart, AtHome, BuiltSoFar
    <3>3. owner[mine[q]] = q => owner'[mine[q]] = q
      BY <1>1, <3>1, <3>2 DEF Stopped
    <3>4. QED
      BY <1>1, <3>1, <3>2, <3>3 DEF Built
  <2>3. ASSUME NEW q \in Procs, at'[q] = "active"
        PROVE  Core \subseteq seen'[mine'[q]] \cap durable'[mine'[q]]
    BY <1>1, <1>2, <2>1, <2>3 DEF AtHome, IInv, WorkspaceThere
  <2>4. QED
    BY <2>2, <2>3 DEF BuiltSoFar, WorkspaceThere
<1>7. QED
  BY <1>3, <1>4, <1>5, <1>6 DEF IInv

\* A power loss stops everybody, and what it leaves of a run is some of what was
\* seen or on disk, all of what was both, and closed under ancestors.
LEMMA PowerLossIInv ==
    ASSUME IInv, PowerLoss
    PROVE  IInv'
<1>1. Stopped(Procs) /\ durable' = seen' /\ UNCHANGED <<used, torn>>
  BY DEF PowerLoss
<1>2. ASSUME NEW w \in Runs
      PROVE  /\ seen'[w] \subseteq seen[w] \cup durable[w]
             /\ "bytes" \in seen'[w] => "data" \in seen'[w]
             /\ "bytes" \in seen'[w] /\ {"owner", "payload"} \subseteq seen[w] \cap durable[w] =>
                  {"owner", "payload"} \subseteq seen'[w]
  <2>1. PICK kept \in SUBSET Entries :
          /\ kept \subseteq seen[w] \cup durable[w] /\ seen[w] \cap durable[w] \subseteq kept
          /\ seen'[w] = Reachable(kept)
    <3>1. PICK old \in SUBSET Unsettled :
            seen' = [v \in Runs |-> Reachable(
              {e \in Entries : e \in (IF <<v, e>> \in old THEN durable[v] ELSE seen[v])})]
      BY DEF PowerLoss
    <3>2. PICK mix : mix = {e \in Entries : e \in (IF <<w, e>> \in old THEN durable[w] ELSE seen[w])}
      OBVIOUS
    <3>3. seen'[w] = Reachable(mix)
      BY <3>1, <3>2
    <3>4. mix \in SUBSET Entries /\ mix \subseteq seen[w] \cup durable[w]
      BY <3>2
    <3>5. seen[w] \cap durable[w] \subseteq mix
      BY <3>2 DEF IInv, Typed
    <3>6. QED
      BY <3>3, <3>4, <3>5
  <2>2. /\ Ancestors["bytes"] = {"run", "data"} /\ Ancestors["data"] = {"run"}
        /\ Ancestors["owner"] = {"run"} /\ Ancestors["payload"] = {"run", "owner"}
    BY DEF Ancestors
  <2>3. QED
    BY <2>1, <2>2 DEF Reachable
<1>3. Typed' /\ ClaimsApart'
  <2>1. Procs \in SUBSET Procs
    OBVIOUS
  <2>2. ClaimsApart'
    BY <1>1, <2>1, StoppedApart
  <2>3. QED
    BY <2>2, FaultsTyped DEF IInv
<1>4. UnusedEmpty'
  BY <1>1, <1>2 DEF IInv, UnusedEmpty
<1>5. BuiltSoFar' /\ WorkspaceThere'
  <2>1. \A q \in Procs : at'[q] = "off"
    BY <1>1 DEF Stopped
  <2>2. QED
    BY <2>1 DEF BuiltSoFar, WorkspaceThere
<1>6. BytesOwned'
  <2>1. ASSUME NEW w \in Runs PROVE Adoptable(w)' /\ SyncPending(w)'
    <3>1. Adoptable(w)
      BY DEF IInv, BytesOwned
    <3>2. seen'[w] = durable'[w] /\ torn' = torn
      BY <1>1
    <3>3. QED
      BY <1>2, <3>1, <3>2 DEF Adoptable, SyncPending
  <2>2. QED
    BY <2>1 DEF BytesOwned
<1>7. QED
  BY <1>3, <1>4, <1>5, <1>6 DEF IInv

LEMMA WriteBackIInv ==
    ASSUME IInv, WriteBack
    PROVE  IInv'
<1>1. UNCHANGED <<seen, owner, registry, used, at, mine, todo, reaping, unsynced, torn>>
  BY DEF WriteBack, reaper, mishaps
<1>2. PICK w \in Runs, e \in Entries :
        e \in seen[w] /\ durable' = [durable EXCEPT ![w] = @ \cup {e}]
  BY DEF WriteBack, IInv, Typed
<1>3. durable'[w] = durable[w] \cup {e} /\ \A v \in Runs : v # w => durable'[v] = durable[v]
  BY <1>2 DEF IInv, Typed
<1>4. Typed'
  BY FaultsTyped DEF IInv
<1>5. ClaimsApart'
  BY <1>1 DEF IInv, ClaimsApart, AtHome
<1>6. UnusedEmpty'
  BY <1>1, <1>2, <1>3 DEF IInv, UnusedEmpty
<1>7. BuiltSoFar' /\ WorkspaceThere'
  <2>1. \A q \in Procs : AtHome(q) => mine[q] \in Runs
    BY DEF IInv, Typed, ClaimsApart
  <2>2. \A v \in Runs : durable[v] \subseteq durable'[v] /\ durable'[v] \subseteq durable[v] \cup seen[v]
    BY <1>2, <1>3
  <2>3. BuiltSoFar'
    BY <1>1, <2>1, <2>2 DEF IInv, BuiltSoFar, Built, AtHome
  <2>4. WorkspaceThere'
    BY <1>1, <2>1, <2>2 DEF IInv, WorkspaceThere, AtHome
  <2>5. QED
    BY <2>3, <2>4
<1>8. BytesOwned'
  <2>1. Adoptable(w) /\ SyncPending(w)
    BY DEF IInv, BytesOwned
  <2>2. Adoptable(w)'
    BY <1>1, <1>2, <1>3, <2>1 DEF Adoptable
  <2>3. \A v \in Runs : Syncing(v) => Syncing(v)'
    BY <1>1 DEF Syncing
  <2>4. SyncPending(w)'
    BY <1>1, <1>2, <1>3, <2>1, <2>3 DEF Adoptable, SyncPending
  <2>5. UNCHANGED torn
    BY <1>1
  <2>6. QED
    BY <1>1, <1>3, <2>2, <2>3, <2>4, <2>5, OtherRuns
<1>9. QED
  BY <1>4, <1>5, <1>6, <1>7, <1>8 DEF IInv

-----------------------------------------------------------------------------
(* The invariant holds. *)

LEMMA NextIInv == IInv /\ [Next]_vars => IInv'
<1> SUFFICES ASSUME IInv, [Next]_vars PROVE IInv'
  OBVIOUS
<1>1. CASE UNCHANGED vars
  <2>1. Typed'
    BY NextTyped DEF IInv
  <2>2. UNCHANGED <<seen, durable, owner, registry, used, at, mine, todo, reaping, unsynced, torn>>
    BY <1>1 DEF vars, disk, reaper, mishaps
  <2>3. ClaimsApart'
    BY <2>2 DEF IInv, ClaimsApart, AtHome
  <2>4. UnusedEmpty' /\ BytesOwned'
    BY <2>2, DiskKept DEF Syncing
  <2>5. BuiltSoFar' /\ WorkspaceThere'
    BY <2>2, AllHomesKept DEF AtHome
  <2>6. QED
    BY <2>1, <2>3, <2>4, <2>5 DEF IInv
<1>2. ASSUME NEW p \in Procs, CleanupStep(p) PROVE IInv'
  BY <1>2, ClaimIInv, ReapIInv, QuietIInv, ReapDoneIInv, ReapFsyncIInv, PageEndIInv
     DEF CleanupStep
<1>3. ASSUME NEW p \in Procs,
             \/ Start(p) \/ CreateStart(p) \/ CreateStep(p) \/ Created(p)
             \/ Work(p) \/ PutForeign(p) \/ Leave(p) \/ PageStart(p)
             \/ StepFails(p) \/ Kill(p)
      PROVE  IInv'
  BY <1>3, QuietIInv, CreateStartIInv, CreateStepIInv, CreatedIInv, WorkIInv, LeaveIInv,
     StepFailsIInv, KillIInv
<1>4. QED
  BY <1>1, <1>2, <1>3, PowerLossIInv, WriteBackIInv DEF Next

THEOREM Invariance == Spec => []IInv
BY InitIInv, NextIInv, PTL DEF Spec

\* No cleanup takes away any part of the workspace of a live process, or its
\* owner file, and no fault makes it believe in a workspace that is not there.
THEOREM WorkspaceKept == Spec => []LiveWorkspaceKept
<1>1. IInv => LiveWorkspaceKept
  BY DEF IInv, ClaimsApart, WorkspaceThere, Core, LiveWorkspaceKept
<1>2. QED
  BY <1>1, Invariance, PTL

\* Bytes that outlive their process lie beside a readable owner file, whatever
\* crash or power loss came before, unless a removal was cut off unsynced.
THEOREM BytesAreOwned == Spec => []NoUnownedBytes
<1>1. IInv => NoUnownedBytes
  BY DEF IInv, BytesOwned, Adoptable, NoUnownedBytes
<1>2. QED
  BY <1>1, Invariance, PTL
=============================================================================
