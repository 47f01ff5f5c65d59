------------------------- MODULE PagePipeline_proofs -------------------------
(***************************************************************************)
(* Proofs about PagePipeline and the DecodeSlots below it, for any number  *)
(* of pages, threads and failures and any mixture of bad and interlaced    *)
(* pages.                                                                  *)
(*                                                                         *)
(* Who is to blame for a failed decode is read from a buffer that all      *)
(* threads write.  The inductive invariant Inv therefore counts who is in  *)
(* a slot, and says that the holder of the exclusive one is the only one.  *)
(***************************************************************************)
EXTENDS PagePipeline, FiniteSetTheorems, TLAPS

InSlot(p) == at[p] \in {"holds", "ran", "failed"}
Regular == {p \in Page : InSlot(p) /\ ~Alone(p)}
Waiters == {p \in Page : at[p] = "waits"}

\* The two numbers of the scheduler are the threads they stand for.
SlotsAreCounted == active = Cardinality(Regular) /\ waiting = Cardinality(Waiters)

\* The exclusive slot is held alone, and its flag says whether it is held.
ExclusiveIsAlone ==
    /\ \A p, q \in Page : InSlot(p) /\ Alone(p) /\ InSlot(q) => p = q
    /\ exclusive <=> \E p \in Page : InSlot(p) /\ Alone(p)

\* A thread that has no page is at no place of the scheduler; only one that must be
\* alone queues.
PlacesFitStages ==
    \A p \in Page :
        /\ at[p] = "none" <=> stage[p] \in {"none", "ended"}
        /\ at[p] = "waits" => Alone(p)

\* What is in the buffer when a decode has failed alone is about that decode.
BlameIsOwn ==
    \A p \in Page : at[p] = "failed" /\ stage[p] = "alone" /\ InvalidInput(errors) => p \in invalid

SlotsInv ==
    SlotsTypeOK /\ SlotsAreCounted /\ ExclusiveIsAlone /\ PlacesFitStages /\ BlameIsOwn
      /\ RejectedIsInvalid

\* A page is handed to the pool once a call, and a call that begins or has returned has
\* none there.
QueueIsFresh ==
    /\ \A p \in queued : stage[p] = "none" /\ p < next
    /\ \A p \in Page : p >= next => stage[p] = "none"
    /\ owner = "submit" => next <= Pages
    /\ owner \in {"enter", "returned"} => Idle
    /\ \A p \in Page : stage[p] = "ended" <=> outcome[p] # "none"

\* Pages whose result the owner has taken.
Taken == {p \in Page : p < next /\ p \notin ToSet(pending)}

\* While no exception was taken, all results that were are known, and the call does not
\* end before it has taken them all.
ResultsAreTaken ==
    /\ mode = "render" => result \notin {"accepted", "rejected"} /\ failure # "rejected"
    /\ owner \in {"enter", "pages", "submit", "await"} => failure = "none"
    /\ mode = "qualify" =>
        /\ failure # "raised" => \A p \in Taken : stage[p] = "ended" /\ outcome[p] # "raised"
        /\ failure = "none" => \A p \in Taken : outcome[p] = "decoded"
        /\ owner \in {"drain", "exit", "returned"} /\ failure = "none" => next > Pages
        /\ owner \in {"exit", "returned"} /\ failure # "raised" => pending = <<>>
        /\ owner = "returned" => result = IF failure = "none" THEN "accepted" ELSE failure

Inv == TypeOK /\ SlotsInv /\ QueueIsFresh /\ ResultsAreTaken

-----------------------------------------------------------------------------
LEMMA PagesAreFinite ==
    ASSUME NEW S \in SUBSET Page
    PROVE  IsFiniteSet(S) /\ Cardinality(S) \in Nat
<1>1. IsFiniteSet(Page)
  BY SlotsAssumption, FS_Interval DEF Page
<1>2. IsFiniteSet(S)
  BY <1>1, FS_Subset
<1>3. QED
  BY <1>2, FS_CardinalityType

\* Counting one thread more or less.
LEMMA CountChanges ==
    ASSUME NEW S \in SUBSET Page, NEW p \in Page
    PROVE  /\ p \notin S => Cardinality(S \cup {p}) = Cardinality(S) + 1
           /\ p \in S => Cardinality(S \ {p}) = Cardinality(S) - 1 /\ Cardinality(S) >= 1
<1>1. IsFiniteSet(S) /\ Cardinality(S) \in Nat
  BY PagesAreFinite
<1>2. Cardinality(S \ {p}) \in Nat
  BY PagesAreFinite
<1>3. ASSUME p \notin S
      PROVE  Cardinality(S \cup {p}) = Cardinality(S) + 1
  BY <1>1, <1>3, FS_AddElement
<1>4. ASSUME p \in S
      PROVE  Cardinality(S \ {p}) = Cardinality(S) - 1 /\ Cardinality(S) >= 1
  <2>1. Cardinality(S \ {p}) = Cardinality(S) - 1
    BY <1>1, <1>4, FS_RemoveElement
  <2>2. QED
    BY <1>1, <1>2, <2>1
<1>5. QED
  BY <1>3, <1>4

LEMMA NobodyCounted ==
    ASSUME NEW S \in SUBSET Page, Cardinality(S) = 0
    PROVE  S = {}
BY PagesAreFinite, FS_EmptySet

-----------------------------------------------------------------------------
LEMMA SlotsInitially ==
    ASSUME SlotsInit
    PROVE  SlotsInv
<1>1. SlotsTypeOK
  <2>1. invalid \subseteq Page /\ interlaced \subseteq Page
    BY DEF SlotsInit
  <2>2. /\ stage \in [Page -> {"none", "header", "decode", "alone", "ended"}]
        /\ at \in [Page -> {"none", "wants", "waits", "holds", "ran", "failed"}]
        /\ cause \in [Page -> {"none", "native", "storage"}]
        /\ outcome \in [Page -> {"none", "decoded", "rejected", "raised"}]
    BY DEF SlotsInit
  <2>3. /\ active \in Nat /\ exclusive \in BOOLEAN /\ waiting \in Nat
        /\ errors \subseteq {"invalid", "other"}
    BY DEF SlotsInit
  <2>4. faults \in Nat /\ faults <= MaxFaults
    BY SlotsAssumption DEF SlotsInit
  <2>5. QED
    BY <2>1, <2>2, <2>3, <2>4 DEF SlotsTypeOK
<1>2. Regular = {} /\ Waiters = {}
  BY DEF SlotsInit, Regular, Waiters, InSlot
<1>3. SlotsAreCounted
  BY <1>2, FS_EmptySet DEF SlotsInit, SlotsAreCounted
<1>4. ExclusiveIsAlone /\ PlacesFitStages /\ BlameIsOwn /\ RejectedIsInvalid
  BY DEF SlotsInit, ExclusiveIsAlone, PlacesFitStages, BlameIsOwn, RejectedIsInvalid, InSlot
<1>5. QED
  BY <1>1, <1>3, <1>4 DEF SlotsInv

\* A step that moves no thread into or out of a slot or the queue keeps the counts.
LEMMA CountsKept ==
    ASSUME SlotsInv, Regular' = Regular, Waiters' = Waiters,
           active' = active, waiting' = waiting
    PROVE  SlotsAreCounted'
BY DEF SlotsInv, SlotsAreCounted

LEMMA StartKept ==
    ASSUME SlotsInv, NEW p \in Page, stage[p] = "none", StartDecode(p)
    PROVE  SlotsInv'
<1>1. SlotsTypeOK /\ ExclusiveIsAlone /\ PlacesFitStages /\ BlameIsOwn /\ RejectedIsInvalid
  BY DEF SlotsInv
<1>2. at[p] = "none"
  BY <1>1 DEF PlacesFitStages
<1>3. SlotsTypeOK'
  BY <1>1 DEF SlotsTypeOK, StartDecode
<1>4. /\ \A q \in Page : q # p => at'[q] = at[q] /\ stage'[q] = stage[q] /\ Alone(q)' = Alone(q)
      /\ at'[p] = "wants" /\ stage'[p] = "header" /\ interlaced' = interlaced
  BY <1>1 DEF SlotsTypeOK, StartDecode, Alone
<1>5. Regular' = Regular /\ Waiters' = Waiters
  BY <1>2, <1>4 DEF Regular, Waiters, InSlot
<1>6. SlotsAreCounted'
  BY <1>5, CountsKept DEF StartDecode
<1>7. ExclusiveIsAlone'
  BY <1>1, <1>2, <1>4 DEF ExclusiveIsAlone, InSlot, StartDecode
<1>8. PlacesFitStages' /\ BlameIsOwn' /\ RejectedIsInvalid'
  BY <1>1, <1>4 DEF PlacesFitStages, BlameIsOwn, RejectedIsInvalid, StartDecode, InvalidInput
<1>9. QED
  BY <1>3, <1>6, <1>7, <1>8 DEF SlotsInv

LEMMA EnterRegularKept ==
    ASSUME SlotsInv, NEW p \in Page, EnterRegular(p)
    PROVE  SlotsInv'
<1>1. SlotsTypeOK /\ SlotsAreCounted /\ ExclusiveIsAlone /\ PlacesFitStages /\ BlameIsOwn
        /\ RejectedIsInvalid
  BY DEF SlotsInv
<1>2. /\ \A q \in Page : (q # p => at'[q] = at[q]) /\ stage'[q] = stage[q] /\ Alone(q)' = Alone(q)
      /\ at'[p] = "holds" /\ at[p] = "wants" /\ ~Alone(p)
  BY <1>1 DEF SlotsTypeOK, EnterRegular, Alone
<1>3. SlotsTypeOK'
  BY <1>1 DEF SlotsTypeOK, EnterRegular
<1>4. Regular' = Regular \cup {p} /\ p \notin Regular /\ Waiters' = Waiters
  BY <1>2 DEF Regular, Waiters, InSlot
<1>5. SlotsAreCounted'
  <2>1. Regular \in SUBSET Page
    BY DEF Regular
  <2>2. Cardinality(Regular') = Cardinality(Regular) + 1
    BY <1>4, <2>1, CountChanges
  <2>3. QED
    BY <1>1, <1>4, <2>2 DEF SlotsAreCounted, EnterRegular
<1>6. ExclusiveIsAlone'
  BY <1>1, <1>2 DEF ExclusiveIsAlone, InSlot, EnterRegular
<1>7. PlacesFitStages' /\ BlameIsOwn' /\ RejectedIsInvalid'
  BY <1>1, <1>2 DEF PlacesFitStages, BlameIsOwn, RejectedIsInvalid, EnterRegular, InvalidInput
<1>8. QED
  BY <1>3, <1>5, <1>6, <1>7 DEF SlotsInv

LEMMA QueueExclusiveKept ==
    ASSUME SlotsInv, NEW p \in Page, QueueExclusive(p)
    PROVE  SlotsInv'
<1>1. SlotsTypeOK /\ SlotsAreCounted /\ ExclusiveIsAlone /\ PlacesFitStages /\ BlameIsOwn
        /\ RejectedIsInvalid
  BY DEF SlotsInv
<1>2. /\ \A q \in Page : (q # p => at'[q] = at[q]) /\ stage'[q] = stage[q] /\ Alone(q)' = Alone(q)
      /\ at'[p] = "waits" /\ at[p] = "wants" /\ Alone(p)
  BY <1>1 DEF SlotsTypeOK, QueueExclusive, Alone
<1>3. SlotsTypeOK'
  BY <1>1 DEF SlotsTypeOK, QueueExclusive
<1>4. Regular' = Regular /\ Waiters' = Waiters \cup {p} /\ p \notin Waiters
  BY <1>2 DEF Regular, Waiters, InSlot
<1>5. SlotsAreCounted'
  <2>1. Waiters \in SUBSET Page
    BY DEF Waiters
  <2>2. Cardinality(Waiters') = Cardinality(Waiters) + 1
    BY <1>4, <2>1, CountChanges
  <2>3. QED
    BY <1>1, <1>4, <2>2 DEF SlotsAreCounted, QueueExclusive
<1>6. ExclusiveIsAlone'
  BY <1>1, <1>2 DEF ExclusiveIsAlone, InSlot, QueueExclusive
<1>7. PlacesFitStages' /\ BlameIsOwn' /\ RejectedIsInvalid'
  BY <1>1, <1>2 DEF PlacesFitStages, BlameIsOwn, RejectedIsInvalid, QueueExclusive, InvalidInput
<1>8. QED
  BY <1>3, <1>5, <1>6, <1>7 DEF SlotsInv

\* The exclusive slot is entered when all slots are free: the count says so.
LEMMA EnterExclusiveKept ==
    ASSUME SlotsInv, NEW p \in Page, EnterExclusive(p)
    PROVE  SlotsInv'
<1>1. SlotsTypeOK /\ SlotsAreCounted /\ ExclusiveIsAlone /\ PlacesFitStages /\ BlameIsOwn
        /\ RejectedIsInvalid
  BY DEF SlotsInv
<1>2. /\ \A q \in Page : (q # p => at'[q] = at[q]) /\ stage'[q] = stage[q] /\ Alone(q)' = Alone(q)
      /\ at'[p] = "holds" /\ at[p] = "waits" /\ Alone(p)
  BY <1>1 DEF SlotsTypeOK, EnterExclusive, Alone, PlacesFitStages
<1>3. Regular' = Regular /\ Waiters' = Waiters \ {p} /\ p \in Waiters
  BY <1>2 DEF Regular, Waiters, InSlot
<1>4. Waiters \in SUBSET Page /\ Regular \in SUBSET Page
  BY DEF Waiters, Regular
<1>5. Cardinality(Waiters') = waiting - 1 /\ waiting >= 1
  BY <1>1, <1>3, <1>4, CountChanges DEF SlotsAreCounted
<1>6. SlotsTypeOK'
  BY <1>1, <1>5 DEF SlotsTypeOK, EnterExclusive, LeftQueue
<1>7. SlotsAreCounted'
  BY <1>1, <1>3, <1>5 DEF SlotsAreCounted, EnterExclusive, LeftQueue
<1>8. Regular = {}
  BY <1>1, <1>4, NobodyCounted DEF SlotsAreCounted, EnterExclusive
<1>9. \A q \in Page : ~InSlot(q)
  BY <1>1, <1>8 DEF Regular, ExclusiveIsAlone, EnterExclusive
<1>10. ExclusiveIsAlone'
  BY <1>2, <1>9 DEF ExclusiveIsAlone, InSlot, EnterExclusive
<1>11. PlacesFitStages' /\ BlameIsOwn' /\ RejectedIsInvalid'
  BY <1>1, <1>2 DEF PlacesFitStages, BlameIsOwn, RejectedIsInvalid, EnterExclusive, InvalidInput
<1>12. QED
  BY <1>6, <1>7, <1>10, <1>11 DEF SlotsInv

\* The buffer of a decode that is alone starts empty and is written by nobody else.
LEMMA WorkKept ==
    ASSUME SlotsInv, NEW p \in Page, Work(p)
    PROVE  SlotsInv'
<1>1. SlotsTypeOK /\ SlotsAreCounted /\ ExclusiveIsAlone /\ PlacesFitStages /\ BlameIsOwn
        /\ RejectedIsInvalid
  BY DEF SlotsInv
<1>2. /\ \A q \in Page : (q # p => at'[q] = at[q]) /\ stage'[q] = stage[q] /\ Alone(q)' = Alone(q)
      /\ at'[p] \in {"ran", "failed"} /\ at[p] = "holds"
  BY <1>1 DEF SlotsTypeOK, Work, Succeed, Fail, Alone
<1>3. SlotsTypeOK'
  <2>1. CASE Succeed(p)
    BY <1>1, <2>1 DEF SlotsTypeOK, Work, Succeed, Buffer
  <2>2. CASE Fail(p)
    <3>1. errors' \subseteq {"invalid", "other"}
      BY <1>1, <2>2 DEF SlotsTypeOK, Fail, Buffer
    <3>5. faults' \in Nat /\ faults' <= MaxFaults
      BY <1>1, <2>2, SlotsAssumption DEF SlotsTypeOK, Fail
    <3>2. cause' \in [Page -> {"none", "native", "storage"}]
      BY <1>1, <2>2 DEF SlotsTypeOK, Fail
    <3>3. at' \in [Page -> {"none", "wants", "waits", "holds", "ran", "failed"}]
      BY <1>1, <2>2 DEF SlotsTypeOK, Fail
    <3>4. QED
      BY <1>1, <3>1, <3>2, <3>3, <3>5 DEF SlotsTypeOK, Work
  <2>3. QED
    BY <2>1, <2>2 DEF Work
<1>4. Regular' = Regular /\ Waiters' = Waiters
  BY <1>2 DEF Regular, Waiters, InSlot
<1>5. SlotsAreCounted'
  BY <1>4, CountsKept DEF Work
<1>6. ExclusiveIsAlone'
  BY <1>1, <1>2 DEF ExclusiveIsAlone, InSlot, Work
<1>7. PlacesFitStages'
  BY <1>1, <1>2 DEF PlacesFitStages
<1>8. BlameIsOwn'
  <2> SUFFICES ASSUME NEW q \in Page, at'[q] = "failed", stage'[q] = "alone", errors' = {"invalid"}
               PROVE  q \in invalid'
    BY DEF BlameIsOwn, InvalidInput
  <2>1. q = p
    BY <1>1, <1>2 DEF ExclusiveIsAlone, InSlot, Alone
  <2>2. Fail(p) /\ Buffer(p) = {}
    BY <1>1, <1>2, <2>1 DEF Work, Succeed, Buffer, SlotsTypeOK
  <2>3. QED
    BY <2>1, <2>2 DEF Fail, Work
<1>9. RejectedIsInvalid'
  BY <1>1 DEF RejectedIsInvalid, Work
<1>10. QED
  BY <1>3, <1>5, <1>6, <1>7, <1>8, <1>9 DEF SlotsInv

\* A thread that leaves its slot, for another decode of its page or for good.
LEMMA ReleaseKept ==
    ASSUME SlotsInv, NEW p \in Page, InSlot(p), Release(p),
           interlaced' = interlaced, waiting' = waiting,
           \A q \in Page : q # p => at'[q] = at[q] /\ stage'[q] = stage[q],
           at'[p] \in {"wants", "none"}
    PROVE  SlotsAreCounted' /\ ExclusiveIsAlone' /\ active' \in Nat /\ exclusive' \in BOOLEAN
<1>1. SlotsTypeOK /\ SlotsAreCounted /\ ExclusiveIsAlone
  BY DEF SlotsInv
<1>2. \A q \in Page : q # p => (Alone(q)' <=> Alone(q)) /\ (InSlot(q)' <=> InSlot(q))
  BY DEF Alone, InSlot
<1>3. ~InSlot(p)'
  BY DEF InSlot
<1>4. Waiters' = Waiters
  BY <1>2 DEF Waiters, InSlot
<1>5. Regular \in SUBSET Page
  BY DEF Regular
<1>6. CASE Alone(p)
  <2>1. Regular' = Regular
    BY <1>2, <1>3, <1>6 DEF Regular
  <2>2. QED
    BY <1>1, <1>2, <1>3, <1>4, <1>6, <2>1
    DEF Release, SlotsAreCounted, ExclusiveIsAlone, SlotsTypeOK
<1>7. CASE ~Alone(p)
  <2>1. Regular' = Regular \ {p} /\ p \in Regular
    BY <1>2, <1>3, <1>7 DEF Regular
  <2>2. Cardinality(Regular') = active - 1 /\ active >= 1
    BY <1>1, <1>5, <2>1, CountChanges DEF SlotsAreCounted
  <2>3. QED
    BY <1>1, <1>2, <1>3, <1>4, <1>7, <2>2
    DEF Release, SlotsAreCounted, ExclusiveIsAlone, SlotsTypeOK
<1>8. QED
  BY <1>6, <1>7

LEMMA LeaveKept ==
    ASSUME SlotsInv, NEW p \in Page, Leave(p)
    PROVE  SlotsInv'
<1>1. SlotsTypeOK /\ PlacesFitStages /\ BlameIsOwn /\ RejectedIsInvalid
  BY DEF SlotsInv
<1>2. /\ \A q \in Page : q # p => at'[q] = at[q] /\ stage'[q] = stage[q] /\ outcome'[q] = outcome[q]
      /\ \/ at'[p] = "wants" /\ stage'[p] = "decode"
         \/ at'[p] = "none" /\ stage'[p] = "ended"
      /\ InSlot(p)
  BY <1>1 DEF SlotsTypeOK, Leave, GoOn, End, InSlot
<1>3. SlotsAreCounted' /\ ExclusiveIsAlone' /\ active' \in Nat /\ exclusive' \in BOOLEAN
  BY <1>2, ReleaseKept DEF Leave
<1>4. SlotsTypeOK'
  BY <1>1, <1>3 DEF SlotsTypeOK, Leave, GoOn, End
<1>5. PlacesFitStages'
  BY <1>1, <1>2 DEF PlacesFitStages, Alone, Leave
<1>6. BlameIsOwn' /\ RejectedIsInvalid'
  BY <1>1, <1>2 DEF BlameIsOwn, RejectedIsInvalid, InvalidInput, Leave, GoOn, End, SlotsTypeOK
<1>7. QED
  BY <1>3, <1>4, <1>5, <1>6 DEF SlotsInv

\* A page is rejected only on what the buffer says of it alone.
LEMMA LeaveFailedKept ==
    ASSUME SlotsInv, NEW p \in Page, LeaveFailed(p)
    PROVE  SlotsInv'
<1>1. SlotsTypeOK /\ PlacesFitStages /\ BlameIsOwn /\ RejectedIsInvalid
  BY DEF SlotsInv
<1>2. /\ \A q \in Page : q # p => at'[q] = at[q] /\ stage'[q] = stage[q] /\ outcome'[q] = outcome[q]
      /\ \/ at'[p] = "wants" /\ stage'[p] = "alone"
         \/ at'[p] = "none" /\ stage'[p] = "ended"
      /\ InSlot(p)
  BY <1>1 DEF SlotsTypeOK, LeaveFailed, GoOn, End, InSlot
<1>3. SlotsAreCounted' /\ ExclusiveIsAlone' /\ active' \in Nat /\ exclusive' \in BOOLEAN
  BY <1>2, ReleaseKept DEF LeaveFailed
<1>4. SlotsTypeOK'
  BY <1>1, <1>3 DEF SlotsTypeOK, LeaveFailed, GoOn, End
<1>5. PlacesFitStages'
  BY <1>1, <1>2 DEF PlacesFitStages, Alone, LeaveFailed
<1>6. BlameIsOwn'
  BY DEF BlameIsOwn, InvalidInput, LeaveFailed
<1>7. outcome'[p] = "rejected" => p \in invalid
  BY <1>1 DEF BlameIsOwn, RejectedIsInvalid, LeaveFailed, GoOn, End, SlotsTypeOK
<1>8. RejectedIsInvalid'
  BY <1>1, <1>2, <1>7 DEF RejectedIsInvalid, LeaveFailed
<1>9. QED
  BY <1>3, <1>4, <1>5, <1>6, <1>8 DEF SlotsInv

LEMMA DecodeKept ==
    ASSUME SlotsInv, NEW p \in Page, DecodeStep(p)
    PROVE  SlotsInv'
BY EnterRegularKept, QueueExclusiveKept, EnterExclusiveKept, WorkKept, LeaveKept,
   LeaveFailedKept DEF DecodeStep

-----------------------------------------------------------------------------
(* The owner of the pool                                                   *)

\* The owner does nothing to the threads, except that a fault may be its own.
LEMMA SlotsKept ==
    ASSUME SlotsInv, NoFault \/ OneFault
    PROVE  /\ SlotsInv' /\ stage' = stage /\ at' = at /\ outcome' = outcome
<1>1. UNCHANGED <<invalid, interlaced, stage, at, active, exclusive, waiting, errors, cause, outcome>>
  BY DEF NoFault, OneFault, slots
<1>2. faults' \in Nat /\ faults' <= MaxFaults
  BY SlotsAssumption DEF NoFault, OneFault, Fault, slots, SlotsInv, SlotsTypeOK
<1>3. SlotsTypeOK'
  BY <1>1, <1>2 DEF SlotsInv, SlotsTypeOK
<1>4. Regular' = Regular /\ Waiters' = Waiters
  BY <1>1 DEF Regular, Waiters, InSlot, Alone
<1>5. SlotsAreCounted'
  BY <1>1, <1>4, CountsKept
<1>6. ExclusiveIsAlone' /\ PlacesFitStages' /\ BlameIsOwn' /\ RejectedIsInvalid'
  BY <1>1 DEF SlotsInv, ExclusiveIsAlone, PlacesFitStages, BlameIsOwn, RejectedIsInvalid,
     InSlot, Alone, InvalidInput
<1>7. QED
  BY <1>1, <1>3, <1>5, <1>6 DEF SlotsInv

LEMMA Initially ==
    ASSUME Init
    PROVE  Inv
<1>1. SlotsInv
  BY SlotsInitially DEF Init
<1>2. next \in 1..(Pages + 1)
  BY SlotsAssumption DEF Init
<1>3. TypeOK
  BY <1>1, <1>2 DEF Init, TypeOK, SlotsInv, Begins
<1>4. QueueIsFresh
  BY DEF Init, SlotsInit, QueueIsFresh, Begins, Idle, Running
<1>5. Taken = {}
  BY SlotsAssumption DEF Init, Taken, Page
<1>6. ResultsAreTaken
  BY <1>5 DEF Init, ResultsAreTaken, Begins
<1>7. QED
  BY <1>1, <1>3, <1>4, <1>6 DEF Inv

-----------------------------------------------------------------------------
(* Page threads                                                            *)

LEMMA StartPageKept ==
    ASSUME Inv, NEW p \in Page, StartPage(p)
    PROVE  Inv'
<1>1. TypeOK /\ SlotsInv /\ QueueIsFresh /\ ResultsAreTaken
  BY DEF Inv
<1>2. stage[p] = "none" /\ p < next /\ StartDecode(p) /\ p \in queued
  BY <1>1 DEF StartPage, QueueIsFresh
<1>3. SlotsInv'
  BY <1>1, <1>2, StartKept
<1>4. TypeOK'
  BY <1>1, <1>3 DEF TypeOK, StartPage, SlotsInv
<1>5. QueueIsFresh'
  <2>1. \A q \in Page : q # p => stage'[q] = stage[q]
    BY <1>1, <1>2 DEF StartDecode, TypeOK, SlotsTypeOK
  <2>2. owner \notin {"enter", "returned"}
    BY <1>1, <1>2 DEF QueueIsFresh, Idle
  <2>3. outcome'[p] = "none" /\ outcome' = outcome /\ stage'[p] = "header"
    BY <1>1, <1>2 DEF StartDecode, QueueIsFresh, TypeOK, SlotsTypeOK
  <2>4. queued' = queued \ {p} /\ queued \subseteq Page /\ UNCHANGED <<next, owner>>
    BY <1>1 DEF TypeOK, StartPage
  <2>5. p \in Page /\ next \in Int
    BY <1>1 DEF TypeOK
  <2>6. \A q \in Page : q >= next' => stage'[q] = "none"
    BY <1>1, <1>2, <2>1, <2>4, <2>5 DEF QueueIsFresh, Page
  <2>7. QED
    BY <1>1, <1>2, <2>1, <2>2, <2>3, <2>4, <2>6 DEF QueueIsFresh
<1>6. ResultsAreTaken'
  BY <1>1, <1>2 DEF ResultsAreTaken, StartDecode, StartPage, Taken
<1>7. QED
  BY <1>3, <1>4, <1>5, <1>6 DEF Inv

\* A thread ends its page once, and the results of other pages are as they were.
LEMMA RunPageKept ==
    ASSUME Inv, NEW p \in Page, RunPage(p)
    PROVE  Inv'
<1>1. TypeOK /\ SlotsInv /\ QueueIsFresh /\ ResultsAreTaken
  BY DEF Inv
<1>2. SlotsInv'
  BY <1>1, DecodeKept DEF RunPage
<1>3. TypeOK'
  BY <1>1, <1>2 DEF TypeOK, RunPage, SlotsInv
<1>4. stage[p] \notin {"none", "ended"}
  BY <1>1 DEF RunPage, DecodeStep, SlotsInv, PlacesFitStages, EnterRegular, QueueExclusive,
     EnterExclusive, Work, Leave, LeaveFailed
<1>5. /\ \A q \in Page : q # p => stage'[q] = stage[q] /\ outcome'[q] = outcome[q]
      /\ stage'[p] # "ended" => outcome'[p] = outcome[p]
      /\ stage'[p] = "ended" => outcome'[p] # "none"
  <2>1. CASE EnterRegular(p) \/ QueueExclusive(p) \/ EnterExclusive(p) \/ Work(p)
    BY <1>4, <2>1 DEF EnterRegular, QueueExclusive, EnterExclusive, Work
  <2>2. CASE Leave(p)
    BY <1>1, <1>4, <2>2 DEF Leave, GoOn, End, TypeOK, SlotsTypeOK
  <2>3. CASE LeaveFailed(p)
    BY <1>1, <1>4, <2>3 DEF LeaveFailed, GoOn, End, TypeOK, SlotsTypeOK
  <2>4. QED
    BY <2>1, <2>2, <2>3 DEF RunPage, DecodeStep
<1>6. p \notin queued /\ owner \notin {"enter", "returned"} /\ p < next
  <2>1. p \in Running
    BY <1>4 DEF Running
  <2>2. p \in Int /\ next \in Int
    BY <1>1 DEF TypeOK, Page
  <2>3. QED
    BY <1>1, <1>4, <2>1, <2>2 DEF QueueIsFresh, Idle
<1>7. QueueIsFresh'
  <2>1. queued \subseteq Page /\ UNCHANGED <<queued, next, owner>>
    BY <1>1 DEF TypeOK, RunPage
  <2>2. \A q \in Page : q >= next' => stage'[q] = "none"
    BY <1>1, <1>5, <1>6, <2>1 DEF QueueIsFresh, TypeOK, Page
  <2>3. QED
    BY <1>1, <1>4, <1>5, <1>6, <2>1, <2>2 DEF QueueIsFresh
<1>8. ResultsAreTaken'
  <2>1. outcome[p] = "none"
    BY <1>1, <1>4 DEF QueueIsFresh
  <2>2. Taken' = Taken
    BY DEF RunPage, Taken
  <2>3. CASE p \notin Taken
    BY <1>1, <1>5, <2>2, <2>3 DEF ResultsAreTaken, RunPage, Taken
  <2>4. CASE p \in Taken
    <3>1. mode # "qualify" \/ failure = "raised"
      BY <1>1, <1>4, <2>4 DEF ResultsAreTaken
    <3>2. QED
      BY <1>1, <3>1 DEF ResultsAreTaken, RunPage
  <2>5. QED
    BY <2>3, <2>4
<1>9. QED
  BY <1>2, <1>3, <1>7, <1>8 DEF Inv

-----------------------------------------------------------------------------
(* The owner of the pool                                                   *)

LEMMA SequenceOfPages ==
    ASSUME NEW s \in Seq(Page)
    PROVE  /\ \A p \in Page : Append(s, p) \in Seq(Page) /\ ToSet(Append(s, p)) = ToSet(s) \cup {p}
           /\ s # <<>> => /\ Head(s) \in Page /\ Tail(s) \in Seq(Page)
                          /\ ToSet(s) = ToSet(Tail(s)) \cup {Head(s)}
<1>1. \A p \in Page : Append(s, p) \in Seq(Page) /\ ToSet(Append(s, p)) = ToSet(s) \cup {p}
  <2> SUFFICES ASSUME NEW p \in Page
               PROVE  Append(s, p) \in Seq(Page) /\ ToSet(Append(s, p)) = ToSet(s) \cup {p}
    OBVIOUS
  <2>1. Append(s, p) \in Seq(Page)
    OBVIOUS
  <2>2. /\ DOMAIN Append(s, p) = DOMAIN s \cup {Len(s) + 1}
        /\ \A i \in DOMAIN s : Append(s, p)[i] = s[i]
        /\ Append(s, p)[Len(s) + 1] = p
    OBVIOUS
  <2>3. QED
    BY <2>1, <2>2 DEF ToSet
<1>2. ASSUME s # <<>>
      PROVE  /\ Head(s) \in Page /\ Tail(s) \in Seq(Page)
             /\ ToSet(s) = ToSet(Tail(s)) \cup {Head(s)}
  <2>1. Head(s) \in Page /\ Tail(s) \in Seq(Page) /\ Head(s) = s[1] /\ Len(s) >= 1
    BY <1>2
  <2>2. Len(Tail(s)) = Len(s) - 1 /\ \A i \in 1..(Len(s) - 1) : Tail(s)[i] = s[i + 1]
    BY <1>2
  <2>3. ASSUME NEW x \in ToSet(s)
        PROVE  x \in ToSet(Tail(s)) \cup {Head(s)}
    <3>1. PICK i \in 1..Len(s) : x = s[i]
      BY <2>3 DEF ToSet
    <3>2. CASE i = 1
      BY <2>1, <3>1, <3>2
    <3>3. CASE i # 1
      <4>1. i - 1 \in 1..(Len(s) - 1) /\ (i - 1) + 1 = i
        BY <3>1, <3>3
      <4>2. Tail(s)[i - 1] = x /\ i - 1 \in DOMAIN Tail(s)
        BY <2>1, <2>2, <3>1, <4>1
      <4>3. QED
        BY <4>2 DEF ToSet
    <3>4. QED
      BY <3>2, <3>3
  <2>4. ASSUME NEW x \in ToSet(Tail(s))
        PROVE  x \in ToSet(s)
    <3>1. PICK i \in 1..(Len(s) - 1) : x = Tail(s)[i]
      BY <2>1, <2>2, <2>4 DEF ToSet
    <3>2. x = s[i + 1] /\ i + 1 \in DOMAIN s
      BY <2>1, <2>2, <3>1
    <3>3. QED
      BY <3>2 DEF ToSet
  <2>5. Head(s) \in ToSet(s)
    BY <2>1 DEF ToSet
  <2>6. QED
    BY <2>1, <2>3, <2>4, <2>5
<1>3. QED
  BY <1>1, <1>2

\* What most steps of the owner have in common.
LEMMA OwnerQueue ==
    ASSUME Inv, NoFault \/ OneFault,
           /\ next' \in Int /\ (next' = next \/ (next' = next + 1 /\ next <= Pages))
           /\ queued' \subseteq queued \cup (IF next' = next THEN {} ELSE {next}),
           owner' = "submit" => next' <= Pages,
           owner' # "enter", owner' = "returned" => queued = {} /\ Running = {} /\ queued' = {}
    PROVE  QueueIsFresh'
<1>1. stage' = stage /\ outcome' = outcome /\ TypeOK /\ QueueIsFresh
  BY SlotsKept DEF Inv
<1>2. Running' = Running
  BY <1>1 DEF Running
<1>3. queued \subseteq Page /\ next \in Int /\ next \in 1..(Pages + 1)
  BY <1>1 DEF TypeOK
<1>4. \A p \in Page : p \in Int
  BY DEF Page
<1>5. \A p \in Page : p >= next' => stage'[p] = "none"
  BY <1>1, <1>3, <1>4 DEF QueueIsFresh
<1>6. \A p \in queued' : p < next'
  BY <1>1, <1>3, <1>4 DEF QueueIsFresh
<1>7. \A p \in queued' : stage'[p] = "none"
  <2> SUFFICES ASSUME NEW p \in queued' PROVE stage'[p] = "none"
    OBVIOUS
  <2>1. CASE p \in queued
    BY <1>1, <2>1 DEF QueueIsFresh
  <2>2. CASE p = next /\ next' # next
    BY <1>1, <1>3, <2>2 DEF QueueIsFresh, Page
  <2>3. QED
    BY <2>1, <2>2
<1>8. (owner' \in {"enter", "returned"} => Idle') /\ \A p \in Page : stage'[p] = "ended" <=> outcome'[p] # "none"
  BY <1>1, <1>2 DEF QueueIsFresh, Idle
<1>9. QED
  BY <1>5, <1>6, <1>7, <1>8 DEF QueueIsFresh

LEMMA TakenKept ==
    ASSUME UNCHANGED <<next, pending>>
    PROVE  Taken' = Taken
BY DEF Taken

LEMMA SpoolPageKept ==
    ASSUME Inv, SpoolPage
    PROVE  Inv'
<1>1. TypeOK /\ ResultsAreTaken /\ SlotsInv
  BY DEF Inv
<1>2. NoFault \/ OneFault
  BY DEF SpoolPage
<1>3. SlotsInv' /\ stage' = stage /\ outcome' = outcome
  BY <1>1, <1>2, SlotsKept
<1>4. TypeOK'
  BY <1>1, <1>3 DEF TypeOK, SpoolPage, SlotsInv, Page
<1>5. QueueIsFresh'
  BY <1>1, <1>2, OwnerQueue DEF SpoolPage, TypeOK
<1>6. ResultsAreTaken'
  BY <1>1, <1>3, TakenKept DEF ResultsAreTaken, SpoolPage
<1>7. QED
  BY <1>3, <1>4, <1>5, <1>6 DEF Inv

LEMMA SubmitSpooledKept ==
    ASSUME Inv, SubmitSpooled
    PROVE  Inv'
<1>1. TypeOK /\ ResultsAreTaken /\ SlotsInv /\ QueueIsFresh
  BY DEF Inv
<1>2. NoFault \/ OneFault
  BY DEF SubmitSpooled
<1>3. SlotsInv' /\ stage' = stage /\ outcome' = outcome
  BY <1>1, <1>2, SlotsKept
<1>4. next \in Page /\ next \in Int /\ Pages \in Int
  BY <1>1, SlotsAssumption DEF QueueIsFresh, TypeOK, Page, SubmitSpooled
<1>5. TypeOK'
  <2>1. pending \in Seq(Page) /\ next \in 1..(Pages + 1) /\ queued \subseteq Page
    BY <1>1 DEF TypeOK
  <2>5. Append(pending, next) \in Seq(Page) /\ next + 1 \in 1..(Pages + 1)
    BY <1>4, <2>1, SequenceOfPages DEF Page
  <2>2. pending' \in Seq(Page) /\ next' \in 1..(Pages + 1) /\ queued' \subseteq Page
    BY <1>4, <2>1, <2>5 DEF SubmitSpooled
  <2>3. /\ owner' \in {"await", "pages", "exit"} /\ failure' \in {"none", "rejected", "raised"}
        /\ buffer' \in [Page -> {"none", "open", "closed"}]
    BY <1>1, <1>4 DEF TypeOK, SubmitSpooled
  <2>4. QED
    BY <1>1, <1>3, <2>2, <2>3 DEF TypeOK, SubmitSpooled, SlotsInv
<1>6. QueueIsFresh'
  BY <1>1, <1>2, <1>4, OwnerQueue DEF SubmitSpooled, Page
<1>7. ResultsAreTaken'
  <2>1. CASE pending' = Append(pending, next) /\ next' = next + 1
    <3>1. ToSet(pending') = ToSet(pending) \cup {next}
      BY <1>1, <1>4, <2>1, SequenceOfPages DEF TypeOK
    <3>2. Taken' = Taken
      BY <1>4, <2>1, <3>1 DEF Taken, Page
    <3>3. QED
      BY <1>1, <1>3, <2>1, <3>2 DEF ResultsAreTaken, SubmitSpooled
  <2>2. CASE UNCHANGED <<pending, next>>
    BY <1>1, <1>3, <2>2, TakenKept DEF ResultsAreTaken, SubmitSpooled
  <2>3. QED
    BY <2>1, <2>2 DEF SubmitSpooled
<1>8. QED
  BY <1>3, <1>5, <1>6, <1>7 DEF Inv

LEMMA PagesEndKept ==
    ASSUME Inv, PagesEnd
    PROVE  Inv'
<1>1. TypeOK /\ ResultsAreTaken /\ SlotsInv
  BY DEF Inv
<1>2. SlotsInv' /\ stage' = stage /\ outcome' = outcome
  BY <1>1, SlotsKept DEF PagesEnd
<1>3. TypeOK'
  BY <1>1, <1>2 DEF TypeOK, PagesEnd, SlotsInv
<1>4. QueueIsFresh'
  BY <1>1, OwnerQueue DEF PagesEnd, TypeOK
<1>5. ResultsAreTaken'
  BY <1>1, <1>2, TakenKept DEF ResultsAreTaken, PagesEnd
<1>6. QED
  BY <1>2, <1>3, <1>4, <1>5 DEF Inv

LEMMA TakeResultKept ==
    ASSUME Inv, TakeResult
    PROVE  Inv'
<1>1. TypeOK /\ ResultsAreTaken /\ SlotsInv /\ QueueIsFresh
  BY DEF Inv
<1>2. SlotsInv' /\ stage' = stage /\ outcome' = outcome
  BY <1>1, SlotsKept DEF TakeResult
<1>3. /\ Head(pending) \in Page /\ pending' \in Seq(Page)
      /\ ToSet(pending) = ToSet(pending') \cup {Head(pending)}
  BY <1>1, SequenceOfPages DEF TakeResult, HeadEnded, TypeOK
<1>4. TypeOK'
  <2>1. owner' \in {"exit", "drain", "pages", "await"} /\ failure' \in {"none", "rejected", "raised"}
    BY <1>1, <1>3 DEF TypeOK, TakeResult, TakeTheOthers, SlotsTypeOK
  <2>2. QED
    BY <1>1, <1>2, <1>3, <2>1 DEF TypeOK, TakeResult, SlotsInv
<1>5. QueueIsFresh'
  <2>1. owner' \notin {"submit", "enter", "returned"}
    BY <1>1 DEF TakeResult, TakeTheOthers
  <2>2. QED
    BY <1>1, <2>1, OwnerQueue DEF TakeResult, TypeOK
<1>6. ResultsAreTaken'
  <2>1. Taken' \subseteq Taken \cup {Head(pending)}
    BY <1>3 DEF Taken, TakeResult
  <2>2. outcome[Head(pending)] \in {"none", "decoded", "rejected", "raised"}
    BY <1>1, <1>3 DEF TypeOK, SlotsTypeOK
  <2>3. stage[Head(pending)] = "ended"
    BY DEF TakeResult, HeadEnded
  <2>4. QED
    BY <1>1, <1>2, <1>3, <2>1, <2>2, <2>3
    DEF ResultsAreTaken, TakeResult, TakeTheOthers, TypeOK, QueueIsFresh
<1>7. QED
  BY <1>2, <1>4, <1>5, <1>6 DEF Inv

LEMMA DrainEndsKept ==
    ASSUME Inv, DrainEnds
    PROVE  Inv'
<1>1. TypeOK /\ ResultsAreTaken /\ SlotsInv
  BY DEF Inv
<1>2. SlotsInv' /\ stage' = stage /\ outcome' = outcome
  BY <1>1, SlotsKept DEF DrainEnds
<1>3. TypeOK'
  BY <1>1, <1>2 DEF TypeOK, DrainEnds, SlotsInv
<1>4. QueueIsFresh'
  BY <1>1, OwnerQueue DEF DrainEnds, TypeOK
<1>5. ResultsAreTaken'
  BY <1>1, <1>2, TakenKept DEF ResultsAreTaken, DrainEnds
<1>6. QED
  BY <1>2, <1>3, <1>4, <1>5 DEF Inv

LEMMA QualifiedKept ==
    ASSUME Inv, Qualified
    PROVE  Inv'
<1>1. TypeOK /\ ResultsAreTaken /\ SlotsInv
  BY DEF Inv
<1>2. SlotsInv' /\ stage' = stage /\ outcome' = outcome
  BY <1>1, SlotsKept DEF Qualified
<1>3. TypeOK'
  BY <1>1, <1>2 DEF TypeOK, Qualified, SlotsInv
<1>4. QueueIsFresh'
  BY <1>1, OwnerQueue DEF Qualified, TypeOK, Idle
<1>5. ResultsAreTaken'
  BY <1>1, <1>2, TakenKept DEF ResultsAreTaken, Qualified
<1>6. QED
  BY <1>2, <1>3, <1>4, <1>5 DEF Inv

-----------------------------------------------------------------------------
(* Rendering: what is claimed of qualification is not touched.             *)

LEMMA RenderKept ==
    ASSUME Inv, mode = "render", mode' = mode,
           result' \notin {"accepted", "rejected"}, failure' # "rejected",
           owner' \in {"enter", "pages", "await"} => failure' = "none", owner' # "submit"
    PROVE  ResultsAreTaken'
BY DEF ResultsAreTaken

LEMMA EnterScratchKept ==
    ASSUME Inv, EnterScratch
    PROVE  Inv'
<1>1. TypeOK /\ ResultsAreTaken /\ SlotsInv /\ QueueIsFresh
  BY DEF Inv
<1>2. NoFault \/ OneFault
  BY DEF EnterScratch
<1>3. SlotsInv'
  BY <1>1, <1>2, SlotsKept
<1>4. TypeOK'
  <2>1. <<>> \in Seq(Page)
    OBVIOUS
  <2>2. archive' \in Seq(Page)
    BY <1>1, <2>1 DEF TypeOK, EnterScratch, EmptyScratch
  <2>3. QED
    BY <1>1, <1>3, <2>2 DEF TypeOK, EnterScratch, SlotsInv
<1>5. QueueIsFresh'
  BY <1>1, <1>2, OwnerQueue DEF EnterScratch, TypeOK, QueueIsFresh, Idle
<1>6. ResultsAreTaken'
  BY <1>1, RenderKept DEF EnterScratch, ResultsAreTaken
<1>7. QED
  BY <1>3, <1>4, <1>5, <1>6 DEF Inv

LEMMA SubmitPageKept ==
    ASSUME Inv, SubmitPage
    PROVE  Inv'
<1>1. TypeOK /\ ResultsAreTaken /\ SlotsInv
  BY DEF Inv
<1>2. NoFault \/ OneFault
  BY DEF SubmitPage
<1>3. SlotsInv'
  BY <1>1, <1>2, SlotsKept
<1>4. next \in Page /\ next \in Int /\ Pages \in Int
  BY <1>1, SlotsAssumption DEF TypeOK, Page, SubmitPage, BatchComplete
<1>5. TypeOK'
  <2>1. pending \in Seq(Page) /\ next \in 1..(Pages + 1) /\ queued \subseteq Page
    BY <1>1 DEF TypeOK
  <2>2. Append(pending, next) \in Seq(Page) /\ next + 1 \in 1..(Pages + 1)
    BY <1>4, <2>1, SequenceOfPages DEF Page
  <2>3. pending' \in Seq(Page) /\ next' \in 1..(Pages + 1) /\ queued' \subseteq Page
    BY <1>4, <2>1, <2>2 DEF SubmitPage
  <2>4. QED
    BY <1>1, <1>3, <2>3 DEF TypeOK, SubmitPage, SlotsInv
<1>6. QueueIsFresh'
  BY <1>1, <1>2, <1>4, OwnerQueue DEF SubmitPage, Page
<1>7. ResultsAreTaken'
  BY <1>1, RenderKept DEF SubmitPage, ResultsAreTaken
<1>8. QED
  BY <1>3, <1>5, <1>6, <1>7 DEF Inv

LEMMA BatchSubmittedKept ==
    ASSUME Inv, BatchSubmitted
    PROVE  Inv'
<1>1. TypeOK /\ ResultsAreTaken /\ SlotsInv
  BY DEF Inv
<1>2. SlotsInv'
  BY <1>1, SlotsKept DEF BatchSubmitted
<1>3. TypeOK'
  BY <1>1, <1>2 DEF TypeOK, BatchSubmitted, SlotsInv
<1>4. QueueIsFresh'
  BY <1>1, OwnerQueue DEF BatchSubmitted, TypeOK
<1>5. ResultsAreTaken'
  BY <1>1, RenderKept DEF BatchSubmitted, ResultsAreTaken
<1>6. QED
  BY <1>2, <1>3, <1>4, <1>5 DEF Inv

LEMMA InspectArchiveKept ==
    ASSUME Inv, InspectArchive
    PROVE  Inv'
<1>1. TypeOK /\ ResultsAreTaken /\ SlotsInv
  BY DEF Inv
<1>2. NoFault \/ OneFault
  BY DEF InspectArchive
<1>3. SlotsInv'
  BY <1>1, <1>2, SlotsKept
<1>4. TypeOK'
  BY <1>1, <1>3 DEF TypeOK, InspectArchive, SlotsInv
<1>5. QueueIsFresh'
  BY <1>1, <1>2, OwnerQueue DEF InspectArchive, TypeOK
<1>6. ResultsAreTaken'
  BY <1>1, RenderKept DEF InspectArchive, ResultsAreTaken
<1>7. QED
  BY <1>3, <1>4, <1>5, <1>6 DEF Inv

LEMMA TakePageKept ==
    ASSUME Inv, TakePage
    PROVE  Inv'
<1>1. TypeOK /\ ResultsAreTaken /\ SlotsInv /\ QueueIsFresh
  BY DEF Inv
<1>2. SlotsInv'
  BY <1>1, SlotsKept DEF TakePage
<1>3. Head(pending) \in Page /\ Tail(pending) \in Seq(Page)
  BY <1>1, SequenceOfPages DEF TakePage, HeadEnded, TypeOK
<1>4. outcome[Head(pending)] \in {"decoded", "rejected", "raised"}
  BY <1>1, <1>3 DEF TypeOK, SlotsTypeOK, QueueIsFresh, TakePage, HeadEnded
<1>5. TypeOK'
  <2>1. pending' \in Seq(Page) /\ ready' \in Seq(Page)
    BY <1>1, <1>3, SequenceOfPages DEF TypeOK, TakePage
  <2>2. queued' \subseteq Page /\ owner' \in {"write", "await", "wait"}
        /\ failure' \in {"none", "rejected", "raised"}
    BY <1>1, <1>4 DEF TypeOK, TakePage
  <2>3. QED
    BY <1>1, <1>2, <2>1, <2>2 DEF TypeOK, TakePage, SlotsInv
<1>6. QueueIsFresh'
  BY <1>1, OwnerQueue DEF TakePage, TypeOK
<1>7. ResultsAreTaken'
  BY <1>1, RenderKept DEF TakePage, ResultsAreTaken
<1>8. QED
  BY <1>2, <1>5, <1>6, <1>7 DEF Inv

LEMMA CloseFailedBatchKept ==
    ASSUME Inv, CloseFailedBatch
    PROVE  Inv'
<1>1. TypeOK /\ ResultsAreTaken /\ SlotsInv
  BY DEF Inv
<1>2. SlotsInv'
  BY <1>1, SlotsKept DEF CloseFailedBatch
<1>3. TypeOK'
  <2>1. buffer' \in [Page -> {"none", "open", "closed"}]
    BY <1>1 DEF TypeOK, CloseFailedBatch, Closed
  <2>2. <<>> \in Seq(Page)
    OBVIOUS
  <2>3. QED
    BY <1>1, <1>2, <2>1, <2>2 DEF TypeOK, CloseFailedBatch, SlotsInv
<1>4. QueueIsFresh'
  BY <1>1, OwnerQueue DEF CloseFailedBatch, TypeOK
<1>5. ResultsAreTaken'
  BY <1>1, RenderKept DEF CloseFailedBatch, ResultsAreTaken
<1>6. QED
  BY <1>2, <1>3, <1>4, <1>5 DEF Inv

LEMMA WritePageKept ==
    ASSUME Inv, WritePage
    PROVE  Inv'
<1>1. TypeOK /\ ResultsAreTaken /\ SlotsInv
  BY DEF Inv
<1>2. NoFault \/ OneFault
  BY DEF WritePage
<1>3. SlotsInv'
  BY <1>1, <1>2, SlotsKept
<1>4. TypeOK'
  <2>1. Head(ready) \in Page /\ Tail(ready) \in Seq(Page)
    BY <1>1, SequenceOfPages DEF WritePage, TypeOK
  <2>2. ready' \in Seq(Page) /\ archive' \in Seq(Page)
    BY <1>1, <2>1, SequenceOfPages DEF TypeOK, WritePage
  <2>3. QED
    BY <1>1, <1>3, <2>2 DEF TypeOK, WritePage, SlotsInv
<1>5. QueueIsFresh'
  BY <1>1, <1>2, OwnerQueue DEF WritePage, TypeOK
<1>6. ResultsAreTaken'
  BY <1>1, RenderKept DEF WritePage, ResultsAreTaken
<1>7. QED
  BY <1>3, <1>4, <1>5, <1>6 DEF Inv

LEMMA CloseBatchKept ==
    ASSUME Inv, CloseBatch
    PROVE  Inv'
<1>1. TypeOK /\ ResultsAreTaken /\ SlotsInv
  BY DEF Inv
<1>2. SlotsInv'
  BY <1>1, SlotsKept DEF CloseBatch
<1>3. TypeOK'
  <2>1. buffer' \in [Page -> {"none", "open", "closed"}] /\ ready' \in Seq(Page)
    BY <1>1 DEF TypeOK, CloseBatch, Closed
  <2>2. QED
    BY <1>1, <1>2, <2>1 DEF TypeOK, CloseBatch, SlotsInv
<1>4. QueueIsFresh'
  BY <1>1, OwnerQueue DEF CloseBatch, TypeOK
<1>5. ResultsAreTaken'
  BY <1>1, RenderKept DEF CloseBatch, ResultsAreTaken
<1>6. QED
  BY <1>2, <1>3, <1>4, <1>5 DEF Inv

LEMMA LeaveExecutorKept ==
    ASSUME Inv, LeaveExecutor, NoFault \/ OneFault,
           archive' \in Seq(Page), result' \in {"rendered", "raised", "unclean"},
           verdict' \in {"none", "excluded", "published"}
    PROVE  Inv'
<1>1. TypeOK /\ ResultsAreTaken /\ SlotsInv
  BY DEF Inv
<1>2. SlotsInv'
  BY <1>1, SlotsKept
<1>3. TypeOK'
  <2>1. buffer' \in [Page -> {"none", "open", "closed"}]
    BY <1>1 DEF TypeOK, LeaveExecutor, Closed
  <2>2. QED
    BY <1>1, <1>2, <2>1 DEF TypeOK, LeaveExecutor, SlotsInv
<1>4. QueueIsFresh'
  BY <1>1, OwnerQueue DEF LeaveExecutor, TypeOK, Idle
<1>5. ResultsAreTaken'
  BY <1>1, RenderKept DEF LeaveExecutor, ResultsAreTaken
<1>6. QED
  BY <1>2, <1>3, <1>4, <1>5 DEF Inv

LEMMA RenderedKept ==
    ASSUME Inv, Rendered \/ DiscardPartial
    PROVE  Inv'
<1>1. TypeOK /\ ResultsAreTaken
  BY DEF Inv
<1>2. LeaveExecutor /\ (NoFault \/ OneFault) /\ archive' \in {archive, <<>>}
  BY DEF Rendered, DiscardPartial
<1>3. archive' \in Seq(Page)
  <2>1. <<>> \in Seq(Page) /\ archive \in Seq(Page)
    BY <1>1 DEF TypeOK
  <2>2. QED
    BY <1>2, <2>1
<1>4. failure \in {"none", "raised"}
  BY <1>1, <1>2 DEF ResultsAreTaken, TypeOK, LeaveExecutor
<1>5. result' \in {"rendered", "raised", "unclean"} /\ verdict' \in {"none", "excluded", "published"}
  BY <1>1, <1>4 DEF TypeOK, Rendered, DiscardPartial
<1>6. QED
  BY <1>2, <1>3, <1>5, LeaveExecutorKept

-----------------------------------------------------------------------------
\* The next call finds every thread at rest.
LEMMA CallAgainKept ==
    ASSUME Inv, CallAgain
    PROVE  Inv'
<1>1. TypeOK /\ ResultsAreTaken /\ SlotsInv /\ QueueIsFresh
  BY DEF Inv
<1>2. queued = {} /\ Running = {}
  BY <1>1 DEF QueueIsFresh, CallAgain, Idle
<1>3. \A p \in Page : at[p] = "none"
  BY <1>1, <1>2 DEF Running, SlotsInv, PlacesFitStages
<1>4. Regular = {} /\ Regular' = {} /\ Waiters' = Waiters
  BY <1>3 DEF Regular, Waiters, InSlot, CallAgain
<1>5. SlotsInv'
  <2>1. SlotsTypeOK'
    BY <1>1 DEF SlotsInv, SlotsTypeOK, CallAgain
  <2>2. SlotsAreCounted'
    BY <1>1, <1>4, CountsKept DEF CallAgain
  <2>3. ExclusiveIsAlone'
    BY <1>1, <1>3 DEF SlotsInv, ExclusiveIsAlone, InSlot, CallAgain
  <2>4. PlacesFitStages' /\ BlameIsOwn' /\ RejectedIsInvalid'
    BY <1>3 DEF PlacesFitStages, BlameIsOwn, RejectedIsInvalid, CallAgain
  <2>5. QED
    BY <2>1, <2>2, <2>3, <2>4 DEF SlotsInv
<1>6. TypeOK'
  <2>1. next' \in 1..(Pages + 1)
    BY SlotsAssumption DEF CallAgain
  <2>2. QED
    BY <1>1, <1>5, <2>1 DEF TypeOK, CallAgain, SlotsInv, Begins
<1>7. QueueIsFresh'
  BY <1>2 DEF QueueIsFresh, CallAgain, Begins, Idle, Running
<1>8. ResultsAreTaken'
  <2>1. Taken' = {}
    BY DEF Taken, CallAgain, Page
  <2>2. QED
    BY <2>1 DEF ResultsAreTaken, CallAgain, Begins
<1>9. QED
  BY <1>5, <1>6, <1>7, <1>8 DEF Inv

\* Nothing of the pipeline changes in a stutter.
LEMMA StutterKept ==
    ASSUME Inv, UNCHANGED vars
    PROVE  Inv'
<1>1. UNCHANGED slots /\ UNCHANGED pool
  BY DEF vars
<1>2. TypeOK /\ ResultsAreTaken /\ SlotsInv /\ QueueIsFresh
  BY DEF Inv
<1>3. SlotsInv' /\ stage' = stage /\ at' = at /\ outcome' = outcome
  BY <1>1, <1>2, SlotsKept DEF NoFault
<1>4. TypeOK'
  BY <1>1, <1>2, <1>3 DEF TypeOK, pool, SlotsInv
<1>5. QueueIsFresh'
  BY <1>1, <1>2, <1>3 DEF QueueIsFresh, pool, Idle, Running
<1>6. ResultsAreTaken'
  BY <1>1, <1>2, <1>3, TakenKept DEF ResultsAreTaken, pool
<1>7. QED
  BY <1>3, <1>4, <1>5, <1>6 DEF Inv

LEMMA NextKept ==
    ASSUME Inv, [Next]_vars
    PROVE  Inv'
<1>1. CASE OwnerStep
  BY <1>1, SpoolPageKept, SubmitSpooledKept, PagesEndKept, TakeResultKept, DrainEndsKept,
     QualifiedKept, EnterScratchKept, SubmitPageKept, BatchSubmittedKept, TakePageKept, CloseFailedBatchKept,
     WritePageKept, CloseBatchKept, InspectArchiveKept, RenderedKept, CallAgainKept
  DEF OwnerStep
<1>2. CASE \E p \in Page : PageStep(p)
  BY <1>2, StartPageKept, RunPageKept DEF PageStep
<1>3. CASE Settled \/ UNCHANGED vars
  BY <1>3, StutterKept DEF Settled
<1>4. QED
  BY <1>1, <1>2, <1>3 DEF Next

-----------------------------------------------------------------------------
(* Buffers and the archive                                                 *)

\* An open buffer belongs to a thread, or to an owner that is going to close it.
OpenIsOwned ==
    \A p \in Page : buffer[p] = "open" =>
        \/ p \in Running
        \/ mode = "qualify" /\ (p \in queued \/ (owner = "submit" /\ p = next))
        \/ /\ mode = "render" /\ outcome[p] = "decoded"
           /\ p \in ToSet(pending) \cup ToSet(ready) \/ owner \in {"write", "close"}

InOrder(s, n) == \A i \in 1..Len(s) : s[i] = n + i

\* The pages that were handed over are in the archive, then among those that are ready,
\* then among those that are pending.
PagesInOrder ==
    /\ InOrder(archive, 0) /\ InOrder(ready, Len(archive))
    /\ InOrder(pending, Len(archive) + Len(ready))
    /\ next = Len(archive) + Len(ready) + Len(pending) + 1

\* What a renderer has at each of its places.
BatchFitsOwner ==
    /\ Running \cup queued \subseteq ToSet(pending)
    /\ owner \in {"write", "close"} => pending = <<>>
    /\ owner \in {"enter", "pages", "exit"} => ready = <<>>
    /\ owner = "enter" => pending = <<>> /\ next = 1
    /\ owner \in {"pages", "await", "write"} => failure = "none"
    /\ owner \in {"wait", "close"} => failure # "none"
    /\ owner = "wait" => queued = {}
    /\ owner \notin {"submit", "drain"}
    /\ failure = "none" /\ owner \notin {"enter", "returned"} => PagesInOrder
    /\ failure = "none" /\ owner = "exit" => next > Pages /\ pending = <<>>

BatchInv ==
    /\ OpenIsOwned
    /\ mode = "render" /\ owner # "returned" => BatchFitsOwner
    /\ mode = "qualify" => /\ archive = <<>> /\ result # "rendered"
                           /\ owner \notin {"enter", "wait", "write", "close"}
    /\ NothingLeftBehind

LEMMA OrderOfPages ==
    ASSUME NEW s \in Seq(Page), NEW n \in Int, InOrder(s, n)
    PROVE  /\ \A p \in Page : p = n + Len(s) + 1 =>
                InOrder(Append(s, p), n) /\ Len(Append(s, p)) = Len(s) + 1
           /\ s # <<>> => /\ InOrder(Tail(s), n + 1) /\ Head(s) = n + 1
                          /\ Len(Tail(s)) = Len(s) - 1 /\ Len(s) >= 1
<1>1. ASSUME NEW p \in Page, p = n + Len(s) + 1
      PROVE  InOrder(Append(s, p), n) /\ Len(Append(s, p)) = Len(s) + 1
  BY <1>1 DEF InOrder
<1>2. ASSUME s # <<>>
      PROVE  /\ InOrder(Tail(s), n + 1) /\ Head(s) = n + 1
             /\ Len(Tail(s)) = Len(s) - 1 /\ Len(s) >= 1
  <2>1. Len(s) >= 1 /\ Len(Tail(s)) = Len(s) - 1 /\ Head(s) = s[1]
    BY <1>2
  <2>2. \A i \in 1..(Len(s) - 1) : Tail(s)[i] = s[i + 1]
    BY <1>2
  <2>3. QED
    BY <2>1, <2>2 DEF InOrder
<1>3. QED
  BY <1>1, <1>2

LEMMA EmptySequence == ToSet(<<>>) = {} /\ Len(<<>>) = 0 /\ \A n \in Int : InOrder(<<>>, n)
BY DEF ToSet, InOrder

LEMMA BatchInitially ==
    ASSUME Init
    PROVE  BatchInv
<1>1. \A p \in Page : buffer[p] = "none"
  BY DEF Init
<1>2. Running = {} /\ queued = {}
  BY DEF Init, SlotsInit, Running
<1>3. PagesInOrder
  BY EmptySequence DEF Init, PagesInOrder
<1>4. mode = "render" => BatchFitsOwner
  BY <1>2, <1>3 DEF Init, BatchFitsOwner, Begins
<1>5. QED
  BY <1>1, <1>4 DEF Init, BatchInv, OpenIsOwned, NothingLeftBehind, Begins

LEMMA StartPageOwned ==
    ASSUME Inv, BatchInv, NEW p \in Page, StartPage(p)
    PROVE  BatchInv'
<1>1. TypeOK /\ QueueIsFresh
  BY DEF Inv
<1>2. owner # "returned" /\ p \in queued
  BY <1>1 DEF QueueIsFresh, Idle, StartPage
<1>3. /\ stage'[p] = "header" /\ \A q \in Page : q # p => stage'[q] = stage[q] /\ buffer'[q] = buffer[q]
      /\ UNCHANGED <<outcome, mode, owner, next, pending, ready, archive, failure, result>>
      /\ queued' = queued \ {p}
  BY <1>1 DEF StartPage, StartDecode, TypeOK, SlotsTypeOK
<1>4. Running' = Running \cup {p}
  BY <1>3 DEF Running
<1>5. OpenIsOwned'
  BY <1>3, <1>4 DEF BatchInv, OpenIsOwned
<1>6. mode = "render" => BatchFitsOwner'
  BY <1>2, <1>3, <1>4 DEF BatchInv, BatchFitsOwner, PagesInOrder
<1>7. QED
  BY <1>2, <1>3, <1>5, <1>6 DEF BatchInv, NothingLeftBehind

LEMMA RunPageOwned ==
    ASSUME Inv, BatchInv, NEW p \in Page, RunPage(p)
    PROVE  BatchInv'
<1>1. TypeOK /\ QueueIsFresh /\ SlotsInv
  BY DEF Inv
<1>2. stage[p] \notin {"none", "ended"}
  BY <1>1 DEF RunPage, DecodeStep, SlotsInv, PlacesFitStages, EnterRegular, QueueExclusive,
     EnterExclusive, Work, Leave, LeaveFailed
<1>3. p \in Running /\ owner # "returned"
  BY <1>1, <1>2 DEF Running, QueueIsFresh, Idle
<1>4. /\ \A q \in Page : q # p => stage'[q] = stage[q] /\ outcome'[q] = outcome[q]
      /\ stage'[p] # "none"
  <2>1. CASE EnterRegular(p) \/ QueueExclusive(p) \/ EnterExclusive(p) \/ Work(p)
    BY <1>2, <2>1 DEF EnterRegular, QueueExclusive, EnterExclusive, Work
  <2>2. CASE Leave(p)
    BY <1>1, <1>2, <2>2 DEF Leave, GoOn, End, TypeOK, SlotsTypeOK
  <2>3. CASE LeaveFailed(p)
    BY <1>1, <1>2, <2>3 DEF LeaveFailed, GoOn, End, TypeOK, SlotsTypeOK
  <2>4. QED
    BY <2>1, <2>2, <2>3 DEF RunPage, DecodeStep
<1>5. UNCHANGED <<mode, owner, next, queued, pending, ready, archive, failure, result>>
  BY DEF RunPage
<1>6. /\ \A q \in Page : q # p => buffer'[q] = buffer[q]
      /\ stage'[p] = "ended" /\ buffer'[p] = "open" => Kept(p)
  BY <1>1 DEF RunPage, TypeOK
<1>7. \A q \in Page : q # p => (q \in Running' <=> q \in Running)
  BY <1>4 DEF Running
<1>8. stage'[p] # "ended" => p \in Running'
  BY <1>4 DEF Running
<1>9. OpenIsOwned'
  <2> SUFFICES ASSUME NEW q \in Page, buffer'[q] = "open"
               PROVE  \/ q \in Running'
                      \/ mode = "qualify" /\ (q \in queued \/ (owner = "submit" /\ q = next))
                      \/ /\ mode = "render" /\ outcome'[q] = "decoded"
                         /\ q \in ToSet(pending) \cup ToSet(ready) \/ owner \in {"write", "close"}
    BY <1>5 DEF OpenIsOwned
  <2>1. CASE q # p
    BY <1>4, <1>6, <1>7, <2>1 DEF BatchInv, OpenIsOwned
  <2>2. CASE q = p /\ stage'[p] = "ended"
    <3>1. mode = "render" /\ outcome'[p] = "decoded"
      BY <1>6, <2>2 DEF Kept
    <3>2. p \in ToSet(pending)
      BY <1>3, <3>1 DEF BatchInv, BatchFitsOwner
    <3>3. QED
      BY <2>2, <3>1, <3>2
  <2>3. QED
    BY <1>8, <2>1, <2>2
<1>10. mode = "render" => BatchFitsOwner'
  <2>1. Running' \subseteq Running
    BY <1>3, <1>7 DEF Running
  <2>2. QED
    BY <1>3, <1>5, <2>1 DEF BatchInv, BatchFitsOwner, PagesInOrder
<1>11. QED
  BY <1>3, <1>5, <1>9, <1>10 DEF BatchInv, NothingLeftBehind

\* The owner moves no thread.
LEMMA ThreadsKept ==
    ASSUME Inv, NoFault \/ OneFault
    PROVE  Running' = Running /\ outcome' = outcome
BY SlotsKept DEF Inv, Running

LEMMA QualifierOwned ==
    ASSUME Inv, BatchInv,
           SpoolPage \/ SubmitSpooled \/ PagesEnd \/ TakeResult \/ DrainEnds \/ Qualified
    PROVE  BatchInv'
<1>1. TypeOK /\ QueueIsFresh
  BY DEF Inv
<1>2. mode = "qualify" /\ mode' = "qualify" /\ archive' = archive
  BY DEF SpoolPage, SubmitSpooled, PagesEnd, TakeResult, DrainEnds, Qualified
<1>3. Running' = Running /\ outcome' = outcome
  BY ThreadsKept DEF SpoolPage, SubmitSpooled, PagesEnd, TakeResult, DrainEnds, Qualified
<1>4. owner \in {"pages", "submit", "await", "drain", "exit"}
  BY DEF SpoolPage, SubmitSpooled, PagesEnd, TakeResult, DrainEnds, Qualified
<1>5. owner' \in {"pages", "submit", "await", "drain", "exit", "returned"}
  BY DEF SpoolPage, SubmitSpooled, PagesEnd, TakeResult, DrainEnds, Qualified, TakeTheOthers
<1>6. OpenIsOwned'
  <2>1. CASE SpoolPage
    BY <1>1, <1>2, <1>3, <2>1 DEF SpoolPage, BatchInv, OpenIsOwned, TypeOK
  <2>2. CASE SubmitSpooled
    BY <1>1, <1>2, <1>3, <2>2 DEF SubmitSpooled, BatchInv, OpenIsOwned, TypeOK
  <2>3. CASE PagesEnd \/ TakeResult \/ DrainEnds \/ Qualified
    BY <1>1, <1>2, <1>3, <2>3
    DEF PagesEnd, TakeResult, DrainEnds, Qualified, BatchInv, OpenIsOwned, TypeOK
  <2>4. QED
    BY <2>1, <2>2, <2>3
<1>7. owner' # "returned" => NothingLeftBehind'
  BY DEF NothingLeftBehind
<1>8. result' # "rendered"
  BY <1>1, <1>2 DEF SpoolPage, SubmitSpooled, PagesEnd, TakeResult, DrainEnds, Qualified,
     BatchInv, TypeOK
<1>9. CASE owner' # "returned"
  BY <1>2, <1>5, <1>6, <1>7, <1>8, <1>9 DEF BatchInv
<1>10. CASE owner' = "returned"
  <2>1. queued' = {} /\ Running' = {}
    BY <1>3, <1>10 DEF SpoolPage, SubmitSpooled, PagesEnd, TakeResult, DrainEnds, Qualified,
       TakeTheOthers, Idle
  <2>2. \A p \in Page : buffer'[p] # "open"
    BY <1>2, <1>6, <1>10, <2>1 DEF OpenIsOwned
  <2>3. NothingLeftBehind'
    BY <1>2, <1>8, <2>1, <2>2 DEF NothingLeftBehind, Idle, BatchInv
  <2>4. QED
    BY <1>2, <1>5, <1>6, <1>8, <2>3 DEF BatchInv
<1>11. QED
  BY <1>9, <1>10

-----------------------------------------------------------------------------
LEMMA EnterScratchOwned ==
    ASSUME Inv, BatchInv, EnterScratch
    PROVE  BatchInv'
<1>1. BatchFitsOwner /\ OpenIsOwned /\ QueueIsFresh /\ failure = "none"
  BY DEF Inv, BatchInv, EnterScratch, ResultsAreTaken
<1>2. Running' = Running /\ outcome' = outcome
  BY ThreadsKept DEF EnterScratch
<1>3. /\ mode = "render" /\ owner = "enter" /\ pending = <<>> /\ ready = <<>> /\ next = 1
      /\ UNCHANGED <<mode, next, queued, pending, ready, buffer>> /\ Running = {} /\ queued = {}
  BY <1>1 DEF EnterScratch, BatchFitsOwner, QueueIsFresh, Idle
<1>4. \A p \in Page : buffer'[p] # "open"
  BY <1>1, <1>3, EmptySequence DEF OpenIsOwned
<1>5. OpenIsOwned'
  BY <1>4 DEF OpenIsOwned
<1>6. CASE archive' = <<>> /\ owner' = "pages" /\ UNCHANGED <<failure, result>>
  <2>1. PagesInOrder'
    BY <1>3, <1>6, EmptySequence DEF PagesInOrder
  <2>2. BatchFitsOwner'
    BY <1>1, <1>2, <1>3, <1>6, <2>1 DEF BatchFitsOwner
  <2>3. QED
    BY <1>3, <1>5, <1>6, <2>2 DEF BatchInv, NothingLeftBehind
<1>7. CASE owner' = "returned" /\ result' = "unclean"
  <2>1. NothingLeftBehind'
    BY <1>2, <1>3, <1>4, <1>7 DEF NothingLeftBehind, Idle
  <2>2. QED
    BY <1>3, <1>5, <1>7, <2>1 DEF BatchInv
<1>8. QED
  BY <1>6, <1>7 DEF EnterScratch, EmptyScratch

LEMMA SubmitPageOwned ==
    ASSUME Inv, BatchInv, SubmitPage
    PROVE  BatchInv'
<1>1. TypeOK /\ BatchFitsOwner /\ OpenIsOwned
  BY DEF Inv, BatchInv, SubmitPage
<1>2. Running' = Running /\ outcome' = outcome
  BY ThreadsKept DEF SubmitPage
<1>3. UNCHANGED <<mode, ready, buffer, archive, result>> /\ owner = "pages" /\ mode = "render"
  BY DEF SubmitPage
<1>4. next \in Page /\ next \in Int /\ pending \in Seq(Page) /\ ready = <<>>
  BY <1>1, SlotsAssumption DEF TypeOK, Page, SubmitPage, BatchComplete, BatchFitsOwner
<1>5. CASE queued' = queued \cup {next} /\ pending' = Append(pending, next) /\ next' = next + 1
           /\ UNCHANGED <<failure, owner>>
  <2>1. ToSet(pending') = ToSet(pending) \cup {next}
    BY <1>4, <1>5, SequenceOfPages
  <2>2. PagesInOrder
    BY <1>1, <1>3 DEF BatchFitsOwner
  <2>3. Len(archive) \in Nat /\ Len(ready) \in Nat /\ Len(pending) \in Nat
    BY <1>1 DEF TypeOK
  <2>4. /\ InOrder(pending', Len(archive) + Len(ready)) /\ Len(pending') = Len(pending) + 1
    BY <1>4, <1>5, <2>2, <2>3, OrderOfPages DEF PagesInOrder
  <2>5. PagesInOrder'
    BY <1>3, <1>4, <1>5, <2>2, <2>3, <2>4 DEF PagesInOrder
  <2>6. BatchFitsOwner'
    BY <1>1, <1>2, <1>3, <1>4, <1>5, <2>1, <2>5 DEF BatchFitsOwner
  <2>7. OpenIsOwned'
    BY <1>1, <1>2, <1>3, <1>5, <2>1 DEF OpenIsOwned
  <2>8. QED
    BY <1>3, <1>5, <2>6, <2>7 DEF BatchInv, NothingLeftBehind
<1>6. CASE failure' = "raised" /\ owner' = "exit" /\ queued' = {} /\ UNCHANGED <<pending, next>>
  <2>1. BatchFitsOwner'
    BY <1>1, <1>2, <1>3, <1>4, <1>6 DEF BatchFitsOwner
  <2>2. OpenIsOwned'
    BY <1>1, <1>2, <1>3, <1>6 DEF OpenIsOwned
  <2>3. QED
    BY <1>3, <1>6, <2>1, <2>2 DEF BatchInv, NothingLeftBehind
<1>7. QED
  BY <1>5, <1>6 DEF SubmitPage

LEMMA BatchSubmittedOwned ==
    ASSUME Inv, BatchInv, BatchSubmitted
    PROVE  BatchInv'
<1>1. BatchFitsOwner /\ OpenIsOwned
  BY DEF Inv, BatchInv, BatchSubmitted
<1>2. Running' = Running /\ outcome' = outcome
  BY ThreadsKept DEF BatchSubmitted
<1>3. BatchFitsOwner'
  BY <1>1, <1>2 DEF BatchFitsOwner, BatchSubmitted, PagesInOrder
<1>4. OpenIsOwned'
  BY <1>1, <1>2 DEF OpenIsOwned, BatchSubmitted
<1>5. QED
  BY <1>3, <1>4 DEF BatchInv, NothingLeftBehind, BatchSubmitted

LEMMA InspectArchiveOwned ==
    ASSUME Inv, BatchInv, InspectArchive
    PROVE  BatchInv'
<1>1. BatchFitsOwner /\ OpenIsOwned /\ TypeOK
  BY DEF Inv, BatchInv, InspectArchive
<1>2. Running' = Running /\ outcome' = outcome
  BY ThreadsKept DEF InspectArchive
<1>3. next > Pages /\ pending = <<>>
  BY <1>1, EmptySequence, WorkersAssumption DEF InspectArchive, BatchComplete
<1>4. BatchFitsOwner'
  BY <1>1, <1>2, <1>3 DEF BatchFitsOwner, InspectArchive, PagesInOrder
<1>5. OpenIsOwned'
  BY <1>1, <1>2 DEF OpenIsOwned, InspectArchive
<1>6. QED
  BY <1>4, <1>5 DEF BatchInv, NothingLeftBehind, InspectArchive

LEMMA TakePageOwned ==
    ASSUME Inv, BatchInv, TakePage
    PROVE  BatchInv'
<1>1. BatchFitsOwner /\ OpenIsOwned /\ TypeOK
  BY DEF Inv, BatchInv, TakePage
<1>2. Running' = Running /\ outcome' = outcome
  BY ThreadsKept DEF TakePage
<1>3. /\ UNCHANGED <<mode, next, buffer, archive, result>> /\ owner = "await" /\ mode = "render"
      /\ pending # <<>> /\ stage[Head(pending)] = "ended"
  BY DEF TakePage, HeadEnded
<1>4. /\ Head(pending) \in Page /\ Tail(pending) \in Seq(Page)
      /\ ToSet(pending) = ToSet(Tail(pending)) \cup {Head(pending)}
      /\ ToSet(Append(ready, Head(pending))) = ToSet(ready) \cup {Head(pending)}
      /\ Append(ready, Head(pending)) \in Seq(Page)
  BY <1>1, <1>3, SequenceOfPages DEF TypeOK
<1>5. Head(pending) \notin Running /\ Head(pending) \notin queued
  BY <1>3 DEF Running, Inv, QueueIsFresh
<1>6. CASE outcome[Head(pending)] = "decoded"
  <2>1. /\ pending' = Tail(pending) /\ ready' = Append(ready, Head(pending))
        /\ owner' = IF Len(pending) = 1 THEN "write" ELSE "await"
        /\ UNCHANGED <<queued, failure>>
    BY <1>6 DEF TakePage
  <2>2. failure = "none" /\ PagesInOrder
    BY <1>1, <1>3 DEF BatchFitsOwner
  <2>3. Len(archive) \in Nat /\ Len(ready) \in Nat /\ pending \in Seq(Page) /\ ready \in Seq(Page)
    BY <1>1 DEF TypeOK
  <2>4. /\ InOrder(Tail(pending), Len(archive) + Len(ready) + 1)
        /\ Head(pending) = Len(archive) + Len(ready) + 1
        /\ Len(Tail(pending)) = Len(pending) - 1 /\ Len(pending) >= 1
    BY <1>3, <2>2, <2>3, OrderOfPages DEF PagesInOrder
  <2>5. InOrder(ready', Len(archive)) /\ Len(ready') = Len(ready) + 1
    BY <1>4, <2>1, <2>2, <2>3, <2>4, OrderOfPages DEF PagesInOrder
  <2>6. PagesInOrder'
    BY <1>3, <2>1, <2>2, <2>3, <2>4, <2>5 DEF PagesInOrder
  <2>7. owner' = "write" => pending' = <<>>
    BY <1>4, <2>1, <2>4
  <2>8. Running' \cup queued' \subseteq ToSet(pending')
    BY <1>1, <1>2, <1>4, <1>5, <2>1 DEF BatchFitsOwner
  <2>9. BatchFitsOwner'
    BY <2>1, <2>2, <2>6, <2>7, <2>8 DEF BatchFitsOwner
  <2>10. OpenIsOwned'
    BY <1>1, <1>2, <1>3, <1>4, <2>1 DEF OpenIsOwned
  <2>11. QED
    BY <1>3, <2>1, <2>9, <2>10 DEF BatchInv, NothingLeftBehind
<1>7. CASE outcome[Head(pending)] # "decoded"
  <2>1. /\ failure' = "raised" /\ owner' = "wait" /\ queued' = {}
        /\ UNCHANGED <<pending, ready>>
    BY <1>7 DEF TakePage
  <2>2. failure' # "none"
    BY <2>1
  <2>3. BatchFitsOwner'
    BY <1>1, <1>2, <2>1, <2>2 DEF BatchFitsOwner
  <2>4. OpenIsOwned'
    BY <1>1, <1>2, <1>3, <2>1 DEF OpenIsOwned
  <2>5. QED
    BY <1>3, <2>1, <2>3, <2>4 DEF BatchInv, NothingLeftBehind
<1>8. QED
  BY <1>6, <1>7

\* What stays open when the images of some pages are closed.
LEMMA ClosedPages ==
    ASSUME Inv, BatchInv, NEW S, mode = "render", Running = {}, NEW p \in Page, Closed(S)[p] = "open"
    PROVE  buffer[p] = "open" /\ p \notin S
BY DEF BatchInv, OpenIsOwned, Closed, Inv, TypeOK

LEMMA CloseFailedBatchOwned ==
    ASSUME Inv, BatchInv, CloseFailedBatch
    PROVE  BatchInv'
<1>1. BatchFitsOwner /\ OpenIsOwned
  BY DEF Inv, BatchInv, CloseFailedBatch
<1>2. Running' = Running /\ outcome' = outcome
  BY ThreadsKept DEF CloseFailedBatch
<1>3. Running = {} /\ mode = "render" /\ owner = "wait" /\ failure # "none"
  BY <1>1 DEF CloseFailedBatch, BatchEnded, BatchFitsOwner
<1>4. \A p \in Page : buffer'[p] # "open"
  BY <1>1, <1>3, ClosedPages DEF CloseFailedBatch, OpenIsOwned
<1>5. OpenIsOwned'
  BY <1>4 DEF OpenIsOwned
<1>6. queued = {}
  BY <1>1, <1>3 DEF BatchFitsOwner
<1>7. BatchFitsOwner'
  BY <1>1, <1>2, <1>3, <1>6 DEF BatchFitsOwner, CloseFailedBatch
<1>8. QED
  BY <1>3, <1>5, <1>7 DEF BatchInv, NothingLeftBehind, CloseFailedBatch

LEMMA WritePageOwned ==
    ASSUME Inv, BatchInv, WritePage
    PROVE  BatchInv'
<1>1. BatchFitsOwner /\ OpenIsOwned /\ TypeOK
  BY DEF Inv, BatchInv, WritePage
<1>2. Running' = Running /\ outcome' = outcome
  BY ThreadsKept DEF WritePage
<1>3. /\ UNCHANGED <<mode, next, queued, pending, buffer, result>>
      /\ owner = "write" /\ mode = "render" /\ ready # <<>> /\ owner' \in {"write", "close"}
  BY DEF WritePage
<1>4. OpenIsOwned'
  BY <1>1, <1>2, <1>3 DEF OpenIsOwned
<1>5. CASE archive' = Append(archive, Head(ready)) /\ ready' = Tail(ready) /\ UNCHANGED <<owner, failure>>
  <2>1. PagesInOrder /\ failure = "none"
    BY <1>1, <1>3 DEF BatchFitsOwner
  <2>2. archive \in Seq(Page) /\ ready \in Seq(Page) /\ Len(archive) \in Nat /\ Len(pending) \in Nat
    BY <1>1 DEF TypeOK
  <2>3. /\ Head(ready) = Len(archive) + 1 /\ InOrder(Tail(ready), Len(archive) + 1)
        /\ Len(Tail(ready)) = Len(ready) - 1 /\ Len(ready) >= 1 /\ Head(ready) \in Page
    BY <1>3, <2>1, <2>2, OrderOfPages, SequenceOfPages DEF PagesInOrder
  <2>4. InOrder(archive', 0) /\ Len(archive') = Len(archive) + 1
    BY <1>5, <2>1, <2>2, <2>3, OrderOfPages DEF PagesInOrder
  <2>5. PagesInOrder'
    BY <1>3, <1>5, <2>1, <2>2, <2>3, <2>4 DEF PagesInOrder
  <2>6. BatchFitsOwner'
    BY <1>1, <1>2, <1>3, <1>5, <2>1, <2>5 DEF BatchFitsOwner
  <2>7. QED
    BY <1>3, <1>4, <2>6 DEF BatchInv, NothingLeftBehind
<1>6. CASE failure' = "raised" /\ owner' = "close" /\ UNCHANGED <<archive, ready>>
  <2>1. BatchFitsOwner'
    BY <1>1, <1>2, <1>3, <1>6 DEF BatchFitsOwner
  <2>2. QED
    BY <1>3, <1>4, <2>1 DEF BatchInv, NothingLeftBehind
<1>7. QED
  BY <1>5, <1>6 DEF WritePage

LEMMA CloseBatchOwned ==
    ASSUME Inv, BatchInv, CloseBatch
    PROVE  BatchInv'
<1>1. BatchFitsOwner /\ OpenIsOwned
  BY DEF Inv, BatchInv, CloseBatch
<1>2. Running' = Running /\ outcome' = outcome
  BY ThreadsKept DEF CloseBatch
<1>3. /\ mode = "render" /\ owner \in {"write", "close"} /\ pending = <<>> /\ (owner = "write" => ready = <<>>)
      /\ Running = {} /\ queued = {} /\ (owner = "close" => failure # "none")
      /\ owner = "write" => failure = "none" /\ PagesInOrder
  BY <1>1, EmptySequence DEF CloseBatch, BatchFitsOwner
<1>4. \A p \in Page : buffer'[p] # "open"
  BY <1>1, <1>3, ClosedPages DEF CloseBatch
<1>5. OpenIsOwned'
  BY <1>4 DEF OpenIsOwned
<1>6. failure' = "none" => PagesInOrder'
  BY <1>3 DEF CloseBatch, PagesInOrder
<1>7. BatchFitsOwner'
  BY <1>2, <1>3, <1>6, EmptySequence DEF BatchFitsOwner, CloseBatch
<1>8. QED
  BY <1>3, <1>5, <1>7 DEF BatchInv, NothingLeftBehind, CloseBatch

\* Every image is closed when the executor has been left.
LEMMA ExecutorOwned ==
    ASSUME Inv, BatchInv, LeaveExecutor, NoFault \/ OneFault,
           result' = "unclean" \/ archive' = IF result' = "rendered" THEN [p \in Page |-> p] ELSE <<>>
    PROVE  BatchInv'
<1>1. BatchFitsOwner /\ OpenIsOwned
  BY DEF BatchInv, LeaveExecutor
<1>2. Running' = Running /\ outcome' = outcome
  BY ThreadsKept
<1>3. mode' = "render" /\ mode = "render" /\ Running = {} /\ queued' = {} /\ owner' = "returned"
  BY DEF LeaveExecutor, Idle
<1>4. ready = <<>>
  BY <1>1 DEF LeaveExecutor, BatchFitsOwner
<1>5. \A p \in Page : buffer'[p] # "open"
  <2>1. CASE pending = <<>>
    BY <1>1, <1>3, <1>4, <2>1, EmptySequence DEF LeaveExecutor, OpenIsOwned
  <2>2. CASE pending # <<>>
    BY <1>1, <1>3, <1>4, <2>2, ClosedPages, EmptySequence DEF LeaveExecutor, OpenIsOwned
  <2>3. QED
    BY <2>1, <2>2
<1>6. QED
  BY <1>2, <1>3, <1>5 DEF BatchInv, OpenIsOwned, NothingLeftBehind, Idle

\* A renderer that returns without an error has written all pages, each at its place.
LEMMA RenderedOwned ==
    ASSUME Inv, BatchInv, Rendered
    PROVE  BatchInv'
<1>1. BatchFitsOwner /\ TypeOK
  BY DEF Inv, BatchInv, Rendered, LeaveExecutor
<1>2. PagesInOrder /\ next > Pages /\ pending = <<>> /\ ready = <<>>
  BY <1>1 DEF BatchFitsOwner, Rendered, LeaveExecutor
<1>3. Len(archive) = Pages /\ archive \in Seq(Page)
  BY <1>1, <1>2, SlotsAssumption, EmptySequence DEF PagesInOrder, TypeOK
<1>4. archive = [p \in Page |-> p]
  BY <1>2, <1>3 DEF PagesInOrder, InOrder, Page
<1>5. QED
  BY <1>4, ExecutorOwned DEF Rendered

LEMMA DiscardPartialOwned ==
    ASSUME Inv, BatchInv, DiscardPartial
    PROVE  BatchInv'
<1>1. failure # "rendered"
  BY DEF Inv, TypeOK
<1>2. QED
  BY <1>1, ExecutorOwned DEF DiscardPartial

LEMMA CallAgainOwned ==
    ASSUME Inv, BatchInv, CallAgain
    PROVE  BatchInv'
<1>1. queued' = {} /\ Running' = {}
  BY DEF Inv, QueueIsFresh, CallAgain, Idle, Running
<1>2. mode' \in {"render", "qualify"} /\ (mode' = "qualify" => mode = "qualify")
  BY DEF Inv, TypeOK, CallAgain
<1>3. mode' = "render" => BatchFitsOwner'
  BY <1>1, EmptySequence DEF BatchFitsOwner, CallAgain, Begins
<1>4. QED
  BY <1>2, <1>3 DEF BatchInv, OpenIsOwned, NothingLeftBehind, CallAgain, Begins

LEMMA StutterOwned ==
    ASSUME BatchInv, UNCHANGED vars
    PROVE  BatchInv'
BY DEF BatchInv, OpenIsOwned, BatchFitsOwner, PagesInOrder, NothingLeftBehind, Idle, Running,
   vars, slots, pool

LEMMA BatchKept ==
    ASSUME Inv, BatchInv, [Next]_vars
    PROVE  BatchInv'
<1>1. CASE OwnerStep
  BY <1>1, QualifierOwned, EnterScratchOwned, SubmitPageOwned, BatchSubmittedOwned,
     TakePageOwned, CloseFailedBatchOwned, WritePageOwned, CloseBatchOwned, InspectArchiveOwned,
     RenderedOwned, DiscardPartialOwned, CallAgainOwned
  DEF OwnerStep
<1>2. CASE \E p \in Page : PageStep(p)
  BY <1>2, StartPageOwned, RunPageOwned DEF PageStep
<1>3. CASE Settled \/ UNCHANGED vars
  BY <1>3, StutterOwned DEF Settled
<1>4. QED
  BY <1>1, <1>2, <1>3 DEF Next

-----------------------------------------------------------------------------
(* Theorems                                                                *)

\* What the slots, the pool and the owner know of each other fits together in every
\* reachable state.
THEOREM Invariance == Spec => [](Inv /\ BatchInv)
<1>1. Init => Inv /\ BatchInv
  BY Initially, BatchInitially
<1>2. Inv /\ BatchInv /\ [Next]_vars => (Inv /\ BatchInv)'
  BY NextKept, BatchKept
<1>3. QED
  BY <1>1, <1>2, PTL DEF Spec

\* The states of the owner and of the page threads are those of the code.
THEOREM TypeCorrectness == Spec => []TypeOK
<1>1. Inv => TypeOK
  BY DEF Inv
<1>2. QED
  BY <1>1, Invariance, PTL

\* For any number of pages and threads, and whatever else fails meanwhile, only pages
\* whose bytes are bad are called bad (_load_source_image, _is_invalid_input).
THEOREM OnlyBadPagesRejected == Spec => []RejectedIsInvalid
<1>1. Inv => RejectedIsInvalid
  BY DEF Inv, SlotsInv
<1>2. QED
  BY <1>1, Invariance, PTL

\* No verdict on a gallery is given while one of its pages could not be judged
\* (ImageGalleryQualifier.__call__).
THEOREM FailuresAreRaised == Spec => []ErrorsPropagate
<1>1. ASSUME Inv
      PROVE  ErrorsPropagate
  <2> SUFFICES ASSUME owner = "returned", result \in {"accepted", "rejected"}
               PROVE  /\ \A p \in Page : outcome[p] # "raised"
                      /\ result = "accepted" => \A p \in Page : outcome[p] = "decoded"
    BY DEF ErrorsPropagate
  <2>1. TypeOK /\ ResultsAreTaken /\ QueueIsFresh
    BY <1>1 DEF Inv
  <2>2. mode = "qualify"
    BY <2>1 DEF ResultsAreTaken, TypeOK
  <2>3. failure # "raised" /\ pending = <<>> /\ (result = "accepted" => failure = "none")
    BY <2>1, <2>2 DEF ResultsAreTaken, TypeOK
  <2>4. \A p \in Page : p < next => p \in Taken
    BY <2>3 DEF Taken, ToSet
  <2>5. ASSUME NEW p \in Page
        PROVE  outcome[p] # "raised" /\ (result = "accepted" => outcome[p] = "decoded")
    <3>1. p \in Int /\ next \in Int /\ p <= Pages /\ Pages \in Int
      BY <2>1, SlotsAssumption DEF Page, TypeOK
    <3>2. CASE p < next
      BY <2>1, <2>2, <2>3, <2>4, <3>2 DEF ResultsAreTaken
    <3>3. CASE p >= next
      <4>1. outcome[p] = "none"
        BY <2>1, <3>3 DEF QueueIsFresh
      <4>2. failure # "none"
        BY <2>1, <2>2, <3>1, <3>3 DEF ResultsAreTaken
      <4>3. QED
        BY <2>3, <4>1, <4>2
    <3>4. QED
      BY <3>1, <3>2, <3>3
  <2>6. QED
    BY <2>5
<1>2. QED
  BY <1>1, Invariance, PTL

\* Whenever a call returns, its threads have ended and its buffers are closed; its
\* stream has all pages in their order when it succeeded, and otherwise nothing, unless
\* emptying it failed as well (_decode_page_contents, _render_page_batch,
\* _ArchiveScratch).
THEOREM CallsCleanUp == Spec => []NothingLeftBehind
<1>1. BatchInv => NothingLeftBehind
  BY DEF BatchInv
<1>2. QED
  BY <1>1, Invariance, PTL
=============================================================================
