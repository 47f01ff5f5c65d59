----------------------------- MODULE DecodeSlots -----------------------------
(***************************************************************************)
(* How the page threads of a process share the native image library        *)
(* (source_image.py): regular decodes run together, an exclusive one runs  *)
(* alone and goes first (_DecodeScheduler), and a failed decode is tried   *)
(* once more on its own before its bytes are called bad, because the text  *)
(* of native errors is one buffer for the whole process.                   *)
(***************************************************************************)
EXTENDS Integers, FiniteSets

CONSTANTS
    Pages,          \* pages of a gallery: 1..Pages, in the order of their names
    MaxFaults       \* bound: storage and resource failures

ASSUME SlotsAssumption == Pages \in Nat \ {0} /\ MaxFaults \in Nat

Page == 1..Pages

VARIABLES
    invalid,        \* pages whose bytes no decoder accepts
    interlaced,     \* pages whose header asks for an exclusive decode
    stage,          \* of each page's thread: "none", "header", "decode", "alone", "ended"
    at,             \* where that stage is: "wants", "waits", "holds", "ran", "failed"
    active, exclusive, waiting,     \* _DecodeScheduler
    errors,         \* the lines in the error buffer of the library
    cause,          \* what went wrong in the stage: "none", "native" or "storage"
    outcome,        \* of each thread: "none", "decoded", "rejected" or "raised"
    faults

slots == <<invalid, interlaced, stage, at, active, exclusive, waiting, errors, cause, outcome, faults>>

SlotsInit ==
    /\ invalid \in SUBSET Page /\ interlaced \in SUBSET Page
    /\ stage = [p \in Page |-> "none"] /\ at = [p \in Page |-> "none"]
    /\ active = 0 /\ exclusive = FALSE /\ waiting = 0
    /\ errors = {} /\ cause = [p \in Page |-> "none"]
    /\ outcome = [p \in Page |-> "none"] /\ faults = 0

SlotsTypeOK ==
    /\ invalid \subseteq Page /\ interlaced \subseteq Page
    /\ stage \in [Page -> {"none", "header", "decode", "alone", "ended"}]
    /\ at \in [Page -> {"none", "wants", "waits", "holds", "ran", "failed"}]
    /\ active \in Nat /\ exclusive \in BOOLEAN /\ waiting \in Nat
    /\ errors \subseteq {"invalid", "other"}
    /\ cause \in [Page -> {"none", "native", "storage"}]
    /\ outcome \in [Page -> {"none", "decoded", "rejected", "raised"}]
    /\ faults \in Nat /\ faults <= MaxFaults

\* A thread takes up a page: load_source_image.
StartDecode(p) ==
    /\ stage' = [stage EXCEPT ![p] = "header"] /\ at' = [at EXCEPT ![p] = "wants"]
    /\ UNCHANGED <<invalid, interlaced, active, exclusive, waiting, errors, cause, outcome, faults>>

-----------------------------------------------------------------------------
(* _DecodeScheduler.acquire                                                *)

\* Mutation: a failed decode is tried again next to the others.
Together(p) == stage[p] = "decode" /\ p \in interlaced
Alone(p) == stage[p] = "alone" \/ (stage[p] = "decode" /\ p \in interlaced)

EnterRegular(p) ==
    /\ at[p] = "wants" /\ ~Alone(p)
    /\ ~exclusive /\ waiting = 0
    /\ active' = active + 1 /\ at' = [at EXCEPT ![p] = "holds"]
    /\ UNCHANGED <<invalid, interlaced, stage, exclusive, waiting, errors, cause, outcome, faults>>

QueueExclusive(p) ==
    /\ at[p] = "wants" /\ Alone(p)
    /\ waiting' = waiting + 1 /\ at' = [at EXCEPT ![p] = "waits"]
    /\ UNCHANGED <<invalid, interlaced, stage, active, exclusive, errors, cause, outcome, faults>>

\* Mutation: the place in the queue is kept when the slot is taken.
StillQueued == waiting
LeftQueue == waiting - 1

EnterExclusive(p) ==
    /\ at[p] = "waits"
    /\ active = 0 /\ ~exclusive
    /\ exclusive' = TRUE /\ waiting' = LeftQueue /\ at' = [at EXCEPT ![p] = "holds"]
    /\ UNCHANGED <<invalid, interlaced, stage, active, errors, cause, outcome, faults>>

-----------------------------------------------------------------------------
(* Work under a slot                                                       *)

\* The buffer the work starts with: trying alone clears it first.
Buffer(p) == IF stage[p] = "alone" THEN {} ELSE errors

\* The library succeeds; doing so it may clear what others left in the buffer.
Succeed(p) ==
    /\ p \notin invalid \/ stage[p] = "header"
    /\ at' = [at EXCEPT ![p] = "ran"]
    /\ errors' \in {Buffer(p), {}}
    /\ UNCHANGED <<cause, faults>>

\* It finds the bytes bad, runs out of some resource, or its read callback fails.
Fail(p) ==
    /\ at' = [at EXCEPT ![p] = "failed"]
    /\ \/ /\ p \in invalid
          /\ errors' = Buffer(p) \cup {"invalid"}
          /\ cause' = [cause EXCEPT ![p] = "native"]
          /\ UNCHANGED faults
       \/ /\ faults < MaxFaults /\ faults' = faults + 1
          /\ errors' = Buffer(p) \cup {"other"}
          /\ \E c \in {"native", "storage"} : cause' = [cause EXCEPT ![p] = c]

Work(p) ==
    /\ at[p] = "holds"
    /\ Succeed(p) \/ Fail(p)
    /\ UNCHANGED <<invalid, interlaced, stage, active, exclusive, waiting, outcome>>

Release(p) ==
    IF Alone(p) THEN exclusive' = FALSE /\ UNCHANGED active
                ELSE active' = active - 1 /\ UNCHANGED exclusive

GoOn(p, next) == stage' = [stage EXCEPT ![p] = next] /\ at' = [at EXCEPT ![p] = "wants"]
End(p, result) ==
    /\ stage' = [stage EXCEPT ![p] = "ended"] /\ at' = [at EXCEPT ![p] = "none"]
    /\ outcome' = [outcome EXCEPT ![p] = result]

Leave(p) ==
    /\ at[p] = "ran"
    /\ Release(p)
    /\ IF stage[p] = "header" THEN GoOn(p, "decode") /\ UNCHANGED outcome ELSE End(p, "decoded")
    /\ UNCHANGED <<invalid, interlaced, waiting, errors, cause, faults>>

\* _is_invalid_input: every line is one of the few that only bad bytes explain.
InvalidInput(lines) == lines = {"invalid"}

\* The exception takes the text of the buffer with it and empties it.  Only the
\* text of a failure alone counts; a failed read is raised as it was.
LeaveFailed(p) ==
    /\ at[p] = "failed"
    /\ Release(p)
    /\ errors' = {}
    /\ IF cause[p] = "storage" THEN End(p, "raised")
       ELSE IF stage[p] # "alone" THEN GoOn(p, "alone") /\ UNCHANGED outcome
       ELSE End(p, IF InvalidInput(errors) THEN "rejected" ELSE "raised")
    /\ cause' = [cause EXCEPT ![p] = "none"]
    /\ UNCHANGED <<invalid, interlaced, waiting, faults>>

DecodeStep(p) ==
    \/ EnterRegular(p) \/ QueueExclusive(p) \/ EnterExclusive(p)
    \/ Work(p) \/ Leave(p) \/ LeaveFailed(p)
=============================================================================
