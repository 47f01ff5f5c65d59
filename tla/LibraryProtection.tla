------------------------- MODULE LibraryProtection -------------------------
(***************************************************************************)
(* Protection of immutable bytes in the library's staging directory:       *)
(* protect, release and maintain_cleanup (library.py), run by concurrent   *)
(* threads and processes under the publication lock (shared for protect,   *)
(* exclusive for the others) and one stripe lock per token.                *)
(*                                                                         *)
(* Each token has one staging inode, reachable under a temporary and under *)
(* a final name.  Its bytes and its names become durable separately.       *)
(* LibraryActivation takes each of these handlers as one step.             *)
(***************************************************************************)
EXTENDS Naturals, Sequences, FiniteSets

CONSTANTS
    Token, Path, PathOf,    \* protection tokens and the storage path of each
    Stripe, StripeOf,       \* protection lock stripes
    NoToken,                \* what an idle actor works on
    Writer,                 \* threads that may call protect
    Cleaner,                \* the caller of release and maintain_cleanup
    CleanupItems,           \* page size of maintain_cleanup
    MaxFaults               \* bound: interrupted calls and power losses

ASSUME ProtectionAssumption ==
    /\ PathOf \in [Token -> Path]
    /\ StripeOf \in [Token -> Stripe]
    /\ NoToken \notin Token
    /\ Cleaner \notin Writer
    /\ CleanupItems \in Nat \ {0} /\ MaxFaults \in Nat

Actor == Writer \cup {Cleaner}
Names == {"temporary", "final"}

VARIABLES
    row,            \* the journal row of each token
    wanted,         \* tokens an unfinished activation still has to install
    dir, disk,      \* tokens under each kind of name: seen, and durable
    data, synced,   \* the bytes of each token's inode; are they durable ?
    at, on, todo,   \* each actor: where it is, its token, its system calls
    page,           \* rows the running maintenance call has still to clean
    refused,        \* release or maintenance raised RuntimeError
    faults

files == <<dir, disk, data, synced>>
calls == <<at, on, todo, page>>
vars == <<row, wanted, files, calls, refused, faults>>

-----------------------------------------------------------------------------
(* Rows and locks. *)

\* staging_leaf and the four signature columns, set or NULL
Row == {r \in [state: {"none", "WRITING", "STAGED", "INSTALLED", "RELEASED"},
               leaf: BOOLEAN, sig: BOOLEAN] : r.sig => r.leaf}
NoRow == [state |-> "none", leaf |-> FALSE, sig |-> FALSE]

State(t) == row[t].state

Unknown(t) == State(t) = "none"

\* Mutation: the signature columns are not cleared with the leaf.
ForgottenLeaf(t) == [row EXCEPT ![t].leaf = FALSE]
Forgotten(t) == [row EXCEPT ![t].leaf = FALSE, ![t].sig = FALSE]

\* Mutation: the leaf is cleared by the transaction that releases the row.
ReleasedAndForgotten(t) == [row EXCEPT ![t] = [NoRow EXCEPT !.state = "RELEASED"]]
ReleasedRow(t) == [row EXCEPT ![t].state = "RELEASED"]

\* Mutation: authority is read from the state, which release has changed.
AuthorizesByState(t) == State(t) = "WRITING"

\* _stage_row_authorizes_partial_temporary: a WRITING row has a leaf and no
\* signature, and keeps that shape when it is released.
AuthorizesPartial(t) == row[t].leaf /\ ~row[t].sig

SlotFree(t) ==
    ~\E u \in Token : PathOf[u] = PathOf[t] /\ State(u) \in {"WRITING", "STAGED"}

Busy(x) == at[x] # "idle"

\* publication.lock: shared by protects, exclusive for everything else
SharedFree == ~Busy(Cleaner)

\* Mutation: the exclusive lock does not wait for writers.
ExclusiveUnfenced == ~Busy(Cleaner)
ExclusiveFree == ~\E x \in Actor : Busy(x)

StripeFree(t) == ~\E w \in Writer : Busy(w) /\ StripeOf[on[w]] = StripeOf[t]

-----------------------------------------------------------------------------
(* Scripts of system calls, decided from the names a call finds. *)

Shown(t) == {n \in Names : t \in dir[n]}
Exact(t) == data[t] = "full"
Raise == <<"raise">>

\* Mutation: the final name is not synced before the row becomes STAGED.
PublishUnsynced == <<"open", "fill", "syncFile", "syncDir", "publish">>

\* _publish_resumable_file
Publish == <<"open", "fill", "syncFile", "syncDir", "publish", "syncDir">>

\* _heal_same_inode_rename_duplicate, dropping one of two names
Heal(drop) == <<"syncDir", drop, "syncFile", "syncDir">>

\* the file part of _protect
StageScript(t) ==
    CASE "final" \notin Shown(t) -> Publish
      [] Shown(t) = {"final"}    -> IF Exact(t) THEN <<"syncFile", "syncDir">> ELSE Raise
      [] Shown(t) = Names        -> IF Exact(t) THEN Heal("dropTemporary") ELSE Raise

\* _remove_stage_from_row; an absent name is made durably absent
RemoveFinal(t) ==
    IF "final" \in Shown(t) THEN <<"dropFinal", "syncDir">> ELSE <<"syncDir">>

\* _remove_stage_temporary
RemoveTemporary(t) ==
    IF "temporary" \notin Shown(t) THEN <<"syncDir">> ELSE <<"dropTemporary", "syncDir">>

\* _heal_released_stage_duplicate, _remove_stage_from_row,
\* _remove_stage_temporary.  Only the last tolerates inexact bytes.
CleanScript(t) ==
    CASE ~row[t].leaf ->
            IF Shown(t) = {} THEN <<"syncDir">> ELSE Raise
      [] row[t].leaf /\ Shown(t) = Names ->
            IF Exact(t) THEN Heal("dropFinal") \o <<"syncDir", "dropTemporary", "syncDir">>
            ELSE Raise
      [] row[t].leaf /\ Shown(t) = {"final"} ->
            IF Exact(t) THEN RemoveFinal(t) \o RemoveTemporary(t) ELSE Raise
      [] row[t].leaf /\ "final" \notin Shown(t) ->
            IF "temporary" \in Shown(t) => Exact(t) \/ AuthorizesPartial(t)
            THEN RemoveFinal(t) \o RemoveTemporary(t) ELSE Raise

\* _discard_uncommitted_stage: the writer knows the bytes it has just published, but
\* not what became of its temporary.
Discard(t) ==
    IF "final" \in Shown(t) /\ (Shown(t) = Names \/ ~Exact(t)) THEN Raise
    ELSE RemoveFinal(t) \o RemoveTemporary(t)

\* Returning or raising releases the locks.
Leave(x) ==
    /\ at' = [at EXCEPT ![x] = "idle"]
    /\ on' = [on EXCEPT ![x] = NoToken]
    /\ todo' = [todo EXCEPT ![x] = <<>>]
    /\ page' = IF x = Cleaner THEN {} ELSE page

Enter(x, where, t, script) ==
    /\ at' = [at EXCEPT ![x] = where]
    /\ on' = [on EXCEPT ![x] = t]
    /\ todo' = [todo EXCEPT ![x] = script]

Init ==
    /\ row = [t \in Token |-> NoRow] /\ wanted = {}
    /\ dir = [n \in Names |-> {}] /\ disk = dir
    /\ data = [t \in Token |-> "prefix"] /\ synced = [t \in Token |-> TRUE]
    /\ at = [x \in Actor |-> "idle"] /\ on = [x \in Actor |-> NoToken]
    /\ todo = [x \in Actor |-> <<>>] /\ page = {}
    /\ refused = FALSE /\ faults = 0

-----------------------------------------------------------------------------
(* protect.  A token that is STAGED, INSTALLED or RELEASED is answered from *)
(* its row, and a taken slot is refused: neither changes any state.        *)

MayProtect(w, t) == ~Busy(w) /\ SharedFree /\ StripeFree(t)

ProtectNew(w, t) ==
    /\ MayProtect(w, t)
    /\ Unknown(t) /\ SlotFree(t)
    /\ row' = [row EXCEPT ![t] = [state |-> "WRITING", leaf |-> TRUE, sig |-> FALSE]]
    /\ Enter(w, "look", t, <<>>)
    /\ UNCHANGED <<wanted, files, page, refused, faults>>

ProtectResumed(w, t) ==
    /\ MayProtect(w, t)
    /\ State(t) = "WRITING"
    /\ Enter(w, "look", t, <<>>)
    /\ UNCHANGED <<row, wanted, files, page, refused, faults>>

Look(w) ==
    /\ at[w] = "look"
    /\ Enter(w, "write", on[w], StageScript(on[w]))
    /\ UNCHANGED <<row, wanted, files, page, refused, faults>>

\* The second transaction.  A row released meanwhile takes its bytes along;
\* the locks leave that branch to a writer that has lost them.
CommitStaged(w) ==
    /\ at[w] \in {"write", "discard"} /\ todo[w] = <<>>
    /\ IF at[w] = "write" /\ State(on[w]) = "RELEASED"
       THEN /\ Enter(w, "discard", on[w], Discard(on[w]))
            /\ UNCHANGED <<row, page>>
       ELSE /\ row' = IF at[w] = "discard" THEN row
                      ELSE [row EXCEPT ![on[w]].state = "STAGED", ![on[w]].sig = TRUE]
            /\ Leave(w)
    /\ UNCHANGED <<wanted, files, refused, faults>>

-----------------------------------------------------------------------------
(* release. *)

\* A token the journal never saw gets a tombstone.
ReleaseUnknown(t) ==
    /\ ExclusiveFree /\ State(t) = "none"
    /\ IF Shown(t) # {} THEN refused' = TRUE /\ UNCHANGED row
       ELSE /\ row' = [row EXCEPT ![t] = [NoRow EXCEPT !.state = "RELEASED"]]
            /\ UNCHANGED refused
    /\ UNCHANGED <<wanted, files, calls, faults>>

\* The row is terminal before any byte is removed.
ReleaseKnown(t) ==
    /\ ExclusiveFree /\ State(t) # "none" /\ t \notin wanted
    /\ IF State(t) # "RELEASED" /\ (State(t) = "WRITING" <=> ~AuthorizesPartial(t))
       THEN refused' = TRUE /\ UNCHANGED <<row, calls>>
       ELSE /\ row' = ReleasedRow(t)
            /\ Enter(Cleaner,
                     IF State(t) # "RELEASED" /\ row[t].leaf THEN "release" ELSE "replay",
                     t, CleanScript(t))
            /\ UNCHANGED <<page, refused>>
    /\ UNCHANGED <<wanted, files, faults>>

\* Only the call that released the row clears its leaf; a replay leaves that
\* to maintenance.
Released ==
    /\ at[Cleaner] \in {"release", "replay"} /\ todo[Cleaner] = <<>>
    /\ row' = IF at[Cleaner] = "release"
              THEN Forgotten(on[Cleaner]) ELSE row
    /\ Leave(Cleaner)
    /\ UNCHANGED <<wanted, files, refused, faults>>

-----------------------------------------------------------------------------
(* maintain_cleanup; BLOCKED while an activation is unfinished. *)

\* Mutation: rows that never got a signature are not selected.
EligibleSigned == {t \in Token : State(t) = "RELEASED" /\ row[t].leaf /\ row[t].sig}
Eligible == {t \in Token : State(t) = "RELEASED" /\ row[t].leaf}

\* ORDER BY token: an arbitrary but fixed order, so any page may come first.
Maintain ==
    /\ ExclusiveFree /\ wanted = {} /\ Eligible # {}
    /\ \E rows \in SUBSET Eligible :
         /\ rows # {} /\ Cardinality(rows) <= CleanupItems
         /\ Cardinality(rows) < CleanupItems => rows = Eligible
         /\ page' = rows
    /\ at' = [at EXCEPT ![Cleaner] = "maintain"]
    /\ UNCHANGED <<row, wanted, files, on, todo, refused, faults>>

MaintainRow ==
    /\ at[Cleaner] = "maintain" /\ page # {}
    /\ \E t \in page :
         /\ Enter(Cleaner, "clean", t, CleanScript(t))
         /\ page' = page \ {t}
    /\ UNCHANGED <<row, wanted, files, refused, faults>>

MaintainedRow ==
    /\ at[Cleaner] = "clean" /\ todo[Cleaner] = <<>>
    /\ row' = Forgotten(on[Cleaner])
    /\ Enter(Cleaner, "maintain", NoToken, <<>>)
    /\ UNCHANGED <<wanted, files, page, refused, faults>>

Maintained ==
    /\ at[Cleaner] = "maintain" /\ page = {}
    /\ Leave(Cleaner)
    /\ UNCHANGED <<row, wanted, files, refused, faults>>

-----------------------------------------------------------------------------
(* Activation, whole (LibraryActivation has its steps). *)

OpenActivation ==
    /\ ExclusiveFree /\ wanted = {}
    /\ \E ts \in SUBSET {t \in Token : State(t) = "STAGED"} :
         ts # {} /\ wanted' = ts
    /\ UNCHANGED <<row, files, calls, refused, faults>>

Install(t) ==
    /\ ExclusiveFree /\ t \in wanted
    /\ row' = [row EXCEPT ![t] = [NoRow EXCEPT !.state = "INSTALLED"]]
    /\ wanted' = wanted \ {t}
    /\ dir' = [dir EXCEPT !["final"] = @ \ {t}]
    /\ disk' = dir'
    /\ UNCHANGED <<data, synced, calls, refused, faults>>

-----------------------------------------------------------------------------
(* One system call of an actor. *)

NextIs(x, op) == todo[x] # <<>> /\ Head(todo[x]) = op

Proceed(x) ==
    /\ todo' = [todo EXCEPT ![x] = Tail(@)]
    /\ UNCHANGED <<at, on, page, refused>>

\* Raising out of a call that may not refuse is remembered.
Fail(x) == Leave(x) /\ refused' = (refused \/ x = Cleaner)

\* O_CREAT | O_EXCL, or the old temporary if it is an exact source prefix
Open(x) ==
    LET t == on[x] IN
    /\ NextIs(x, "open")
    /\ \/ /\ t \notin dir["temporary"]
          /\ dir' = [dir EXCEPT !["temporary"] = @ \cup {t}]
          /\ data' = [data EXCEPT ![t] = "prefix"]
          /\ synced' = [synced EXCEPT ![t] = FALSE]
          /\ Proceed(x)
       \/ /\ t \in dir["temporary"] /\ data[t] # "torn"
          /\ Proceed(x) /\ UNCHANGED <<dir, data, synced>>
       \/ /\ t \in dir["temporary"] /\ data[t] = "torn"
          /\ Fail(x) /\ UNCHANGED <<dir, data, synced>>
    /\ UNCHANGED <<row, wanted, disk, faults>>

Fill(x) ==
    /\ NextIs(x, "fill")
    /\ data' = [data EXCEPT ![on[x]] = "full"]
    /\ synced' = [synced EXCEPT ![on[x]] = @ /\ Exact(on[x])]
    /\ Proceed(x)
    /\ UNCHANGED <<row, wanted, dir, disk, faults>>

SyncFile(x) ==
    /\ NextIs(x, "syncFile")
    /\ synced' = [synced EXCEPT ![on[x]] = TRUE]
    /\ Proceed(x)
    /\ UNCHANGED <<row, wanted, dir, disk, data, faults>>

\* All staging names share one directory.
SyncDir(x) ==
    /\ NextIs(x, "syncDir")
    /\ disk' = dir
    /\ Proceed(x)
    /\ UNCHANGED <<row, wanted, dir, data, synced, faults>>

\* RENAME_NOREPLACE of the temporary, still exact, to the final name
Rename(x) ==
    LET t == on[x] IN
    /\ NextIs(x, "publish")
    /\ IF Shown(t) = {"temporary"} /\ Exact(t)
       THEN /\ dir' = [temporary |-> dir["temporary"] \ {t}, final |-> dir["final"] \cup {t}]
            /\ Proceed(x)
       ELSE Fail(x) /\ UNCHANGED dir
    /\ UNCHANGED <<row, wanted, disk, data, synced, faults>>

NameDropped == [dropTemporary |-> "temporary", dropFinal |-> "final"]

\* _unlink_verified_at; "raise" is a verification that found other names or
\* bytes than the row allows, in whichever call it happens.
Remove(x) ==
    /\ todo[x] # <<>> /\ Head(todo[x]) \in DOMAIN NameDropped \cup {"raise"}
    /\ LET op == Head(todo[x]) IN
       IF op # "raise" /\ on[x] \in dir[NameDropped[op]]
       THEN dir' = [dir EXCEPT ![NameDropped[op]] = @ \ {on[x]}] /\ Proceed(x)
       ELSE Fail(x) /\ UNCHANGED dir
    /\ UNCHANGED <<row, wanted, disk, data, synced, faults>>

Perform(x) ==
    Open(x) \/ Fill(x) \/ SyncFile(x) \/ SyncDir(x) \/ Rename(x) \/ Remove(x)

-----------------------------------------------------------------------------
(* Faults. *)

\* An exception or a killed process ends one call and releases its locks.
Interrupt(x) ==
    /\ Busy(x) /\ faults < MaxFaults
    /\ faults' = faults + 1
    /\ Leave(x)
    /\ UNCHANGED <<row, wanted, files, refused>>

\* A name changed since the last sync may be old or new, but a renamed file
\* keeps one of its names.  Bytes not synced may be cut short or garbled.
PowerLoss ==
    /\ faults < MaxFaults
    /\ \E kept \in [Names -> SUBSET Token] :
         /\ \A n \in Names : kept[n] \subseteq dir[n] \cup disk[n]
                             /\ dir[n] \cap disk[n] \subseteq kept[n]
         /\ \A t \in Token :
              (\E n \in Names : t \in dir[n]) /\ (\E n \in Names : t \in disk[n])
                  => \E n \in Names : t \in kept[n]
         /\ dir' = kept /\ disk' = kept
    /\ data' \in {left \in [Token -> {"prefix", "torn", "full"}] :
                    \A t \in Token : left[t] = data[t] \/ (~synced[t] /\ left[t] # "full")}
    /\ synced' = [t \in Token |-> TRUE]
    /\ at' = [x \in Actor |-> "idle"] /\ on' = [x \in Actor |-> NoToken]
    /\ todo' = [x \in Actor |-> <<>>] /\ page' = {}
    /\ faults' = faults + 1
    /\ UNCHANGED <<row, wanted, refused>>

WriterNext(w) ==
    \/ \E t \in Token : ProtectNew(w, t) \/ ProtectResumed(w, t)
    \/ Look(w) \/ CommitStaged(w)

CleanerStep == Released \/ MaintainRow \/ MaintainedRow \/ Maintained

Next ==
    \/ \E w \in Writer : WriterNext(w)
    \/ \E t \in Token : ReleaseUnknown(t) \/ ReleaseKnown(t) \/ Install(t)
    \/ Maintain \/ CleanerStep \/ OpenActivation
    \/ \E x \in Actor : Perform(x) \/ Interrupt(x)
    \/ PowerLoss

Spec == Init /\ [][Next]_vars

\* A started call goes on.  The writers of a cycle are done before the next
\* one, which begins with maintenance; an activation that was opened is done
\* in the cycle that follows.  So neither can be put off for ever.
FairSpec ==
    /\ Spec
    /\ []<>(\A w \in Writer : at[w] = "idle")
    /\ \A w \in Writer : WF_vars(Look(w) \/ CommitStaged(w) \/ Perform(w))
    /\ WF_vars(CleanerStep \/ Perform(Cleaner))
    /\ SF_vars(Maintain) /\ SF_vars(\E t \in Token : Install(t))

-----------------------------------------------------------------------------
TypeOK ==
    /\ row \in [Token -> Row] /\ wanted \subseteq Token
    /\ dir \in [Names -> SUBSET Token] /\ disk \in [Names -> SUBSET Token]
    /\ data \in [Token -> {"prefix", "torn", "full"}]
    /\ synced \in [Token -> BOOLEAN]
    /\ at \in [Actor -> {"idle", "look", "write", "discard",
                         "release", "replay", "maintain", "clean"}]
    /\ on \in [Actor -> Token \cup {NoToken}]
    /\ todo \in [Actor -> Seq({"open", "fill", "syncFile", "syncDir", "publish",
                               "dropTemporary", "dropFinal", "raise"})]
    /\ page \subseteq Token
    /\ refused \in BOOLEAN /\ faults \in 0..MaxFaults

\* Evidence is true: what protect reported as stored survives a power loss,
\* complete and under exactly its final name, until it is installed or
\* released.
EvidenceIsDurable ==
    \A t \in Token : State(t) = "STAGED" =>
        /\ data[t] = "full" /\ synced[t]
        /\ t \in dir["final"] /\ t \in disk["final"]
        /\ t \notin dir["temporary"] /\ t \notin disk["temporary"]

\* A row without a leaf owns no file, not even one that a power loss could
\* bring back: after that nobody would look for it again.
NoOrphanStaging ==
    \A t \in Token : ~row[t].leaf =>
        \A n \in Names : t \notin dir[n] /\ t \notin disk[n]

\* Whatever a writer left behind and whenever it was stopped, release and
\* maintenance can remove it; only protect may refuse a garbled temporary.
CleanupNeverRefused == ~refused

\* Private bytes of a released token do not stay for ever, also when the
\* call that released it was interrupted.
ReleasedIsCleaned ==
    \A t \in Token : (State(t) = "RELEASED" /\ row[t].leaf) ~> ~row[t].leaf
=============================================================================
