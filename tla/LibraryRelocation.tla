------------------------- MODULE LibraryRelocation -------------------------
(***************************************************************************)
(* Offline verification of a library that was moved or copied, so that no  *)
(* file has the identity its journal rows were given any more              *)
(* (library_relocation.py, _relocation_files.py, _library_maintenance.py). *)
(* The command hashes every file that a row names, binds the row to what   *)
(* it finds, audits all of it once more and only then lets readers and the *)
(* runtime in.  It may be killed, and the machine may lose power, between  *)
(* any two steps; somebody may meanwhile change the files.                 *)
(***************************************************************************)
EXTENDS Naturals, FiniteSets, FiniteSetsExt

CONSTANTS
    NumItems,       \* storage paths and released tokens, in cursor order
    MaxUnusual,     \* bound: only so many items, the last, are not simply published
    Limit,          \* batch size of a step
    MaxMoves,       \* bound: later moves of the library
    MaxChanges      \* bound: changes of files that somebody else makes

ASSUME RelocationAssumption ==
    /\ NumItems \in Nat \ {0} /\ Limit \in Nat \ {0}
    /\ MaxUnusual \in Nat /\ MaxMoves \in Nat /\ MaxChanges \in Nat

VARIABLES
    row, at,            \* journal rows and files of each item
    root,               \* identity of the directory the library is in
    phase, cursor, authority, original,     \* library_relocation_session
    saved, old,         \* library_relocation_files: this session's, earlier ones
    marker, durable,    \* the ACTIVATING marker, seen and after power loss
    step, first, budget, seen,  \* the command: its step and its page
    whole,              \* history: what the last audit started from
    moves, changes

library == <<row, at, root>>
session == <<phase, cursor, authority, original>>
records == <<saved, old>>
fence == <<marker, durable>>
command == <<step, first, budget, seen, whole>>
world == <<moves, changes>>
vars == <<library, session, records, fence, command, world>>

Item == 1..NumItems

-----------------------------------------------------------------------------
(* Files and rows.  A file is known by its inode (old, new or somebody     *)
(* else's), what is in it and how often its metadata changed.  A signature *)
(* also says which root the inode belongs to.                              *)

Place == {"quarantine", "stage", "temp", "current"}

NoFile == [inode |-> 0, data |-> "none", change |-> 0]
OldFile == [inode |-> 1, data |-> "a", change |-> 0]
NewFile(data) == [inode |-> 2, data |-> data, change |-> 0]
Foreigner(n, data) == [inode |-> 2 + n, data |-> data, change |-> 0]

NoSig == [inode |-> 0, change |-> 0, root |-> 0]
SigAt(f, where) ==
    IF f = NoFile THEN NoSig ELSE [inode |-> f.inode, change |-> f.change, root |-> where]
Sig(i, p) == SigAt(at[i][p], root)
SameInode(s, t) == s.inode = t.inode /\ s.root = t.root

\* current_entries, pending_entries, pending_removals, protection_tokens
NoRow == [digest |-> "none", sig |-> NoSig, state |-> "none"]
Row(digest, f, state) == [digest |-> digest, sig |-> SigAt(f, 1), state |-> state]
Has(r) == r.digest # "none"
Sealed(r) == r.sig # NoSig

Files(quarantine, stage, temp, current) ==
    [quarantine |-> quarantine, stage |-> stage, temp |-> temp, current |-> current]

Rows(current, pending, removal, token) ==
    [current |-> current, pending |-> pending, removal |-> removal, token |-> token]

Keeping(files, pending, token) ==
    [rows |-> Rows(Row("a", OldFile, "current"), pending, NoRow, token), files |-> files]
Fresh(files, pending, token) == [rows |-> Rows(NoRow, pending, NoRow, token), files |-> files]

Published == Keeping(Files(NoFile, NoFile, NoFile, OldFile), NoRow, NoRow)

\* What LibraryProtection and LibraryActivation leave of one item at rest.
Protecting ==
    LET token(state, f) == Row("b", f, state)
        held == {Files(NoFile, NoFile, NewFile("part"), OldFile),
                 Files(NoFile, NoFile, NewFile("b"), OldFile),
                 Files(NoFile, NewFile("b"), NoFile, OldFile)}
    IN  {Keeping(fs, NoRow, token("WRITING", NoFile)) : fs \in held}
        \cup {Keeping(Files(NoFile, NewFile("b"), NoFile, OldFile), NoRow,
                      token("STAGED", NewFile("b")))}

Installing ==
    UNION {LET staged == Row(d, NewFile(d), "STAGED")
               started == Row(d, NoFile, "started")
           IN {Keeping(Files(NoFile, NewFile(d), NoFile, OldFile), Row(d, NoFile, "listed"), staged),
               Keeping(Files(NoFile, NewFile(d), NoFile, OldFile), started, staged),
               Keeping(Files(OldFile, NewFile(d), NoFile, NoFile), started, staged),
               Keeping(Files(OldFile, NoFile, NoFile, NewFile(d)), started, staged),
               Keeping(Files(NoFile, NoFile, NoFile, NewFile(d)), started, staged),
               Fresh(Files(NoFile, NewFile(d), NoFile, NoFile), started, staged),
               Fresh(Files(NoFile, NoFile, NoFile, NewFile(d)), started, staged)} : d \in {"a", "b"}}

Activated ==
    {Keeping(Files(NoFile, NoFile, NoFile, OldFile), Row("a", f, "started"), NoRow) :
        f \in {NoFile, OldFile}}
    \cup {[rows |-> Rows(Row("b", NewFile("b"), "current"), Row("b", NewFile("b"), "started"),
                         NoRow, NoRow),
           files |-> Files(NoFile, NoFile, NoFile, NewFile("b"))]}

Removing ==
    LET of(state, files) ==
            [rows |-> Rows(Row("a", OldFile, "current"), NoRow, Row("a", OldFile, state), NoRow),
             files |-> files]
    IN  {of("listed", Published.files), of("started", Published.files),
         of("started", Files(OldFile, NoFile, NoFile, NoFile)),
         of("started", Files(NoFile, NoFile, NoFile, NoFile))}

\* A released token whose bytes are not cleaned up yet; its path is another item.
Released ==
    {[rows |-> Rows(NoRow, NoRow, NoRow, Row("b", f, "RELEASED")), files |-> fs] :
        f \in {NoFile, NewFile("b")},
        fs \in {Files(NoFile, NoFile, NoFile, NoFile), Files(NoFile, NewFile("b"), NoFile, NoFile)}}
    \cup {[rows |-> Rows(NoRow, NoRow, NoRow, Row("b", NoFile, "RELEASED")),
           files |-> Files(NoFile, NoFile, NewFile("part"), NoFile)]}

Situation == {Published} \cup Protecting \cup Installing \cup Activated \cup Removing \cup Released

IsReleased(i) == row[i].token.state = "RELEASED"
Publishing(i) == row[i].pending.state = "started" \/ row[i].removal.state = "started"

Unlooked == [NoSig EXCEPT !.change = 1]     \* a place whose file nobody looked at
Nothing == [p \in Place |-> Unlooked]

Init ==
    /\ \E chosen \in [Item -> Situation] :
         /\ \A i \in Item : i + MaxUnusual <= NumItems => chosen[i] = Published
         /\ row = [i \in Item |-> chosen[i].rows]
         /\ at = [i \in Item |-> chosen[i].files]
    /\ root = 2     \* moved; the rows name inodes of root 1
    /\ phase = "none" /\ cursor = 0 /\ authority = 0 /\ original = FALSE
    /\ saved = [i \in Item |-> Nothing] /\ old = 0
    /\ marker \in IF \E i \in Item : Publishing(i) THEN {"publication"}
                  ELSE {"none", "publication"}
    /\ durable = marker
    /\ step = "off" /\ first = FALSE /\ budget = 0 /\ seen = Nothing
    /\ whole = FALSE /\ moves = 0 /\ changes = 0

-----------------------------------------------------------------------------
(* _resolve: which file does each row of an item mean?                     *)

Matches(f, r) == f # NoFile /\ f.data = r.digest

Active(i) == Has(row[i].pending) /\ row[i].pending.state = "started" /\ ~Sealed(row[i].pending)

\* Mutation: what the activation has put in place is not recognised.
NeverInstalled(i) == FALSE

\* The staged file has already been renamed to its current name.
Installed(i) ==
    LET f == at[i] token == row[i].token IN
    /\ token.state = "STAGED" /\ f.stage = NoFile /\ f.temp = NoFile
    /\ Active(i) /\ token.digest = row[i].pending.digest
    /\ Matches(f.current, token)

\* Where the file of the current row is.
CurrentAt(i) ==
    CASE ~Has(row[i].current) -> "nowhere"
      [] Has(row[i].current) /\ at[i].quarantine # NoFile -> "quarantine"
      [] OTHER -> IF at[i].current # NoFile /\ ~Installed(i) THEN "current" ELSE "nowhere"

StagingRefused(i) ==
    LET f == at[i] token == row[i].token IN
    /\ Has(token)
    /\ \/ f.stage # NoFile /\ f.temp # NoFile
       \/ f.stage # NoFile /\ ~Matches(f.stage, token)
       \/ f.temp # NoFile /\ ~Matches(f.temp, token)
          /\ (Sealed(token) \/ token.state = "STAGED")
       \/ token.state = "STAGED" /\ f.stage = NoFile /\ ~Installed(i)

\* The bytes alone do not tell which of two files this is.
Ambiguous(i) ==
    LET visible == Sig(i, "current") IN
    /\ Has(row[i].current) /\ at[i].quarantine = NoFile /\ Installed(i)
    /\ Matches(at[i].current, row[i].current)
    /\ \/ ~SameInode(visible, row[i].token.sig)
       \/ SameInode(visible, row[i].current.sig)

CurrentRefused(i) ==
    LET f == at[i] IN
    IF ~Has(row[i].current) THEN f.current # NoFile /\ ~Installed(i)
    ELSE \/ CurrentAt(i) # "nowhere" /\ ~Matches(f[CurrentAt(i)], row[i].current)
         \/ f.quarantine # NoFile /\ ~Active(i) /\ row[i].removal.state # "started"
         \/ f.quarantine # NoFile /\ f.current # NoFile /\ ~Installed(i)
         \/ CurrentAt(i) = "nowhere" /\ ~Installed(i) /\ row[i].removal.state # "started"
         \/ Ambiguous(i)

\* _tokens: a released token owns one file at most, which may be incomplete only as
\* long as its bytes were never sealed.
ReleasedRefused(i) ==
    LET f == at[i] token == row[i].token IN
    \/ f.stage # NoFile /\ f.temp # NoFile
    \/ f.stage # NoFile /\ ~Matches(f.stage, token)
    \/ f.temp # NoFile /\ Sealed(token) /\ ~Matches(f.temp, token)
ReleasedAt(i) == IF at[i].stage # NoFile THEN "stage" ELSE "temp"

Refused(i) ==
    IF IsReleased(i) THEN ReleasedRefused(i)
    ELSE \/ StagingRefused(i) \/ CurrentRefused(i)
         \/ Sealed(row[i].pending) /\ ~Matches(at[i].current, row[i].pending)

\* The file a token is bound to, and so on for the other rows.
TokenAt(i) ==
    IF IsReleased(i) THEN ReleasedAt(i)
    ELSE IF Installed(i) THEN "current" ELSE "stage"

Bind(r, i, p) ==
    [digest |-> r.digest, state |-> r.state,
     sig |-> IF Sealed(r) /\ p # "nowhere" /\ at[i][p] # NoFile THEN Sig(i, p) ELSE r.sig]

Bound(i) ==
    [current |-> Bind(row[i].current, i, CurrentAt(i)),
     pending |-> Bind(row[i].pending, i, "current"),
     removal |-> Bind(row[i].removal, i, CurrentAt(i)),
     token   |-> Bind(row[i].token, i, TokenAt(i))]

\* What is looked at, absent files included, and put on record.
Looked(i) ==
    {p \in Place : \/ p = "current" /\ ~IsReleased(i)
                   \/ p = "quarantine" /\ Has(row[i].current)
                   \/ p \in {"stage", "temp"} /\ Has(row[i].token)}
Observation(i) == [p \in Place |-> IF p \in Looked(i) THEN Sig(i, p) ELSE Unlooked]

-----------------------------------------------------------------------------
(* One step of the command, with both locks held: session and marker. *)

Goto(where) == step' = where /\ UNCHANGED <<first, budget, seen, whole>>

\* An error ends the command, and so does a kill.
Gone == first' = FALSE /\ budget' = 0 /\ seen' = Nothing /\ whole' = FALSE
Ended == step' = "off" /\ Gone

StepDone == step' = "idle" /\ budget' = 0 /\ UNCHANGED <<first, seen, whole>>

Run ==
    /\ step \in {"off", "killed"}
    /\ step' = "idle" /\ first' = TRUE
    /\ UNCHANGED <<library, session, records, fence, budget, seen, whole, world>>

\* A completed session is started afresh by a new command, or after a move.
BeginsSession == phase = "none" \/ (phase = "COMPLETE" /\ (first \/ authority # root))

OnRecord == {f \in Item \X Place : saved[f[1]][f[2]] # Unlooked}

Begin ==
    /\ step = "idle" /\ BeginsSession
    /\ IF marker \in {"none", "publication"}
       THEN /\ phase' = "CLEANUP" /\ cursor' = 0 /\ authority' = root
            /\ original' = (marker = "publication")
            /\ durable' = marker
            /\ saved' = [i \in Item |-> Nothing] /\ old' = old + Cardinality(OnRecord)
            /\ Goto("marking")
       ELSE Ended /\ UNCHANGED <<session, records, durable>>
    /\ UNCHANGED <<library, marker, world>>

\* Mutation: only an interrupted audit is repeated, not its acknowledgement.
RestartsInAudit == first /\ phase = "AUDIT"
RestartsAudit == first /\ phase \in {"AUDIT", "FINALIZING"}

\* An unfinished session goes on, in the root it was begun in and nowhere
\* else; a command whose session is completed has ended.
Continue ==
    /\ step = "idle" /\ ~BeginsSession
    /\ IF authority # root \/ phase = "COMPLETE" THEN Ended
       ELSE IF phase # "FINALIZING" \/ RestartsAudit THEN Goto("marking")
       ELSE Goto("working")
    /\ UNCHANGED <<library, session, records, fence, world>>

Wanted == IF original THEN "publication" ELSE "ours"

\* _ensure_marker; reading a marker also makes it durable.
MarkerFound ==
    /\ step = "marking" /\ marker = Wanted
    /\ durable' = marker
    /\ Goto("fenced")
    /\ UNCHANGED <<library, session, records, marker, world>>

CreateMarker ==
    /\ step = "marking" /\ marker # Wanted
    /\ IF original \/ marker = "publication" THEN Ended /\ UNCHANGED marker
       ELSE marker' = "partial" /\ Goto("writing")
    /\ UNCHANGED <<library, session, records, durable, world>>

\* Mutation: the new marker is not synced.
FencedUnsynced == "fenced"
AfterWrite == "syncing"

WriteMarker ==
    /\ step = "writing"
    /\ marker' = "ours"
    /\ Goto(AfterWrite)
    /\ UNCHANGED <<library, session, records, durable, world>>

SyncMarker ==
    /\ step = "syncing"
    /\ durable' = marker
    /\ Goto("fenced")
    /\ UNCHANGED <<library, session, records, marker, world>>

-----------------------------------------------------------------------------
(* The phases.  Every one goes through its rows in pages of Limit.         *)

\* The row names a file with its bytes.
Follows(r, i) ==
    Sealed(r) => \E p \in Place : Sig(i, p) = r.sig /\ at[i][p].data = r.digest

\* Nothing was there when the record was made.  Unlike a file, which never has
\* an earlier signature again, nothing may turn into something and back unseen.
Absent(i, p) == saved[i][p] = NoSig

\* The activation or the removal has legitimately got rid of the old file.
Retired(i) ==
    /\ Absent(i, "quarantine")
    /\ IF row[i].removal.state = "started" THEN Absent(i, "current")
       ELSE Active(i) /\ Sealed(row[i].token) /\ row[i].token.sig = Sig(i, "current")

\* History: every file on record is there, every row follows its bytes unless
\* they are on record as legitimately gone, and a row of the old file never
\* follows the new one.
Whole ==
    \A i \in Item :
        /\ \A p \in Place : saved[i][p] \in {Unlooked, NoSig, Sig(i, p)}
        /\ Follows(row[i].current, i) \/ Retired(i)
        /\ Follows(row[i].removal, i) \/ Retired(i)
        /\ Follows(row[i].pending, i)
        /\ \/ Follows(row[i].token, i)
           \/ IsReleased(i) /\ Absent(i, "stage") /\ Absent(i, "temp")
        /\ Sealed(row[i].current) /\ Sealed(row[i].token) =>
             row[i].current.sig # row[i].token.sig

\* Mutation: a phase goes on with the cursor of the last one.
EnterAtCursor(ph) == phase' = ph /\ UNCHANGED <<cursor, authority, original>>

Enter(ph) ==
    /\ phase' = ph /\ cursor' = 0
    /\ UNCHANGED <<authority, original>>

Fenced ==
    /\ step = "fenced"
    /\ step' = "working" /\ budget' = Limit
    /\ IF RestartsAudit THEN Enter("AUDIT") /\ whole' = Whole
       ELSE UNCHANGED <<session, whole>>
    /\ first' = FALSE /\ UNCHANGED seen
    /\ UNCHANGED <<library, records, fence, world>>

Cleanup ==
    /\ step = "working" /\ phase = "CLEANUP"
    /\ old' = IF old > Limit THEN old - Limit ELSE 0
    /\ IF old < Limit THEN Enter("SCAN") ELSE UNCHANGED session
    /\ StepDone
    /\ UNCHANGED <<library, saved, fence, world>>

\* The files on record in the order of their names.
Rank == [p \in Place |-> CASE p = "quarantine" -> 0 [] p = "temp" -> 1
                           [] p = "stage" -> 2 [] p = "current" -> 3]
Key(i, p) == Rank[p] * NumItems + i

\* The rows of a phase that are still ahead of its cursor.
Ahead ==
    CASE phase = "SCAN"   -> {i \in Item : i > cursor /\ ~IsReleased(i)}
      [] phase = "TOKENS" -> {i \in Item : i > cursor /\ IsReleased(i)}
      [] phase = "AUDIT"  -> {k \in {Key(f[1], f[2]) : f \in OnRecord} : k > cursor}
      [] OTHER -> {}

Verify ==
    /\ step = "working" /\ phase \in {"SCAN", "TOKENS"} /\ budget > 0 /\ Ahead # {}
    /\ LET i == Min(Ahead) IN
       IF Refused(i) THEN Ended
       ELSE step' = "verified" /\ seen' = Observation(i) /\ UNCHANGED <<first, budget, whole>>
    /\ UNCHANGED <<library, session, records, fence, world>>

\* Everything is looked at again before the transaction that binds it.
Record ==
    /\ step = "verified"
    /\ LET i == Min(Ahead) IN
       IF Observation(i) # seen THEN Ended /\ UNCHANGED <<row, saved, cursor>>
       ELSE /\ row' = [row EXCEPT ![i] = Bound(i)]
            /\ saved' = [saved EXCEPT ![i] = seen]
            /\ cursor' = i
            /\ step' = "working" /\ budget' = budget - 1 /\ seen' = Nothing
            /\ UNCHANGED <<first, whole>>
    /\ UNCHANGED <<at, root, phase, authority, original, old, fence, world>>

\* Mutation: the audit looks for the files and not at their identity.
StillThere(i, p) == (saved[i][p] = NoSig) = (at[i][p] = NoFile)
Unchanged(i, p) == saved[i][p] = Sig(i, p)

Audit ==
    /\ step = "working" /\ phase = "AUDIT" /\ budget > 0 /\ Ahead # {}
    /\ LET k == Min(Ahead) IN
       \E i \in Item, p \in Place :
         /\ Key(i, p) = k
         /\ IF Unchanged(i, p)
            THEN cursor' = k /\ budget' = budget - 1 /\ UNCHANGED <<step, first, seen, whole>>
            ELSE Ended /\ UNCHANGED cursor
    /\ UNCHANGED <<library, phase, authority, original, records, fence, world>>

Following == [SCAN |-> "TOKENS", TOKENS |-> "AUDIT", AUDIT |-> "FINALIZING"]

\* A page that is not full was the last one.
PageDone ==
    /\ step = "working" /\ phase \in DOMAIN Following
    /\ budget = 0 \/ Ahead = {}
    /\ step' = "idle" /\ budget' = 0
    /\ IF budget > 0 THEN Enter(Following[phase]) ELSE UNCHANGED session
    /\ whole' = IF phase = "TOKENS" THEN Whole ELSE whole
    /\ UNCHANGED <<library, records, fence, first, seen, world>>

\* _finalize: a publication keeps the marker it had.
Finalize ==
    /\ step = "working" /\ phase = "FINALIZING"
    /\ IF original /\ marker = "publication"
       THEN durable' = marker /\ Goto("finalized") /\ UNCHANGED marker
       ELSE IF ~original /\ marker = "ours" THEN marker' = "none" /\ Goto("unlinked") /\ UNCHANGED durable
       ELSE IF ~original /\ marker = "none" THEN durable' = "none" /\ Goto("finalized") /\ UNCHANGED marker
       ELSE Ended /\ UNCHANGED fence
    /\ UNCHANGED <<library, session, records, world>>

Unlinked ==
    /\ step = "unlinked"
    /\ durable' = marker
    /\ Goto("finalized")
    /\ UNCHANGED <<library, session, records, marker, world>>

Completed ==
    /\ step = "finalized"
    /\ phase' = "COMPLETE" /\ UNCHANGED <<cursor, authority, original>>
    /\ StepDone
    /\ UNCHANGED <<library, records, fence, world>>

-----------------------------------------------------------------------------
(* The environment. *)

Kill ==
    /\ step \notin {"off", "killed"}
    /\ step' = "killed" /\ Gone
    /\ UNCHANGED <<library, session, records, fence, world>>

PowerLoss ==
    /\ marker # durable
    /\ marker' \in {marker, durable} \cup (IF marker = "ours" THEN {"partial"} ELSE {})
    /\ durable' = marker'
    /\ step' = "killed" /\ Gone
    /\ UNCHANGED <<library, session, records, world>>

\* Somebody removes a file, replaces it or changes its metadata, or puts one
\* where there was none.
Tamper(i, p) ==
    LET f == at[i][p] n == changes + 1 IN
    /\ n <= MaxChanges /\ changes' = n
    /\ \E g \in IF f = NoFile THEN {Foreigner(n, data) : data \in {"a", "b"}}
                ELSE {NoFile, [f EXCEPT !.change = n],
                      Foreigner(n, f.data), Foreigner(n, "other")} :
         at' = [at EXCEPT ![i][p] = g]
    /\ UNCHANGED <<row, root, session, records, fence, command, moves>>

\* The library is moved again, or back.
Move ==
    /\ step \in {"off", "killed"} /\ moves < MaxMoves
    /\ moves' = moves + 1
    /\ root' \in {2, 3} \ {root}
    /\ UNCHANGED <<row, at, session, records, fence, command, changes>>

CommandNext ==
    \/ Run \/ Begin \/ Continue
    \/ MarkerFound \/ CreateMarker \/ WriteMarker \/ SyncMarker \/ Fenced
    \/ Cleanup \/ Verify \/ Record \/ Audit \/ PageDone
    \/ Finalize \/ Unlinked \/ Completed

Next ==
    \/ CommandNext \/ Kill \/ PowerLoss \/ Move
    \/ \E i \in Item : \E p \in Looked(i) : Tamper(i, p)

Spec == Init /\ [][Next]_vars

\* The command runs on, the operator starts it again when it has ended, and
\* at some time it is no longer killed.
FairSpec == Spec /\ WF_vars(CommandNext) /\ <>[](step # "killed")

-----------------------------------------------------------------------------
Phases == {"none", "CLEANUP", "SCAN", "TOKENS", "AUDIT", "FINALIZING", "COMPLETE"}
Sigs == [inode: 0..(2 + MaxChanges), change: 0..MaxChanges, root: 0..3]

TypeOK ==
    /\ \A i \in Item : /\ \A t \in DOMAIN row[i] : row[i][t].sig \in Sigs
                       /\ \A p \in Place : saved[i][p] \in Sigs \cup {Unlooked}
    /\ phase \in Phases /\ authority \in 0..3 /\ {original, first, whole} \subseteq BOOLEAN
    /\ cursor \in CASE phase \in {"SCAN", "TOKENS"} -> 0..NumItems
                   [] phase = "AUDIT" -> 0..(4 * NumItems)
                   [] OTHER -> {0}
    /\ marker \in {"none", "partial", "ours", "publication"} /\ old \in Nat
    /\ step \in {"off", "killed", "idle", "marking", "writing", "syncing", "fenced", "working",
                 "verified", "unlinked", "finalized"}
    /\ budget \in 0..Limit

\* From the first row that is bound to the last that is audited a complete
\* marker of the session, or of the publication it found, keeps readers out,
\* also after a power loss; and the fence of an unfinished publication stays.
ReadersFenced ==
    /\ phase \in {"SCAN", "TOKENS", "AUDIT"} => durable = Wanted /\ marker = Wanted
    /\ (\E i \in Item : Publishing(i)) => durable = "publication"

\* A relocation is completed only by a command during which, at one moment,
\* every file on record was there as recorded and every row was bound to the
\* bytes it names, or its file on record as legitimately gone.
CertifiedIsTrue == [][phase' = "COMPLETE" /\ phase # "COMPLETE" => whole]_vars

Unfinished == phase \notin {"none", "COMPLETE"}

\* What an interrupted activation, removal or protection has left is accepted
\* and an interrupted relocation gets done, unless somebody changes files,
\* moves the library on, or the bytes cannot tell two files apart.
RelocationCompletes ==
    Unfinished ~> \/ ~Unfinished
                  \/ changes > 0 \/ authority # root \/ \E i \in Item : Ambiguous(i)

\* relocate.py, line 40: "Correct the reported condition and rerun the same command to
\* resume the journal checkpoint."  When every file is such that the scan
\* would accept it, rerunning the command gets the relocation done.
CorrectedIsResumed ==
    Unfinished ~> ~Unfinished \/ authority # root \/ \E i \in Item : Refused(i)
=============================================================================
