---------------------- MODULE LibraryProtection_proofs ----------------------
(***************************************************************************)
(* Proofs about LibraryProtection, for every set of tokens, paths, lock    *)
(* stripes and writers, every page size and any number of faults.          *)
(*                                                                         *)
(* The inductive invariant Inv says what the two kinds of lock guarantee   *)
(* (LocksHeld, WorkFitsRow), what the files of a token may be in each      *)
(* state of its row, whenever its caller was stopped (FilesFitRow), and,   *)
(* for every point of a script, what the directory already shows           *)
(* (ScriptsFitFiles).                                                      *)
(***************************************************************************)
EXTENDS LibraryProtection, TLAPS

Temporary(t) == t \in dir["temporary"]
Final(t) == t \in dir["final"]
Safe(t) == data[t] = "full" /\ synced[t]
Gone(t) == \A n \in Names : t \notin dir[n] /\ t \notin disk[n]
Stored(t) ==
    /\ Final(t) /\ t \in disk["final"]
    /\ ~Temporary(t) /\ t \notin disk["temporary"]

\* One cleaner and no writer, or writers on tokens of different stripes.
LocksHeld ==
    /\ Busy(Cleaner) => \A w \in Writer : ~Busy(w)
    /\ \A v, w \in Writer : Busy(v) /\ Busy(w) /\ v # w => StripeOf[on[v]] # StripeOf[on[w]]

\* Only a WRITING row has a writer at work, only a RELEASED one the cleaner.
WorkFitsRow ==
    /\ \A w \in Writer :
         \/ at[w] = "idle" /\ todo[w] = <<>>
         \/ at[w] = "look" /\ todo[w] = <<>> /\ on[w] \in Token /\ State(on[w]) = "WRITING"
         \/ at[w] = "write" /\ on[w] \in Token /\ State(on[w]) = "WRITING"
    /\ \/ at[Cleaner] \in {"idle", "maintain"} /\ todo[Cleaner] = <<>>
       \/ /\ at[Cleaner] \in {"release", "replay", "clean"}
          /\ on[Cleaner] \in Token /\ State(on[Cleaner]) = "RELEASED"
    /\ \A t \in page : State(t) = "RELEASED"
    /\ \A t \in wanted : State(t) = "STAGED"

\* The shape of a row in each state.
RowIsWhole(t) ==
    /\ State(t) \in {"none", "INSTALLED"} => ~row[t].leaf
    /\ State(t) = "WRITING" => row[t].leaf /\ ~row[t].sig
    /\ State(t) = "STAGED" => row[t].sig

\* A file has its final name only with all its bytes safe; while it is being
\* written, that name is never one that only the disk still has.
FilesFitRow(t) ==
    /\ ~row[t].leaf => Gone(t)
    /\ row[t].sig \/ Final(t) \/ t \in disk["final"] => Safe(t)
    /\ State(t) = "WRITING" /\ t \in disk["final"] => Final(t)
    /\ State(t) = "STAGED" => Stored(t)

\* What a writer has already achieved at each point of its script.
WriterReady(t, s) ==
    \/ s = Raise
    \/ s = <<"open", "fill", "syncFile", "syncDir", "publish", "syncDir">> /\ ~Final(t)
    \/ s = <<"fill", "syncFile", "syncDir", "publish", "syncDir">> /\ ~Final(t)
    \/ s = <<"syncFile", "syncDir", "publish", "syncDir">> /\ ~Final(t) /\ data[t] = "full"
    \/ s = <<"syncDir", "publish", "syncDir">> /\ ~Final(t) /\ Safe(t)
    \/ s = <<"publish", "syncDir">> /\ ~Final(t) /\ Safe(t)
    \/ s = <<"syncDir", "dropTemporary", "syncFile", "syncDir">> /\ Final(t)
    \/ s = <<"dropTemporary", "syncFile", "syncDir">> /\ Final(t)
    \/ s = <<"syncFile", "syncDir">> /\ Final(t) /\ ~Temporary(t)
    \/ s = <<"syncDir">> /\ Final(t) /\ ~Temporary(t)
    \/ s = <<>> /\ Stored(t)

\* The cleaner still has to drop exactly the names that are there.
CleanerReady(t, s) ==
    \/ /\ s \in {<<"syncDir", "dropFinal", "syncFile", "syncDir", "syncDir", "dropTemporary", "syncDir">>,
                 <<"dropFinal", "syncFile", "syncDir", "syncDir", "dropTemporary", "syncDir">>}
       /\ Temporary(t) /\ Final(t)
    \/ /\ s \in {<<"syncFile", "syncDir", "syncDir", "dropTemporary", "syncDir">>,
                 <<"syncDir", "syncDir", "dropTemporary", "syncDir">>,
                 <<"syncDir", "dropTemporary", "syncDir">>,
                 <<"dropTemporary", "syncDir">>}
       /\ Temporary(t) /\ ~Final(t)
    \/ s = <<"dropFinal", "syncDir", "syncDir">> /\ ~Temporary(t) /\ Final(t)
    \/ s \in {<<"syncDir", "syncDir">>, <<"syncDir">>} /\ ~Temporary(t) /\ ~Final(t)
    \/ s = <<>> /\ Gone(t)

ScriptsFitFiles ==
    /\ \A w \in Writer : at[w] = "write" => WriterReady(on[w], todo[w])
    /\ at[Cleaner] \in {"release", "replay", "clean"} => CleanerReady(on[Cleaner], todo[Cleaner])

Rows == \A t \in Token : RowIsWhole(t) /\ FilesFitRow(t)

Inv == /\ TypeOK /\ LocksHeld /\ WorkFitsRow /\ Rows /\ ScriptsFitFiles
       /\ CleanupNeverRefused

-----------------------------------------------------------------------------
(* Types.                                                                  *)

Calls == {"open", "fill", "syncFile", "syncDir", "publish", "dropTemporary", "dropFinal",
          "raise"}
Places == {"idle", "look", "write", "discard", "release", "replay", "maintain", "clean"}

(* Scripts put together of two parts.                                      *)

LEMMA Joined ==
    ASSUME NEW S, NEW r \in Seq(S), NEW s \in Seq(S), NEW t \in Seq(S),
           Len(t) = Len(r) + Len(s),
           \A i \in 1..Len(r) : t[i] = r[i],
           \A i \in 1..Len(s) : t[Len(r) + i] = s[i]
    PROVE  r \o s = t
<1>1. r \o s \in Seq(S) /\ Len(r \o s) = Len(t)
  OBVIOUS
<1>2. ASSUME NEW i \in 1..Len(t) PROVE (r \o s)[i] = t[i]
  <2>1. CASE i <= Len(r)
    BY <2>1
  <2>2. CASE i > Len(r)
    <3>1. i - Len(r) \in 1..Len(s) /\ i = Len(r) + (i - Len(r))
      BY <2>2
    <3>2. t[i] = s[i - Len(r)]
      BY <3>1
    <3>3. QED
      BY <2>2, <3>1, <3>2
  <2>3. QED
    BY <2>1, <2>2
<1>3. QED
  BY <1>1, <1>2

LEMMA HealedThenDropped ==
    <<"syncDir", "dropFinal", "syncFile", "syncDir">> \o <<"syncDir", "dropTemporary", "syncDir">>
        = <<"syncDir", "dropFinal", "syncFile", "syncDir", "syncDir", "dropTemporary", "syncDir">>
<1> DEFINE r == <<"syncDir", "dropFinal", "syncFile", "syncDir">>
           s == <<"syncDir", "dropTemporary", "syncDir">>
           t == <<"syncDir", "dropFinal", "syncFile", "syncDir", "syncDir", "dropTemporary", "syncDir">>
<1>1. r \in Seq(Calls) /\ s \in Seq(Calls) /\ t \in Seq(Calls)
  BY DEF Calls
<1>2. /\ Len(t) = Len(r) + Len(s)
      /\ \A i \in 1..Len(r) : t[i] = r[i]
      /\ \A i \in 1..Len(s) : t[Len(r) + i] = s[i]
  OBVIOUS
<1>3. r \o s = t
  <2> HIDE DEF r, s, t
  <2>1. QED
    BY <1>1, <1>2, Joined
<1>4. QED
  BY <1>3

LEMMA FinalDropped ==
    <<"dropFinal", "syncDir">> \o <<"syncDir">>
        = <<"dropFinal", "syncDir", "syncDir">>
<1> DEFINE r == <<"dropFinal", "syncDir">>
           s == <<"syncDir">>
           t == <<"dropFinal", "syncDir", "syncDir">>
<1>1. r \in Seq(Calls) /\ s \in Seq(Calls) /\ t \in Seq(Calls)
  BY DEF Calls
<1>2. /\ Len(t) = Len(r) + Len(s)
      /\ \A i \in 1..Len(r) : t[i] = r[i]
      /\ \A i \in 1..Len(s) : t[Len(r) + i] = s[i]
  OBVIOUS
<1>3. r \o s = t
  <2> HIDE DEF r, s, t
  <2>1. QED
    BY <1>1, <1>2, Joined
<1>4. QED
  BY <1>3

LEMMA TemporaryDropped ==
    <<"syncDir">> \o <<"dropTemporary", "syncDir">>
        = <<"syncDir", "dropTemporary", "syncDir">>
<1> DEFINE r == <<"syncDir">>
           s == <<"dropTemporary", "syncDir">>
           t == <<"syncDir", "dropTemporary", "syncDir">>
<1>1. r \in Seq(Calls) /\ s \in Seq(Calls) /\ t \in Seq(Calls)
  BY DEF Calls
<1>2. /\ Len(t) = Len(r) + Len(s)
      /\ \A i \in 1..Len(r) : t[i] = r[i]
      /\ \A i \in 1..Len(s) : t[Len(r) + i] = s[i]
  OBVIOUS
<1>3. r \o s = t
  <2> HIDE DEF r, s, t
  <2>1. QED
    BY <1>1, <1>2, Joined
<1>4. QED
  BY <1>3

LEMMA NothingDropped ==
    <<"syncDir">> \o <<"syncDir">>
        = <<"syncDir", "syncDir">>
<1> DEFINE r == <<"syncDir">>
           s == <<"syncDir">>
           t == <<"syncDir", "syncDir">>
<1>1. r \in Seq(Calls) /\ s \in Seq(Calls) /\ t \in Seq(Calls)
  BY DEF Calls
<1>2. /\ Len(t) = Len(r) + Len(s)
      /\ \A i \in 1..Len(r) : t[i] = r[i]
      /\ \A i \in 1..Len(s) : t[Len(r) + i] = s[i]
  OBVIOUS
<1>3. r \o s = t
  <2> HIDE DEF r, s, t
  <2>1. QED
    BY <1>1, <1>2, Joined
<1>4. QED
  BY <1>3

LEMMA NamesShown ==
    ASSUME NEW t \in Token
    PROVE  /\ "final" \in Shown(t) <=> Final(t)
           /\ "temporary" \in Shown(t) <=> Temporary(t)
           /\ Shown(t) = Names <=> Final(t) /\ Temporary(t)
           /\ Shown(t) = {"final"} <=> Final(t) /\ ~Temporary(t)
           /\ Shown(t) = {"temporary"} <=> ~Final(t) /\ Temporary(t)
           /\ Shown(t) = {} <=> ~Final(t) /\ ~Temporary(t)
<1>1. /\ "final" \in Shown(t) <=> Final(t)
      /\ "temporary" \in Shown(t) <=> Temporary(t)
      /\ Shown(t) \subseteq Names
  BY DEF Shown, Names, Final, Temporary
<1>2. QED
  BY <1>1 DEF Names

\* A writer's script fits what it finds.
LEMMA StageScriptFits ==
    ASSUME NEW t \in Token, FilesFitRow(t)
    PROVE  WriterReady(t, StageScript(t))
<1> USE NamesShown DEF StageScript
<1>1. CASE ~Final(t)
  <2>1. StageScript(t) = Publish
    BY <1>1
  <2>2. QED
    BY <1>1, <2>1 DEF WriterReady, Publish
<1>2. CASE Final(t) /\ ~Temporary(t)
  <2>1. StageScript(t) = IF Exact(t) THEN <<"syncFile", "syncDir">> ELSE Raise
    BY <1>2, "final" \in Shown(t)
  <2>2. QED
    BY <1>2, <2>1 DEF WriterReady
<1>3. CASE Final(t) /\ Temporary(t)
  <2>1. StageScript(t) = IF Exact(t) THEN Heal("dropTemporary") ELSE Raise
    BY <1>3, "final" \in Shown(t), Shown(t) # {"final"}
  <2>2. QED
    BY <1>3, <2>1 DEF WriterReady, Heal
<1>4. QED
  BY <1>1, <1>2, <1>3

\* Whatever a stopped call has left, the cleaner has a script for it.
LEMMA CleanScriptFits ==
    ASSUME NEW t \in Token, row[t] \in Row, RowIsWhole(t), FilesFitRow(t)
    PROVE  CleanerReady(t, CleanScript(t))
<1> USE NamesShown DEF CleanScript
<1>1. CASE ~row[t].leaf
  <2>1. ~Final(t) /\ ~Temporary(t)
    BY <1>1 DEF FilesFitRow, Gone, Names, Final, Temporary
  <2>2. CleanScript(t) = <<"syncDir">>
    BY <1>1, <2>1
  <2>3. QED
    BY <2>1, <2>2 DEF CleanerReady
<1>2. CASE row[t].leaf /\ Final(t)
  <2>1. Exact(t)
    BY <1>2 DEF FilesFitRow, Safe, Exact
  <2>2. CASE Temporary(t)
    <3>1. CleanScript(t) = Heal("dropFinal") \o <<"syncDir", "dropTemporary", "syncDir">>
      BY <1>2, <2>1, <2>2
    <3>2. CleanScript(t) = <<"syncDir", "dropFinal", "syncFile", "syncDir",
                             "syncDir", "dropTemporary", "syncDir">>
      BY <3>1, HealedThenDropped DEF Heal
    <3>3. QED
      BY <1>2, <2>2, <3>2 DEF CleanerReady
  <2>3. CASE ~Temporary(t)
    <3>1. CleanScript(t) = RemoveFinal(t) \o RemoveTemporary(t)
      BY <1>2, <2>1, <2>3
    <3>2. RemoveFinal(t) = <<"dropFinal", "syncDir">> /\ RemoveTemporary(t) = <<"syncDir">>
      BY <1>2, <2>3 DEF RemoveFinal, RemoveTemporary
    <3>3. QED
      BY <1>2, <2>3, <3>1, <3>2, FinalDropped DEF CleanerReady
  <2>4. QED
    BY <2>2, <2>3
<1>3. CASE row[t].leaf /\ ~Final(t)
  <2>1. Temporary(t) => Exact(t) \/ AuthorizesPartial(t)
    BY <1>3 DEF FilesFitRow, Safe, Exact, AuthorizesPartial
  <2>2. CleanScript(t) = RemoveFinal(t) \o RemoveTemporary(t)
    BY <1>3, <2>1
  <2>3. RemoveFinal(t) = <<"syncDir">>
    BY <1>3 DEF RemoveFinal
  <2>4. CASE Temporary(t)
    <3>1. RemoveTemporary(t) = <<"dropTemporary", "syncDir">>
      BY <2>4 DEF RemoveTemporary
    <3>2. QED
      BY <1>3, <2>2, <2>3, <2>4, <3>1, TemporaryDropped DEF CleanerReady
  <2>5. CASE ~Temporary(t)
    <3>1. RemoveTemporary(t) = <<"syncDir">>
      BY <2>5 DEF RemoveTemporary
    <3>2. QED
      BY <1>3, <2>2, <2>3, <2>5, <3>1, NothingDropped DEF CleanerReady
  <2>6. QED
    BY <2>4, <2>5
<1>4. QED
  BY <1>1, <1>2, <1>3

\* The scripts are made of system calls.
LEMMA ScriptsAreTyped ==
    ASSUME NEW t, NEW s, WriterReady(t, s) \/ CleanerReady(t, s) \/ s = <<>>
    PROVE  s \in Seq(Calls)
<1>0. <<>> \in Seq(Calls)
  OBVIOUS
<1>1. /\ <<"raise">> \in Seq(Calls)
      /\ <<"open", "fill", "syncFile", "syncDir", "publish", "syncDir">> \in Seq(Calls)
      /\ <<"fill", "syncFile", "syncDir", "publish", "syncDir">> \in Seq(Calls)
      /\ <<"syncFile", "syncDir", "publish", "syncDir">> \in Seq(Calls)
      /\ <<"syncDir", "publish", "syncDir">> \in Seq(Calls)
  BY DEF Calls
<1>2. /\ <<"publish", "syncDir">> \in Seq(Calls)
      /\ <<"syncDir", "dropTemporary", "syncFile", "syncDir">> \in Seq(Calls)
      /\ <<"dropTemporary", "syncFile", "syncDir">> \in Seq(Calls)
      /\ <<"syncFile", "syncDir">> \in Seq(Calls)
      /\ <<"syncDir">> \in Seq(Calls)
  BY DEF Calls
<1>3. /\ <<"syncDir", "dropFinal", "syncFile", "syncDir", "syncDir", "dropTemporary", "syncDir">> \in Seq(Calls)
      /\ <<"dropFinal", "syncFile", "syncDir", "syncDir", "dropTemporary", "syncDir">> \in Seq(Calls)
      /\ <<"syncFile", "syncDir", "syncDir", "dropTemporary", "syncDir">> \in Seq(Calls)
      /\ <<"syncDir", "syncDir", "dropTemporary", "syncDir">> \in Seq(Calls)
  BY DEF Calls
<1>4. /\ <<"syncDir", "dropTemporary", "syncDir">> \in Seq(Calls)
      /\ <<"dropTemporary", "syncDir">> \in Seq(Calls)
      /\ <<"dropFinal", "syncDir", "syncDir">> \in Seq(Calls)
      /\ <<"syncDir", "syncDir">> \in Seq(Calls)
      /\ <<"syncDir">> \in Seq(Calls)
  BY DEF Calls
<1>5. ASSUME WriterReady(t, s) PROVE s \in Seq(Calls)
  BY <1>0, <1>1, <1>2, <1>5, Zenon DEF WriterReady, Raise
<1>6. ASSUME CleanerReady(t, s) PROVE s \in Seq(Calls)
  <2>1. \/ s \in {<<"syncDir", "dropFinal", "syncFile", "syncDir", "syncDir", "dropTemporary", "syncDir">>,
                  <<"dropFinal", "syncFile", "syncDir", "syncDir", "dropTemporary", "syncDir">>}
        \/ s \in {<<"syncFile", "syncDir", "syncDir", "dropTemporary", "syncDir">>,
                  <<"syncDir", "syncDir", "dropTemporary", "syncDir">>,
                  <<"syncDir", "dropTemporary", "syncDir">>,
                  <<"dropTemporary", "syncDir">>}
        \/ s = <<"dropFinal", "syncDir", "syncDir">>
        \/ s \in {<<"syncDir", "syncDir">>, <<"syncDir">>}
        \/ s = <<>>
    BY <1>6, Zenon DEF CleanerReady
  <2>2. QED
    BY <1>0, <1>3, <1>4, <2>1, Zenon
<1>7. QED
  BY <1>0, <1>5, <1>6

-----------------------------------------------------------------------------
(* One system call.                                                        *)

\* A step that concerns other tokens: at most it makes names durable.
Undisturbed(t) ==
    /\ row'[t] = row[t] /\ data'[t] = data[t] /\ synced'[t] = synced[t]
    /\ \A n \in Names : t \in dir'[n] <=> t \in dir[n]
    /\ \/ \A n \in Names : t \in disk'[n] <=> t \in disk[n]
       \/ \A n \in Names : t \in disk'[n] <=> t \in dir[n]

LEMMA UndisturbedFits ==
    ASSUME NEW t \in Token, Undisturbed(t)
    PROVE  /\ RowIsWhole(t) => RowIsWhole(t)'
           /\ FilesFitRow(t) => FilesFitRow(t)'
BY DEF Undisturbed, RowIsWhole, FilesFitRow, State, Gone, Stored, Safe, Final, Temporary, Names

LEMMA PerformEffect ==
    ASSUME TypeOK, NEW x \in Actor, NEW t \in Token, on[x] = t, Perform(x)
    PROVE  /\ UNCHANGED <<row, wanted, faults>>
           /\ \A u \in Token \ {t} : Undisturbed(u)
           /\ Proceed(x) \/ Fail(x)
           /\ todo[x] # <<>>
<1> USE DEF TypeOK, Undisturbed, NextIs, Names
<1>1. CASE Open(x)
  BY <1>1 DEF Open, Fail, Proceed
<1>2. CASE Fill(x)
  BY <1>2 DEF Fill
<1>3. CASE SyncFile(x)
  BY <1>3 DEF SyncFile
<1>4. CASE SyncDir(x)
  BY <1>4 DEF SyncDir
<1>5. CASE Rename(x)
  <2>1. \A u \in Token \ {t} : \A n \in Names : u \in dir'[n] <=> u \in dir[n]
    BY <1>5 DEF Rename
  <2>2. QED
    BY <1>5, <2>1 DEF Rename
<1>6. CASE Remove(x)
  <2>1. \A u \in Token \ {t} : \A n \in Names : u \in dir'[n] <=> u \in dir[n]
    BY <1>6 DEF Remove, NameDropped
  <2>2. QED
    BY <1>6, <2>1 DEF Remove
<1>7. QED
  BY <1>1, <1>2, <1>3, <1>4, <1>5, <1>6 DEF Perform

\* What each system call does to its own token.
LEMMA CallEffect ==
    ASSUME TypeOK, NEW x \in Actor, NEW t \in Token, on[x] = t, Perform(x),
           NEW op, op = Head(todo[x])
    PROVE  /\ op = "open" =>
                /\ (t \in dir'["final"]) = (t \in dir["final"])
                /\ disk' = disk
           /\ op = "fill" =>
                /\ UNCHANGED <<dir, disk>>
                /\ data'[t] = "full" /\ Proceed(x)
           /\ op = "syncFile" =>
                /\ UNCHANGED <<dir, disk, data>>
                /\ synced'[t] /\ Proceed(x)
           /\ op = "syncDir" =>
                /\ UNCHANGED <<dir, data, synced>>
                /\ disk' = dir /\ Proceed(x)
           /\ op = "publish" =>
                /\ UNCHANGED <<disk, data, synced>>
                /\ \/ UNCHANGED dir /\ Fail(x)
                   \/ t \in dir'["final"] /\ t \notin dir'["temporary"] /\ Proceed(x)
           /\ op = "dropTemporary" =>
                /\ UNCHANGED <<disk, data, synced>>
                /\ \/ t \notin dir["temporary"] /\ UNCHANGED dir /\ Fail(x)
                   \/ /\ t \notin dir'["temporary"] /\ Proceed(x)
                      /\ (t \in dir'["final"]) = (t \in dir["final"])
           /\ op = "dropFinal" =>
                /\ UNCHANGED <<disk, data, synced>>
                /\ \/ t \notin dir["final"] /\ UNCHANGED dir /\ Fail(x)
                   \/ /\ t \notin dir'["final"] /\ Proceed(x)
                      /\ (t \in dir'["temporary"]) = (t \in dir["temporary"])
           /\ op = "raise" => UNCHANGED files /\ Fail(x)
<1> USE DEF NextIs
<1>0. /\ dir \in [Names -> SUBSET Token]
      /\ data \in [Token -> {"prefix", "torn", "full"}]
      /\ synced \in [Token -> BOOLEAN]
  BY DEF TypeOK
<1>1. CASE Open(x)
  BY <1>0, <1>1 DEF Open, Names
<1>2. CASE Fill(x)
  BY <1>0, <1>2 DEF Fill
<1>3. CASE SyncFile(x)
  BY <1>0, <1>3 DEF SyncFile
<1>4. CASE SyncDir(x)
  BY <1>0, <1>4 DEF SyncDir
<1>5. CASE Rename(x)
  BY <1>0, <1>5 DEF Rename, Names
<1>6. CASE Remove(x)
  BY <1>0, <1>6 DEF Remove, NameDropped, Names, files
<1>7. QED
  BY <1>1, <1>2, <1>3, <1>4, <1>5, <1>6 DEF Perform

\* A writer's own token: its files stay in order, and it is ready for the
\* next call or has left.
LEMMA WriterCall ==
    ASSUME Inv, NEW w \in Writer, NEW t \in Token, on[w] = t,
           NEW s, todo[w] = s, at[w] = "write", Perform(w)
    PROVE  /\ FilesFitRow(t)'
           /\ \/ Fail(w)
              \/ Proceed(w) /\ WriterReady(t, Tail(s))'
<1>1. /\ TypeOK /\ w \in Actor /\ State(t) = "WRITING"
      /\ RowIsWhole(t) /\ FilesFitRow(t) /\ WriterReady(t, s)
  BY DEF Inv, WorkFitsRow, Rows, ScriptsFitFiles, Actor
<1>2. row' = row /\ s # <<>>
  BY <1>1, PerformEffect
<1>3. row[t].leaf /\ ~row[t].sig /\ row[t].state = "WRITING"
  BY <1>1 DEF RowIsWhole, State
<1>4. /\ Final(t) \/ t \in disk["final"] => Safe(t)
      /\ t \in disk["final"] => Final(t)
  BY <1>1 DEF FilesFitRow
<1>5. \A op : op = Head(s) =>
        /\ op = "open" => (t \in dir'["final"]) = (t \in dir["final"]) /\ disk' = disk
        /\ op = "fill" => UNCHANGED <<dir, disk>> /\ data'[t] = "full" /\ Proceed(w)
        /\ op = "syncFile" => UNCHANGED <<dir, disk, data>> /\ synced'[t] /\ Proceed(w)
        /\ op = "syncDir" => UNCHANGED <<dir, data, synced>> /\ disk' = dir /\ Proceed(w)
        /\ op = "raise" => UNCHANGED files /\ Fail(w)
  BY <1>1, CallEffect
<1> USE <1>2, <1>3, <1>4 DEF WriterReady, FilesFitRow, State, Safe, Final, Temporary, Stored, Gone, Names
<1>6. CASE s = Raise
  <2>1. UNCHANGED files /\ Fail(w)
    BY <1>5, <1>6 DEF Raise
  <2>2. QED
    BY <2>1 DEF files
<1>7. CASE s = <<"open", "fill", "syncFile", "syncDir", "publish", "syncDir">> /\ ~Final(t)
  <2>1. /\ t \notin dir'["final"] /\ disk' = disk
        /\ Proceed(w) \/ Fail(w)
    BY <1>1, <1>5, <1>7, PerformEffect
  <2>2. Tail(s) = <<"fill", "syncFile", "syncDir", "publish", "syncDir">>
    BY <1>7
  <2>3. FilesFitRow(t)'
    BY <1>7, <2>1
  <2>4. WriterReady(t, Tail(s))'
    BY <2>1, <2>2
  <2>5. QED
    BY <2>1, <2>3, <2>4
<1>8. CASE s = <<"fill", "syncFile", "syncDir", "publish", "syncDir">> /\ ~Final(t)
  <2>1. UNCHANGED <<dir, disk>> /\ data'[t] = "full" /\ Proceed(w)
    BY <1>5, <1>8
  <2>2. Tail(s) = <<"syncFile", "syncDir", "publish", "syncDir">>
    BY <1>8
  <2>3. FilesFitRow(t)'
    BY <1>8, <2>1
  <2>4. WriterReady(t, Tail(s))'
    BY <1>8, <2>1, <2>2
  <2>5. QED
    BY <2>1, <2>3, <2>4
<1>9. CASE s = <<"syncFile", "syncDir", "publish", "syncDir">> /\ ~Final(t) /\ data[t] = "full"
  <2>1. UNCHANGED <<dir, disk, data>> /\ synced'[t] /\ Proceed(w)
    BY <1>5, <1>9
  <2>2. Tail(s) = <<"syncDir", "publish", "syncDir">>
    BY <1>9
  <2>3. FilesFitRow(t)'
    BY <1>9, <2>1
  <2>4. WriterReady(t, Tail(s))'
    BY <1>9, <2>1, <2>2
  <2>5. QED
    BY <2>1, <2>3, <2>4
<1>10. CASE s = <<"syncDir", "publish", "syncDir">> /\ ~Final(t) /\ Safe(t)
  <2>1. UNCHANGED <<dir, data, synced>> /\ disk' = dir /\ Proceed(w)
    BY <1>5, <1>10
  <2>2. Tail(s) = <<"publish", "syncDir">>
    BY <1>10
  <2>3. FilesFitRow(t)'
    BY <1>10, <2>1
  <2>4. WriterReady(t, Tail(s))'
    BY <1>10, <2>1, <2>2
  <2>5. QED
    BY <2>1, <2>3, <2>4
<1>11. CASE s = <<"publish", "syncDir">> /\ ~Final(t) /\ Safe(t)
  <2>1. /\ UNCHANGED <<disk, data, synced>>
        /\ \/ UNCHANGED dir /\ Fail(w)
           \/ t \in dir'["final"] /\ t \notin dir'["temporary"] /\ Proceed(w)
    BY <1>1, <1>11, CallEffect
  <2>2. Tail(s) = <<"syncDir">>
    BY <1>11
  <2>3. FilesFitRow(t)'
    BY <1>11, <2>1
  <2>4. QED
    BY <1>11, <2>1, <2>2, <2>3
<1>12. CASE s = <<"syncDir", "dropTemporary", "syncFile", "syncDir">> /\ Final(t)
  <2>1. UNCHANGED <<dir, data, synced>> /\ disk' = dir /\ Proceed(w)
    BY <1>5, <1>12
  <2>2. Tail(s) = <<"dropTemporary", "syncFile", "syncDir">>
    BY <1>12
  <2>3. FilesFitRow(t)'
    BY <1>12, <2>1
  <2>4. WriterReady(t, Tail(s))'
    BY <1>12, <2>1, <2>2
  <2>5. QED
    BY <2>1, <2>3, <2>4
<1>13. CASE s = <<"dropTemporary", "syncFile", "syncDir">> /\ Final(t)
  <2>1. /\ UNCHANGED <<disk, data, synced>>
        /\ \/ UNCHANGED dir /\ Fail(w)
           \/ t \in dir'["final"] /\ t \notin dir'["temporary"] /\ Proceed(w)
    BY <1>1, <1>13, CallEffect
  <2>2. Tail(s) = <<"syncFile", "syncDir">>
    BY <1>13
  <2>3. FilesFitRow(t)'
    BY <1>13, <2>1
  <2>4. QED
    BY <1>13, <2>1, <2>2, <2>3
<1>14. CASE s = <<"syncFile", "syncDir">> /\ Final(t) /\ ~Temporary(t)
  <2>1. UNCHANGED <<dir, disk, data>> /\ synced'[t] /\ Proceed(w)
    BY <1>5, <1>14
  <2>2. Tail(s) = <<"syncDir">>
    BY <1>14
  <2>3. FilesFitRow(t)'
    BY <1>14, <2>1
  <2>4. WriterReady(t, Tail(s))'
    BY <1>14, <2>1, <2>2
  <2>5. QED
    BY <2>1, <2>3, <2>4
<1>15. CASE s = <<"syncDir">> /\ Final(t) /\ ~Temporary(t)
  <2>1. UNCHANGED <<dir, data, synced>> /\ disk' = dir /\ Proceed(w)
    BY <1>5, <1>15
  <2>2. Tail(s) = <<>>
    BY <1>15
  <2>3. FilesFitRow(t)'
    BY <1>15, <2>1
  <2>4. WriterReady(t, Tail(s))'
    BY <1>15, <2>1, <2>2
  <2>5. QED
    BY <2>1, <2>3, <2>4
<1>16. QED
  BY <1>1, <1>2, <1>6, <1>7, <1>8, <1>9, <1>10, <1>11, <1>12, <1>13, <1>14, <1>15 DEF WriterReady

\* The cleaner's own token: no call of its script refuses.
LEMMA CleanerCall ==
    ASSUME Inv, NEW t \in Token, on[Cleaner] = t,
           NEW s, todo[Cleaner] = s, at[Cleaner] \in {"release", "replay", "clean"},
           Perform(Cleaner)
    PROVE  /\ FilesFitRow(t)'
           /\ Proceed(Cleaner) /\ CleanerReady(t, Tail(s))'
<1>0. State(t) = "RELEASED"
  BY DEF Inv, WorkFitsRow
<1>1. /\ TypeOK /\ Cleaner \in Actor /\ State(t) = "RELEASED"
      /\ FilesFitRow(t) /\ CleanerReady(t, s)
  BY <1>0 DEF Inv, Rows, ScriptsFitFiles, Actor
<1>2. row' = row /\ s # <<>>
  BY <1>1, PerformEffect
<1>3. /\ ~row[t].leaf => Gone(t)
      /\ row[t].sig \/ Final(t) \/ t \in disk["final"] => Safe(t)
      /\ row[t].state = "RELEASED"
  BY <1>1 DEF FilesFitRow, State
<1>4. /\ Head(s) = "syncFile" =>
            UNCHANGED <<dir, disk, data>> /\ synced'[t] /\ Proceed(Cleaner)
      /\ Head(s) = "syncDir" =>
            UNCHANGED <<dir, data, synced>> /\ disk' = dir /\ Proceed(Cleaner)
      /\ Head(s) = "dropTemporary" =>
            /\ UNCHANGED <<disk, data, synced>>
            /\ \/ t \notin dir["temporary"]
               \/ /\ t \notin dir'["temporary"] /\ Proceed(Cleaner)
                  /\ (t \in dir'["final"]) = (t \in dir["final"])
      /\ Head(s) = "dropFinal" =>
            /\ UNCHANGED <<disk, data, synced>>
            /\ \/ t \notin dir["final"]
               \/ /\ t \notin dir'["final"] /\ Proceed(Cleaner)
                  /\ (t \in dir'["temporary"]) = (t \in dir["temporary"])
  BY <1>1, CallEffect
<1> USE <1>2, <1>3 DEF CleanerReady, FilesFitRow, State, Safe, Final, Temporary, Stored, Gone, Names
<1>5. CASE s = <<"syncDir", "dropFinal", "syncFile", "syncDir", "syncDir", "dropTemporary", "syncDir">> /\ Temporary(t) /\ Final(t)
  <2>1. UNCHANGED <<dir, data, synced>> /\ disk' = dir /\ Proceed(Cleaner)
    BY <1>4, <1>5
  <2>2. Tail(s) = <<"dropFinal", "syncFile", "syncDir", "syncDir", "dropTemporary", "syncDir">>
    BY <1>5
  <2>3. FilesFitRow(t)'
    BY <1>5, <2>1
  <2>4. CleanerReady(t, Tail(s))'
    BY <1>5, <2>1, <2>2
  <2>5. QED
    BY <2>1, <2>3, <2>4
<1>6. CASE s = <<"dropFinal", "syncFile", "syncDir", "syncDir", "dropTemporary", "syncDir">> /\ Temporary(t) /\ Final(t)
  <2>1. /\ UNCHANGED <<disk, data, synced>> /\ Proceed(Cleaner)
        /\ t \notin dir'["final"]
        /\ (t \in dir'["temporary"]) = (t \in dir["temporary"])
    BY <1>4, <1>6
  <2>2. Tail(s) = <<"syncFile", "syncDir", "syncDir", "dropTemporary", "syncDir">>
    BY <1>6
  <2>3. FilesFitRow(t)'
    BY <1>6, <2>1
  <2>4. CleanerReady(t, Tail(s))'
    BY <1>6, <2>1, <2>2
  <2>5. QED
    BY <2>1, <2>3, <2>4
<1>7. CASE s = <<"syncFile", "syncDir", "syncDir", "dropTemporary", "syncDir">> /\ Temporary(t) /\ ~Final(t)
  <2>1. UNCHANGED <<dir, disk, data>> /\ synced'[t] /\ Proceed(Cleaner)
    BY <1>4, <1>7
  <2>2. Tail(s) = <<"syncDir", "syncDir", "dropTemporary", "syncDir">>
    BY <1>7
  <2>3. FilesFitRow(t)'
    BY <1>7, <2>1
  <2>4. CleanerReady(t, Tail(s))'
    BY <1>7, <2>1, <2>2
  <2>5. QED
    BY <2>1, <2>3, <2>4
<1>8. CASE s = <<"syncDir", "syncDir", "dropTemporary", "syncDir">> /\ Temporary(t) /\ ~Final(t)
  <2>1. UNCHANGED <<dir, data, synced>> /\ disk' = dir /\ Proceed(Cleaner)
    BY <1>4, <1>8
  <2>2. Tail(s) = <<"syncDir", "dropTemporary", "syncDir">>
    BY <1>8
  <2>3. FilesFitRow(t)'
    BY <1>8, <2>1
  <2>4. CleanerReady(t, Tail(s))'
    BY <1>8, <2>1, <2>2
  <2>5. QED
    BY <2>1, <2>3, <2>4
<1>9. CASE s = <<"syncDir", "dropTemporary", "syncDir">> /\ Temporary(t) /\ ~Final(t)
  <2>1. UNCHANGED <<dir, data, synced>> /\ disk' = dir /\ Proceed(Cleaner)
    BY <1>4, <1>9
  <2>2. Tail(s) = <<"dropTemporary", "syncDir">>
    BY <1>9
  <2>3. FilesFitRow(t)'
    BY <1>9, <2>1
  <2>4. CleanerReady(t, Tail(s))'
    BY <1>9, <2>1, <2>2
  <2>5. QED
    BY <2>1, <2>3, <2>4
<1>10. CASE s = <<"dropTemporary", "syncDir">> /\ Temporary(t) /\ ~Final(t)
  <2>1. /\ UNCHANGED <<disk, data, synced>> /\ Proceed(Cleaner)
        /\ t \notin dir'["temporary"]
        /\ (t \in dir'["final"]) = (t \in dir["final"])
    BY <1>4, <1>10
  <2>2. Tail(s) = <<"syncDir">>
    BY <1>10
  <2>3. FilesFitRow(t)'
    BY <1>10, <2>1
  <2>4. CleanerReady(t, Tail(s))'
    BY <1>10, <2>1, <2>2
  <2>5. QED
    BY <2>1, <2>3, <2>4
<1>11. CASE s = <<"dropFinal", "syncDir", "syncDir">> /\ ~Temporary(t) /\ Final(t)
  <2>1. /\ UNCHANGED <<disk, data, synced>> /\ Proceed(Cleaner)
        /\ t \notin dir'["final"]
        /\ (t \in dir'["temporary"]) = (t \in dir["temporary"])
    BY <1>4, <1>11
  <2>2. Tail(s) = <<"syncDir", "syncDir">>
    BY <1>11
  <2>3. FilesFitRow(t)'
    BY <1>11, <2>1
  <2>4. CleanerReady(t, Tail(s))'
    BY <1>11, <2>1, <2>2
  <2>5. QED
    BY <2>1, <2>3, <2>4
<1>12. CASE s = <<"syncDir", "syncDir">> /\ ~Temporary(t) /\ ~Final(t)
  <2>1. UNCHANGED <<dir, data, synced>> /\ disk' = dir /\ Proceed(Cleaner)
    BY <1>4, <1>12
  <2>2. Tail(s) = <<"syncDir">>
    BY <1>12
  <2>3. FilesFitRow(t)'
    BY <1>12, <2>1
  <2>4. CleanerReady(t, Tail(s))'
    BY <1>12, <2>1, <2>2
  <2>5. QED
    BY <2>1, <2>3, <2>4
<1>13. CASE s = <<"syncDir">> /\ ~Temporary(t) /\ ~Final(t)
  <2>1. UNCHANGED <<dir, data, synced>> /\ disk' = dir /\ Proceed(Cleaner)
    BY <1>4, <1>13
  <2>2. Tail(s) = <<>>
    BY <1>13
  <2>3. FilesFitRow(t)'
    BY <1>13, <2>1
  <2>4. CleanerReady(t, Tail(s))'
    BY <1>13, <2>1, <2>2
  <2>5. QED
    BY <2>1, <2>3, <2>4
<1>14. QED
  <2>1. \/ /\ \/ s = <<"syncDir", "dropFinal", "syncFile", "syncDir", "syncDir", "dropTemporary", "syncDir">>
              \/ s = <<"dropFinal", "syncFile", "syncDir", "syncDir", "dropTemporary", "syncDir">>
           /\ Temporary(t) /\ Final(t)
        \/ /\ \/ s = <<"syncFile", "syncDir", "syncDir", "dropTemporary", "syncDir">>
              \/ s = <<"syncDir", "syncDir", "dropTemporary", "syncDir">>
              \/ s = <<"syncDir", "dropTemporary", "syncDir">>
              \/ s = <<"dropTemporary", "syncDir">>
           /\ Temporary(t) /\ ~Final(t)
        \/ s = <<"dropFinal", "syncDir", "syncDir">> /\ ~Temporary(t) /\ Final(t)
        \/ /\ s = <<"syncDir", "syncDir">> \/ s = <<"syncDir">>
           /\ ~Temporary(t) /\ ~Final(t)
    BY <1>1, <1>2, Zenon DEF CleanerReady
  <2> HIDE DEF CleanerReady, FilesFitRow, Final, Temporary
  <2>2. CASE Temporary(t) /\ Final(t)
    BY <2>1, <2>2, <1>5, <1>6, Zenon
  <2>3. CASE Temporary(t) /\ ~Final(t)
    BY <2>1, <2>3, <1>7, <1>8, <1>9, <1>10, Zenon
  <2>4. CASE ~Temporary(t)
    BY <2>1, <2>4, <1>11, <1>12, <1>13, Zenon
  <2>5. QED
    BY <2>2, <2>3, <2>4, Zenon

-----------------------------------------------------------------------------
(* Types are kept.                                                         *)

LEMMA InitTypes == Init => TypeOK
<1> SUFFICES ASSUME Init PROVE TypeOK
  OBVIOUS
<1>1. <<>> \in Seq(Calls)
  OBVIOUS
<1>2. todo \in [Actor -> Seq(Calls)]
  BY <1>1 DEF Init
<1>3. row \in [Token -> Row]
  BY DEF Init, NoRow, Row
<1>4. dir \in [Names -> SUBSET Token] /\ disk \in [Names -> SUBSET Token]
  BY DEF Init
<1>5. data \in [Token -> {"prefix", "torn", "full"}] /\ synced \in [Token -> BOOLEAN]
  BY DEF Init
<1>6. /\ faults \in 0..MaxFaults
      /\ refused \in BOOLEAN
  <2>1. faults = 0 /\ refused = FALSE
    BY DEF Init
  <2>2. MaxFaults \in Nat
    BY ProtectionAssumption
  <2>3. faults \in 0..MaxFaults
    BY <2>1, <2>2
  <2>4. refused \in BOOLEAN
    BY <2>1
  <2>5. QED
    BY <2>3, <2>4
<1>7. wanted \subseteq Token /\ page \subseteq Token
  BY DEF Init
<1>8. at \in [Actor -> Places] /\ on \in [Actor -> Token \cup {NoToken}]
  BY DEF Init, Places
<1>9. QED
  BY <1>2, <1>3, <1>4, <1>5, <1>6, <1>7, <1>8 DEF TypeOK, Calls, Places

\* The calls of an actor stay typed when it enters a routine or leaves.
LEMMA EnterTypes ==
    ASSUME TypeOK, NEW x \in Actor, NEW where \in Places, NEW t \in Token \cup {NoToken},
           NEW s \in Seq(Calls), Enter(x, where, t, s)
    PROVE  /\ at' \in [Actor -> Places] /\ on' \in [Actor -> Token \cup {NoToken}]
           /\ todo' \in [Actor -> Seq(Calls)]
BY DEF TypeOK, Enter, Places, Calls

LEMMA LeaveTypes ==
    ASSUME TypeOK, NEW x \in Actor, Leave(x)
    PROVE  /\ at' \in [Actor -> Places] /\ on' \in [Actor -> Token \cup {NoToken}]
           /\ todo' \in [Actor -> Seq(Calls)] /\ page' \subseteq Token
<1>1. <<>> \in Seq(Calls)
  OBVIOUS
<1>2. QED
  BY <1>1 DEF TypeOK, Leave, Places, Calls

LEMMA RowsAreTyped ==
    ASSUME TypeOK, NEW t \in Token
    PROVE  /\ [row EXCEPT ![t] = [state |-> "WRITING", leaf |-> TRUE, sig |-> FALSE]]
                \in [Token -> Row]
           /\ row[t].leaf => [row EXCEPT ![t].state = "STAGED", ![t].sig = TRUE]
                                \in [Token -> Row]
           /\ [row EXCEPT ![t] = [NoRow EXCEPT !.state = "RELEASED"]] \in [Token -> Row]
           /\ [row EXCEPT ![t] = [NoRow EXCEPT !.state = "INSTALLED"]] \in [Token -> Row]
           /\ ReleasedRow(t) \in [Token -> Row]
           /\ Forgotten(t) \in [Token -> Row]
<1> DEFINE States == {"none", "WRITING", "STAGED", "INSTALLED", "RELEASED"}
<1>1. /\ row \in [Token -> Row] /\ row[t] \in Row
      /\ row[t] \in [state : States, leaf : BOOLEAN, sig : BOOLEAN]
      /\ row[t].sig => row[t].leaf
  BY DEF TypeOK, Row
<1>2. ASSUME NEW r \in Row PROVE [row EXCEPT ![t] = r] \in [Token -> Row]
  BY <1>1
<1>3. [state |-> "WRITING", leaf |-> TRUE, sig |-> FALSE] \in Row
  BY DEF Row
<1>4. [NoRow EXCEPT !.state = "RELEASED"] \in Row /\ [NoRow EXCEPT !.state = "INSTALLED"] \in Row
  BY DEF Row, NoRow
<1>5. ASSUME row[t].leaf
      PROVE  [row EXCEPT ![t].state = "STAGED", ![t].sig = TRUE] \in [Token -> Row]
  <2>1. [row[t] EXCEPT !.state = "STAGED", !.sig = TRUE] \in Row
    BY <1>1, <1>5 DEF Row
  <2>2. [row EXCEPT ![t].state = "STAGED", ![t].sig = TRUE]
          = [row EXCEPT ![t] = [row[t] EXCEPT !.state = "STAGED", !.sig = TRUE]]
    BY <1>1
  <2>3. QED
    BY <1>2, <2>1, <2>2
<1>6. ReleasedRow(t) \in [Token -> Row]
  <2>1. [row[t] EXCEPT !.state = "RELEASED"] \in Row
    BY <1>1 DEF Row
  <2>2. QED
    BY <1>1, <2>1 DEF ReleasedRow
<1>7. Forgotten(t) \in [Token -> Row]
  <2>1. [row[t] EXCEPT !.leaf = FALSE, !.sig = FALSE] \in Row
    BY <1>1 DEF Row
  <2>2. Forgotten(t) = [row EXCEPT ![t] = [row[t] EXCEPT !.leaf = FALSE, !.sig = FALSE]]
    BY <1>1 DEF Forgotten
  <2>3. QED
    BY <1>2, <2>1, <2>2
<1>8. QED
  BY <1>2, <1>3, <1>4, <1>5, <1>6, <1>7

LEMMA PerformTypes ==
    ASSUME TypeOK, NEW x \in Actor, on[x] \in Token, Perform(x)
    PROVE  TypeOK'
<1> DEFINE t == on[x]
<1>1. UNCHANGED <<row, wanted, faults>> /\ todo[x] # <<>> /\ (Proceed(x) \/ Fail(x))
  BY PerformEffect
<1>2. /\ at' \in [Actor -> Places] /\ on' \in [Actor -> Token \cup {NoToken}]
      /\ todo' \in [Actor -> Seq(Calls)] /\ page' \subseteq Token /\ refused' \in BOOLEAN
  <2>1. CASE Fail(x)
    BY <2>1, LeaveTypes DEF Fail, TypeOK
  <2>2. CASE Proceed(x)
    <3>1. Tail(todo[x]) \in Seq(Calls)
      BY <1>1 DEF TypeOK, Calls
    <3>2. todo' \in [Actor -> Seq(Calls)]
      BY <2>2, <3>1 DEF Proceed, TypeOK, Calls
    <3>3. QED
      BY <2>2, <3>2 DEF Proceed, TypeOK, Places
  <2>3. QED
    BY <1>1, <2>1, <2>2
<1>3. /\ dir' \in [Names -> SUBSET Token] /\ disk' \in [Names -> SUBSET Token]
      /\ data' \in [Token -> {"prefix", "torn", "full"}]
      /\ synced' \in [Token -> BOOLEAN]
  <2>0. [dir EXCEPT !["temporary"] = @ \cup {t}] \in [Names -> SUBSET Token]
    BY DEF TypeOK, Names
  <2>1. CASE Open(x)
    <3>1. dir' = dir \/ dir' = [dir EXCEPT !["temporary"] = @ \cup {t}]
      BY <2>1 DEF Open
    <3>2. disk' = disk
      BY <2>1 DEF Open
    <3>3. data' = data \/ data' = [data EXCEPT ![t] = "prefix"]
      BY <2>1 DEF Open
    <3>4. synced' = synced \/ synced' = [synced EXCEPT ![t] = FALSE]
      BY <2>1 DEF Open
    <3>5. dir' \in [Names -> SUBSET Token] /\ disk' \in [Names -> SUBSET Token]
      BY <2>0, <3>1, <3>2 DEF TypeOK
    <3>6. data' \in [Token -> {"prefix", "torn", "full"}]
      BY <3>3 DEF TypeOK
    <3>7. synced' \in [Token -> BOOLEAN]
      BY <3>4 DEF TypeOK
    <3>8. QED
      BY <3>5, <3>6, <3>7
  <2>2. CASE Fill(x)
    BY <2>2 DEF Fill, TypeOK
  <2>3. CASE SyncFile(x) \/ SyncDir(x)
    BY <2>3 DEF SyncFile, SyncDir, TypeOK
  <2>4. CASE Rename(x)
    BY <2>4 DEF Rename, TypeOK, Names
  <2>5. CASE Remove(x)
    <3>1. /\ [dir EXCEPT !["temporary"] = @ \ {t}] \in [Names -> SUBSET Token]
          /\ [dir EXCEPT !["final"] = @ \ {t}] \in [Names -> SUBSET Token]
      BY DEF TypeOK, Names
    <3>2. \/ dir' = dir
          \/ dir' = [dir EXCEPT !["temporary"] = @ \ {t}]
          \/ dir' = [dir EXCEPT !["final"] = @ \ {t}]
      BY <2>5 DEF Remove, NameDropped
    <3>3. QED
      BY <2>5, <3>1, <3>2 DEF Remove, TypeOK
  <2>6. QED
    BY <2>1, <2>2, <2>3, <2>4, <2>5 DEF Perform
<1>4. QED
  BY <1>1, <1>2, <1>3 DEF TypeOK, Places, Calls

-----------------------------------------------------------------------------
(* The invariant is kept by system calls.                                  *)

LEMMA UndisturbedReady ==
    ASSUME NEW t \in Token, NEW s, Undisturbed(t)
    PROVE  /\ WriterReady(t, s) => WriterReady(t, s)'
           /\ CleanerReady(t, s) => CleanerReady(t, s)'
<1>1. /\ Final(t)' <=> Final(t)
      /\ Temporary(t)' <=> Temporary(t)
      /\ Safe(t)' <=> Safe(t)
      /\ (data[t] = "full")' <=> (data[t] = "full")
      /\ Stored(t) => Stored(t)'
      /\ Gone(t) => Gone(t)'
  BY DEF Undisturbed, Final, Temporary, Safe, Stored, Gone, Names
<1>2. WriterReady(t, s) => WriterReady(t, s)'
  BY <1>1, Zenon DEF WriterReady
<1>3. CleanerReady(t, s) => CleanerReady(t, s)'
  BY <1>1, Zenon DEF CleanerReady
<1>4. QED
  BY <1>2, <1>3

\* An actor with a script before it works on a row, under its locks.
LEMMA WhoPerforms ==
    ASSUME Inv, NEW x \in Actor, todo[x] # <<>>
    PROVE  /\ on[x] \in Token
           /\ x \in Writer => at[x] = "write"
           /\ x = Cleaner => at[x] \in {"release", "replay", "clean"}
BY DEF Inv, WorkFitsRow, Actor

\* The files of all other tokens stay as they fit their rows.
LEMMA OtherRows ==
    ASSUME Rows, NEW t \in Token, RowIsWhole(t)', FilesFitRow(t)',
           \A u \in Token \ {t} : Undisturbed(u)
    PROVE  Rows'
<1>1. ASSUME NEW u \in Token PROVE RowIsWhole(u)' /\ FilesFitRow(u)'
  <2>1. CASE u = t
    BY <2>1
  <2>2. CASE u # t
    BY <2>2, UndisturbedFits DEF Rows
  <2>3. QED
    BY <2>1, <2>2
<1>2. QED
  BY <1>1 DEF Rows

LEMMA WriterPerforms ==
    ASSUME Inv, NEW w \in Writer, Perform(w)
    PROVE  Inv'
<1>1. /\ TypeOK /\ w \in Actor /\ w # Cleaner /\ Cleaner \in Actor
      /\ todo[w] # <<>>
  BY ProtectionAssumption DEF Inv, Actor, Perform, Open, Fill, SyncFile, SyncDir, Rename,
     Remove, NextIs
<1>2. PICK t \in Token : on[w] = t
  BY <1>1, WhoPerforms
<1>3. PICK s : todo[w] = s
  OBVIOUS
<1>4. at[w] = "write" /\ Busy(w) /\ at[Cleaner] = "idle"
  BY <1>1, WhoPerforms DEF Inv, LocksHeld, Busy
<1>5. /\ UNCHANGED <<row, wanted>>
      /\ \A u \in Token \ {t} : Undisturbed(u)
  BY <1>1, <1>2, PerformEffect
<1>6. /\ FilesFitRow(t)'
      /\ \/ Fail(w)
         \/ Proceed(w) /\ WriterReady(t, Tail(s))'
  BY <1>2, <1>3, <1>4, WriterCall
<1>7. /\ \A x \in Actor : x # w =>
            at'[x] = at[x] /\ on'[x] = on[x] /\ todo'[x] = todo[x]
      /\ page' = page /\ refused' = refused
      /\ \/ at'[w] = "idle" /\ todo'[w] = <<>>
         \/ /\ at'[w] = "write" /\ on'[w] = t /\ todo'[w] = Tail(s)
            /\ WriterReady(t, Tail(s))'
  <2>1. CASE Fail(w)
    BY <1>1, <2>1 DEF Fail, Leave, TypeOK, Inv, CleanupNeverRefused
  <2>2. CASE Proceed(w) /\ WriterReady(t, Tail(s))'
    BY <1>1, <1>2, <1>3, <1>4, <2>2 DEF Proceed, TypeOK
  <2>3. QED
    BY <1>6, <2>1, <2>2
<1>8. TypeOK'
  BY <1>1, <1>2, PerformTypes
<1>9. LocksHeld'
  BY <1>1, <1>2, <1>4, <1>7 DEF Inv, LocksHeld, Busy, Actor
<1>10. WorkFitsRow'
  BY <1>1, <1>2, <1>4, <1>5, <1>7 DEF Inv, WorkFitsRow, State, Actor
<1>11. Rows'
  <2>1. RowIsWhole(t)'
    BY <1>5 DEF Inv, Rows, RowIsWhole, State
  <2>2. QED
    BY <1>5, <1>6, <2>1, OtherRows DEF Inv
<1>12. ScriptsFitFiles'
  <2>1. at'[Cleaner] = "idle"
    BY <1>1, <1>4, <1>7
  <2>2. ASSUME NEW v \in Writer, at'[v] = "write" PROVE WriterReady(on[v], todo[v])'
    <3>1. CASE v = w
      <4>1. on'[v] = t /\ todo'[v] = Tail(s) /\ WriterReady(t, Tail(s))'
        BY <1>7, <2>2, <3>1
      <4>2. QED
        BY <4>1, Zenon DEF WriterReady, Final, Temporary, Safe, Stored
    <3>2. CASE v # w
      <4>1. at[v] = "write" /\ on'[v] = on[v] /\ todo'[v] = todo[v]
        BY <1>7, <2>2, <3>2 DEF Actor
      <4>2. PICK u \in Token : on[v] = u
        BY <4>1 DEF Inv, WorkFitsRow
      <4>3. PICK r : todo[v] = r
        OBVIOUS
      <4>4. u # t
        BY <1>2, <1>4, <3>2, <4>1, <4>2 DEF Inv, LocksHeld, Busy
      <4>5. WriterReady(u, r)
        BY <4>1, <4>2, <4>3 DEF Inv, ScriptsFitFiles
      <4>6. WriterReady(u, r)'
        BY <1>5, <4>4, <4>5, UndisturbedReady
      <4>7. on'[v] = u /\ todo'[v] = r
        BY <4>1, <4>2, <4>3
      <4>8. QED
        BY <4>6, <4>7, Zenon DEF WriterReady, Final, Temporary, Safe, Stored
    <3>3. QED
      BY <3>1, <3>2
  <2>3. QED
    BY <2>1, <2>2 DEF ScriptsFitFiles
<1>13. QED
  BY <1>7, <1>8, <1>9, <1>10, <1>11, <1>12 DEF Inv, CleanupNeverRefused

LEMMA CleanerPerforms ==
    ASSUME Inv, Perform(Cleaner)
    PROVE  Inv'
<1>1. /\ TypeOK /\ Cleaner \in Actor /\ todo[Cleaner] # <<>>
  BY DEF Inv, Actor, Perform, Open, Fill, SyncFile, SyncDir, Rename, Remove, NextIs
<1>2. PICK t \in Token : on[Cleaner] = t
  BY <1>1, WhoPerforms
<1>3. PICK s : todo[Cleaner] = s
  OBVIOUS
<1>4. /\ at[Cleaner] \in {"release", "replay", "clean"}
      /\ \A w \in Writer : at[w] = "idle"
  BY <1>1, WhoPerforms DEF Inv, LocksHeld, Busy
<1>5. /\ UNCHANGED <<row, wanted>>
      /\ \A u \in Token \ {t} : Undisturbed(u)
  BY <1>1, <1>2, PerformEffect
<1>6. FilesFitRow(t)' /\ Proceed(Cleaner) /\ CleanerReady(t, Tail(s))'
  BY <1>2, <1>3, <1>4, CleanerCall
<1>7. /\ UNCHANGED <<at, on, page, refused>>
      /\ \A w \in Writer : todo'[w] = todo[w]
      /\ todo'[Cleaner] = Tail(s)
  BY <1>1, <1>3, <1>6, ProtectionAssumption DEF Proceed, TypeOK, Actor
<1>8. TypeOK'
  BY <1>1, <1>2, PerformTypes
<1>9. LocksHeld'
  BY <1>7 DEF Inv, LocksHeld, Busy
<1>10. WorkFitsRow'
  BY <1>4, <1>5, <1>7 DEF Inv, WorkFitsRow, State
<1>11. Rows'
  <2>1. RowIsWhole(t)'
    BY <1>5 DEF Inv, Rows, RowIsWhole, State
  <2>2. QED
    BY <1>5, <1>6, <2>1, OtherRows DEF Inv
<1>12. ScriptsFitFiles'
  <2>1. \A w \in Writer : at'[w] # "write"
    BY <1>4, <1>7
  <2>2. on'[Cleaner] = t /\ todo'[Cleaner] = Tail(s) /\ CleanerReady(t, Tail(s))'
    BY <1>2, <1>6, <1>7
  <2>3. CleanerReady(on[Cleaner], todo[Cleaner])'
    BY <2>2, Zenon DEF CleanerReady, Final, Temporary, Gone
  <2>4. QED
    BY <2>1, <2>3 DEF ScriptsFitFiles
<1>13. QED
  BY <1>7, <1>8, <1>9, <1>10, <1>11, <1>12 DEF Inv, CleanupNeverRefused

-----------------------------------------------------------------------------
(* The invariant is kept by protect.                                       *)

LEMMA QuietFiles ==
    ASSUME NEW t \in Token, UNCHANGED files, row'[t] = row[t]
    PROVE  Undisturbed(t)
BY DEF Undisturbed, files

\* Writers that neither come nor go keep what they are ready for.
LEMMA WritersReady ==
    ASSUME Inv, NEW v \in Writer, at[v] = "write", on'[v] = on[v], todo'[v] = todo[v],
           UNCHANGED files, row'[on[v]] = row[on[v]]
    PROVE  WriterReady(on[v], todo[v])'
<1>1. PICK u \in Token : on[v] = u
  BY DEF Inv, WorkFitsRow
<1>2. PICK r : todo[v] = r
  OBVIOUS
<1>3. WriterReady(u, r)
  BY <1>1, <1>2 DEF Inv, ScriptsFitFiles
<1>4. WriterReady(u, r)'
  BY <1>1, <1>3, QuietFiles, UndisturbedReady
<1>5. on'[v] = u /\ todo'[v] = r
  BY <1>1, <1>2
<1>6. QED
  BY <1>4, <1>5, Zenon DEF WriterReady, Final, Temporary, Safe, Stored

\* A row that changes while the files do not.
LEMMA RowChanges ==
    ASSUME Inv, NEW t \in Token, UNCHANGED files, \A u \in Token \ {t} : row'[u] = row[u],
           RowIsWhole(t)', FilesFitRow(t)'
    PROVE  Rows'
BY QuietFiles, OtherRows DEF Inv

LEMMA ProtectNewKept ==
    ASSUME Inv, NEW w \in Writer, NEW t \in Token, ProtectNew(w, t)
    PROVE  Inv'
<1>1. /\ TypeOK /\ w \in Actor /\ w # Cleaner /\ Cleaner \in Actor
  BY ProtectionAssumption DEF Inv, Actor
<1>2. /\ at[Cleaner] = "idle" /\ at[w] = "idle" /\ State(t) = "none"
      /\ row' = [row EXCEPT ![t] = [state |-> "WRITING", leaf |-> TRUE, sig |-> FALSE]]
      /\ UNCHANGED <<wanted, files, page, refused, faults>>
      /\ \A v \in Writer : Busy(v) => StripeOf[on[v]] # StripeOf[t]
  BY DEF ProtectNew, MayProtect, SharedFree, StripeFree, Busy, Unknown
<1>3. /\ \A x \in Actor : x # w =>
            at'[x] = at[x] /\ on'[x] = on[x] /\ todo'[x] = todo[x]
      /\ at'[w] = "look" /\ on'[w] = t /\ todo'[w] = <<>>
  BY <1>1 DEF ProtectNew, Enter, TypeOK
<1>4. /\ row'[t] = [state |-> "WRITING", leaf |-> TRUE, sig |-> FALSE]
      /\ \A u \in Token \ {t} : row'[u] = row[u]
  BY <1>1, <1>2 DEF TypeOK
<1>5. TypeOK'
  <2>1. row' \in [Token -> Row]
    BY <1>1, <1>2, RowsAreTyped
  <2>2. /\ at' \in [Actor -> Places] /\ on' \in [Actor -> Token \cup {NoToken}]
        /\ todo' \in [Actor -> Seq(Calls)]
    <3>1. <<>> \in Seq(Calls) /\ "look" \in Places
      BY DEF Places
    <3>2. Enter(w, "look", t, <<>>)
      BY DEF ProtectNew
    <3>3. QED
      BY <1>1, <3>1, <3>2, EnterTypes
  <2>3. QED
    BY <1>1, <1>2, <2>1, <2>2 DEF TypeOK, files, Places, Calls
<1>6. LocksHeld'
  BY <1>1, <1>2, <1>3 DEF Inv, LocksHeld, Busy, Actor
<1>7. WorkFitsRow'
  <2>1. ASSUME NEW v \in Writer, v # w, at[v] # "idle"
        PROVE  on[v] \in Token /\ on[v] # t
    BY <1>2, <2>1 DEF Inv, WorkFitsRow, State
  <2>2. QED
    BY <1>1, <1>2, <1>3, <1>4, <2>1 DEF Inv, WorkFitsRow, State, Actor
<1>8. Rows'
  <2>1. Gone(t)
    BY <1>2 DEF Inv, Rows, RowIsWhole, FilesFitRow
  <2>2. RowIsWhole(t)' /\ FilesFitRow(t)'
    BY <1>2, <1>4, <2>1
    DEF RowIsWhole, FilesFitRow, State, Gone, Stored, Safe, Final, Names, files
  <2>3. QED
    BY <1>2, <1>4, <2>2, RowChanges
<1>9. ScriptsFitFiles'
  <2>1. ASSUME NEW v \in Writer, at'[v] = "write" PROVE WriterReady(on[v], todo[v])'
    <3>1. v # w /\ at[v] = "write" /\ on'[v] = on[v] /\ todo'[v] = todo[v]
      BY <1>3, <2>1 DEF Actor
    <3>2. on[v] \in Token /\ State(on[v]) = "WRITING"
      BY <3>1 DEF Inv, WorkFitsRow
    <3>3. row'[on[v]] = row[on[v]]
      BY <1>2, <1>4, <3>2
    <3>4. QED
      BY <1>2, <3>1, <3>3, WritersReady
  <2>2. at'[Cleaner] = "idle"
    BY <1>1, <1>2, <1>3
  <2>3. QED
    BY <2>1, <2>2 DEF ScriptsFitFiles
<1>10. QED
  BY <1>2, <1>5, <1>6, <1>7, <1>8, <1>9 DEF Inv, CleanupNeverRefused

LEMMA ProtectResumedKept ==
    ASSUME Inv, NEW w \in Writer, NEW t \in Token, ProtectResumed(w, t)
    PROVE  Inv'
<1>1. /\ TypeOK /\ w \in Actor /\ w # Cleaner /\ Cleaner \in Actor
  BY ProtectionAssumption DEF Inv, Actor
<1>2. /\ at[Cleaner] = "idle" /\ at[w] = "idle" /\ State(t) = "WRITING"
      /\ UNCHANGED <<row, wanted, files, page, refused, faults>>
      /\ \A v \in Writer : Busy(v) => StripeOf[on[v]] # StripeOf[t]
  BY DEF ProtectResumed, MayProtect, SharedFree, StripeFree, Busy
<1>3. /\ \A x \in Actor : x # w =>
            at'[x] = at[x] /\ on'[x] = on[x] /\ todo'[x] = todo[x]
      /\ at'[w] = "look" /\ on'[w] = t /\ todo'[w] = <<>>
  BY <1>1 DEF ProtectResumed, Enter, TypeOK
<1>4. TypeOK'
  <2>1. <<>> \in Seq(Calls) /\ "look" \in Places
    BY DEF Places
  <2>2. Enter(w, "look", t, <<>>)
    BY DEF ProtectResumed
  <2>3. /\ at' \in [Actor -> Places] /\ on' \in [Actor -> Token \cup {NoToken}]
        /\ todo' \in [Actor -> Seq(Calls)]
    BY <1>1, <2>1, <2>2, EnterTypes
  <2>4. QED
    BY <1>1, <1>2, <2>3 DEF TypeOK, files, Places, Calls
<1>5. LocksHeld'
  BY <1>1, <1>2, <1>3 DEF Inv, LocksHeld, Busy, Actor
<1>6. WorkFitsRow'
  BY <1>1, <1>2, <1>3 DEF Inv, WorkFitsRow, State, Actor
<1>7. Rows'
  BY <1>2, QuietFiles, UndisturbedFits DEF Inv, Rows
<1>8. ScriptsFitFiles'
  <2>1. ASSUME NEW v \in Writer, at'[v] = "write" PROVE WriterReady(on[v], todo[v])'
    <3>1. v # w /\ at[v] = "write" /\ on'[v] = on[v] /\ todo'[v] = todo[v]
      BY <1>3, <2>1 DEF Actor
    <3>2. QED
      BY <1>2, <3>1, WritersReady
  <2>2. at'[Cleaner] = "idle"
    BY <1>1, <1>2, <1>3
  <2>3. QED
    BY <2>1, <2>2 DEF ScriptsFitFiles
<1>9. QED
  BY <1>2, <1>4, <1>5, <1>6, <1>7, <1>8 DEF Inv, CleanupNeverRefused

LEMMA LookKept ==
    ASSUME Inv, NEW w \in Writer, Look(w)
    PROVE  Inv'
<1>1. /\ TypeOK /\ w \in Actor /\ w # Cleaner /\ Cleaner \in Actor
  BY ProtectionAssumption DEF Inv, Actor
<1>2. /\ at[w] = "look" /\ at[Cleaner] = "idle"
      /\ UNCHANGED <<row, wanted, files, page, refused, faults>>
  BY DEF Look, Inv, LocksHeld, Busy
<1>3. PICK t \in Token : on[w] = t
  BY <1>2 DEF Inv, WorkFitsRow
<1>4. PICK s : s = StageScript(t)
  OBVIOUS
<1>5. /\ \A x \in Actor : x # w =>
            at'[x] = at[x] /\ on'[x] = on[x] /\ todo'[x] = todo[x]
      /\ at'[w] = "write" /\ on'[w] = t /\ todo'[w] = s
  BY <1>1, <1>3, <1>4 DEF Look, Enter, TypeOK
<1>6. WriterReady(t, s)
  BY <1>4, StageScriptFits DEF Inv, Rows
<1>7. TypeOK'
  <2>1. s \in Seq(Calls) /\ "write" \in Places
    BY <1>6, ScriptsAreTyped DEF Places
  <2>2. Enter(w, "write", t, s)
    BY <1>3, <1>4 DEF Look
  <2>3. /\ at' \in [Actor -> Places] /\ on' \in [Actor -> Token \cup {NoToken}]
        /\ todo' \in [Actor -> Seq(Calls)]
    BY <1>1, <2>1, <2>2, EnterTypes
  <2>4. QED
    BY <1>1, <1>2, <2>3 DEF TypeOK, files, Places, Calls
<1>8. LocksHeld'
  BY <1>1, <1>2, <1>3, <1>5 DEF Inv, LocksHeld, Busy, Actor
<1>9. WorkFitsRow'
  BY <1>1, <1>2, <1>3, <1>5 DEF Inv, WorkFitsRow, State, Actor
<1>10. Rows'
  BY <1>2, QuietFiles, UndisturbedFits DEF Inv, Rows
<1>11. ScriptsFitFiles'
  <2>1. ASSUME NEW v \in Writer, at'[v] = "write" PROVE WriterReady(on[v], todo[v])'
    <3>1. CASE v = w
      <4>1. WriterReady(t, s)'
        BY <1>2, <1>6, QuietFiles, UndisturbedReady
      <4>2. QED
        BY <1>5, <3>1, <4>1, Zenon DEF WriterReady, Final, Temporary, Safe, Stored
    <3>2. CASE v # w
      <4>1. at[v] = "write" /\ on'[v] = on[v] /\ todo'[v] = todo[v]
        BY <1>5, <2>1, <3>2 DEF Actor
      <4>2. QED
        BY <1>2, <4>1, WritersReady
    <3>3. QED
      BY <3>1, <3>2
  <2>2. at'[Cleaner] = "idle"
    BY <1>1, <1>2, <1>5
  <2>3. QED
    BY <2>1, <2>2 DEF ScriptsFitFiles
<1>12. QED
  BY <1>2, <1>7, <1>8, <1>9, <1>10, <1>11 DEF Inv, CleanupNeverRefused

\* The row of a staged token is written only after its bytes are stored.
LEMMA CommitStagedKept ==
    ASSUME Inv, NEW w \in Writer, CommitStaged(w)
    PROVE  Inv'
<1>1. /\ TypeOK /\ w \in Actor /\ w # Cleaner /\ Cleaner \in Actor
  BY ProtectionAssumption DEF Inv, Actor
<1>2. /\ at[w] = "write" /\ todo[w] = <<>> /\ at[Cleaner] = "idle"
  BY DEF CommitStaged, Inv, LocksHeld, Busy, WorkFitsRow
<1>3. PICK t \in Token : on[w] = t
  BY <1>2 DEF Inv, WorkFitsRow
<1>4. State(t) = "WRITING" /\ row[t].leaf
  BY <1>2, <1>3 DEF Inv, WorkFitsRow, Rows, RowIsWhole
<1>5. /\ row' = [row EXCEPT ![t].state = "STAGED", ![t].sig = TRUE]
      /\ Leave(w) /\ UNCHANGED <<wanted, files, refused, faults>>
  BY <1>2, <1>3, <1>4 DEF CommitStaged
<1>6. /\ \A x \in Actor : x # w =>
            at'[x] = at[x] /\ on'[x] = on[x] /\ todo'[x] = todo[x]
      /\ at'[w] = "idle" /\ todo'[w] = <<>> /\ page' = page
  BY <1>1, <1>5 DEF Leave, TypeOK
<1>7. /\ row'[t].state = "STAGED" /\ row'[t].leaf /\ row'[t].sig
      /\ \A u \in Token \ {t} : row'[u] = row[u]
  BY <1>1, <1>4, <1>5 DEF TypeOK, Row
<1>8. TypeOK'
  <2>1. row' \in [Token -> Row]
    BY <1>1, <1>4, <1>5, RowsAreTyped
  <2>2. /\ at' \in [Actor -> Places] /\ on' \in [Actor -> Token \cup {NoToken}]
        /\ todo' \in [Actor -> Seq(Calls)]
    BY <1>1, <1>5, LeaveTypes
  <2>3. QED
    BY <1>1, <1>5, <1>6, <2>1, <2>2 DEF TypeOK, files, Places, Calls
<1>9. LocksHeld'
  BY <1>1, <1>2, <1>6 DEF Inv, LocksHeld, Busy, Actor
<1>10. ASSUME NEW v \in Writer, v # w, at[v] # "idle"
       PROVE  on[v] \in Token /\ on[v] # t
  BY <1>2, <1>3, <1>10 DEF Inv, WorkFitsRow, LocksHeld, Busy
<1>11. WorkFitsRow'
  <2>1. ASSUME NEW v \in Writer
        PROVE  \/ at'[v] = "idle" /\ todo'[v] = <<>>
               \/ /\ at'[v] = "look" /\ todo'[v] = <<>>
                  /\ on'[v] \in Token /\ State(on[v])' = "WRITING"
               \/ at'[v] = "write" /\ on'[v] \in Token /\ State(on[v])' = "WRITING"
    <3>1. CASE v = w
      BY <1>6, <3>1
    <3>2. CASE v # w
      BY <1>6, <1>7, <1>10, <3>2 DEF Inv, WorkFitsRow, State, Actor
    <3>3. QED
      BY <3>1, <3>2
  <2>2. at'[Cleaner] = "idle" /\ todo'[Cleaner] = <<>>
    BY <1>1, <1>2, <1>6 DEF Inv, WorkFitsRow
  <2>3. ASSUME NEW u \in Token, State(u) # "WRITING" PROVE row'[u] = row[u]
    BY <1>4, <1>7, <2>3
  <2>4. ASSUME NEW u \in page' PROVE State(u)' = "RELEASED"
    <3>1. u \in Token /\ State(u) = "RELEASED"
      BY <1>1, <1>6, <2>4 DEF Inv, WorkFitsRow, TypeOK
    <3>2. QED
      BY <2>3, <3>1 DEF State
  <2>5. \A u \in wanted' : State(u)' = "STAGED"
    BY <1>1, <1>5, <2>3 DEF Inv, WorkFitsRow, State, TypeOK
  <2>6. QED
    BY <2>1, <2>2, <2>4, <2>5 DEF WorkFitsRow
<1>12. Rows'
  <2>1. Stored(t)
    <3>1. WriterReady(t, <<>>)
      BY <1>2, <1>3 DEF Inv, ScriptsFitFiles
    <3>2. QED
      BY <3>1 DEF WriterReady, Raise
  <2>2. Safe(t)
    BY <2>1 DEF Inv, Rows, FilesFitRow, Stored
  <2>3. RowIsWhole(t)' /\ FilesFitRow(t)'
    BY <1>5, <1>7, <2>1, <2>2
    DEF RowIsWhole, FilesFitRow, State, Stored, Safe, Final, Temporary, files
  <2>4. QED
    BY <1>5, <1>7, <2>3, RowChanges
<1>13. ScriptsFitFiles'
  <2>1. ASSUME NEW v \in Writer, at'[v] = "write" PROVE WriterReady(on[v], todo[v])'
    <3>1. v # w /\ at[v] = "write" /\ on'[v] = on[v] /\ todo'[v] = todo[v]
      BY <1>6, <2>1 DEF Actor
    <3>2. row'[on[v]] = row[on[v]]
      BY <1>7, <1>10, <3>1
    <3>3. QED
      BY <1>5, <3>1, <3>2, WritersReady
  <2>2. at'[Cleaner] = "idle"
    BY <1>1, <1>2, <1>6
  <2>3. QED
    BY <2>1, <2>2 DEF ScriptsFitFiles
<1>14. QED
  BY <1>5, <1>8, <1>9, <1>11, <1>12, <1>13 DEF Inv, CleanupNeverRefused

-----------------------------------------------------------------------------
(* The invariant is kept by release and by maintenance.                    *)

\* The exclusive lock is free: nobody is at work.
LEMMA NobodyBusy ==
    ASSUME Inv, ExclusiveFree
    PROVE  \A x \in Actor : at[x] = "idle" /\ todo[x] = <<>>
BY DEF Inv, ExclusiveFree, Busy, WorkFitsRow, Actor

\* The cleaner alone enters a routine on a released row, or changes rows.
LEMMA CleanerWorks ==
    ASSUME Inv, \A w \in Writer : at[w] = "idle", TypeOK',
           \A w \in Writer : at'[w] = at[w] /\ todo'[w] = todo[w],
           UNCHANGED refused, Rows',
           \/ at'[Cleaner] \in {"idle", "maintain"} /\ todo'[Cleaner] = <<>>
           \/ /\ at'[Cleaner] \in {"release", "replay", "clean"}
              /\ on'[Cleaner] \in Token /\ State(on[Cleaner])' = "RELEASED"
              /\ CleanerReady(on[Cleaner], todo[Cleaner])',
           \A t \in page' : State(t)' = "RELEASED",
           \A t \in wanted' : State(t)' = "STAGED"
    PROVE  Inv'
<1>1. LocksHeld'
  BY DEF LocksHeld, Busy
<1>2. WorkFitsRow'
  BY DEF Inv, WorkFitsRow
<1>3. ScriptsFitFiles'
  BY DEF ScriptsFitFiles
<1>4. QED
  BY <1>1, <1>2, <1>3 DEF Inv, CleanupNeverRefused

LEMMA ReleaseUnknownKept ==
    ASSUME Inv, NEW t \in Token, ReleaseUnknown(t)
    PROVE  Inv'
<1>1. /\ TypeOK /\ \A x \in Actor : at[x] = "idle" /\ todo[x] = <<>>
  BY NobodyBusy DEF Inv, ReleaseUnknown
<1>2. Gone(t) /\ State(t) = "none"
  BY DEF ReleaseUnknown, Inv, Rows, RowIsWhole, FilesFitRow
<1>3. Shown(t) = {}
  BY <1>2, NamesShown DEF Gone, Final, Temporary, Names
<1>4. /\ row' = [row EXCEPT ![t] = [NoRow EXCEPT !.state = "RELEASED"]]
      /\ UNCHANGED <<wanted, files, calls, refused, faults>>
  BY <1>3 DEF ReleaseUnknown
<1>5. /\ row'[t].state = "RELEASED" /\ ~row'[t].leaf /\ ~row'[t].sig
      /\ \A u \in Token \ {t} : row'[u] = row[u]
  BY <1>1, <1>4 DEF TypeOK, NoRow
<1>6. TypeOK'
  <2>1. row' \in [Token -> Row]
    BY <1>1, <1>4, RowsAreTyped
  <2>2. QED
    BY <1>1, <1>4, <2>1 DEF TypeOK, files, calls
<1>7. Rows'
  <2>1. RowIsWhole(t)' /\ FilesFitRow(t)'
    BY <1>2, <1>4, <1>5
    DEF RowIsWhole, FilesFitRow, State, Gone, Stored, Safe, Final, Temporary, Names, files
  <2>2. QED
    BY <1>4, <1>5, <2>1, RowChanges
<1>8. /\ \A u \in page' : State(u)' = "RELEASED"
      /\ \A u \in wanted' : State(u)' = "STAGED"
  <2>1. \A u \in Token : u # t => State(u)' = State(u)
    BY <1>5 DEF State
  <2>2. t \notin page /\ t \notin wanted
    BY <1>2 DEF Inv, WorkFitsRow
  <2>3. QED
    BY <1>1, <1>4, <2>1, <2>2 DEF Inv, WorkFitsRow, TypeOK, calls
<1>9. QED
  BY <1>1, <1>4, <1>6, <1>7, <1>8, CleanerWorks DEF calls, Actor

\* Releasing a row keeps what the cleaner's script was decided from.
LEMMA ReleaseKnownKept ==
    ASSUME Inv, NEW t \in Token, ReleaseKnown(t)
    PROVE  Inv'
<1>1. /\ TypeOK /\ \A x \in Actor : at[x] = "idle" /\ todo[x] = <<>>
      /\ Cleaner \in Actor /\ Cleaner \notin Writer
  BY NobodyBusy, ProtectionAssumption DEF Inv, ReleaseKnown, Actor
<1>2. RowIsWhole(t) /\ FilesFitRow(t) /\ row[t] \in Row
  BY <1>1 DEF Inv, Rows, TypeOK
<1>3. State(t) \notin {"none", "RELEASED"} => ~(State(t) = "WRITING" <=> ~AuthorizesPartial(t))
  BY <1>2 DEF RowIsWhole, AuthorizesPartial, State, Row
<1>4. PICK where \in {"release", "replay"} :
        /\ row' = ReleasedRow(t)
        /\ Enter(Cleaner, where, t, CleanScript(t))
        /\ UNCHANGED <<wanted, files, page, refused, faults>>
        /\ t \notin wanted
  BY <1>3 DEF ReleaseKnown
<1>5. PICK s : s = CleanScript(t)
  OBVIOUS
<1>6. CleanerReady(t, s)
  BY <1>2, <1>5, CleanScriptFits
<1>7. /\ row'[t].state = "RELEASED" /\ row'[t].leaf = row[t].leaf /\ row'[t].sig = row[t].sig
      /\ \A u \in Token \ {t} : row'[u] = row[u]
  BY <1>1, <1>2, <1>4 DEF TypeOK, Row, ReleasedRow
<1>8. /\ at'[Cleaner] = where /\ on'[Cleaner] = t /\ todo'[Cleaner] = s
      /\ \A w \in Writer : at'[w] = at[w] /\ todo'[w] = todo[w]
  BY <1>1, <1>4, <1>5 DEF Enter, TypeOK, Actor
<1>9. TypeOK'
  <2>1. row' \in [Token -> Row]
    BY <1>1, <1>4, RowsAreTyped
  <2>2. s \in Seq(Calls) /\ where \in Places
    BY <1>6, ScriptsAreTyped DEF Places
  <2>3. /\ at' \in [Actor -> Places] /\ on' \in [Actor -> Token \cup {NoToken}]
        /\ todo' \in [Actor -> Seq(Calls)]
    BY <1>1, <1>4, <1>5, <2>2, EnterTypes
  <2>4. QED
    BY <1>1, <1>4, <2>1, <2>3 DEF TypeOK, files, Places, Calls
<1>10. Rows'
  <2>1. RowIsWhole(t)'
    BY <1>7 DEF RowIsWhole, State
  <2>2. FilesFitRow(t)'
    BY <1>2, <1>4, <1>7
    DEF FilesFitRow, State, Gone, Stored, Safe, Final, Temporary, Names, files
  <2>3. QED
    BY <1>4, <1>7, <2>1, <2>2, RowChanges
<1>11. CleanerReady(on[Cleaner], todo[Cleaner])'
  BY <1>4, <1>6, <1>8 DEF CleanerReady, Final, Temporary, Gone, Names, files
<1>12. /\ \A u \in page' : State(u)' = "RELEASED"
       /\ \A u \in wanted' : State(u)' = "STAGED"
  <2>1. \A u \in Token : u # t => State(u)' = State(u)
    BY <1>7 DEF State
  <2>2. State(t)' = "RELEASED"
    BY <1>7 DEF State
  <2>3. QED
    BY <1>1, <1>4, <2>1, <2>2 DEF Inv, WorkFitsRow, TypeOK
<1>13. State(on[Cleaner])' = "RELEASED"
  BY <1>7, <1>8 DEF State
<1>14. QED
  BY <1>1, <1>4, <1>8, <1>9, <1>10, <1>11, <1>12, <1>13, CleanerWorks DEF Actor

\* Leaving or going on to the next row forgets no name that is still there.
LEMMA ForgottenRow ==
    ASSUME Inv, NEW t \in Token, on[Cleaner] = t, todo[Cleaner] = <<>>,
           at[Cleaner] \in {"release", "clean"}, row' = Forgotten(t), UNCHANGED files
    PROVE  /\ row'[t].state = "RELEASED"
           /\ \A u \in Token \ {t} : row'[u] = row[u]
           /\ Rows'
<1>1. TypeOK /\ State(t) = "RELEASED"
  BY DEF Inv, WorkFitsRow
<1>2. Gone(t)
  <2>1. CleanerReady(t, <<>>)
    BY DEF Inv, ScriptsFitFiles
  <2>2. QED
    BY <2>1 DEF CleanerReady
<1>3. /\ row'[t].state = "RELEASED" /\ ~row'[t].leaf /\ ~row'[t].sig
      /\ \A u \in Token \ {t} : row'[u] = row[u]
  BY <1>1 DEF TypeOK, Row, Forgotten, State
<1>4. RowIsWhole(t)' /\ FilesFitRow(t)'
  BY <1>2, <1>3
  DEF RowIsWhole, FilesFitRow, State, Gone, Stored, Safe, Final, Temporary, Names, files
<1>5. QED
  BY <1>3, <1>4, RowChanges

\* While the cleaner works, no writer does.
LEMMA CleanerAlone ==
    ASSUME Inv, at[Cleaner] # "idle"
    PROVE  /\ TypeOK /\ Cleaner \in Actor /\ Cleaner \notin Writer
           /\ \A w \in Writer : at[w] = "idle"
BY ProtectionAssumption DEF Inv, LocksHeld, Busy, Actor

LEMMA ReleasedKept ==
    ASSUME Inv, Released
    PROVE  Inv'
<1>1. /\ TypeOK /\ Cleaner \in Actor /\ Cleaner \notin Writer
      /\ \A w \in Writer : at[w] = "idle"
  BY CleanerAlone DEF Released
<1>2. PICK t \in Token : on[Cleaner] = t
  BY DEF Released, Inv, WorkFitsRow
<1>3. UNCHANGED <<wanted, files, refused, faults>> /\ Leave(Cleaner)
  BY DEF Released
<1>4. /\ at'[Cleaner] = "idle" /\ todo'[Cleaner] = <<>> /\ page' = {}
      /\ \A w \in Writer : at'[w] = at[w] /\ todo'[w] = todo[w]
  BY <1>1, <1>3 DEF Leave, TypeOK, Actor
<1>5. /\ \A u \in Token : row'[u].state = row[u].state
      /\ row' \in [Token -> Row]
      /\ Rows'
  <2>1. CASE at[Cleaner] = "release"
    <3>1. row' = Forgotten(t) /\ todo[Cleaner] = <<>>
      BY <1>2, <2>1 DEF Released
    <3>2. State(t) = "RELEASED"
      BY <1>2, <2>1 DEF Inv, WorkFitsRow
    <3>3. /\ row'[t].state = "RELEASED" /\ Rows'
          /\ \A u \in Token \ {t} : row'[u] = row[u]
      BY <1>2, <1>3, <2>1, <3>1, ForgottenRow
    <3>4. row' \in [Token -> Row]
      BY <1>1, <3>1, RowsAreTyped
    <3>5. \A u \in Token : row'[u].state = row[u].state
      BY <3>2, <3>3 DEF State
    <3>6. QED
      BY <3>3, <3>4, <3>5
  <2>2. CASE at[Cleaner] = "replay"
    <3>1. row' = row
      BY <2>2 DEF Released
    <3>2. Rows'
      BY <1>3, <3>1, QuietFiles, UndisturbedFits DEF Inv, Rows
    <3>3. QED
      BY <1>1, <3>1, <3>2 DEF TypeOK
  <2>3. QED
    BY <2>1, <2>2 DEF Released
<1>6. TypeOK'
  <2>1. /\ at' \in [Actor -> Places] /\ on' \in [Actor -> Token \cup {NoToken}]
        /\ todo' \in [Actor -> Seq(Calls)] /\ page' \subseteq Token
    BY <1>1, <1>3, LeaveTypes
  <2>2. QED
    BY <1>1, <1>3, <1>5, <2>1 DEF TypeOK, files, Places, Calls
<1>7. \A u \in wanted' : State(u)' = "STAGED"
  BY <1>1, <1>3, <1>5 DEF Inv, WorkFitsRow, State, TypeOK
<1>8. QED
  BY <1>1, <1>3, <1>4, <1>5, <1>6, <1>7, CleanerWorks

LEMMA MaintainKept ==
    ASSUME Inv, Maintain
    PROVE  Inv'
<1>1. /\ TypeOK /\ Cleaner \in Actor /\ Cleaner \notin Writer
      /\ \A x \in Actor : at[x] = "idle" /\ todo[x] = <<>>
  BY NobodyBusy, ProtectionAssumption DEF Inv, Maintain, Actor
<1>2. UNCHANGED <<row, wanted, files, on, todo, refused, faults>>
  BY DEF Maintain
<1>3. page' \subseteq Eligible /\ at' = [at EXCEPT ![Cleaner] = "maintain"]
  BY DEF Maintain
<1>4. TypeOK'
  <2>1. page' \subseteq Token
    BY <1>3 DEF Eligible
  <2>2. at' \in [Actor -> Places]
    BY <1>1, <1>3 DEF TypeOK, Places
  <2>3. QED
    BY <1>1, <1>2, <2>1, <2>2 DEF TypeOK, files, Places
<1>5. Rows'
  BY <1>2, QuietFiles, UndisturbedFits DEF Inv, Rows
<1>6. /\ at'[Cleaner] = "maintain" /\ todo'[Cleaner] = <<>>
      /\ \A w \in Writer : at[w] = "idle" /\ at'[w] = at[w] /\ todo'[w] = todo[w]
  BY <1>1, <1>2, <1>3 DEF TypeOK, Actor
<1>7. /\ \A u \in page' : State(u)' = "RELEASED"
      /\ \A u \in wanted' : State(u)' = "STAGED"
  BY <1>2, <1>3 DEF Eligible, Inv, WorkFitsRow, State
<1>8. QED
  BY <1>2, <1>4, <1>5, <1>6, <1>7, CleanerWorks

LEMMA MaintainRowKept ==
    ASSUME Inv, MaintainRow
    PROVE  Inv'
<1>1. /\ TypeOK /\ Cleaner \in Actor /\ Cleaner \notin Writer
      /\ \A w \in Writer : at[w] = "idle"
  BY CleanerAlone DEF MaintainRow
<1>2. PICK t \in page : Enter(Cleaner, "clean", t, CleanScript(t)) /\ page' = page \ {t}
  BY DEF MaintainRow
<1>3. UNCHANGED <<row, wanted, files, refused, faults>>
  BY DEF MaintainRow
<1>4. t \in Token /\ State(t) = "RELEASED"
  BY <1>1 DEF Inv, WorkFitsRow, TypeOK
<1>5. PICK s : s = CleanScript(t)
  OBVIOUS
<1>6. CleanerReady(t, s)
  BY <1>1, <1>4, <1>5, CleanScriptFits DEF Inv, Rows, TypeOK
<1>7. /\ at'[Cleaner] = "clean" /\ on'[Cleaner] = t /\ todo'[Cleaner] = s
      /\ \A w \in Writer : at'[w] = at[w] /\ todo'[w] = todo[w]
  BY <1>1, <1>2, <1>5 DEF Enter, TypeOK, Actor
<1>8. TypeOK'
  <2>1. s \in Seq(Calls) /\ "clean" \in Places
    BY <1>6, ScriptsAreTyped DEF Places
  <2>2. /\ at' \in [Actor -> Places] /\ on' \in [Actor -> Token \cup {NoToken}]
        /\ todo' \in [Actor -> Seq(Calls)]
    BY <1>1, <1>2, <1>4, <1>5, <2>1, EnterTypes
  <2>3. QED
    BY <1>1, <1>2, <1>3, <2>2 DEF TypeOK, files, Places, Calls
<1>9. Rows'
  BY <1>3, QuietFiles, UndisturbedFits DEF Inv, Rows
<1>10. CleanerReady(on[Cleaner], todo[Cleaner])'
  BY <1>3, <1>6, <1>7 DEF CleanerReady, Final, Temporary, Gone, Names, files
<1>11. /\ State(on[Cleaner])' = "RELEASED" /\ on'[Cleaner] \in Token
       /\ \A u \in page' : State(u)' = "RELEASED"
       /\ \A u \in wanted' : State(u)' = "STAGED"
  BY <1>2, <1>3, <1>4, <1>7 DEF Inv, WorkFitsRow, State
<1>12. QED
  BY <1>1, <1>3, <1>7, <1>8, <1>9, <1>10, <1>11, CleanerWorks

LEMMA MaintainedRowKept ==
    ASSUME Inv, MaintainedRow
    PROVE  Inv'
<1>1. /\ TypeOK /\ Cleaner \in Actor /\ Cleaner \notin Writer
      /\ \A w \in Writer : at[w] = "idle"
  BY CleanerAlone DEF MaintainedRow
<1>2. PICK t \in Token : on[Cleaner] = t
  BY DEF MaintainedRow, Inv, WorkFitsRow
<1>3. /\ UNCHANGED <<wanted, files, page, refused, faults>>
      /\ Enter(Cleaner, "maintain", NoToken, <<>>)
      /\ row' = Forgotten(t) /\ todo[Cleaner] = <<>> /\ at[Cleaner] = "clean"
  BY <1>2 DEF MaintainedRow
<1>4. /\ at'[Cleaner] = "maintain" /\ todo'[Cleaner] = <<>>
      /\ \A w \in Writer : at'[w] = at[w] /\ todo'[w] = todo[w]
  BY <1>1, <1>3 DEF Enter, TypeOK, Actor
<1>5. /\ \A u \in Token : row'[u].state = row[u].state
      /\ row' \in [Token -> Row]
      /\ Rows'
  <2>1. State(t) = "RELEASED"
    BY <1>2, <1>3 DEF Inv, WorkFitsRow
  <2>2. /\ row'[t].state = "RELEASED" /\ Rows'
        /\ \A u \in Token \ {t} : row'[u] = row[u]
    BY <1>2, <1>3, ForgottenRow
  <2>3. row' \in [Token -> Row]
    BY <1>1, <1>3, RowsAreTyped
  <2>4. \A u \in Token : row'[u].state = row[u].state
    BY <2>1, <2>2 DEF State
  <2>5. QED
    BY <2>2, <2>3, <2>4
<1>6. TypeOK'
  <2>1. <<>> \in Seq(Calls) /\ "maintain" \in Places
    BY DEF Places
  <2>2. /\ at' \in [Actor -> Places] /\ on' \in [Actor -> Token \cup {NoToken}]
        /\ todo' \in [Actor -> Seq(Calls)]
    BY <1>1, <1>3, <2>1, EnterTypes
  <2>3. QED
    BY <1>1, <1>3, <1>5, <2>2 DEF TypeOK, files, Places, Calls
<1>7. /\ \A u \in page' : State(u)' = "RELEASED"
      /\ \A u \in wanted' : State(u)' = "STAGED"
  BY <1>1, <1>3, <1>5 DEF Inv, WorkFitsRow, State, TypeOK
<1>8. QED
  BY <1>1, <1>3, <1>4, <1>5, <1>6, <1>7, CleanerWorks

LEMMA MaintainedKept ==
    ASSUME Inv, Maintained
    PROVE  Inv'
<1>1. /\ TypeOK /\ Cleaner \in Actor /\ Cleaner \notin Writer
      /\ \A w \in Writer : at[w] = "idle"
  BY CleanerAlone DEF Maintained
<1>2. UNCHANGED <<row, wanted, files, refused, faults>> /\ Leave(Cleaner)
  BY DEF Maintained
<1>3. /\ at'[Cleaner] = "idle" /\ todo'[Cleaner] = <<>> /\ page' = {}
      /\ \A w \in Writer : at'[w] = at[w] /\ todo'[w] = todo[w]
  BY <1>1, <1>2 DEF Leave, TypeOK, Actor
<1>4. TypeOK'
  BY <1>1, <1>2, LeaveTypes DEF TypeOK, files, Places, Calls
<1>5. Rows'
  BY <1>2, QuietFiles, UndisturbedFits DEF Inv, Rows
<1>6. \A u \in wanted' : State(u)' = "STAGED"
  BY <1>2 DEF Inv, WorkFitsRow, State
<1>7. QED
  BY <1>1, <1>2, <1>3, <1>4, <1>5, <1>6, CleanerWorks

-----------------------------------------------------------------------------
(* The invariant is kept by activation and by faults.                      *)

LEMMA OpenActivationKept ==
    ASSUME Inv, OpenActivation
    PROVE  Inv'
<1>1. /\ TypeOK /\ Cleaner \in Actor /\ Cleaner \notin Writer
      /\ \A x \in Actor : at[x] = "idle" /\ todo[x] = <<>>
  BY NobodyBusy, ProtectionAssumption DEF Inv, OpenActivation, Actor
<1>2. /\ UNCHANGED <<row, files, calls, refused, faults>>
      /\ wanted' \subseteq {t \in Token : State(t) = "STAGED"}
  BY DEF OpenActivation
<1>3. TypeOK'
  BY <1>1, <1>2 DEF TypeOK, files, calls
<1>4. Rows'
  BY <1>2, QuietFiles, UndisturbedFits DEF Inv, Rows
<1>5. /\ \A u \in page' : State(u)' = "RELEASED"
      /\ \A u \in wanted' : State(u)' = "STAGED"
  BY <1>2 DEF Inv, WorkFitsRow, State, calls
<1>6. QED
  BY <1>1, <1>2, <1>3, <1>4, <1>5, CleanerWorks DEF calls, Actor

LEMMA InstallKept ==
    ASSUME Inv, NEW t \in Token, Install(t)
    PROVE  Inv'
<1>1. /\ TypeOK /\ Cleaner \in Actor /\ Cleaner \notin Writer
      /\ \A x \in Actor : at[x] = "idle" /\ todo[x] = <<>>
  BY NobodyBusy, ProtectionAssumption DEF Inv, Install, Actor
<1>2. /\ row' = [row EXCEPT ![t] = [NoRow EXCEPT !.state = "INSTALLED"]]
      /\ wanted' = wanted \ {t} /\ t \in wanted
      /\ dir' = [dir EXCEPT !["final"] = @ \ {t}] /\ disk' = dir'
      /\ UNCHANGED <<data, synced, calls, refused, faults>>
  BY DEF Install
<1>3. State(t) = "STAGED" /\ Stored(t)
  BY <1>2 DEF Inv, WorkFitsRow, Rows, FilesFitRow
<1>4. /\ row'[t].state = "INSTALLED" /\ ~row'[t].leaf /\ ~row'[t].sig
      /\ \A u \in Token \ {t} : row'[u] = row[u]
  BY <1>1, <1>2 DEF TypeOK, NoRow
<1>5. TypeOK'
  <2>1. row' \in [Token -> Row]
    BY <1>1, <1>2, RowsAreTyped
  <2>2. dir' \in [Names -> SUBSET Token]
    BY <1>1, <1>2 DEF TypeOK, Names
  <2>3. QED
    BY <1>1, <1>2, <2>1, <2>2 DEF TypeOK, calls
<1>6. Rows'
  <2>1. \A u \in Token \ {t} : Undisturbed(u)
    BY <1>1, <1>2, <1>4 DEF Undisturbed, Names, TypeOK
  <2>2. Gone(t)'
    BY <1>1, <1>2, <1>3 DEF Gone, Stored, Temporary, Names, TypeOK
  <2>3. RowIsWhole(t)' /\ FilesFitRow(t)'
    BY <1>4, <2>2 DEF RowIsWhole, FilesFitRow, State, Gone, Final, Names
  <2>4. QED
    BY <2>1, <2>3, OtherRows DEF Inv
<1>7. /\ \A u \in page' : State(u)' = "RELEASED"
      /\ \A u \in wanted' : State(u)' = "STAGED"
  <2>1. \A u \in Token : u # t => State(u)' = State(u)
    BY <1>4 DEF State
  <2>2. t \notin page /\ page' = page
    BY <1>2, <1>3 DEF Inv, WorkFitsRow, calls
  <2>3. QED
    BY <1>1, <1>2, <2>1, <2>2 DEF Inv, WorkFitsRow, TypeOK
<1>8. QED
  BY <1>1, <1>2, <1>5, <1>6, <1>7, CleanerWorks DEF calls, Actor

LEMMA InterruptKept ==
    ASSUME Inv, NEW x \in Actor, Interrupt(x)
    PROVE  Inv'
<1>1. /\ TypeOK /\ Cleaner \in Actor /\ Cleaner \notin Writer
  BY ProtectionAssumption DEF Inv, Actor
<1>2. UNCHANGED <<row, wanted, files, refused>> /\ Leave(x) /\ faults' \in 0..MaxFaults
  BY <1>1, ProtectionAssumption DEF Interrupt, TypeOK
<1>3. /\ \A y \in Actor : y # x =>
            at'[y] = at[y] /\ on'[y] = on[y] /\ todo'[y] = todo[y]
      /\ at'[x] = "idle" /\ todo'[x] = <<>>
      /\ page' \subseteq page
  BY <1>1, <1>2 DEF Leave, TypeOK
<1>4. TypeOK'
  BY <1>1, <1>2, LeaveTypes DEF TypeOK, files, Places, Calls
<1>5. LocksHeld'
  BY <1>3 DEF Inv, LocksHeld, Busy, Actor
<1>6. WorkFitsRow'
  BY <1>2, <1>3 DEF Inv, WorkFitsRow, State, Actor
<1>7. Rows'
  BY <1>2, QuietFiles, UndisturbedFits DEF Inv, Rows
<1>8. ScriptsFitFiles'
  <2>1. ASSUME NEW v \in Writer, at'[v] = "write" PROVE WriterReady(on[v], todo[v])'
    <3>1. at[v] = "write" /\ on'[v] = on[v] /\ todo'[v] = todo[v]
      BY <1>3, <2>1 DEF Actor
    <3>2. QED
      BY <1>2, <3>1, WritersReady
  <2>2. ASSUME at'[Cleaner] \in {"release", "replay", "clean"}
        PROVE  CleanerReady(on[Cleaner], todo[Cleaner])'
    <3>1. at[Cleaner] = at'[Cleaner] /\ on'[Cleaner] = on[Cleaner] /\ todo'[Cleaner] = todo[Cleaner]
      BY <1>1, <1>3, <2>2
    <3>2. CleanerReady(on[Cleaner], todo[Cleaner])
      BY <2>2, <3>1 DEF Inv, ScriptsFitFiles
    <3>3. QED
      BY <1>2, <3>1, <3>2 DEF CleanerReady, Final, Temporary, Gone, Names, files
  <2>3. QED
    BY <2>1, <2>2 DEF ScriptsFitFiles
<1>9. QED
  BY <1>2, <1>4, <1>5, <1>6, <1>7, <1>8 DEF Inv, CleanupNeverRefused

\* Whatever the disk has kept fits the rows.
LEMMA PowerLossKept ==
    ASSUME Inv, PowerLoss
    PROVE  Inv'
<1>1. /\ TypeOK /\ Cleaner \in Actor /\ Cleaner \notin Writer
  BY ProtectionAssumption DEF Inv, Actor
<1>2. /\ UNCHANGED <<row, wanted, refused>> /\ page' = {}
      /\ at' = [x \in Actor |-> "idle"] /\ on' = [x \in Actor |-> NoToken]
      /\ todo' = [x \in Actor |-> <<>>] /\ synced' = [t \in Token |-> TRUE]
      /\ faults' \in 0..MaxFaults
  BY <1>1, ProtectionAssumption DEF PowerLoss, TypeOK
<1>3. PICK kept \in [Names -> SUBSET Token] :
        /\ \A n \in Names : kept[n] \subseteq dir[n] \cup disk[n]
                            /\ dir[n] \cap disk[n] \subseteq kept[n]
        /\ dir' = kept /\ disk' = kept
  BY DEF PowerLoss
<1>4. /\ data' \in [Token -> {"prefix", "torn", "full"}]
      /\ \A t \in Token : synced[t] => data'[t] = data[t]
  BY DEF PowerLoss
<1>5. \A x \in Actor : at'[x] = "idle" /\ todo'[x] = <<>>
  BY <1>2
<1>6. TypeOK'
  <2>1. /\ at' \in [Actor -> Places] /\ on' \in [Actor -> Token \cup {NoToken}]
    BY <1>2 DEF Places
  <2>2. todo' \in [Actor -> Seq(Calls)]
    <3>1. <<>> \in Seq(Calls)
      OBVIOUS
    <3>2. QED
      BY <1>2, <3>1
  <2>3. synced' \in [Token -> BOOLEAN]
    BY <1>2
  <2>4. QED
    BY <1>1, <1>2, <1>3, <1>4, <2>1, <2>2, <2>3 DEF TypeOK, Places, Calls
<1>7. ASSUME NEW t \in Token PROVE RowIsWhole(t)' /\ FilesFitRow(t)'
  <2>1. RowIsWhole(t) /\ FilesFitRow(t)
    BY DEF Inv, Rows
  <2>2. /\ \A n \in Names : /\ t \in dir'[n] => t \in dir[n] \/ t \in disk[n]
                            /\ t \in dir[n] /\ t \in disk[n] => t \in dir'[n]
      /\ disk' = dir'
    BY <1>3
  <2>3. Safe(t) => Safe(t)'
    BY <1>2, <1>4 DEF Safe
  <2>4. Gone(t) => Gone(t)'
    BY <2>2 DEF Gone
  <2>5. Stored(t) => Stored(t)'
    BY <2>2 DEF Stored, Final, Temporary, Names
  <2>6. Final(t)' => Final(t) \/ t \in disk["final"]
    BY <2>2 DEF Final, Names
  <2>7. t \in disk'["final"] <=> Final(t)'
    BY <2>2 DEF Final
  <2>8. RowIsWhole(t)'
    BY <1>2, <2>1 DEF RowIsWhole, State
  <2>9. FilesFitRow(t)'
    BY <1>2, <2>1, <2>3, <2>4, <2>5, <2>6, <2>7 DEF FilesFitRow, State
  <2>10. QED
    BY <2>8, <2>9
<1>8. LocksHeld' /\ ScriptsFitFiles'
  BY <1>1, <1>5 DEF LocksHeld, ScriptsFitFiles, Busy, Actor
<1>9. WorkFitsRow'
  BY <1>1, <1>2, <1>5 DEF Inv, WorkFitsRow, State, Actor
<1>10. QED
  BY <1>2, <1>6, <1>7, <1>8, <1>9 DEF Inv, Rows, CleanupNeverRefused

-----------------------------------------------------------------------------
LEMMA InitInv == Init => Inv
<1> SUFFICES ASSUME Init PROVE Inv
  OBVIOUS
<1>1. TypeOK
  BY InitTypes
<1>2. \A x \in Actor : at[x] = "idle" /\ todo[x] = <<>>
  BY DEF Init
<1>3. LocksHeld /\ WorkFitsRow /\ ScriptsFitFiles
  BY <1>2, ProtectionAssumption DEF Init, LocksHeld, WorkFitsRow, ScriptsFitFiles, Busy, Actor
<1>4. Rows
  BY DEF Init, NoRow, Rows, RowIsWhole, FilesFitRow, State, Gone, Final, Names
<1>5. QED
  BY <1>1, <1>3, <1>4 DEF Inv, Init, CleanupNeverRefused

LEMMA NextInv == Inv /\ [Next]_vars => Inv'
<1> SUFFICES ASSUME Inv, [Next]_vars PROVE Inv'
  OBVIOUS
<1>1. ASSUME NEW w \in Writer, WriterNext(w) PROVE Inv'
  BY <1>1, ProtectNewKept, ProtectResumedKept, LookKept, CommitStagedKept DEF WriterNext
<1>2. ASSUME NEW t \in Token, ReleaseUnknown(t) \/ ReleaseKnown(t) \/ Install(t) PROVE Inv'
  BY <1>2, ReleaseUnknownKept, ReleaseKnownKept, InstallKept
<1>3. CASE Maintain \/ CleanerStep \/ OpenActivation
  BY <1>3, MaintainKept, ReleasedKept, MaintainRowKept, MaintainedRowKept, MaintainedKept,
     OpenActivationKept DEF CleanerStep
<1>4. ASSUME NEW x \in Actor, Perform(x) \/ Interrupt(x) PROVE Inv'
  BY <1>4, WriterPerforms, CleanerPerforms, InterruptKept DEF Actor
<1>5. CASE PowerLoss
  BY <1>5, PowerLossKept
<1>6. CASE UNCHANGED vars
  <2>1. UNCHANGED <<row, wanted, dir, disk, data, synced, at, on, todo, page, refused, faults>>
    BY <1>6 DEF vars, files, calls
  <2>2. TypeOK' /\ LocksHeld' /\ WorkFitsRow'
    BY <2>1 DEF Inv, TypeOK, LocksHeld, WorkFitsRow, Busy, State
  <2>3. Rows'
    BY <2>1, QuietFiles, UndisturbedFits DEF Inv, Rows, files
  <2>4. ScriptsFitFiles'
    BY <2>1 DEF Inv, ScriptsFitFiles, WriterReady, CleanerReady, Final, Temporary, Safe,
       Stored, Gone
  <2>5. QED
    BY <2>1, <2>2, <2>3, <2>4 DEF Inv, CleanupNeverRefused
<1>7. QED
  BY <1>1, <1>2, <1>3, <1>4, <1>5, <1>6 DEF Next

\* What the locks, the rows, the files and the scripts are to each other
\* holds whenever a call is stopped.
THEOREM Invariance == Spec => []Inv
BY InitInv, NextInv, PTL DEF Spec

\* Rows, names and running calls keep their shapes (protect, release,
\* maintain_cleanup, library.py).
THEOREM TypeCorrectness == Spec => []TypeOK
<1>1. Inv => TypeOK
  BY DEF Inv
<1>2. QED
  BY <1>1, Invariance, PTL

\* What protect has reported as stored survives a power loss, complete and
\* under exactly its final name, until it is installed or released
\* (_publish_resumable_file and the second transaction of protect).
THEOREM DurableEvidence == Spec => []EvidenceIsDurable
<1>1. Inv => EvidenceIsDurable
  BY DEF Inv, Rows, RowIsWhole, FilesFitRow, Stored, Safe, Final, Temporary, EvidenceIsDurable
<1>2. QED
  BY <1>1, Invariance, PTL

\* A row forgets its leaf only when neither the directory nor the disk has
\* any name left (release, maintain_cleanup).
THEOREM NoOrphans == Spec => []NoOrphanStaging
<1>1. Inv => NoOrphanStaging
  BY DEF Inv, Rows, FilesFitRow, Gone, NoOrphanStaging
<1>2. QED
  BY <1>1, Invariance, PTL

\* Release and maintenance never meet files they may not remove, wherever a
\* writer or an earlier cleanup was stopped (_heal_released_stage_duplicate,
\* _remove_stage_from_row, _remove_stage_temporary).
THEOREM CleanupSucceeds == Spec => []CleanupNeverRefused
<1>1. Inv => CleanupNeverRefused
  BY DEF Inv
<1>2. QED
  BY <1>1, Invariance, PTL
=============================================================================
