-------------------------- MODULE ChangeApply_proofs --------------------------
(***************************************************************************)
(* Proofs about ChangeApply, for every change set, every number of         *)
(* concurrent applies and every sequence of edits.                         *)
(*                                                                         *)
(* The inductive invariant is built in layers, each proved from the ones   *)
(* below it: TypeOK, then PhaseInv (what an apply has done follows from    *)
(* where it is), then TreeInv (what lies in a directory keeps it alive),   *)
(* then HoldInv (what the checkout holds where nobody else interfered).    *)
(* The action properties follow from the same layers.                      *)
(***************************************************************************)
EXTENDS ChangeApply, TLAPS

Early      == {"idle", "preflight", "refused"}
Publishing == {"mkdir", "write", "recheck", "place", "rename"}
Admitted   == Publishing \cup {"unlinktmp", "report", "done", "recovered"}

\* What applier a has done, by where it is.
PhaseOf(a) ==
  /\ pc[a] \in Early =>
       /\ touched[a] = {} /\ mkdirs[a] = {} /\ tmp[a] = {}
       /\ published[a] = {} /\ created[a] = {} /\ idx[a] = 1
  /\ pc[a] = "idle" => checked[a] = 0
  /\ pc[a] = "preflight" => args[a].valid
  /\ pc[a] \in Admitted \/ touched[a] # {} \/ mkdirs[a] # {} \/ tmp[a] # {} =>
       args[a].valid /\ args[a].accept = MustAccept /\ checked[a] = N
  /\ pc[a] \in Publishing \cup {"report", "done", "recovered"} =>
       published[a] = touched[a]
  /\ pc[a] \in Publishing => touched[a] = 1..(idx[a] - 1)
  /\ pc[a] = "mkdir" => touched[a] = {}
  /\ pc[a] \in {"recheck", "place", "rename", "unlinktmp"} => idx[a] <= N
  /\ pc[a] \in {"recheck", "place", "rename"} /\ WritesSibling(idx[a]) => idx[a] \in tmp[a]
  /\ pc[a] = "rename" => Op[idx[a]] = "added"
  /\ pc[a] = "unlinktmp" => touched[a] = 1..idx[a] /\ published[a] = 1..(idx[a] - 1)
  /\ touched[a] \in {1..(idx[a] - 1), 1..idx[a]}

PhaseInv == \A a \in Appliers : PhaseOf(a)

\* No file and no temporary sibling lies below a directory that is missing.
TreeInv ==
  /\ \A i \in Entries : file[i] # Absent => Needs[i] \subseteq dirs
  /\ \A a \in Appliers : \A i \in tmp[a] : Needs[i] \subseteq dirs

\* Where nobody else interfered, an entry the preflight has passed holds its
\* base, or its result once the applier's system call took effect.
HoldOf(a) ==
  /\ pc[a] = "preflight" =>
       \A i \in 1..checked[a] : i \in foreign[a] \/ file[i] = Base(i)
  /\ pc[a] \in Admitted \ {"recovered"} =>
       \A i \in Entries :
         i \in foreign[a] \/ file[i] = (IF i \in touched[a] THEN Result(i) ELSE Base(i))

HoldInv == \A a \in Appliers : HoldOf(a)

-----------------------------------------------------------------------------
(* Type correctness *)

\* The constants' assumptions, cited together.
LEMMA BaseAndResultAreFiles ==
  ASSUME NEW i \in Entries
  PROVE  Base(i) \in File /\ Result(i) \in File /\ Absent \in File
BY EntriesAssumption DEF Base, Result, File, Absent

\* UNCHANGED on a group of variables, variable by variable.
LEMMA Groups ==
  /\ UNCHANGED tree => UNCHANGED file /\ UNCHANGED dirs
  /\ UNCHANGED history => UNCHANGED touched /\ UNCHANGED mkdirs
  /\ UNCHANGED progress =>
       /\ UNCHANGED checked /\ UNCHANGED todo /\ UNCHANGED created
       /\ UNCHANGED idx /\ UNCHANGED published /\ UNCHANGED tried
BY DEF tree, history, progress

\* TypeOK alone is not inductive: idx may only be advanced from an entry.
CursorOK ==
  \A a \in Appliers :
    pc[a] \in {"recheck", "place", "rename", "unlinktmp"} => idx[a] \in Entries

Typed == TypeOK /\ CursorOK

\* The initial state has the types.
LEMMA InitTyped == Init => Typed
<1> SUFFICES ASSUME Init PROVE Typed
  OBVIOUS
<1>1. file \in [Entries -> File]
  BY BaseAndResultAreFiles DEF Init
<1> QED
  BY <1>1, CountsAssumption DEF Init, Typed, TypeOK, CursorOK, Stages

\* Typed is preserved by every step: one case per action, and under it one
\* step per variable the action changes.
LEMMA NextTyped == Typed /\ [Next]_vars => Typed'
<1> SUFFICES ASSUME Typed, [Next]_vars PROVE Typed'
  OBVIOUS
<1> USE Groups
<1>file. file \in [Entries -> File]
  BY DEF Typed, TypeOK
<1>dirs. dirs \in SUBSET Dirs
  BY DEF Typed, TypeOK
<1>reports. reports \in [1..MaxReports -> SUBSET Appliers]
  BY DEF Typed, TypeOK
<1>edits. edits \in 0..MaxEdits
  BY DEF Typed, TypeOK
<1>pc. pc \in [Appliers -> Stages]
  BY DEF Typed, TypeOK
<1>args. args \in [Appliers -> [valid : BOOLEAN, accept : SUBSET Entries]]
  BY DEF Typed, TypeOK
<1>checked. checked \in [Appliers -> 0..N]
  BY DEF Typed, TypeOK
<1>todo. todo \in [Appliers -> SUBSET Dirs]
  BY DEF Typed, TypeOK
<1>created. created \in [Appliers -> SUBSET Dirs]
  BY DEF Typed, TypeOK
<1>idx. idx \in [Appliers -> 1..(N + 1)]
  BY DEF Typed, TypeOK
<1>tmp. tmp \in [Appliers -> SUBSET Entries]
  BY DEF Typed, TypeOK
<1>published. published \in [Appliers -> SUBSET Entries]
  BY DEF Typed, TypeOK
<1>code. code \in [Appliers -> {0, 2, 5}]
  BY DEF Typed, TypeOK
<1>tried. tried \in [Appliers -> 0..MaxReports]
  BY DEF Typed, TypeOK
<1>touched. touched \in [Appliers -> SUBSET Entries]
  BY DEF Typed, TypeOK
<1>mkdirs. mkdirs \in [Appliers -> SUBSET Dirs]
  BY DEF Typed, TypeOK
<1>foreign. foreign \in [Appliers -> SUBSET Entries]
  BY DEF Typed, TypeOK
<1>1. ASSUME NEW a \in Appliers, Start(a) PROVE Typed'
  <2>1. (args \in [Appliers -> [valid : BOOLEAN, accept : SUBSET Entries]])'
    BY <1>1, <1>args DEF Start, Begin, Refuse, Goto
  <2>2. (foreign \in [Appliers -> SUBSET Entries])'
    BY <1>1, <1>foreign DEF Start, Begin, Refuse, Goto
  <2>3. (pc \in [Appliers -> Stages])'
    BY <1>1, <1>pc DEF Start, Begin, Refuse, Goto, Stages
  <2>4. (code \in [Appliers -> {0, 2, 5}])'
    BY <1>1, <1>code DEF Start, Begin, Refuse, Goto
  <2>5. UNCHANGED <<file, dirs, reports, edits, checked, todo, created, idx,
      tmp, published, tried, touched, mkdirs>>
    BY <1>1 DEF Start, Begin, Refuse, Goto
  <2>6. TypeOK'
    BY <2>1, <2>2, <2>3, <2>4, <2>5 DEF Typed, TypeOK
  <2>7. CursorOK'
    BY <1>1, CountsAssumption DEF Start, Begin, Refuse, Goto, Typed, TypeOK, CursorOK, Entries
  <2> QED
    BY <2>6, <2>7 DEF Typed
<1>2. ASSUME NEW a \in Appliers, PreflightEntry(a) PROVE Typed'
  <2>1. checked[a] + 1 \in 0..N /\ Needs[checked[a] + 1] \subseteq Dirs
    BY <1>2, TreeAssumption, CountsAssumption DEF PreflightEntry, Typed, TypeOK, Entries
  <2>2. (pc \in [Appliers -> Stages])'
    BY <1>2, <1>pc, <2>1 DEF PreflightEntry, Refuse, Goto, Stages
  <2>3. (checked \in [Appliers -> 0..N])'
    BY <1>2, <1>checked, <2>1 DEF PreflightEntry, Refuse, Goto
  <2>4. (todo \in [Appliers -> SUBSET Dirs])'
    BY <1>2, <1>todo, <2>1 DEF PreflightEntry, Refuse, Goto
  <2>5. (code \in [Appliers -> {0, 2, 5}])'
    BY <1>2, <1>code, <2>1 DEF PreflightEntry, Refuse, Goto
  <2>6. UNCHANGED <<file, dirs, reports, edits, args, created, idx, tmp,
      published, tried, touched, mkdirs, foreign>>
    BY <1>2 DEF PreflightEntry, Refuse, Goto
  <2>7. TypeOK'
    BY <2>2, <2>3, <2>4, <2>5, <2>6 DEF Typed, TypeOK
  <2>8. CursorOK'
    BY <1>2, CountsAssumption DEF PreflightEntry, Refuse, Goto, Typed, TypeOK, CursorOK, Entries
  <2> QED
    BY <2>7, <2>8 DEF Typed
<1>3. ASSUME NEW a \in Appliers, Decide(a) PROVE Typed'
  <2>1. (pc \in [Appliers -> Stages])'
    BY <1>3, <1>pc DEF Decide, Refuse, Goto, Stages
  <2>2. (code \in [Appliers -> {0, 2, 5}])'
    BY <1>3, <1>code DEF Decide, Refuse, Goto
  <2>3. UNCHANGED <<file, dirs, reports, edits, args, checked, todo, created,
      idx, tmp, published, tried, touched, mkdirs, foreign>>
    BY <1>3 DEF Decide, Refuse, Goto
  <2>4. TypeOK'
    BY <2>1, <2>2, <2>3 DEF Typed, TypeOK
  <2>5. CursorOK'
    BY <1>3, CountsAssumption DEF Decide, Refuse, Goto, Typed, TypeOK, CursorOK, Entries
  <2> QED
    BY <2>4, <2>5 DEF Typed
<1>4. ASSUME NEW a \in Appliers, MakeDir(a) PROVE Typed'
  <2>1. (dirs \in SUBSET Dirs)'
    BY <1>4, <1>dirs, <1>todo DEF MakeDir, Stop, Goto
  <2>2. (mkdirs \in [Appliers -> SUBSET Dirs])'
    BY <1>4, <1>mkdirs, <1>todo DEF MakeDir, Stop, Goto
  <2>3. (created \in [Appliers -> SUBSET Dirs])'
    BY <1>4, <1>created, <1>todo DEF MakeDir, Stop, Goto
  <2>4. (pc \in [Appliers -> Stages])'
    BY <1>4, <1>pc DEF MakeDir, Stop, Goto, Stages
  <2>5. (code \in [Appliers -> {0, 2, 5}])'
    BY <1>4, <1>code DEF MakeDir, Stop, Goto
  <2>6. (tmp \in [Appliers -> SUBSET Entries])'
    BY <1>4, <1>tmp DEF MakeDir, Stop, Goto
  <2>7. UNCHANGED <<file, reports, edits, args, checked, todo, idx, published,
      tried, touched, foreign>>
    BY <1>4 DEF MakeDir, Stop, Goto
  <2>8. TypeOK'
    BY <2>1, <2>2, <2>3, <2>4, <2>5, <2>6, <2>7 DEF Typed, TypeOK
  <2>9. CursorOK'
    BY <1>4, CountsAssumption DEF MakeDir, Stop, Goto, Typed, TypeOK, CursorOK, Entries
  <2> QED
    BY <2>8, <2>9 DEF Typed
<1>5. ASSUME NEW a \in Appliers, AllDirsMade(a) PROVE Typed'
  <2>1. (pc \in [Appliers -> Stages])'
    BY <1>5, <1>pc DEF AllDirsMade, Goto, Stages
  <2>2. UNCHANGED <<file, dirs, reports, edits, args, checked, todo, created,
      idx, tmp, published, code, tried, touched, mkdirs, foreign>>
    BY <1>5 DEF AllDirsMade, Goto
  <2>3. TypeOK'
    BY <2>1, <2>2 DEF Typed, TypeOK
  <2>4. CursorOK'
    BY <1>5, CountsAssumption DEF AllDirsMade, Goto, Typed, TypeOK, CursorOK, Entries
  <2> QED
    BY <2>3, <2>4 DEF Typed
<1>6. ASSUME NEW a \in Appliers, WriteTemp(a) PROVE Typed'
  <2>1. idx[a] \in Entries
    BY <1>6, CountsAssumption DEF WriteTemp, Typed, TypeOK, Entries
  <2>2. (pc \in [Appliers -> Stages])'
    BY <1>6, <1>pc, <2>1 DEF WriteTemp, Stop, Goto, Stages
  <2>3. (tmp \in [Appliers -> SUBSET Entries])'
    BY <1>6, <1>tmp, <2>1 DEF WriteTemp, Stop, Goto
  <2>4. (code \in [Appliers -> {0, 2, 5}])'
    BY <1>6, <1>code, <2>1 DEF WriteTemp, Stop, Goto
  <2>5. UNCHANGED <<file, dirs, reports, edits, args, checked, todo, created,
      idx, published, tried, touched, mkdirs, foreign>>
    BY <1>6 DEF WriteTemp, Stop, Goto
  <2>6. TypeOK'
    BY <2>2, <2>3, <2>4, <2>5 DEF Typed, TypeOK
  <2>7. CursorOK'
    BY <1>6, CountsAssumption DEF WriteTemp, Stop, Goto, Typed, TypeOK, CursorOK, Entries
  <2> QED
    BY <2>6, <2>7 DEF Typed
<1>7. ASSUME NEW a \in Appliers, Recheck(a) PROVE Typed'
  <2>1. (pc \in [Appliers -> Stages])'
    BY <1>7, <1>pc DEF Recheck, Stop, Goto, Stages
  <2>2. (tmp \in [Appliers -> SUBSET Entries])'
    BY <1>7, <1>tmp DEF Recheck, Stop, Goto
  <2>3. (code \in [Appliers -> {0, 2, 5}])'
    BY <1>7, <1>code DEF Recheck, Stop, Goto
  <2>4. (foreign \in [Appliers -> SUBSET Entries])'
    BY <1>7, <1>foreign DEF Recheck, Stop, Goto
  <2>5. UNCHANGED <<file, dirs, reports, edits, args, checked, todo, created,
      idx, published, tried, touched, mkdirs>>
    BY <1>7 DEF Recheck, Stop, Goto
  <2>6. TypeOK'
    BY <2>1, <2>2, <2>3, <2>4, <2>5 DEF Typed, TypeOK
  <2>7. CursorOK'
    BY <1>7, CountsAssumption DEF Recheck, Stop, Goto, Typed, TypeOK, CursorOK, Entries
  <2> QED
    BY <2>6, <2>7 DEF Typed
<1>8. ASSUME NEW a \in Appliers, Place(a) PROVE Typed'
  <2>1. idx[a] \in Entries /\ idx[a] + 1 \in 1..(N + 1)
    BY <1>8, CountsAssumption DEF Place, Typed, CursorOK, Entries
  <2>2. [file[idx[a]] EXCEPT !.x = ResultX[idx[a]]] \in File
    BY <1>8, <2>1, EntriesAssumption, <1>file DEF File
  <2>3. Result(idx[a]) \in File /\ Absent \in File
    BY <1>8, <2>1, <2>2, BaseAndResultAreFiles
  <2>4. (file \in [Entries -> File])'
    BY <1>8, <1>file, <2>1, <2>2, <2>3
    DEF Place, PlaceAddedByLink, PlaceAddedByRename, PlaceModified,
        PlaceDeleted, PlaceMode, PlaceFails, TakesEffect, SeenByOthers,
        Published, Stop, Goto
  <2>5. (touched \in [Appliers -> SUBSET Entries])'
    BY <1>8, <1>touched, <2>1, <2>2, <2>3
    DEF Place, PlaceAddedByLink, PlaceAddedByRename, PlaceModified,
        PlaceDeleted, PlaceMode, PlaceFails, TakesEffect, SeenByOthers,
        Published, Stop, Goto
  <2>6. (foreign \in [Appliers -> SUBSET Entries])'
    BY <1>8, <1>foreign, <2>1, <2>2, <2>3
    DEF Place, PlaceAddedByLink, PlaceAddedByRename, PlaceModified,
        PlaceDeleted, PlaceMode, PlaceFails, TakesEffect, SeenByOthers,
        Published, Stop, Goto
  <2>7. (published \in [Appliers -> SUBSET Entries])'
    BY <1>8, <1>published, <2>1, <2>2, <2>3
    DEF Place, PlaceAddedByLink, PlaceAddedByRename, PlaceModified,
        PlaceDeleted, PlaceMode, PlaceFails, TakesEffect, SeenByOthers,
        Published, Stop, Goto
  <2>8. (idx \in [Appliers -> 1..(N + 1)])'
    BY <1>8, <1>idx, <2>1, <2>2, <2>3
    DEF Place, PlaceAddedByLink, PlaceAddedByRename, PlaceModified,
        PlaceDeleted, PlaceMode, PlaceFails, TakesEffect, SeenByOthers,
        Published, Stop, Goto
  <2>9. (tmp \in [Appliers -> SUBSET Entries])'
    BY <1>8, <1>tmp, <2>1, <2>2, <2>3
    DEF Place, PlaceAddedByLink, PlaceAddedByRename, PlaceModified,
        PlaceDeleted, PlaceMode, PlaceFails, TakesEffect, SeenByOthers,
        Published, Stop, Goto
  <2>10. (pc \in [Appliers -> Stages])'
    BY <1>8, <1>pc, <2>1, <2>2, <2>3
    DEF Place, PlaceAddedByLink, PlaceAddedByRename, PlaceModified,
        PlaceDeleted, PlaceMode, PlaceFails, TakesEffect, SeenByOthers,
        Published, Stop, Goto, Stages
  <2>11. (code \in [Appliers -> {0, 2, 5}])'
    BY <1>8, <1>code, <2>1, <2>2, <2>3
    DEF Place, PlaceAddedByLink, PlaceAddedByRename, PlaceModified,
        PlaceDeleted, PlaceMode, PlaceFails, TakesEffect, SeenByOthers,
        Published, Stop, Goto
  <2>12. UNCHANGED <<dirs, reports, edits, args, checked, todo, created,
      tried, mkdirs>>
    BY <1>8 DEF Place, PlaceAddedByLink, PlaceAddedByRename, PlaceModified,
        PlaceDeleted, PlaceMode, PlaceFails, TakesEffect, SeenByOthers,
        Published, Stop, Goto
  <2>13. TypeOK'
    BY <2>4, <2>5, <2>6, <2>7, <2>8, <2>9, <2>10, <2>11, <2>12 DEF Typed, TypeOK
  <2>14. CursorOK'
    <3>1. CursorOK /\ pc \in [Appliers -> Stages] /\ idx \in [Appliers -> 1..(N + 1)]
      BY DEF Typed, TypeOK
    <3>2. \A b \in Appliers : b # a => pc'[b] = pc[b] /\ idx'[b] = idx[b]
      BY <1>8, <3>1 DEF Place, PlaceAddedByLink, PlaceAddedByRename, PlaceModified, PlaceDeleted, PlaceMode, PlaceFails, TakesEffect, Published, Stop, Goto
    <3>3. pc'[a] \in {"write", "report"} \/ (idx'[a] = idx[a] /\ idx[a] \in Entries)
      BY <1>8, <2>1, <3>1 DEF Place, PlaceAddedByLink, PlaceAddedByRename, PlaceModified, PlaceDeleted, PlaceMode, PlaceFails, TakesEffect, Published, Stop, Goto
    <3> QED
      BY <3>1, <3>2, <3>3 DEF CursorOK
  <2> QED
    BY <2>13, <2>14 DEF Typed
<1>9. ASSUME NEW a \in Appliers, RenameAdded(a) PROVE Typed'
  <2>1. idx[a] \in Entries /\ idx[a] + 1 \in 1..(N + 1)
    BY <1>9, CountsAssumption DEF RenameAdded, Typed, CursorOK, Entries
  <2>2. Result(idx[a]) \in File
    BY <1>9, <2>1, BaseAndResultAreFiles
  <2>3. (file \in [Entries -> File])'
    BY <1>9, <1>file, <2>1, <2>2
    DEF RenameAdded, PlaceFails, TakesEffect, SeenByOthers, Published, Stop,
        Goto
  <2>4. (touched \in [Appliers -> SUBSET Entries])'
    BY <1>9, <1>touched, <2>1, <2>2
    DEF RenameAdded, PlaceFails, TakesEffect, SeenByOthers, Published, Stop,
        Goto
  <2>5. (foreign \in [Appliers -> SUBSET Entries])'
    BY <1>9, <1>foreign, <2>1, <2>2
    DEF RenameAdded, PlaceFails, TakesEffect, SeenByOthers, Published, Stop,
        Goto
  <2>6. (published \in [Appliers -> SUBSET Entries])'
    BY <1>9, <1>published, <2>1, <2>2
    DEF RenameAdded, PlaceFails, TakesEffect, SeenByOthers, Published, Stop,
        Goto
  <2>7. (idx \in [Appliers -> 1..(N + 1)])'
    BY <1>9, <1>idx, <2>1, <2>2
    DEF RenameAdded, PlaceFails, TakesEffect, SeenByOthers, Published, Stop,
        Goto
  <2>8. (tmp \in [Appliers -> SUBSET Entries])'
    BY <1>9, <1>tmp, <2>1, <2>2
    DEF RenameAdded, PlaceFails, TakesEffect, SeenByOthers, Published, Stop,
        Goto
  <2>9. (pc \in [Appliers -> Stages])'
    BY <1>9, <1>pc, <2>1, <2>2
    DEF RenameAdded, PlaceFails, TakesEffect, SeenByOthers, Published, Stop,
        Goto, Stages
  <2>10. (code \in [Appliers -> {0, 2, 5}])'
    BY <1>9, <1>code, <2>1, <2>2
    DEF RenameAdded, PlaceFails, TakesEffect, SeenByOthers, Published, Stop,
        Goto
  <2>11. UNCHANGED <<dirs, reports, edits, args, checked, todo, created,
      tried, mkdirs>>
    BY <1>9 DEF RenameAdded, PlaceFails, TakesEffect, SeenByOthers, Published,
        Stop, Goto
  <2>12. TypeOK'
    BY <2>3, <2>4, <2>5, <2>6, <2>7, <2>8, <2>9, <2>10, <2>11 DEF Typed, TypeOK
  <2>13. CursorOK'
    BY <1>9, CountsAssumption DEF RenameAdded, PlaceFails, TakesEffect, SeenByOthers, Published, Stop, Goto, Typed, TypeOK, CursorOK, Entries
  <2> QED
    BY <2>12, <2>13 DEF Typed
<1>10. ASSUME NEW a \in Appliers, UnlinkTemp(a) PROVE Typed'
  <2>1. idx[a] \in Entries /\ idx[a] + 1 \in 1..(N + 1)
    BY <1>10, CountsAssumption DEF UnlinkTemp, Typed, CursorOK, Entries
  <2>2. (published \in [Appliers -> SUBSET Entries])'
    BY <1>10, <1>published, <2>1 DEF UnlinkTemp, Published, Stop, Goto
  <2>3. (idx \in [Appliers -> 1..(N + 1)])'
    BY <1>10, <1>idx, <2>1 DEF UnlinkTemp, Published, Stop, Goto
  <2>4. (tmp \in [Appliers -> SUBSET Entries])'
    BY <1>10, <1>tmp, <2>1 DEF UnlinkTemp, Published, Stop, Goto
  <2>5. (pc \in [Appliers -> Stages])'
    BY <1>10, <1>pc, <2>1 DEF UnlinkTemp, Published, Stop, Goto, Stages
  <2>6. (code \in [Appliers -> {0, 2, 5}])'
    BY <1>10, <1>code, <2>1 DEF UnlinkTemp, Published, Stop, Goto
  <2>7. UNCHANGED <<file, dirs, reports, edits, args, checked, todo, created,
      tried, touched, mkdirs, foreign>>
    BY <1>10 DEF UnlinkTemp, Published, Stop, Goto
  <2>8. TypeOK'
    BY <2>2, <2>3, <2>4, <2>5, <2>6, <2>7 DEF Typed, TypeOK
  <2>9. CursorOK'
    BY <1>10, CountsAssumption DEF UnlinkTemp, Published, Stop, Goto, Typed, TypeOK, CursorOK, Entries
  <2> QED
    BY <2>8, <2>9 DEF Typed
<1>11. ASSUME NEW a \in Appliers, AllPublished(a) PROVE Typed'
  <2>1. (pc \in [Appliers -> Stages])'
    BY <1>11, <1>pc DEF AllPublished, Goto, Stages
  <2>2. UNCHANGED <<file, dirs, reports, edits, args, checked, todo, created,
      idx, tmp, published, code, tried, touched, mkdirs, foreign>>
    BY <1>11 DEF AllPublished, Goto
  <2>3. TypeOK'
    BY <2>1, <2>2 DEF Typed, TypeOK
  <2>4. CursorOK'
    BY <1>11, CountsAssumption DEF AllPublished, Goto, Typed, TypeOK, CursorOK, Entries
  <2> QED
    BY <2>3, <2>4 DEF Typed
<1>12. ASSUME NEW a \in Appliers, WriteReport(a) PROVE Typed'
  <2>1. (pc \in [Appliers -> Stages])'
    BY <1>12, <1>pc DEF WriteReport, Goto, Stages
  <2>2. (reports \in [1..MaxReports -> SUBSET Appliers])'
    BY <1>12, <1>reports DEF WriteReport, Goto
  <2>3. (tried \in [Appliers -> 0..MaxReports])'
    BY <1>12, <1>tried, CountsAssumption DEF WriteReport, Goto
  <2>4. UNCHANGED <<file, dirs, edits, args, checked, todo, created, idx, tmp,
      published, code, touched, mkdirs, foreign>>
    BY <1>12 DEF WriteReport, Goto
  <2>5. TypeOK'
    BY <2>1, <2>2, <2>3, <2>4 DEF Typed, TypeOK
  <2>6. CursorOK'
    BY <1>12, CountsAssumption DEF WriteReport, Goto, Typed, TypeOK, CursorOK, Entries
  <2> QED
    BY <2>5, <2>6 DEF Typed
<1>13. ASSUME NEW a \in Appliers, Crash(a) PROVE Typed'
  <2>1. (pc \in [Appliers -> Stages])'
    BY <1>13, <1>pc DEF Crash, Stages
  <2>2. UNCHANGED <<file, dirs, reports, edits, args, checked, todo, created,
      idx, tmp, published, code, tried, touched, mkdirs, foreign>>
    BY <1>13 DEF Crash
  <2>3. TypeOK'
    BY <2>1, <2>2 DEF Typed, TypeOK
  <2>4. CursorOK'
    BY <1>13, CountsAssumption DEF Crash, Typed, TypeOK, CursorOK, Entries
  <2> QED
    BY <2>3, <2>4 DEF Typed
<1>14. ASSUME NEW a \in Appliers, Recover(a) PROVE Typed'
  <2>1. \A i \in Entries : Base(i) \in File
    BY <1>14, BaseAndResultAreFiles
  <2>2. (file \in [Entries -> File])'
    BY <1>14, <1>file, <2>1 DEF Recover, Restored, RemainingDirs, Goto
  <2>3. (dirs \in SUBSET Dirs)'
    BY <1>14, <1>dirs, <2>1 DEF Recover, Restored, RemainingDirs, Goto
  <2>4. (foreign \in [Appliers -> SUBSET Entries])'
    BY <1>14, <1>foreign, <1>published, <2>1
    DEF Recover, Restored, RemainingDirs, Goto
  <2>5. (pc \in [Appliers -> Stages])'
    BY <1>14, <1>pc, <2>1 DEF Recover, Restored, RemainingDirs, Goto, Stages
  <2>6. UNCHANGED <<reports, edits, args, checked, todo, created, idx, tmp,
      published, code, tried, touched, mkdirs>>
    BY <1>14 DEF Recover, Restored, RemainingDirs, Goto
  <2>7. TypeOK'
    BY <2>2, <2>3, <2>4, <2>5, <2>6 DEF Typed, TypeOK
  <2>8. CursorOK'
    BY <1>14, CountsAssumption DEF Recover, Restored, RemainingDirs, Goto, Typed, TypeOK, CursorOK, Entries
  <2> QED
    BY <2>7, <2>8 DEF Typed
<1>15. ASSUME Edit PROVE Typed'
  <2>1. \A i \in Entries : [file[i] EXCEPT !.x = ~@] \in File
    BY <1>15, <1>file DEF File
  <2>2. [bytes |-> "edit", x |-> FALSE] \in File /\ Absent \in File
    BY <1>15, <2>1 DEF File, Absent
  <2>3. \A i \in Entries : EditedAs(i) \subseteq File
    BY <1>15, <2>1, <2>2 DEF EditedAs
  <2>4. (file \in [Entries -> File])'
    BY <1>15, <1>file, <2>1, <2>2, <2>3 DEF Edit
  <2>5. (edits \in 0..MaxEdits)'
    BY <1>15, <1>edits, <2>1, <2>2, <2>3, CountsAssumption DEF Edit
  <2>6. (foreign \in [Appliers -> SUBSET Entries])'
    BY <1>15, <1>foreign, <2>1, <2>2, <2>3 DEF Edit
  <2>7. UNCHANGED <<dirs, reports, pc, args, checked, todo, created, idx, tmp,
      published, code, tried, touched, mkdirs>>
    BY <1>15 DEF Edit
  <2>8. TypeOK'
    BY <2>4, <2>5, <2>6, <2>7 DEF Typed, TypeOK
  <2>9. CursorOK'
    BY <1>15, CountsAssumption DEF Edit, Typed, TypeOK, CursorOK, Entries
  <2> QED
    BY <2>8, <2>9 DEF Typed
<1>16. ASSUME EditorMakesDir PROVE Typed'
  <2>1. (edits \in 0..MaxEdits)'
    BY <1>16, <1>edits, CountsAssumption DEF EditorMakesDir
  <2>2. (dirs \in SUBSET Dirs)'
    BY <1>16, <1>dirs DEF EditorMakesDir
  <2>3. UNCHANGED <<file, reports, pc, args, checked, todo, created, idx, tmp,
      published, code, tried, touched, mkdirs, foreign>>
    BY <1>16 DEF EditorMakesDir
  <2>4. TypeOK'
    BY <2>1, <2>2, <2>3 DEF Typed, TypeOK
  <2>5. CursorOK'
    BY <1>16, CountsAssumption DEF EditorMakesDir, Typed, TypeOK, CursorOK, Entries
  <2> QED
    BY <2>4, <2>5 DEF Typed
<1>17. CASE UNCHANGED vars
  BY <1>17 DEF vars, tree, history, progress, Typed, TypeOK, CursorOK
<1> QED
  BY <1>1, <1>2, <1>3, <1>4, <1>5, <1>6, <1>7, <1>8, <1>9, <1>10, <1>11, <1>12, <1>13, <1>14, <1>15, <1>16, <1>17 DEF Next, Step
\* The program only reaches states of the types it declares.
THEOREM TypeCorrect == Spec => []TypeOK
<1>1. Spec => []Typed
  BY InitTyped, NextTyped, PTL DEF Spec
<1> QED
  BY <1>1, PTL DEF Typed

-----------------------------------------------------------------------------
(* Where an apply is tells what it has done *)

\* The variables PhaseOf(a) reads, unchanged at a.
Still(a) ==
  /\ pc'[a] = pc[a] /\ args'[a] = args[a] /\ checked'[a] = checked[a]
  /\ created'[a] = created[a] /\ idx'[a] = idx[a] /\ tmp'[a] = tmp[a]
  /\ published'[a] = published[a] /\ touched'[a] = touched[a] /\ mkdirs'[a] = mkdirs[a]

\* One apply's step leaves another one's own variables alone.
LEMMA OthersStill ==
  ASSUME NEW a \in Appliers, NEW b \in Appliers, a # b, Typed,
         Start(b) \/ Step(b) \/ Crash(b) \/ Recover(b)
  PROVE  Still(a)
<1> USE Groups
<1>pc. pc \in [Appliers -> Stages]
  BY DEF Typed, TypeOK
<1>args. args \in [Appliers -> [valid : BOOLEAN, accept : SUBSET Entries]]
  BY DEF Typed, TypeOK
<1>checked. checked \in [Appliers -> 0..N]
  BY DEF Typed, TypeOK
<1>created. created \in [Appliers -> SUBSET Dirs]
  BY DEF Typed, TypeOK
<1>idx. idx \in [Appliers -> 1..(N + 1)]
  BY DEF Typed, TypeOK
<1>tmp. tmp \in [Appliers -> SUBSET Entries]
  BY DEF Typed, TypeOK
<1>published. published \in [Appliers -> SUBSET Entries]
  BY DEF Typed, TypeOK
<1>touched. touched \in [Appliers -> SUBSET Entries]
  BY DEF Typed, TypeOK
<1>mkdirs. mkdirs \in [Appliers -> SUBSET Dirs]
  BY DEF Typed, TypeOK
<1>1. CASE Start(b)
  BY <1>1, <1>pc, <1>args, <1>checked, <1>created, <1>idx, <1>tmp, <1>published, <1>touched, <1>mkdirs
  DEF Still, Start, Begin, Refuse, Goto
<1>2. CASE PreflightEntry(b)
  BY <1>2, <1>pc, <1>args, <1>checked, <1>created, <1>idx, <1>tmp, <1>published, <1>touched, <1>mkdirs
  DEF Still, PreflightEntry, Refuse, Goto
<1>3. CASE Decide(b)
  BY <1>3, <1>pc, <1>args, <1>checked, <1>created, <1>idx, <1>tmp, <1>published, <1>touched, <1>mkdirs
  DEF Still, Decide, Refuse, Goto
<1>4. CASE MakeDir(b)
  BY <1>4, <1>pc, <1>args, <1>checked, <1>created, <1>idx, <1>tmp, <1>published, <1>touched, <1>mkdirs
  DEF Still, MakeDir, Stop, Goto
<1>5. CASE AllDirsMade(b)
  BY <1>5, <1>pc, <1>args, <1>checked, <1>created, <1>idx, <1>tmp, <1>published, <1>touched, <1>mkdirs
  DEF Still, AllDirsMade, Goto
<1>6. CASE WriteTemp(b)
  BY <1>6, <1>pc, <1>args, <1>checked, <1>created, <1>idx, <1>tmp, <1>published, <1>touched, <1>mkdirs
  DEF Still, WriteTemp, Stop, Goto
<1>7. CASE Recheck(b)
  BY <1>7, <1>pc, <1>args, <1>checked, <1>created, <1>idx, <1>tmp, <1>published, <1>touched, <1>mkdirs
  DEF Still, Recheck, Stop, Goto
<1>8. CASE Place(b)
  BY <1>8, <1>pc, <1>args, <1>checked, <1>created, <1>idx, <1>tmp, <1>published, <1>touched, <1>mkdirs
  DEF Still, Place, PlaceAddedByLink, PlaceAddedByRename, PlaceModified, PlaceDeleted,
      PlaceMode, PlaceFails, TakesEffect, SeenByOthers, Published, Stop, Goto
<1>9. CASE RenameAdded(b)
  BY <1>9, <1>pc, <1>args, <1>checked, <1>created, <1>idx, <1>tmp, <1>published, <1>touched, <1>mkdirs
  DEF Still, RenameAdded, PlaceFails, TakesEffect, SeenByOthers, Published, Stop, Goto
<1>10. CASE UnlinkTemp(b)
  BY <1>10, <1>pc, <1>args, <1>checked, <1>created, <1>idx, <1>tmp, <1>published, <1>touched, <1>mkdirs
  DEF Still, UnlinkTemp, Published, Stop, Goto
<1>11. CASE AllPublished(b)
  BY <1>11, <1>pc, <1>args, <1>checked, <1>created, <1>idx, <1>tmp, <1>published, <1>touched, <1>mkdirs
  DEF Still, AllPublished, Goto
<1>12. CASE WriteReport(b)
  BY <1>12, <1>pc, <1>args, <1>checked, <1>created, <1>idx, <1>tmp, <1>published, <1>touched, <1>mkdirs
  DEF Still, WriteReport, Goto
<1>13. CASE Crash(b)
  BY <1>13, <1>pc, <1>args, <1>checked, <1>created, <1>idx, <1>tmp, <1>published, <1>touched, <1>mkdirs
  DEF Still, Crash, Goto
<1>14. CASE Recover(b)
  BY <1>14, <1>pc, <1>args, <1>checked, <1>created, <1>idx, <1>tmp, <1>published, <1>touched, <1>mkdirs
  DEF Still, Recover, Goto
<1> QED
  BY <1>1, <1>2, <1>3, <1>4, <1>5, <1>6, <1>7, <1>8, <1>9, <1>10, <1>11, <1>12, <1>13, <1>14 DEF Step

\* A step of an apply keeps what its own place says about it.
LEMMA OwnPhase ==
  ASSUME NEW a \in Appliers, Typed, PhaseOf(a),
         Start(a) \/ Step(a) \/ Crash(a) \/ Recover(a)
  PROVE  PhaseOf(a)'
<1> USE Groups, CountsAssumption DEF PhaseOf, Early, Publishing, Admitted
<1>cursor. pc[a] \in {"recheck", "place", "rename", "unlinktmp"} => idx[a] \in 1..N
  BY DEF Typed, CursorOK, Entries
<1>none. 1..(1 - 1) = {}
  OBVIOUS
<1>interval. \A i \in 1..N : (1..(i - 1)) \cup {i} = 1..i /\ (i + 1) - 1 = i
  OBVIOUS
<1>pc. pc \in [Appliers -> Stages]
  BY DEF Typed, TypeOK
<1>args. args \in [Appliers -> [valid : BOOLEAN, accept : SUBSET Entries]]
  BY DEF Typed, TypeOK
<1>checked. checked \in [Appliers -> 0..N]
  BY DEF Typed, TypeOK
<1>created. created \in [Appliers -> SUBSET Dirs]
  BY DEF Typed, TypeOK
<1>idx. idx \in [Appliers -> 1..(N + 1)]
  BY DEF Typed, TypeOK
<1>tmp. tmp \in [Appliers -> SUBSET Entries]
  BY DEF Typed, TypeOK
<1>published. published \in [Appliers -> SUBSET Entries]
  BY DEF Typed, TypeOK
<1>touched. touched \in [Appliers -> SUBSET Entries]
  BY DEF Typed, TypeOK
<1>mkdirs. mkdirs \in [Appliers -> SUBSET Dirs]
  BY DEF Typed, TypeOK
<1>1. CASE Start(a)
  BY <1>1, <1>pc, <1>args, <1>checked, <1>created, <1>idx, <1>tmp, <1>published, <1>touched, <1>mkdirs, <1>cursor, <1>none, <1>interval
  DEF Start, Begin, Refuse, Goto
<1>2. CASE PreflightEntry(a)
  BY <1>2, <1>pc, <1>args, <1>checked, <1>created, <1>idx, <1>tmp, <1>published, <1>touched, <1>mkdirs, <1>cursor, <1>none, <1>interval
  DEF PreflightEntry, Refuse, Goto
<1>3. CASE Decide(a)
  <2>0. checked[a] = N /\ pc[a] = "preflight" /\ UNCHANGED args
    BY <1>3 DEF Decide, Refuse, Goto
  <2>1. CASE /\ args[a].accept = MustAccept
             /\ Goto(a, "preflight", "mkdir")
             /\ UNCHANGED <<tree, reports, edits, tmp, code, progress, history>>
    BY <2>0, <2>1, <1>pc, <1>args, <1>checked, <1>created, <1>idx, <1>tmp, <1>published, <1>touched, <1>mkdirs, <1>none DEF Goto
  <2>2. ASSUME NEW c \in {2, 5}, Refuse(a, "preflight", c) PROVE PhaseOf(a)'
    BY <2>0, <2>2, <1>pc, <1>args, <1>checked, <1>created, <1>idx, <1>tmp, <1>published, <1>touched, <1>mkdirs, <1>none DEF Refuse, Goto
  <2> QED
    BY <1>3, <2>1, <2>2 DEF Decide
<1>4. CASE MakeDir(a)
  BY <1>4, <1>pc, <1>args, <1>checked, <1>created, <1>idx, <1>tmp, <1>published, <1>touched, <1>mkdirs, <1>cursor, <1>none, <1>interval
  DEF MakeDir, Stop, Goto
<1>5. CASE AllDirsMade(a)
  BY <1>5, <1>pc, <1>args, <1>checked, <1>created, <1>idx, <1>tmp, <1>published, <1>touched, <1>mkdirs, <1>cursor, <1>none, <1>interval
  DEF AllDirsMade, Goto
<1>6. CASE WriteTemp(a)
  BY <1>6, <1>pc, <1>args, <1>checked, <1>created, <1>idx, <1>tmp, <1>published, <1>touched, <1>mkdirs, <1>cursor, <1>none, <1>interval
  DEF WriteTemp, Stop, Goto
<1>7. CASE Recheck(a)
  BY <1>7, <1>pc, <1>args, <1>checked, <1>created, <1>idx, <1>tmp, <1>published, <1>touched, <1>mkdirs, <1>cursor, <1>none, <1>interval
  DEF Recheck, Stop, Goto
<1>8. CASE Place(a)
  <2> DEFINE i == idx[a]
  <2>0. pc[a] = "place" /\ i \in 1..N
    BY <1>8, <1>cursor DEF Place
  <2>1. UNCHANGED args /\ UNCHANGED checked /\ UNCHANGED created /\ UNCHANGED mkdirs
    BY <1>8 DEF Place
  <2>2. ASSUME NEW c \in {2, 5}, PlaceFails(a, c) PROVE PhaseOf(a)'
    BY <2>0, <2>1, <2>2, <1>pc, <1>args, <1>checked, <1>created, <1>idx, <1>tmp, <1>published, <1>touched, <1>mkdirs, <1>interval
    DEF PlaceFails, Stop, Goto
  <2>3. CASE touched' = [touched EXCEPT ![a] = @ \cup {i}] /\ Published(a, i, "place")
    BY <2>0, <2>1, <2>3, <1>pc, <1>args, <1>checked, <1>created, <1>idx, <1>tmp, <1>published, <1>touched, <1>mkdirs, <1>interval
    DEF Published, Goto
  <2>4. CASE /\ Goto(a, "place", "unlinktmp")
             /\ touched' = [touched EXCEPT ![a] = @ \cup {i}]
             /\ UNCHANGED <<published, idx, tmp>>
    BY <2>0, <2>1, <2>4, <1>pc, <1>args, <1>checked, <1>created, <1>idx, <1>tmp, <1>published, <1>touched, <1>mkdirs, <1>interval
    DEF Goto
  <2>5. CASE /\ Op[i] = "added"
             /\ Goto(a, "place", "rename")
             /\ UNCHANGED <<touched, published, idx, tmp>>
    BY <2>0, <2>1, <2>5, <1>pc, <1>args, <1>checked, <1>created, <1>idx, <1>tmp, <1>published, <1>touched, <1>mkdirs, <1>interval
    DEF Goto, WritesSibling
  <2> QED
    BY <1>8, <2>2, <2>3, <2>4, <2>5
    DEF Place, PlaceAddedByLink, PlaceAddedByRename, PlaceModified, PlaceDeleted,
        PlaceMode, TakesEffect
<1>9. CASE RenameAdded(a)
  <2> DEFINE i == idx[a]
  <2>0. pc[a] = "rename" /\ i \in 1..N
    BY <1>9, <1>cursor DEF RenameAdded
  <2>1. UNCHANGED args /\ UNCHANGED checked /\ UNCHANGED created /\ UNCHANGED mkdirs
    BY <1>9 DEF RenameAdded
  <2>2. ASSUME NEW c \in {2, 5}, PlaceFails(a, c) PROVE PhaseOf(a)'
    BY <2>0, <2>1, <2>2, <1>pc, <1>args, <1>checked, <1>created, <1>idx, <1>tmp, <1>published, <1>touched, <1>mkdirs, <1>interval
    DEF PlaceFails, Stop, Goto
  <2>3. CASE touched' = [touched EXCEPT ![a] = @ \cup {i}] /\ Published(a, i, "rename")
    BY <2>0, <2>1, <2>3, <1>pc, <1>args, <1>checked, <1>created, <1>idx, <1>tmp, <1>published, <1>touched, <1>mkdirs, <1>interval
    DEF Published, Goto
  <2> QED
    BY <1>9, <2>2, <2>3 DEF RenameAdded, TakesEffect
<1>10. CASE UnlinkTemp(a)
  <2> DEFINE i == idx[a]
  <2>0. pc[a] = "unlinktmp" /\ i \in 1..N /\ touched[a] = 1..i /\ published[a] = 1..(i - 1)
    BY <1>10, <1>cursor DEF UnlinkTemp
  <2>1. /\ UNCHANGED args /\ UNCHANGED checked /\ UNCHANGED created
        /\ UNCHANGED mkdirs /\ UNCHANGED touched
    BY <1>10 DEF UnlinkTemp
  <2>2. CASE Published(a, i, "unlinktmp")
    BY <2>0, <2>1, <2>2, <1>pc, <1>args, <1>checked, <1>created, <1>idx, <1>tmp, <1>published, <1>touched, <1>mkdirs, <1>interval
    DEF Published, Goto
  <2>3. CASE /\ Stop(a, "unlinktmp", 5)
             /\ published' = [published EXCEPT ![a] = @ \cup {i}]
             /\ UNCHANGED idx
    BY <2>0, <2>1, <2>3, <1>pc, <1>args, <1>checked, <1>created, <1>idx, <1>tmp, <1>published, <1>touched, <1>mkdirs, <1>interval
    DEF Stop, Goto
  <2> QED
    BY <1>10, <2>2, <2>3 DEF UnlinkTemp
<1>11. CASE AllPublished(a)
  BY <1>11, <1>pc, <1>args, <1>checked, <1>created, <1>idx, <1>tmp, <1>published, <1>touched, <1>mkdirs, <1>cursor, <1>none, <1>interval
  DEF AllPublished, Goto
<1>12. CASE WriteReport(a)
  BY <1>12, <1>pc, <1>args, <1>checked, <1>created, <1>idx, <1>tmp, <1>published, <1>touched, <1>mkdirs, <1>cursor, <1>none, <1>interval
  DEF WriteReport, Goto
<1>13. CASE Crash(a)
  BY <1>13, <1>pc, <1>args, <1>checked, <1>created, <1>idx, <1>tmp, <1>published, <1>touched, <1>mkdirs, <1>cursor, <1>none, <1>interval
  DEF Crash, Running, Goto
<1>14. CASE Recover(a)
  BY <1>14, <1>pc, <1>args, <1>checked, <1>created, <1>idx, <1>tmp, <1>published, <1>touched, <1>mkdirs, <1>cursor, <1>none, <1>interval
  DEF Recover, Goto
<1> QED
  BY <1>1, <1>2, <1>3, <1>4, <1>5, <1>6, <1>7, <1>8, <1>9, <1>10, <1>11, <1>12, <1>13, <1>14 DEF Step
\* In the initial state no apply has done anything.
LEMMA InitPhase == Init => PhaseInv
BY CountsAssumption DEF Init, PhaseInv, PhaseOf, Early, Publishing, Admitted

\* Every step keeps what follows from the places of the applies.
LEMMA NextPhase == Typed /\ PhaseInv /\ [Next]_vars => PhaseInv'
<1> SUFFICES ASSUME Typed, PhaseInv, [Next]_vars, NEW a \in Appliers
             PROVE  PhaseOf(a)'
  BY DEF PhaseInv
<1>1. PhaseOf(a)
  BY DEF PhaseInv
<1>2. Still(a) => PhaseOf(a)'
  BY <1>1 DEF Still, PhaseOf
<1>3. ASSUME NEW b \in Appliers, Start(b) \/ Step(b) \/ Crash(b) \/ Recover(b)
      PROVE  PhaseOf(a)'
  <2>1. CASE a = b
    BY <1>1, <1>3, <2>1, OwnPhase
  <2>2. CASE a # b
    BY <1>2, <1>3, <2>2, OthersStill
  <2> QED
    BY <2>1, <2>2
<1>4. CASE Edit \/ EditorMakesDir
  BY <1>2, <1>4, Groups DEF Edit, EditorMakesDir, Still
<1>5. CASE UNCHANGED vars
  BY <1>2, <1>5 DEF vars, progress, history, Still
<1> QED
  BY <1>3, <1>4, <1>5 DEF Next

\* At every moment the place of an apply tells what it has done.
LEMMA PhaseCorrect == Spec => [](Typed /\ PhaseInv)
BY InitTyped, NextTyped, InitPhase, NextPhase, PTL DEF Spec

\* PUBLISHED= is exact, for every change set and every interference.
THEOREM ReportCorrect == Spec => []ReportExact
<1>1. PhaseInv => ReportExact
  BY DEF PhaseInv, PhaseOf, Publishing, ReportExact
<1> QED
  BY <1>1, PhaseCorrect, PTL

\* What took effect is an initial segment of the change set.
THEOREM PrefixCorrect == Spec => []TouchedIsPrefix
<1>1. PhaseInv => TouchedIsPrefix
  BY DEF PhaseInv, PhaseOf, TouchedIsPrefix
<1> QED
  BY <1>1, PhaseCorrect, PTL

\* Nothing is written before the whole set has passed the preflight.
THEOREM WholeSetCorrect == Spec => []WholeSetOrNothing
<1>1. PhaseInv => WholeSetOrNothing
  BY DEF PhaseInv, PhaseOf, WholeSetOrNothing
<1> QED
  BY <1>1, PhaseCorrect, PTL

-----------------------------------------------------------------------------
(* What lies in a directory keeps it alive *)

\* The initial tree has the directories its files need.
LEMMA InitTree == Init => TreeInv
BY TreeAssumption, EntriesAssumption DEF Init, TreeInv, Base

\* The steps that leave the checkout alone and add no temporary sibling.
LEMMA QuietTree ==
  ASSUME TreeInv, UNCHANGED file, dirs \subseteq dirs',
         \A b \in Appliers : tmp'[b] \subseteq tmp[b]
  PROVE  TreeInv'
BY DEF TreeInv

\* One entry is given a content its directories allow.
LEMMA PlacedTree ==
  ASSUME Typed, TreeInv, UNCHANGED dirs, NEW i \in Entries, NEW f,
         file' = [file EXCEPT ![i] = f], f # Absent => Needs[i] \subseteq dirs,
         \A b \in Appliers : tmp'[b] \subseteq tmp[b]
  PROVE  TreeInv'
<1>1. file \in [Entries -> File]
  BY DEF Typed, TypeOK
<1> QED
  BY <1>1 DEF TreeInv

\* No step leaves a file or a temporary sibling without its directory.
LEMMA NextTree == Typed /\ PhaseInv /\ TreeInv /\ [Next]_vars => TreeInv'
<1> SUFFICES ASSUME Typed, PhaseInv, TreeInv, [Next]_vars PROVE TreeInv'
  OBVIOUS
<1> USE Groups
<1>tmp. tmp \in [Appliers -> SUBSET Entries]
  BY DEF Typed, TypeOK
<1>file. file \in [Entries -> File]
  BY DEF Typed, TypeOK
<1>1. ASSUME NEW a \in Appliers,
             \/ Start(a) \/ PreflightEntry(a) \/ Decide(a) \/ AllDirsMade(a)
             \/ AllPublished(a) \/ WriteReport(a) \/ Crash(a)
      PROVE  TreeInv'
  <2>1. UNCHANGED file /\ UNCHANGED dirs /\ UNCHANGED tmp
    BY <1>1 DEF Start, Begin, Refuse, PreflightEntry, Decide, AllDirsMade,
                AllPublished, WriteReport, Crash
  <2> QED
    BY <2>1, QuietTree
<1>2. ASSUME NEW a \in Appliers, MakeDir(a) PROVE TreeInv'
  <2>1. UNCHANGED file /\ dirs \subseteq dirs'
    BY <1>2 DEF MakeDir
  <2>2. \A b \in Appliers : tmp'[b] \subseteq tmp[b]
    BY <1>2, <1>tmp DEF MakeDir, Stop
  <2> QED
    BY <2>1, <2>2, QuietTree
<1>3. ASSUME NEW a \in Appliers, Recheck(a) \/ UnlinkTemp(a) PROVE TreeInv'
  <2>1. UNCHANGED file /\ UNCHANGED dirs
    BY <1>3 DEF Recheck, UnlinkTemp
  <2>2. \A b \in Appliers : tmp'[b] \subseteq tmp[b]
    BY <1>3, <1>tmp DEF Recheck, UnlinkTemp, Published, Stop
  <2> QED
    BY <2>1, <2>2, QuietTree
<1>4. ASSUME NEW a \in Appliers, WriteTemp(a) PROVE TreeInv'
  <2>1. UNCHANGED file /\ UNCHANGED dirs
    BY <1>4 DEF WriteTemp
  <2>2. \A b \in Appliers : \A i \in tmp'[b] : i \in tmp[b] \/ Needs[i] \subseteq dirs
    BY <1>4, <1>tmp DEF WriteTemp, Stop
  <2> QED
    BY <2>1, <2>2 DEF TreeInv
<1>5. ASSUME NEW a \in Appliers, Place(a) \/ RenameAdded(a) PROVE TreeInv'
  <2> DEFINE i == idx[a]
  <2>1. i \in Entries /\ UNCHANGED dirs
    BY <1>5 DEF Place, RenameAdded, Typed, CursorOK
  <2>2. \A b \in Appliers : tmp'[b] \subseteq tmp[b]
    BY <1>5, <1>tmp DEF Place, RenameAdded, PlaceAddedByLink, PlaceAddedByRename, PlaceModified,
       PlaceDeleted, PlaceMode, PlaceFails, Published, Stop
  <2>3. Op[i] = "added" => Needs[i] \subseteq dirs
    BY <1>5, <2>1, <1>tmp DEF Place, RenameAdded, PhaseInv, PhaseOf, TreeInv, WritesSibling
  <2>4. Needs[i] \subseteq dirs
    BY <2>1, <2>3, TreeAssumption
  <2>5. UNCHANGED file \/ \E f : file' = [file EXCEPT ![i] = f]
    BY <1>5 DEF Place, RenameAdded, PlaceAddedByLink, PlaceAddedByRename, PlaceModified,
       PlaceDeleted, PlaceMode, PlaceFails, TakesEffect
  <2> QED
    BY <2>1, <2>2, <2>4, <2>5, QuietTree, PlacedTree
<1>6. ASSUME NEW a \in Appliers, Recover(a) PROVE TreeInv'
  <2>1. ASSUME NEW i \in Entries, file'[i] # Absent PROVE Needs[i] \subseteq dirs
    BY <1>6, <2>1, TreeAssumption, EntriesAssumption DEF Recover, Restored, Base, TreeInv
  <2>2. \A i \in Entries : file'[i] # Absent =>
          Needs[i] \subseteq RemainingDirs(a, Restored(a))
    BY <1>6, <2>1, TreeAssumption DEF Recover, RemainingDirs, Occupied
  <2>3. \A b \in Appliers : \A i \in tmp[b] :
          Needs[i] \subseteq RemainingDirs(a, Restored(a))
    BY <1>tmp DEF TreeInv, RemainingDirs, Occupied
  <2> QED
    BY <1>6, <2>2, <2>3 DEF Recover, TreeInv
<1>7. CASE Edit
  <2>1. PICK i \in Entries : /\ Needs[i] \subseteq dirs
                             /\ \E f \in EditedAs(i) \ {file[i]} : file' = [file EXCEPT ![i] = f]
    BY <1>7 DEF Edit
  <2>2. UNCHANGED dirs /\ UNCHANGED tmp
    BY <1>7 DEF Edit
  <2> QED
    BY <2>1, <2>2, PlacedTree
<1>8. CASE EditorMakesDir
  <2>1. UNCHANGED file /\ UNCHANGED tmp /\ dirs \subseteq dirs'
    BY <1>8 DEF EditorMakesDir
  <2> QED
    BY <2>1, QuietTree
<1>9. CASE UNCHANGED vars
  BY <1>9 DEF vars, tree, TreeInv
<1> QED
  BY <1>1, <1>2, <1>3, <1>4, <1>5, <1>6, <1>7, <1>8, <1>9 DEF Next, Step
\* TreeInv with the invariants it rests on.
LEMMA TreeCorrect == Spec => [](Typed /\ PhaseInv /\ TreeInv)
BY InitTyped, NextTyped, InitPhase, NextPhase, InitTree, NextTree, PTL DEF Spec

-----------------------------------------------------------------------------
(* What the checkout holds where nobody else interfered *)

\* In the initial state no entry has passed a preflight.
LEMMA InitHold == Init => HoldInv
BY CountsAssumption DEF Init, HoldInv, HoldOf, Early, Publishing, Admitted

\* Whatever somebody else changes is in `foreign' from then on.
LEMMA OthersMark ==
  ASSUME NEW a \in Appliers, NEW b \in Appliers, a # b, Typed,
         Start(b) \/ Step(b) \/ Crash(b) \/ Recover(b)
  PROVE  \A i \in Entries : i \in foreign'[a] \/ (i \notin foreign[a] /\ file'[i] = file[i])
<1> USE Groups
<1>file. file \in [Entries -> File]
  BY DEF Typed, TypeOK
<1>foreign. foreign \in [Appliers -> SUBSET Entries]
  BY DEF Typed, TypeOK
<1>1. CASE \/ Start(b) \/ PreflightEntry(b) \/ Decide(b) \/ MakeDir(b) \/ AllDirsMade(b)
           \/ WriteTemp(b) \/ Recheck(b) \/ UnlinkTemp(b) \/ AllPublished(b)
           \/ WriteReport(b) \/ Crash(b)
  <2>1. UNCHANGED file
    BY <1>1 DEF Start, Begin, Refuse, PreflightEntry, Decide, MakeDir, AllDirsMade,
       WriteTemp, Recheck, UnlinkTemp, AllPublished, WriteReport, Crash
  <2>2. foreign'[a] = foreign[a]
    BY <1>1, <1>foreign DEF Start, Begin, Refuse, PreflightEntry, Decide, MakeDir,
       AllDirsMade, WriteTemp, Recheck, UnlinkTemp, AllPublished, WriteReport, Crash
  <2> QED
    BY <2>1, <2>2
<1>2. CASE Place(b) \/ RenameAdded(b)
  <2>1. \/ UNCHANGED file /\ UNCHANGED foreign
        \/ \E f : TakesEffect(b, idx[b], f)
    BY <1>2 DEF Place, RenameAdded, PlaceAddedByLink, PlaceAddedByRename, PlaceModified,
       PlaceDeleted, PlaceMode, PlaceFails
  <2> QED
    BY <2>1, <1>file, <1>foreign DEF TakesEffect, SeenByOthers
<1>3. CASE Recover(b)
  BY <1>3, <1>file, <1>foreign DEF Recover, Restored
<1> QED
  BY <1>1, <1>2, <1>3 DEF Step

\* Somebody else's step preserves what a holds.
LEMMA HoldFromOthers ==
  ASSUME NEW a \in Appliers, Typed, HoldOf(a), Still(a),
         \A i \in Entries : i \in foreign'[a] \/ (i \notin foreign[a] /\ file'[i] = file[i])
  PROVE  HoldOf(a)'
<1>1. 1..checked[a] \subseteq Entries
  BY CountsAssumption DEF Typed, TypeOK, Entries
<1> QED
  BY <1>1 DEF HoldOf, Still
\* What a's own system call leaves at the entry is the entry's result, if the
\* entry held its base.
LEMMA PlacedResult ==
  ASSUME NEW a \in Appliers, NEW i \in Entries, file[i] = Base(i), Op[i] = "mode"
  PROVE  [file[i] EXCEPT !.x = ResultX[i]] = Result(i)
BY DEF Base, Result

\* A step of an apply keeps what it knows of the checkout.
LEMMA OwnHold ==
  ASSUME NEW a \in Appliers, Typed, PhaseOf(a), TreeInv, HoldOf(a),
         Start(a) \/ Step(a) \/ Crash(a) \/ Recover(a)
  PROVE  HoldOf(a)'
<1> USE Groups DEF Early, Publishing, Admitted
<1>file. file \in [Entries -> File]
  BY DEF Typed, TypeOK
<1>pc. pc \in [Appliers -> Stages]
  BY DEF Typed, TypeOK
<1>checked. checked \in [Appliers -> 0..N]
  BY DEF Typed, TypeOK
<1>foreign. foreign \in [Appliers -> SUBSET Entries]
  BY DEF Typed, TypeOK
<1>touched. touched \in [Appliers -> SUBSET Entries]
  BY DEF Typed, TypeOK
<1>1. CASE Start(a)
  <2>1. checked[a] = 0 /\ UNCHANGED checked /\ pc'[a] \in {"preflight", "refused"}
    BY <1>1, <1>pc DEF Start, Begin, Refuse, Goto, PhaseOf
  <2> QED
    BY <2>1 DEF HoldOf
<1>2. CASE PreflightEntry(a)
  <2> DEFINE i == checked[a] + 1
  <2>1. CASE pc'[a] = "refused"
    BY <2>1 DEF HoldOf
  <2>2. CASE PassesPreflight(i) /\ Goto(a, "preflight", "preflight")
    <3>1. i \in Entries /\ checked'[a] = i /\ 1..i = (1..(i - 1)) \cup {i} /\ i - 1 = checked[a]
      BY <1>2, <2>2, <1>checked, CountsAssumption DEF PreflightEntry, Refuse, Goto, Entries
    <3>2. UNCHANGED file /\ UNCHANGED foreign /\ pc[a] = "preflight" /\ pc'[a] = "preflight"
      BY <1>2, <2>2, <1>pc DEF PreflightEntry, Refuse, Goto
    <3>3. file[i] = Base(i)
      BY <2>2, <3>1 DEF PassesPreflight, TreeInv, Base
    <3> QED
      BY <3>1, <3>2, <3>3 DEF HoldOf
  <2> QED
    BY <1>2, <1>pc, <2>1, <2>2 DEF PreflightEntry, Refuse, Goto
<1>3. CASE Decide(a)
  <2>1. UNCHANGED file /\ UNCHANGED foreign /\ UNCHANGED touched /\ touched[a] = {}
    BY <1>3 DEF Decide, Refuse, Goto, PhaseOf
  <2>2. pc[a] = "preflight" /\ checked[a] = N /\ pc'[a] \in {"mkdir", "refused"}
    BY <1>3, <1>pc DEF Decide, Refuse, Goto
  <2> QED
    BY <2>1, <2>2 DEF HoldOf, Entries
<1>4. CASE \/ MakeDir(a) \/ AllDirsMade(a) \/ WriteTemp(a) \/ UnlinkTemp(a)
           \/ AllPublished(a) \/ WriteReport(a)
  <2>1. UNCHANGED file /\ UNCHANGED foreign /\ UNCHANGED touched
    BY <1>4 DEF MakeDir, AllDirsMade, WriteTemp, UnlinkTemp, AllPublished, WriteReport
  <2>2. /\ pc[a] \in Admitted \ {"recovered"}
        /\ pc'[a] \in Admitted \ {"recovered"}
    BY <1>4, <1>pc DEF MakeDir, AllDirsMade, WriteTemp, UnlinkTemp, AllPublished,
                       WriteReport, Published, Stop, Goto
  <2> QED
    BY <2>1, <2>2 DEF HoldOf
<1>5. CASE Recheck(a)
  <2> DEFINE i == idx[a]
  <2>1. pc[a] = "recheck" /\ pc'[a] \in {"place", "report"} /\ UNCHANGED file /\ UNCHANGED touched
    BY <1>5, <1>pc DEF Recheck, Stop, Goto
  <2>2. CASE UNCHANGED foreign
    BY <2>1, <2>2 DEF HoldOf
  <2>3. CASE file[i] = Base(i) /\ foreign' = [foreign EXCEPT ![a] = @ \ {i}]
    <3>1. i \notin touched[a]
      BY <2>1, CountsAssumption DEF PhaseOf, Typed, CursorOK, Entries
    <3>2. foreign'[a] = foreign[a] \ {i}
      BY <2>3, <1>foreign
    <3> QED
      BY <2>1, <2>3, <3>1, <3>2 DEF HoldOf
  <2> QED
    BY <1>5, <2>2, <2>3 DEF Recheck, StillBase
<1>6. CASE Place(a) \/ RenameAdded(a)
  <2> DEFINE i == idx[a]
  <2>1. pc[a] \in {"place", "rename"} /\ i \in Entries /\ i \notin touched[a]
    BY <1>6, CountsAssumption DEF Place, RenameAdded, PhaseOf, Typed, CursorOK, Entries
  <2>2. pc'[a] \in Admitted \ {"recovered"}
    BY <1>6, <1>pc DEF Place, RenameAdded, PlaceAddedByLink, PlaceAddedByRename, PlaceModified,
       PlaceDeleted, PlaceMode, PlaceFails, Published, Stop, Goto
  <2>3. CASE UNCHANGED file /\ UNCHANGED foreign /\ UNCHANGED touched
    BY <2>1, <2>2, <2>3 DEF HoldOf
  <2>4. ASSUME NEW f, TakesEffect(a, i, f), i \in foreign[a] \/ f = Result(i)
        PROVE  HoldOf(a)'
    <3>1. foreign'[a] = foreign[a] /\ touched'[a] = touched[a] \cup {i}
      BY <2>4, <1>foreign, <1>touched DEF TakesEffect, SeenByOthers
    <3>2. \A j \in Entries : file'[j] = IF j = i THEN f ELSE file[j]
      BY <2>1, <2>4, <1>file DEF TakesEffect
    <3> QED
      BY <2>1, <2>2, <2>4, <3>1, <3>2 DEF HoldOf
  <2>5. i \in foreign[a] \/ file[i] = Base(i)
    BY <2>1 DEF HoldOf
  <2>6. Op[i] = "deleted" => Result(i) = Absent
    BY DEF Result
  <2>7. Op[i] = "mode" =>
          i \in foreign[a] \/ [file[i] EXCEPT !.x = ResultX[i]] = Result(i)
    BY <2>1, <2>5, PlacedResult
  <2>8. \/ UNCHANGED file /\ UNCHANGED foreign /\ UNCHANGED touched
        \/ TakesEffect(a, i, Result(i))
        \/ Op[i] = "deleted" /\ TakesEffect(a, i, Absent)
        \/ Op[i] = "mode" /\ TakesEffect(a, i, [file[i] EXCEPT !.x = ResultX[i]])
    BY <1>6 DEF Place, RenameAdded, PlaceAddedByLink, PlaceAddedByRename, PlaceModified,
       PlaceDeleted, PlaceMode, PlaceFails
  <2> QED
    BY <2>3, <2>4, <2>6, <2>7, <2>8
<1>7. CASE Crash(a) \/ Recover(a)
  <2>1. pc'[a] \in {"crashed", "recovered"}
    BY <1>7, <1>pc DEF Crash, Recover, Goto
  <2> QED
    BY <2>1 DEF HoldOf
<1> QED
  BY <1>1, <1>2, <1>3, <1>4, <1>5, <1>6, <1>7 DEF Step

\* Every step keeps what the applies know of the checkout.
LEMMA NextHold == Typed /\ PhaseInv /\ TreeInv /\ HoldInv /\ [Next]_vars => HoldInv'
<1> SUFFICES ASSUME Typed, PhaseInv, TreeInv, HoldInv, [Next]_vars, NEW a \in Appliers
             PROVE  HoldOf(a)'
  BY DEF HoldInv
<1>1. PhaseOf(a) /\ HoldOf(a)
  BY DEF PhaseInv, HoldInv
<1>2. ASSUME NEW b \in Appliers, Start(b) \/ Step(b) \/ Crash(b) \/ Recover(b)
      PROVE  HoldOf(a)'
  <2>1. CASE a = b
    BY <1>1, <1>2, <2>1, OwnHold
  <2>2. CASE a # b
    BY <1>1, <1>2, <2>2, OthersStill, OthersMark, HoldFromOthers
  <2> QED
    BY <2>1, <2>2
<1>3. CASE Edit
  <2>1. Still(a)
    BY <1>3, Groups DEF Edit, Still
  <2>2. \A i \in Entries : i \in foreign'[a] \/ (i \notin foreign[a] /\ file'[i] = file[i])
    BY <1>3 DEF Edit, Typed, TypeOK
  <2> QED
    BY <1>1, <2>1, <2>2, HoldFromOthers
<1>4. CASE EditorMakesDir \/ UNCHANGED vars
  <2>1. Still(a) /\ UNCHANGED file /\ UNCHANGED foreign
    BY <1>4, Groups DEF EditorMakesDir, vars, Still
  <2> QED
    BY <1>1, <2>1 DEF HoldOf, Still
<1> QED
  BY <1>2, <1>3, <1>4 DEF Next

\* At every moment the checkout holds what the applies know of it.
LEMMA HoldCorrect == Spec => [](Typed /\ PhaseInv /\ TreeInv /\ HoldInv)
BY InitTyped, NextTyped, InitPhase, NextPhase, InitTree, NextTree, InitHold, NextHold, PTL
   DEF Spec

\* The RECOVERY lines bring back the base of every entry nobody else changed.
THEOREM RecoveryCorrect == Spec => []RecoveryRestores
<1>1. Typed /\ PhaseInv /\ HoldInv => RecoveryRestores
  BY DEF PhaseInv, PhaseOf, HoldInv, HoldOf, RecoveryRestores, Restored,
         Early, Publishing, Admitted
<1> QED
  BY <1>1, HoldCorrect, PTL

-----------------------------------------------------------------------------
(* What one step may do *)

\* An entry takes effect only by a system call at the cursor of its apply.
LEMMA TouchedBy ==
  ASSUME Typed, [Next]_vars, NEW a \in Appliers, NEW i \in touched'[a] \ touched[a]
  PROVE  (Place(a) \/ RenameAdded(a)) /\ i = idx[a] /\ i \in Entries
<1> USE Groups
<1>touched. touched \in [Appliers -> SUBSET Entries]
  BY DEF Typed, TypeOK
<1>1. ASSUME NEW b \in Appliers, Start(b) \/ Step(b) \/ Crash(b) \/ Recover(b), b # a
      PROVE  touched'[a] = touched[a]
  BY <1>1, OthersStill DEF Still
<1>2. CASE Edit \/ EditorMakesDir \/ UNCHANGED vars
  BY <1>2 DEF Edit, EditorMakesDir, vars
<1>3. CASE \/ Start(a) \/ PreflightEntry(a) \/ Decide(a) \/ MakeDir(a) \/ AllDirsMade(a)
           \/ WriteTemp(a) \/ Recheck(a) \/ UnlinkTemp(a) \/ AllPublished(a)
           \/ WriteReport(a) \/ Crash(a) \/ Recover(a)
  <2>1. UNCHANGED touched
    BY <1>3 DEF Start, Begin, Refuse, PreflightEntry, Decide, MakeDir, AllDirsMade,
       WriteTemp, Recheck, UnlinkTemp, AllPublished, WriteReport, Crash, Recover
  <2> QED
    BY <2>1
<1>4. CASE Place(a) \/ RenameAdded(a)
  <2>1. UNCHANGED touched \/ \E f : TakesEffect(a, idx[a], f)
    BY <1>4 DEF Place, RenameAdded, PlaceAddedByLink, PlaceAddedByRename, PlaceModified,
       PlaceDeleted, PlaceMode, PlaceFails
  <2>2. i = idx[a]
    BY <2>1, <1>touched DEF TakesEffect
  <2> QED
    BY <1>4, <2>2 DEF Place, RenameAdded, Typed, CursorOK
<1> QED
  BY <1>1, <1>2, <1>3, <1>4 DEF Next, Step

\* Where there are hard links, no apply is between the look and the rename.
LinkedOnly == HardLinks => \A a \in Appliers : pc[a] # "rename"

LEMMA NextLinked == Typed /\ LinkedOnly /\ [Next]_vars => LinkedOnly'
<1> SUFFICES ASSUME Typed, LinkedOnly, [Next]_vars, HardLinks, NEW a \in Appliers, pc'[a] = "rename"
             PROVE  FALSE
  BY DEF LinkedOnly
<1>pc. pc \in [Appliers -> Stages] /\ pc[a] # "rename"
  BY DEF Typed, TypeOK, LinkedOnly
<1>1. ASSUME NEW b \in Appliers, Start(b) \/ Step(b) \/ Crash(b) \/ Recover(b), b # a
      PROVE  FALSE
  BY <1>1, <1>pc, OthersStill DEF Still
<1>2. CASE Edit \/ EditorMakesDir \/ UNCHANGED vars
  BY <1>2, <1>pc DEF Edit, EditorMakesDir, vars
<1>3. CASE Place(a) \/ RenameAdded(a) \/ UnlinkTemp(a)
  BY <1>3, <1>pc DEF Place, RenameAdded, UnlinkTemp, PlaceAddedByLink, PlaceAddedByRename,
     PlaceModified, PlaceDeleted, PlaceMode, PlaceFails, Published, Stop, Goto
<1>4. CASE \/ Start(a) \/ PreflightEntry(a) \/ Decide(a) \/ MakeDir(a) \/ AllDirsMade(a)
           \/ WriteTemp(a) \/ Recheck(a) \/ AllPublished(a)
           \/ WriteReport(a) \/ Crash(a) \/ Recover(a)
  BY <1>4, <1>pc DEF Start, Begin, Refuse, PreflightEntry, Decide, MakeDir, AllDirsMade,
     WriteTemp, Recheck, AllPublished, WriteReport, Crash, Recover, Stop, Goto
<1> QED
  BY <1>1, <1>2, <1>3, <1>4 DEF Next, Step

\* link(2) is the only way an addition takes effect where the file system has
\* it, and it takes effect only on a path that is free.
THEOREM AdditionsCorrect == ASSUME HardLinks PROVE Spec => AdditionsNeverReplace
<1>1. Typed /\ LinkedOnly /\ [Next]_vars =>
        [\A a \in Appliers : \A i \in touched'[a] \ touched[a] :
           Op[i] = "added" => file[i] = Absent]_vars
  <2> SUFFICES ASSUME Typed, LinkedOnly, [Next]_vars,
                      NEW a \in Appliers, NEW i \in touched'[a] \ touched[a], Op[i] = "added"
               PROVE  file[i] = Absent
    OBVIOUS
  <2>1. Place(a) /\ i = idx[a]
    BY TouchedBy DEF LinkedOnly, RenameAdded
  <2>2. UNCHANGED touched \/ PlaceAddedByLink(a, i)
    BY <2>1 DEF Place, PlaceAddedByRename, PlaceFails
  <2> QED
    BY <2>2 DEF PlaceAddedByLink, PlaceFails
<1>2. Init => LinkedOnly
  BY DEF Init, LinkedOnly
<1> QED
  BY <1>1, <1>2, InitTyped, NextTyped, NextLinked, PTL DEF Spec, AdditionsNeverReplace

\* What somebody wrote at an entry before its recheck is never overwritten: the
\* entry an apply publishes holds its base, or was changed since the recheck.
THEOREM EditsCorrect == Spec => EarlierEditsSurvive
<1>1. Typed /\ PhaseInv /\ HoldInv /\ [Next]_vars =>
        [\A a \in Appliers : \A i \in touched'[a] \ touched[a] :
           file[i] = Base(i) \/ i \in foreign[a]]_vars
  <2> SUFFICES ASSUME Typed, PhaseInv, HoldInv, [Next]_vars,
                      NEW a \in Appliers, NEW i \in touched'[a] \ touched[a]
               PROVE  file[i] = Base(i) \/ i \in foreign[a]
    OBVIOUS
  <2>1. pc[a] \in {"place", "rename"} /\ i \in Entries
    BY TouchedBy DEF Place, RenameAdded
  <2> QED
    BY <2>1 DEF HoldInv, HoldOf, Admitted, Publishing
<1> QED
  BY <1>1, HoldCorrect, PTL DEF Spec, EarlierEditsSurvive

\* The exclusive create: no apply writes a report over another one's.
THEOREM ReportsCorrect == Spec => ReportsNeverReplaced
<1>1. Typed /\ [Next]_vars => [\A n \in 1..MaxReports : reports[n] # {} => reports'[n] = reports[n]]_vars
  <2> SUFFICES ASSUME Typed, [Next]_vars, NEW n \in 1..MaxReports, reports[n] # {}
               PROVE  reports'[n] = reports[n]
    OBVIOUS
  <2>1. reports \in [1..MaxReports -> SUBSET Appliers]
    BY DEF Typed, TypeOK
  <2>2. ASSUME NEW a \in Appliers, WriteReport(a) PROVE reports'[n] = reports[n]
    BY <2>1, <2>2 DEF WriteReport
  <2>3. ASSUME NEW a \in Appliers,
               \/ Start(a) \/ PreflightEntry(a) \/ Decide(a) \/ MakeDir(a) \/ AllDirsMade(a)
               \/ WriteTemp(a) \/ Recheck(a) \/ Place(a) \/ RenameAdded(a) \/ UnlinkTemp(a)
               \/ AllPublished(a) \/ Crash(a) \/ Recover(a)
        PROVE  UNCHANGED reports
    BY <2>3 DEF Start, Begin, Refuse, PreflightEntry, Decide, MakeDir, AllDirsMade,
       WriteTemp, Recheck, Place, RenameAdded, UnlinkTemp, AllPublished, Crash, Recover
  <2>4. CASE Edit \/ EditorMakesDir \/ UNCHANGED vars
    BY <2>4 DEF Edit, EditorMakesDir, vars
  <2> QED
    BY <2>2, <2>3, <2>4 DEF Next, Step
<1> QED
  BY <1>1, InitTyped, NextTyped, PTL DEF Spec, ReportsNeverReplaced
=============================================================================
