----------------------------- MODULE ChangeApply -----------------------------
(***************************************************************************)
(* scripts/change_apply.py, subcommand `apply': publishing the reviewed    *)
(* change set of a sandboxed build into the checkout it was made from.     *)
(*                                                                         *)
(* An apply first runs a preflight that writes nothing and refuses the     *)
(* whole set on any failure; it then creates the missing directories and   *)
(* publishes the entries in path order, one file at a time, each through   *)
(* a temporary sibling, a last comparison with the base (_recheck) and one *)
(* system call that takes effect.  Publication is not all-or-nothing: the  *)
(* first failure stops it, and the report says what was published, what    *)
(* was not, and which commands undo it.  No lock is held, so a person who  *)
(* edits the checkout, or a second apply, may act between any two steps.   *)
(*                                                                         *)
(* The platform is POSIX.  Bytes are abstracted to the base, the result or *)
(* something else; the permission bits to the owner's executable bit.      *)
(***************************************************************************)
EXTENDS Naturals, FiniteSets

CONSTANTS
  Appliers,    \* processes that run `apply' with the same run directory
  N,           \* number of entries of the change set, in path order
  Op,          \* the operation of each entry
  BaseX,       \* is the executable bit set in an entry's base mode?
  ResultX,     \* ... and in its result mode?
  D,           \* directories the change set needs and its base lacks,
               \* ordered by depth, as _preflight sorts them
  Needs,       \* the ones among 1..D that are ancestors of an entry
  Above,       \* the ones among 1..D that are ancestors of a directory
  MustAccept,  \* entries classify() shows only in part: they need a flag
  HardLinks,   \* does the target's file system support link(2)?
  MaxEdits,    \* bound: changes made by the person editing the checkout
  MaxReports   \* report names _write_report tries (99 in the code)

Entries == 1..N
Dirs    == 1..D
Ops     == {"added", "modified", "deleted", "mode"}

ASSUME CountsAssumption == N \in Nat /\ D \in Nat /\ MaxEdits \in Nat /\ MaxReports \in Nat
ASSUME EntriesAssumption ==
  /\ Op \in [Entries -> Ops]
  /\ BaseX \in [Entries -> BOOLEAN]
  /\ ResultX \in [Entries -> BOOLEAN]
  /\ MustAccept \in SUBSET Entries
ASSUME TreeAssumption ==
  /\ Needs \in [Entries -> SUBSET Dirs]
  /\ Above \in [Dirs -> SUBSET Dirs]
  /\ \A i \in Entries : Op[i] # "added" => Needs[i] = {}
  /\ \A d \in Dirs : \A e \in Above[d] : e < d
ASSUME PlatformAssumption == HardLinks \in BOOLEAN

VARIABLES
  file,       \* the entries' paths in the checkout
  dirs,       \* which of Dirs exist there
  reports,    \* apply-report-<n>.json: the applier that wrote it, or {}
  edits,      \* changes the person has made so far
  pc,         \* where each applier is
  args,       \* what it was called with
  checked,    \* entries its preflight has passed
  todo,       \* to_create: directories its preflight found missing
  created,    \* created: directories it knows it has made
  idx,        \* the entry it publishes next
  tmp,        \* temporary siblings of its own that exist on disk
  published,  \* the published list
  code,       \* its exit code so far
  tried,      \* report names it has tried
  touched,    \* history: entries on which a system call of its took effect
  mkdirs,     \* history: directories its mkdir made
  foreign     \* history: entries somebody else changed since it began,
              \* or since it last compared them with the base

tree     == <<file, dirs>>
history  == <<touched, mkdirs>>
progress == <<checked, todo, created, idx, published, tried>>
vars     == <<tree, reports, edits, pc, args, tmp, code, progress, history, foreign>>

-----------------------------------------------------------------------------
(* Files *)

File   == [bytes : {"base", "new", "edit", "absent"}, x : BOOLEAN]
Absent == [bytes |-> "absent", x |-> FALSE]

\* What the change set says the path held when the run's input was taken.
Base(i) ==
  IF Op[i] = "added" THEN Absent ELSE [bytes |-> "base", x |-> BaseX[i]]

\* What the path holds after the entry is published over its base.
Result(i) ==
  CASE Op[i] = "deleted" -> Absent
    [] Op[i] = "mode"    -> [bytes |-> "base", x |-> ResultX[i]]
    [] OTHER             -> [bytes |-> "new", x |-> ResultX[i]]

\* Every other process sees this one change entry i.
SeenByOthers(a, i) ==
  foreign' = [b \in Appliers |-> IF b = a THEN foreign[b] ELSE foreign[b] \cup {i}]

Stages == {"idle", "preflight", "decide", "mkdir", "write", "recheck", "place",
           "rename", "unlinktmp", "report", "done", "refused", "crashed", "recovered"}

TypeOK ==
  /\ file \in [Entries -> File]
  /\ dirs \in SUBSET Dirs
  /\ reports \in [1..MaxReports -> SUBSET Appliers]
  /\ edits \in 0..MaxEdits
  /\ pc \in [Appliers -> Stages]
  /\ args \in [Appliers -> [valid : BOOLEAN, accept : SUBSET Entries]]
  /\ checked \in [Appliers -> 0..N]
  /\ todo \in [Appliers -> SUBSET Dirs]
  /\ created \in [Appliers -> SUBSET Dirs]
  /\ idx \in [Appliers -> 1..(N + 1)]
  /\ tmp \in [Appliers -> SUBSET Entries]
  /\ published \in [Appliers -> SUBSET Entries]
  /\ code \in [Appliers -> {0, 2, 5}]
  /\ tried \in [Appliers -> 0..MaxReports]
  /\ touched \in [Appliers -> SUBSET Entries]
  /\ mkdirs \in [Appliers -> SUBSET Dirs]
  /\ foreign \in [Appliers -> SUBSET Entries]

Init ==
  /\ file = [i \in Entries |-> Base(i)]
  /\ dirs = {}
  /\ reports = [n \in 1..MaxReports |-> {}]
  /\ edits = 0
  /\ pc = [a \in Appliers |-> "idle"]
  /\ args = [a \in Appliers |-> [valid |-> FALSE, accept |-> {}]]
  /\ checked = [a \in Appliers |-> 0]
  /\ todo = [a \in Appliers |-> {}]
  /\ created = [a \in Appliers |-> {}]
  /\ idx = [a \in Appliers |-> 1]
  /\ tmp = [a \in Appliers |-> {}]
  /\ published = [a \in Appliers |-> {}]
  /\ code = [a \in Appliers |-> 0]
  /\ tried = [a \in Appliers |-> 0]
  /\ touched = [a \in Appliers |-> {}]
  /\ mkdirs = [a \in Appliers |-> {}]
  /\ foreign = [a \in Appliers |-> {}]

Goto(a, from, to) == pc[a] = from /\ pc' = [pc EXCEPT ![a] = to]

\* Refused before anything was written: code 2, or 5 for infrastructure.
Refuse(a, from, c) ==
  /\ Goto(a, from, "refused")
  /\ code' = [code EXCEPT ![a] = c]
  /\ UNCHANGED <<tree, reports, edits, tmp, progress, history>>

-----------------------------------------------------------------------------
(* Loading and preflight: nothing is written. *)

\* load_change_set, the run's status and the worktree's identity.  `valid'
\* stands for all of them, `accept' for the two --accept flags.
Begin(a, valid, accept) ==
  /\ args' = [args EXCEPT ![a] = [valid |-> valid, accept |-> accept]]
  /\ foreign' = [foreign EXCEPT ![a] = {}]
  /\ \/ /\ valid
        /\ Goto(a, "idle", "preflight")
        /\ UNCHANGED <<tree, reports, edits, tmp, code, progress, history>>
     \/ /\ ~valid
        /\ Refuse(a, "idle", 2)

\* One round of _preflight's loop: the path still holds its base.  An
\* addition below a missing directory is not looked up.
PassesPreflight(i) ==
  \/ Op[i] = "added" /\ ~(Needs[i] \subseteq dirs)
  \/ file[i] = Base(i)

PreflightEntry(a) ==
  LET i == checked[a] + 1 IN
  /\ checked[a] < N
  /\ UNCHANGED <<args, foreign>>
  /\ \/ /\ PassesPreflight(i)
        /\ Goto(a, "preflight", "preflight")
        /\ checked' = [checked EXCEPT ![a] = i]
        /\ todo' = [todo EXCEPT ![a] = @ \cup (Needs[i] \ dirs)]
        /\ UNCHANGED <<tree, reports, edits, tmp, code, created, idx, published, tried, history>>
     \/ /\ ~PassesPreflight(i)
        /\ Refuse(a, "preflight", 2)

\* Mutant: only a missing flag is refused, a superfluous one is let through.
DecideMissingFlagsOnly(a) ==
  /\ checked[a] = N
  /\ UNCHANGED <<args, foreign>>
  /\ \/ /\ MustAccept \subseteq args[a].accept
        /\ Goto(a, "preflight", "mkdir")
        /\ UNCHANGED <<tree, reports, edits, tmp, code, progress, history>>
     \/ /\ ~(MustAccept \subseteq args[a].accept)
        /\ Refuse(a, "preflight", 2)

\* After the loop: the flags must name exactly the entries that need one,
\* then the input tree is read once.
Decide(a) ==
  /\ checked[a] = N
  /\ UNCHANGED <<args, foreign>>
  /\ \/ /\ args[a].accept = MustAccept
        /\ Goto(a, "preflight", "mkdir")
        /\ UNCHANGED <<tree, reports, edits, tmp, code, progress, history>>
     \/ /\ args[a].accept # MustAccept
        /\ Refuse(a, "preflight", 2)
     \/ \E c \in {2, 5} : Refuse(a, "preflight", c)

-----------------------------------------------------------------------------
(* Publication *)

\* The first failure ends publication; the finally clause of _publish_one
\* removes the temporary sibling and ignores a failure to do so.
Stop(a, from, c) ==
  /\ Goto(a, from, "report")
  /\ code' = [code EXCEPT ![a] = c]
  /\ \E left \in SUBSET tmp[a] : tmp' = [tmp EXCEPT ![a] = left]

\* _make_dir: mkdir, then a look at what was made.  A failure of the look
\* leaves the directory behind and out of `created'.
MakeDir(a) ==
  LET missing == todo[a] \ created[a] IN
  \E d \in missing :
    /\ \A e \in missing : d <= e
    /\ UNCHANGED <<file, reports, edits, args, checked, todo, idx, published, tried, touched, foreign>>
    /\ \/ /\ d \notin dirs /\ Above[d] \subseteq dirs
          /\ dirs' = dirs \cup {d}
          /\ mkdirs' = [mkdirs EXCEPT ![a] = @ \cup {d}]
          /\ \/ /\ Goto(a, "mkdir", "mkdir")
                /\ created' = [created EXCEPT ![a] = @ \cup {d}]
                /\ UNCHANGED <<code, tmp>>
             \/ /\ \E c \in {2, 5} : Stop(a, "mkdir", c)
                /\ UNCHANGED created
       \/ /\ Stop(a, "mkdir", 5)
          /\ UNCHANGED <<dirs, mkdirs, created>>

AllDirsMade(a) ==
  /\ todo[a] \subseteq created[a]
  /\ Goto(a, "mkdir", "write")
  /\ UNCHANGED <<tree, reports, edits, args, tmp, code, progress, history, foreign>>

\* _publish_one up to the recheck: anchor the parent, write the sibling.
WritesSibling(i) == Op[i] \in {"added", "modified"}

WriteTemp(a) ==
  LET i == idx[a] IN
  /\ i <= N
  /\ UNCHANGED <<tree, reports, edits, args, progress, history, foreign>>
  /\ \/ /\ Needs[i] \subseteq dirs
        /\ Goto(a, "write", "recheck")
        /\ tmp' = [tmp EXCEPT ![a] = IF WritesSibling(i) THEN @ \cup {i} ELSE @]
        /\ UNCHANGED code
     \/ Stop(a, "write", 5)
     \/ \* the sibling was created, the write failed and so did its removal
        /\ Needs[i] \subseteq dirs
        /\ WritesSibling(i)
        /\ Goto(a, "write", "report")
        /\ code' = [code EXCEPT ![a] = 5]
        /\ tmp' = [tmp EXCEPT ![a] = @ \cup {i}]

\* Mutant: the recheck compares the mode and forgets the bytes.
StillBaseByMode(i) ==
  IF Op[i] = "added" THEN file[i] = Absent
  ELSE file[i] # Absent /\ file[i].x = BaseX[i]

\* _recheck: still the base (or, for an addition, still absent).
StillBase(i) == file[i] = Base(i)

Recheck(a) ==
  LET i == idx[a] IN
  /\ pc[a] = "recheck"
  /\ UNCHANGED <<tree, reports, edits, args, progress, history>>
  /\ \/ /\ StillBase(i)
        /\ Goto(a, "recheck", "place")
        /\ foreign' = [foreign EXCEPT ![a] = @ \ {i}]
        /\ UNCHANGED <<code, tmp>>
     \/ /\ ~StillBase(i)
        /\ Stop(a, "recheck", 2)
        /\ UNCHANGED foreign

\* The entry took effect in the checkout.
TakesEffect(a, i, f) ==
  /\ file' = [file EXCEPT ![i] = f]
  /\ touched' = [touched EXCEPT ![a] = @ \cup {i}]
  /\ SeenByOthers(a, i)

\* Mutant: the loop skips an entry.
PublishedSkipsOne(a, i, from) ==
  /\ Goto(a, from, "write")
  /\ published' = [published EXCEPT ![a] = @ \cup {i}]
  /\ idx' = [idx EXCEPT ![a] = i + 2]
  /\ tmp' = [tmp EXCEPT ![a] = @ \ {i}]
  /\ UNCHANGED code

\* ... and _publish_one returned: `published.append(it)'.
Published(a, i, from) ==
  /\ Goto(a, from, "write")
  /\ published' = [published EXCEPT ![a] = @ \cup {i}]
  /\ idx' = [idx EXCEPT ![a] = i + 1]
  /\ tmp' = [tmp EXCEPT ![a] = @ \ {i}]
  /\ UNCHANGED code

\* Mutant: a failed entry does not stop the loop.
PlaceFailsGoesOn(a, c) ==
  /\ Goto(a, pc[a], "write")
  /\ code' = [code EXCEPT ![a] = c]
  /\ tmp' = [tmp EXCEPT ![a] = @ \ {idx[a]}]
  /\ idx' = [idx EXCEPT ![a] = @ + 1]
  /\ UNCHANGED <<file, touched, foreign, published>>

\* fchmod, fsync, link, stat, rename, unlink or open failed: nothing moved.
PlaceFails(a, c) ==
  /\ Stop(a, pc[a], c)
  /\ UNCHANGED <<file, touched, foreign, published, idx>>

\* Mutant: the addition is renamed over whatever is there.
PlaceAddedByReplace(a, i) ==
  /\ HardLinks
  /\ Goto(a, "place", "unlinktmp")
  /\ TakesEffect(a, i, Result(i))
  /\ UNCHANGED <<published, idx, tmp, code>>

\* _place_new: link(2) refuses a destination that exists ...
PlaceAddedByLink(a, i) ==
  /\ HardLinks
  /\ \/ /\ file[i] = Absent
        /\ Goto(a, "place", "unlinktmp")
        /\ TakesEffect(a, i, Result(i))
        /\ UNCHANGED <<published, idx, tmp, code>>
     \/ /\ file[i] # Absent
        /\ PlaceFails(a, 2)

\* ... a file system without links leaves a look and then a rename.
PlaceAddedByRename(a, i) ==
  /\ ~HardLinks
  /\ \/ /\ file[i] = Absent
        /\ Goto(a, "place", "rename")
        /\ UNCHANGED <<file, touched, foreign, published, idx, tmp, code>>
     \/ /\ file[i] # Absent
        /\ PlaceFails(a, 2)

\* os.replace puts the sibling over whatever is there.
PlaceModified(a, i) ==
  /\ TakesEffect(a, i, Result(i))
  /\ Published(a, i, "place")

PlaceDeleted(a, i) ==
  \/ /\ file[i] # Absent
     /\ TakesEffect(a, i, Absent)
     /\ Published(a, i, "place")
  \/ /\ file[i] = Absent
     /\ PlaceFails(a, 5)

\* Open the file, compare its mode with the one the recheck saw, fchmod it.
PlaceMode(a, i) ==
  \/ /\ file[i] # Absent /\ file[i].x = BaseX[i]
     /\ TakesEffect(a, i, [file[i] EXCEPT !.x = ResultX[i]])
     /\ Published(a, i, "place")
  \/ /\ file[i] # Absent /\ file[i].x # BaseX[i]
     /\ PlaceFails(a, 2)
  \/ /\ file[i] = Absent
     /\ PlaceFails(a, 5)

Place(a) ==
  LET i == idx[a] IN
  /\ pc[a] = "place"
  /\ UNCHANGED <<dirs, reports, edits, args, checked, todo, created, tried, mkdirs>>
  /\ \/ Op[i] = "added" /\ PlaceAddedByLink(a, i)
     \/ Op[i] = "added" /\ PlaceAddedByRename(a, i)
     \/ Op[i] = "modified" /\ PlaceModified(a, i)
     \/ Op[i] = "deleted" /\ PlaceDeleted(a, i)
     \/ Op[i] = "mode" /\ PlaceMode(a, i)
     \/ PlaceFails(a, 5)

\* The rename after the look, on a file system without links.
RenameAdded(a) ==
  LET i == idx[a] IN
  /\ pc[a] = "rename"
  /\ UNCHANGED <<dirs, reports, edits, args, checked, todo, created, tried, mkdirs>>
  /\ \/ TakesEffect(a, i, Result(i)) /\ Published(a, i, "rename")
     \/ PlaceFails(a, 5)

\* Mutant: the failed removal is treated as a failed publication.
UnlinkTempUncounted(a) ==
  LET i == idx[a] IN
  /\ pc[a] = "unlinktmp"
  /\ UNCHANGED <<tree, reports, edits, args, checked, todo, created, tried, history, foreign>>
  /\ \/ Published(a, i, "unlinktmp")
     \/ Stop(a, "unlinktmp", 5) /\ UNCHANGED <<published, idx>>

\* The addition is in place under both names; drop the temporary one.  If
\* that fails the entry still counts as published (_PublishedError), the run
\* stops, and the finally clause tries the removal once more.
UnlinkTemp(a) ==
  LET i == idx[a] IN
  /\ pc[a] = "unlinktmp"
  /\ UNCHANGED <<tree, reports, edits, args, checked, todo, created, tried, history, foreign>>
  /\ \/ Published(a, i, "unlinktmp")
     \/ /\ Stop(a, "unlinktmp", 5)
        /\ published' = [published EXCEPT ![a] = @ \cup {i}]
        /\ UNCHANGED idx

AllPublished(a) ==
  /\ idx[a] = N + 1
  /\ Goto(a, "write", "report")
  /\ UNCHANGED <<tree, reports, edits, args, tmp, code, progress, history, foreign>>

-----------------------------------------------------------------------------
(* The report *)

\* Mutant: the report is created without O_EXCL.
WriteReportOver(a) ==
  LET n == tried[a] + 1 IN
  /\ pc[a] = "report"
  /\ UNCHANGED <<tree, edits, args, tmp, code, checked, todo, created, idx, published, history, foreign>>
  /\ n \in 1..MaxReports
  /\ reports' = [reports EXCEPT ![n] = {a}]
  /\ tried' = [tried EXCEPT ![a] = n]
  /\ Goto(a, "report", "done")

\* Mutant: a name that cannot be written is tried again.
WriteReportRetries(a) ==
  LET n == tried[a] + 1 IN
  /\ pc[a] = "report"
  /\ reports[n] = {}
  /\ reports' = [reports EXCEPT ![n] = {a}]
  /\ tried' = [tried EXCEPT ![a] = n]
  /\ Goto(a, "report", "done")
  /\ UNCHANGED <<tree, edits, args, tmp, code, checked, todo, created, idx, published, history, foreign>>

\* _write_report takes the first free name; the exclusive create decides a
\* race for it.  A name that cannot be written is passed over, and after the
\* last one the report is only printed.
WriteReport(a) ==
  LET n == tried[a] + 1 IN
  /\ pc[a] = "report"
  /\ UNCHANGED <<tree, edits, args, tmp, code, checked, todo, created, idx, published, history, foreign>>
  /\ \/ /\ n \in 1..MaxReports
        /\ reports[n] = {}
        /\ reports' = [reports EXCEPT ![n] = {a}]
        /\ tried' = [tried EXCEPT ![a] = n]
        /\ Goto(a, "report", "done")
     \/ /\ n \in 1..MaxReports
        /\ tried' = [tried EXCEPT ![a] = n]
        /\ UNCHANGED <<reports, pc>>
     \/ /\ n > MaxReports
        /\ Goto(a, "report", "done")
        /\ UNCHANGED <<reports, tried>>

-----------------------------------------------------------------------------
(* Environment *)

Running(a) == pc[a] \notin {"idle", "done", "refused", "crashed", "recovered"}

\* The process is killed; the checkout stays as it is and no report is written.
Crash(a) ==
  /\ Running(a)
  /\ pc' = [pc EXCEPT ![a] = "crashed"]
  /\ UNCHANGED <<tree, reports, edits, args, tmp, code, progress, history, foreign>>

\* The person saves, deletes, creates or chmods a file of the set.
EditedAs(i) ==
  {[bytes |-> "edit", x |-> FALSE], Absent} \cup
  (IF file[i] = Absent THEN {} ELSE {[file[i] EXCEPT !.x = ~@]})

Edit ==
  /\ edits < MaxEdits
  /\ edits' = edits + 1
  /\ \E i \in Entries :
       /\ Needs[i] \subseteq dirs
       /\ \E f \in EditedAs(i) \ {file[i]} : file' = [file EXCEPT ![i] = f]
       /\ foreign' = [b \in Appliers |-> foreign[b] \cup {i}]
  /\ UNCHANGED <<dirs, reports, pc, args, tmp, code, progress, history>>

EditorMakesDir ==
  /\ edits < MaxEdits
  /\ edits' = edits + 1
  /\ \E d \in Dirs \ dirs : Above[d] \subseteq dirs /\ dirs' = dirs \cup {d}
  /\ UNCHANGED <<file, reports, pc, args, tmp, code, progress, history, foreign>>

\* Mutant: recovery_commands forgets the deletions.
RestoredButDeletions(a) ==
  [i \in Entries |-> IF i \in published[a] /\ Op[i] # "deleted" THEN Base(i) ELSE file[i]]

\* What the printed RECOVERY lines do: rm an addition, `git restore' the
\* others from the input tree, then rmdir, deepest first, what is empty.
Restored(a) == [i \in Entries |-> IF i \in published[a] THEN Base(i) ELSE file[i]]

Occupied(f, d) ==
  \/ \E i \in Entries : d \in Needs[i] /\ f[i] # Absent
  \/ \E b \in Appliers : \E i \in tmp[b] : d \in Needs[i]

RemainingDirs(a, f) ==
  {d \in dirs : \/ d \notin created[a]
                \/ Occupied(f, d)
                \/ \E e \in dirs : /\ d \in Above[e]
                                   /\ e \notin created[a] \/ Occupied(f, e)}

\* The person runs the RECOVERY lines of a finished apply.
Recover(a) ==
  /\ Goto(a, "done", "recovered")
  /\ file' = Restored(a)
  /\ dirs' = RemainingDirs(a, Restored(a))
  /\ foreign' = [b \in Appliers |-> IF b = a THEN foreign[b] ELSE foreign[b] \cup published[a]]
  /\ UNCHANGED <<reports, edits, args, tmp, code, progress, history>>

-----------------------------------------------------------------------------
Step(a) ==
  \/ PreflightEntry(a) \/ Decide(a)
  \/ MakeDir(a) \/ AllDirsMade(a)
  \/ WriteTemp(a) \/ Recheck(a) \/ Place(a) \/ RenameAdded(a) \/ UnlinkTemp(a)
  \/ AllPublished(a) \/ WriteReport(a)

Start(a) == \E valid \in BOOLEAN, accept \in SUBSET Entries : Begin(a, valid, accept)

Next ==
  \/ \E a \in Appliers : Start(a) \/ Step(a) \/ Crash(a) \/ Recover(a)
  \/ Edit \/ EditorMakesDir

Spec == Init /\ [][Next]_vars

\* Each apply is one process the operating system keeps scheduling.
FairSpec == Spec /\ \A a \in Appliers : WF_vars(Step(a))

-----------------------------------------------------------------------------
(* Properties *)

\* The first thing apply() promises of a stop: PUBLISHED= names exactly the
\* entries on which one of its system calls took effect, at every point where
\* it may stop, the failed removal of a temporary sibling included.
ReportExact ==
  \A a \in Appliers :
    pc[a] \in {"report", "done", "recovered"} => published[a] = touched[a]

\* Publication runs in path order and stops at the first failure: what took
\* effect is always an initial segment of the change set, whoever interferes
\* and wherever the process dies.
TouchedIsPrefix ==
  \A a \in Appliers : touched[a] \in {1..(idx[a] - 1), 1..idx[a]}

\* The preflight refuses the whole set: nothing is written, not even a
\* directory or a temporary sibling, before the run was valid, every entry
\* held its base and the flags named exactly the entries that need one.
WholeSetOrNothing ==
  \A a \in Appliers :
    touched[a] # {} \/ mkdirs[a] # {} \/ tmp[a] # {} =>
      args[a].valid /\ args[a].accept = MustAccept /\ checked[a] = N

\* The RECOVERY lines bring back the input: once an apply has stopped, every
\* entry nobody else changed since it was last compared with the base holds
\* the base after them, published or not.
RecoveryRestores ==
  \A a \in Appliers : pc[a] \in {"report", "done"} =>
    \A i \in Entries \ foreign[a] : Restored(a)[i] = Base(i)

\* With hard links an addition never replaces a file that appeared at its
\* path, not even one created after the recheck or by a second apply.
AdditionsNeverReplace ==
  [][\A a \in Appliers : \A i \in touched'[a] \ touched[a] :
       Op[i] = "added" => file[i] = Absent]_vars

\* Best-effort detection, stated exactly: what somebody else wrote before the
\* recheck of an entry is never overwritten by its publication; only a
\* change that falls between the recheck and the system call can be lost.
EarlierEditsSurvive ==
  [][\A a \in Appliers : \A i \in touched'[a] \ touched[a] :
       file[i] = Base(i) \/ i \in foreign[a]]_vars

\* Two applies of one run directory never write the same report file.
ReportsNeverReplaced ==
  [][\A n \in 1..MaxReports : reports[n] # {} => reports'[n] = reports[n]]_vars

\* An apply that began ends: it refuses, reports or is killed.
ApplyEnds ==
  \A a \in Appliers :
    pc[a] = "preflight" ~> pc[a] \in {"refused", "done", "recovered", "crashed"}

\* apply()'s docstring: "record exact partial recovery state".  Everything it
\* left in the checkout is in the report: the directories it made are in
\* CREATED_DIRS and no temporary sibling remains.
RecoveryStateExact ==
  \A a \in Appliers : pc[a] = "done" => created[a] = mkdirs[a] /\ tmp[a] = {}
=============================================================================
