------------------------------ MODULE HuntRun ---------------------------------
(* src/scripts/hunt_run.py, prepare and publish, with build_snapshot and its      *)
(* worker (hunt_snapshot.py) and the ledger (hunt_io.py): what a hunt may hand on *)
(* as covered. Each step is a process of its own that may end after any of its    *)
(* writes, leaving a part of the last one; people edit the repository meanwhile.  *)
(* A step refuses, fails or is killed: Stop, with no more told apart.             *)
EXTENDS Naturals, FiniteSets

CONSTANTS
  Cli,           \* processes
  NRuns,         \* runs are 1..NRuns, in the order of their names
  File, None,
  MaxChanges     \* of the repository

VARIABLES
  pc, at,        \* where each process is, and the run it works on
  repo, changes, \* what each file of the repository holds; how often it changed
  hunts          \* the files each run has left, here and in the private directory

vars == <<pc, at, repo, changes, hunts>>

(* Two keys that one placeholder replaces, and an entry that is refused. The      *)
(* report and the ledger of a run lie in the repository as well.                  *)
Content     == {"key1", "key2", "link"}
Runs        == 1..NRuns
Outputs     == {"report", "ledger"} \X Runs

\* A file that is being created: not there, there in part, or whole.
Parts == {"none", "part", "whole"}

Fresh ==
  [begun |-> FALSE, previous |-> None, todo |-> {}, copied |-> <<>>, original |-> "none",
   ledger |-> "none", state |-> "none", events |-> {}, told |-> None,
   report |-> "none", coverage |-> "none", done |-> "none"]

Init ==
  /\ pc = [c \in Cli |-> "idle"]
  /\ at = [c \in Cli |-> None]
  /\ repo \in [File -> Content \ {"key2"}]   \* the two keys are alike
  /\ changes = 0
  /\ hunts = [h \in Runs |-> Fresh]

-----------------------------------------------------------------------------
Goto(c, from, to) == pc[c] = from /\ pc' = [pc EXCEPT ![c] = to]

\* One file is created, which refuses when anything has its name.
Creates(c, artifact, from, to) ==
  /\ Goto(c, from, to)
  /\ hunts[at[c]][artifact] = "none"
  /\ hunts' = [hunts EXCEPT ![at[c]][artifact] = "whole"]
  /\ UNCHANGED <<at, repo, changes>>

\* A line of the ledger: redacted, written and synced, or not there.
Logs(c, event, from, to) ==
  /\ Goto(c, from, to)
  /\ hunts' = [hunts EXCEPT ![at[c]].events = @ \cup {event}]
  /\ UNCHANGED <<at, repo, changes>>

-----------------------------------------------------------------------------
\* A descriptor counts when it and the two files it names can be read.
Complete(h) == hunts[h].done = "whole" /\ hunts[h].original = "whole" /\ hunts[h].coverage = "whole"

LatestCompleteRun ==
  IF \A h \in Runs : ~Complete(h) THEN None
  ELSE CHOOSE h \in Runs : Complete(h) /\ \A g \in Runs : Complete(g) => g <= h

\* What git lists, without the outputs of the hunt itself.
Listed ==
  File \cup {p \in Outputs : hunts[p[2]][p[1]] # "none"}
OwnOutputs == Outputs
Input      == Listed \ OwnOutputs

\* The name of a run has its time and a random part: two of one second, or of a
\* clock that was set back, come in any order.
Prepare(c, h) ==
  /\ Goto(c, "idle", "copy")
  /\ ~hunts[h].begun
  /\ at' = [at EXCEPT ![c] = h]
  /\ hunts' = [hunts EXCEPT ![h].begun = TRUE, ![h].previous = LatestCompleteRun, ![h].todo = Input]
  /\ UNCHANGED <<repo, changes>>

\* The worker reads and copies one file after another, in one order.
CopyFile(c) ==
  /\ pc[c] = "copy" /\ hunts[at[c]].todo # {}
  /\ LET h == at[c]
         p == CHOOSE q \in hunts[h].todo : TRUE
         v == IF p \in File THEN repo[p] ELSE "link"
         copied == hunts[h].copied
     IN  hunts' = [hunts EXCEPT ![h].todo = @ \ {p},
                     ![h].copied = [q \in DOMAIN copied \cup {p} |-> IF q = p THEN v ELSE copied[q]]]
  /\ UNCHANGED <<pc, at, repo, changes>>

\* The copy is redacted and hashed; a copy of the skill is made and verified.
Freeze(c) ==
  /\ Goto(c, "copy", "original")
  /\ hunts[at[c]].todo = {}
  /\ UNCHANGED <<at, repo, changes, hunts>>

\* Mutant: the manifest after redaction is compared.
RedactedManifest(h) == [p \in DOMAIN hunts[h].copied |-> hunts[h].copied[p] = "link"]

\* The manifest that is compared is the private one, of the bytes before redaction.
Manifest(h) == hunts[h].copied

Classify(h) ==
  LET previous == hunts[h].previous
  IN  IF previous = None THEN [status |-> "none", from |-> None]
      ELSE IF Manifest(previous) = Manifest(h) THEN [status |-> "current", from |-> previous]
      ELSE [status |-> "historical", from |-> previous]

WriteOriginal(c) == Creates(c, "original", "original", "ledger")
OpenLedger(c)    == Creates(c, "ledger", "ledger", "state")
WriteState(c)    == Creates(c, "state", "state", "prepared")
LogPrepared(c)   == Logs(c, "prepared", "prepared", "tell")

Tell(c) ==
  /\ Goto(c, "tell", "idle")
  /\ hunts' = [hunts EXCEPT ![at[c]].told = Classify(at[c])]
  /\ at' = [at EXCEPT ![c] = None]
  /\ UNCHANGED <<repo, changes>>

-----------------------------------------------------------------------------
\* Every later step opens the run again, whatever became of the one that made it.
Load(c, h) ==
  /\ Goto(c, "idle", "report")
  /\ hunts[h].state = "whole" /\ hunts[h].original = "whole" /\ hunts[h].ledger = "whole"
  /\ at' = [at EXCEPT ![c] = h]
  /\ UNCHANGED <<repo, changes, hunts>>

WriteReport(c)   == Creates(c, "report", "report", "coverage")
WriteCoverage(c) == Creates(c, "coverage", "coverage", "published")
LogPublished(c)  == Logs(c, "published", "published", "done")

WriteDone(c) ==
  /\ Goto(c, "done", "idle")
  /\ hunts[at[c]].done = "none"
  /\ hunts' = [hunts EXCEPT ![at[c]].done = "whole"]
  /\ at' = [at EXCEPT ![c] = None]
  /\ UNCHANGED <<repo, changes>>

\* The process ends; of the file it was about to create there may be a part.
Stop(c) ==
  /\ pc[c] # "idle"
  /\ pc' = [pc EXCEPT ![c] = "idle"] /\ at' = [at EXCEPT ![c] = None]
  /\ \/ UNCHANGED hunts
     \/ /\ pc[c] \in DOMAIN Fresh /\ hunts[at[c]][pc[c]] = "none"
        /\ hunts' = [hunts EXCEPT ![at[c]][pc[c]] = "part"]
  /\ UNCHANGED <<repo, changes>>

EditFile ==
  /\ changes < MaxChanges
  /\ \E f \in File, v \in Content : repo' = [repo EXCEPT ![f] = v]
  /\ changes' = changes + 1
  /\ UNCHANGED <<pc, at, hunts>>

Step(c) ==
  \/ \E h \in Runs : Prepare(c, h) \/ Load(c, h)
  \/ CopyFile(c) \/ Freeze(c) \/ WriteOriginal(c) \/ OpenLedger(c) \/ WriteState(c)
  \/ LogPrepared(c) \/ Tell(c)
  \/ WriteReport(c) \/ WriteCoverage(c) \/ LogPublished(c) \/ WriteDone(c)
  \/ Stop(c)

Next == EditFile \/ \E c \in Cli : Step(c)

-----------------------------------------------------------------------------
TypeOK ==
  /\ at \in [Cli -> Runs \cup {None}]
  /\ \A c \in Cli : pc[c] = "idle" <=> at[c] = None
  /\ repo \in [File -> Content] /\ changes \in 0..MaxChanges
  /\ \A h \in Runs :
       /\ DOMAIN hunts[h] = DOMAIN Fresh
       /\ \A a \in {"original", "ledger", "state", "report", "coverage", "done"} : hunts[h][a] \in Parts
       /\ hunts[h].events \subseteq {"prepared", "published"}

(* What an earlier run covered is called current exactly when every file of the   *)
(* repository was then, byte for byte, what it is in this run's frozen input, and *)
(* it is then handed on by a run whose report is written and whose publication is *)
(* in its ledger, at whatever point that run, or another publication of it, was   *)
(* cut short (hunt_run.py:408).                                                   *)
CoverageIsBacked ==
  \A h \in Runs : hunts[h].told # None =>
    LET told == hunts[h].told
        from == told.from
    IN  /\ from # None =>
             /\ hunts[from].report = "whole" /\ hunts[from].coverage = "whole"
             /\ "published" \in hunts[from].events
        /\ told.status = "current" <=>
             from # None /\ \A f \in File : hunts[from].copied[f] = hunts[h].copied[f]
=============================================================================
