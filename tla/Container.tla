----------------------------- MODULE Container --------------------------------
(* What runs in a container, side by side: a behaviour belongs to one of the parts. *)
EXTENDS Naturals, FiniteSets, Sequences

CONSTANTS
  Proc, NoProc, Cap, MaxWrites, MaxForks, MaxRounds,
  Target, Name,
  Path, Git, NotUtf8, NotPlain,
  Inputs                  \* what a walk may meet: tar, tree, rules and caps

VARIABLES
  part,
  order, pc, then, hunted, owner, holds, lead, pipe, seen, wrote, writes, forks, listed,
  found, rounds, slips, proved, clocks, job, jstatus, jexit, deps, login, status, exit,
  ran, change, infra, input, stack, todo, count, sent, records, whole, result, answer,
  route, child, clock, pending, lines, outcomes, killed, garbled, rows, verdict

ASSUME DriverAssumption ==
  /\ NoProc \notin Proc
  /\ Cap \in Nat /\ MaxWrites \in Nat /\ MaxForks \in Nat /\ MaxRounds \in Nat

\* What lies beneath a path of the model is one as well, and names are strings.
ASSUME PathAssumption ==
  /\ Path \subseteq Seq(STRING) \ {<<>>}
  /\ \A p \in Path : \A n \in 1..Len(p) : SubSeq(p, 1, n) \in Path

\* In a tree, what lives lies in directories, and is not without end; a rule
\* withholds something, not all.
ASSUME InputAssumption == \A i \in Inputs :
  /\ i.tree \in [Path -> [kind : {"none", "file", "dir", "link", "special"}, body : Nat, exec : BOOLEAN]]
  /\ \A p \in Path : \A n \in 1..Len(p) :
       i.tree[p].kind # "none" /\ n < Len(p) => i.tree[SubSeq(p, 1, n)].kind = "dir"
  /\ IsFiniteSet({p \in Path : i.tree[p].kind # "none"})
  /\ i.withheld \subseteq Seq(STRING) \ {<<>>}
  /\ {i.caps.entries, i.caps.file_bytes, i.caps.total_bytes, i.caps.added_files} \subseteq Nat

Driver == INSTANCE DriverRun
Probe  == INSTANCE ProbeRun
Change == INSTANCE ChangeSet

-----------------------------------------------------------------------------
DriverRest == <<
  input, stack, todo, count, sent, records, whole, result, answer, route, child, clock,
  pending, lines, outcomes, killed, garbled, rows, verdict>>
ChangeRest == <<
  order, then, hunted, owner, holds, lead, pipe, seen, wrote, writes, forks, listed, found,
  rounds, slips, proved, clocks, job, jstatus, jexit, deps, login, status, exit, ran,
  change, infra, answer, route, child, clock, pending, lines, outcomes, killed, garbled,
  rows, verdict>>
ProbeRest == <<
  order, then, hunted, owner, holds, lead, pipe, seen, wrote, writes, forks, listed, found,
  rounds, slips, proved, clocks, job, jstatus, jexit, deps, login, exit, ran, change,
  input, stack, todo, count, sent, records, whole, result>>

Init ==
  \/ /\ part = "driver" /\ Driver!Init
     /\ input = {} /\ stack = {} /\ todo = {} /\ count = {} /\ sent = {} /\ records = {}
     /\ whole = {} /\ result = {} /\ answer = {} /\ route = {} /\ child = {} /\ clock = {}
     /\ pending = {} /\ lines = {} /\ outcomes = {} /\ killed = {} /\ garbled = {}
     /\ rows = {} /\ verdict = {} 
  \/ /\ part = "change" /\ Change!InitWith(Inputs)
     /\ order = {} /\ then = {} /\ hunted = {} /\ owner = {} /\ holds = {} /\ lead = {}
     /\ pipe = {} /\ seen = {} /\ wrote = {} /\ writes = {} /\ forks = {} /\ listed = {}
     /\ found = {} /\ rounds = {} /\ slips = {} /\ proved = {} /\ clocks = {} /\ job = {}
     /\ jstatus = {} /\ jexit = {} /\ deps = {} /\ login = {} /\ status = {} /\ exit = {}
     /\ ran = {} /\ change = {} /\ infra = {} /\ answer = {} /\ route = {} /\ child = {}
     /\ clock = {} /\ pending = {} /\ lines = {} /\ outcomes = {} /\ killed = {}
     /\ garbled = {} /\ rows = {} /\ verdict = {} 
  \/ /\ part = "probe" /\ Probe!Init
     /\ order = {} /\ then = {} /\ hunted = {} /\ owner = {} /\ holds = {} /\ lead = {}
     /\ pipe = {} /\ seen = {} /\ wrote = {} /\ writes = {} /\ forks = {} /\ listed = {}
     /\ found = {} /\ rounds = {} /\ slips = {} /\ proved = {} /\ clocks = {} /\ job = {}
     /\ jstatus = {} /\ jexit = {} /\ deps = {} /\ login = {} /\ exit = {} /\ ran = {}
     /\ change = {} /\ input = {} /\ stack = {} /\ todo = {} /\ count = {} /\ sent = {}
     /\ records = {} /\ whole = {} /\ result = {} 

InDriver == part = "driver" /\ UNCHANGED <<part, DriverRest>>
InChange == part = "change" /\ UNCHANGED <<part, ChangeRest>>
InProbe  == part = "probe" /\ UNCHANGED <<part, ProbeRest>>

Next ==
  \/ InDriver /\ Driver!Next
  \/ InChange /\ Change!Next
  \/ InProbe /\ Probe!Next

vars == <<part, Driver!vars, DriverRest>>

Spec == Init /\ [][Next]_vars

\* The driver, the probe and their clocks go on.  What runs inside of them -- the
\* installer, Codex, the commands of a project, the child of the probe -- need not.
FairSpec ==
  /\ Spec
  /\ WF_<<pc, pipe>>(part = "driver" /\ Driver!Driver)
  /\ WF_clocks(part = "driver" /\ \E c \in {"deps", "login", "all"} : Driver!Tick(c))
  /\ WF_<<pc, todo, stack>>(part = "change" /\ Change!Next)
  /\ WF_<<pc, lines>>(part = "probe" /\ Probe!Driver)
  /\ WF_clock(part = "probe" /\ Probe!Tick)

-----------------------------------------------------------------------------
TypeOK == \/ part = "driver" /\ Driver!TypeOK
          \/ part = "change" /\ Change!TypeOK
          \/ part = "probe" /\ Probe!TypeOK

\* An outcome counts all that was written, only a process that slipped through two
\* scans survives, exports are read when everybody is gone, and the runner takes
\* every outcome: the claims of DriverRun.
DriverSound ==
  part = "driver" =>
    /\ Driver!CaptureIsWhole /\ Driver!SurvivorsSlippedTwice
    /\ Driver!ReadsAreQuiet /\ Driver!OutcomeIsEarned

ChangeSetExact    == part = "change" => Change!ChangeSetExact
IsolationIsProven == part = "probe" => Probe!IsolationIsProven

\* The driver, the walk and the probe end, whatever the programs in the container
\* do: go on for ever, never close a pipe, fork under the kill, or never answer.
ContainerEnds == <>(pc = "done")
=============================================================================
