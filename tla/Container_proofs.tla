---------------------------- MODULE Container_proofs ---------------------------
(***************************************************************************)
(* Proofs about what runs in a container: the probe, the driver and the    *)
(* walk.  Each part has an invariant of its own; a step of another part    *)
(* does not happen in its behaviours.                                      *)
(***************************************************************************)
EXTENDS Container, SequenceTheorems, FiniteSetTheorems, TLAPS

-----------------------------------------------------------------------------
(* The probe *)

ProbeTyped ==
  /\ answer \in [Target -> Probe!Outcomes] /\ route \in {"no", "yes"}
  /\ pc \in {"reading", "waiting", "quiesce", "result", "host", "done"}
  /\ child \in {"trying", "gone"} /\ clock \in {"early", "inner", "hard"}
  /\ pending \subseteq Target
  /\ lines \subseteq Target \X Probe!Outcomes /\ outcomes \subseteq Target \X Probe!Outcomes
  /\ killed \in BOOLEAN /\ garbled \in BOOLEAN /\ infra \in BOOLEAN
  /\ status \in Probe!Statuses /\ verdict \in Probe!Statuses
  /\ rows \in [Target -> Probe!Outcomes \cup {"unreported", "missing"}]

Reports == lines \cup outcomes

\* A report is the answer of its target or says that none came in time, and a
\* target is reported once.
ReportsAreTrue ==
  /\ \A r \in Reports : r[1] \notin pending /\ r[2] \in {answer[r[1]], "timeout"}
  /\ \A r, s \in Reports : r[1] = s[1] => r = s

\* What the driver's status says of the reports it has read.
StatusTells ==
  pc \in {"result", "host", "done"} =>
    /\ status = "isolated" =>
         ~killed /\ route = "no" /\ \A t \in Target : <<t, "blocked">> \in outcomes
    /\ (\E t \in Target : <<t, "reached">> \in outcomes) => status = "isolation_failed"

VerdictTells ==
  pc = "done" => /\ verdict = "isolated" => status = "isolated"
                 /\ status = "isolation_failed" => verdict = "isolation_failed"

ProbeInv == ProbeTyped /\ ReportsAreTrue /\ StatusTells /\ VerdictTells

LEMMA ReportedIsOutcome ==
  ASSUME ProbeTyped, ReportsAreTrue, NEW t \in Target
  PROVE  /\ Probe!Outcome(t) = "blocked" => <<t, "blocked">> \in outcomes
         /\ <<t, "reached">> \in outcomes => Probe!Outcome(t) = "reached"
<1>1. ASSUME NEW o \in Probe!Outcomes, <<t, o>> \in outcomes
      PROVE  /\ Probe!Outcome(t) \in Probe!Outcomes
             /\ <<t, Probe!Outcome(t)>> \in outcomes
  BY <1>1 DEF Probe!Outcome
<1>2. CASE \E o \in Probe!Outcomes : <<t, o>> \in outcomes
  <2>1. <<t, Probe!Outcome(t)>> \in outcomes
    BY <1>1, <1>2
  <2>2. ASSUME <<t, "reached">> \in outcomes
        PROVE  Probe!Outcome(t) = "reached"
    <3>1. <<t, "reached">> = <<t, Probe!Outcome(t)>>
      BY <2>1, <2>2 DEF ReportsAreTrue, Reports
    <3> QED BY <3>1
  <2> QED BY <2>1, <2>2
<1>3. CASE ~ \E o \in Probe!Outcomes : <<t, o>> \in outcomes
  BY <1>3 DEF Probe!Outcome, Probe!Outcomes
<1> QED BY <1>2, <1>3

LEMMA ProbeStarts == Probe!Init => ProbeInv
  BY DEF Probe!Init, ProbeInv, ProbeTyped, ReportsAreTrue, Reports, StatusTells, VerdictTells,
         Probe!Outcomes, Probe!Statuses

LEMMA ProbeStep == ProbeInv /\ Probe!Next => ProbeInv'
<1> SUFFICES ASSUME ProbeInv, Probe!Next PROVE ProbeInv'
  OBVIOUS
<1> USE DEF ProbeInv
\* A line of the child.
<1>1. ASSUME NEW t \in pending, NEW o \in {answer[t], "timeout"}, Probe!Write(t, o), pc \in {"reading", "waiting", "quiesce", "result", "host", "done"}
      PROVE  ProbeInv'
  <2>1. t \in Target /\ o \in Probe!Outcomes
    BY DEF ProbeTyped, Probe!Outcomes
  <2>2. ProbeTyped'
    BY <1>1, <2>1 DEF Probe!Write, ProbeTyped
  <2>3. Reports' = Reports \cup {<<t, o>>} /\ pending' = pending \ {t} /\ answer' = answer
    BY <1>1 DEF Probe!Write, Reports
  <2>4. \A r \in Reports : r[1] # t
    BY DEF ReportsAreTrue
  <2>5. ReportsAreTrue'
    BY <2>3, <2>4 DEF ReportsAreTrue
  <2>6. StatusTells' /\ VerdictTells'
    BY <1>1 DEF Probe!Write, StatusTells, VerdictTells
  <2> QED BY <2>2, <2>5, <2>6
<1>2. CASE \E t \in Target : Probe!Report(t) \/ Probe!GiveUp(t)
  <2>1. PICK t \in Target : Probe!Report(t) \/ Probe!GiveUp(t)
    BY <1>2
  <2>2. t \in pending /\ \E o \in {answer[t], "timeout"} : Probe!Write(t, o)
    BY <2>1 DEF Probe!Report, Probe!GiveUp
  <2> QED BY <1>1, <2>2 DEF ProbeTyped
<1>3. CASE Probe!ChildExits
  BY <1>3 DEF Probe!ChildExits, ProbeTyped, ReportsAreTrue, Reports, StatusTells, VerdictTells
<1>4. CASE Probe!Tick
  BY <1>4 DEF Probe!Tick, ProbeTyped, ReportsAreTrue, Reports, StatusTells, VerdictTells
<1>5. CASE Probe!ReadLines
  <2>1. Reports' = Reports
    BY <1>5 DEF Probe!ReadLines, Reports
  <2> QED BY <1>5, <2>1 DEF Probe!ReadLines, ProbeTyped, ReportsAreTrue, StatusTells, VerdictTells
<1>6. CASE Probe!EndOfReports
  BY <1>6 DEF Probe!EndOfReports, ProbeTyped, ReportsAreTrue, Reports, StatusTells, VerdictTells
<1>7. CASE Probe!KillChild
  BY <1>7 DEF Probe!KillChild, ProbeTyped, ReportsAreTrue, Reports, StatusTells, VerdictTells
<1>8. CASE Probe!WaitChild
  BY <1>8 DEF Probe!WaitChild, ProbeTyped, ReportsAreTrue, Reports, StatusTells, VerdictTells
<1>9. CASE Probe!Conclude
  <2>1. PICK quiet \in BOOLEAN, readable \in BOOLEAN :
          LET known == readable /\ route = "yes"
              bad   == ~quiet \/ ~readable \/ garbled
          IN /\ infra' = bad
             /\ status' = (IF Probe!ProbeStatus(known) = "isolated" /\ bad THEN "isolation_unverified"
                           ELSE Probe!ProbeStatus(known))
    BY <1>9 DEF Probe!Conclude
  <2> DEFINE known == readable /\ route = "yes"
  <2>2. /\ pc' = "result" /\ status' \in Probe!Statuses /\ infra' \in BOOLEAN
        /\ UNCHANGED <<answer, route, child, clock, pending, lines, outcomes, killed, garbled, rows, verdict>>
    BY <1>9, <2>1 DEF Probe!Conclude, Probe!ProbeStatus, Probe!Statuses, ProbeTyped
  <2>3. status' = "isolated" =>
          readable /\ route # "yes" /\ ~killed /\ \A t \in Target : Probe!Outcome(t) = "blocked"
    BY <2>1 DEF Probe!ProbeStatus
  <2>4. (\E t \in Target : Probe!Outcome(t) = "reached") => status' = "isolation_failed"
    BY <2>1 DEF Probe!ProbeStatus
  <2>5. StatusTells'
    BY <2>2, <2>3, <2>4, ReportedIsOutcome DEF StatusTells, ProbeTyped
  <2> QED BY <2>2, <2>5 DEF ProbeTyped, ReportsAreTrue, Reports, VerdictTells
<1>10. CASE Probe!Emit
  <2>1. rows' \in [Target -> Probe!Outcomes \cup {"unreported", "missing"}]
    BY <1>10 DEF Probe!Emit, Probe!Outcome
  <2> QED BY <1>10, <2>1 DEF Probe!Emit, ProbeTyped, ReportsAreTrue, Reports, StatusTells, VerdictTells
<1>11. CASE Probe!EvaluateProbe
  BY <1>11 DEF Probe!EvaluateProbe, ProbeTyped, ReportsAreTrue, Reports, StatusTells, VerdictTells, Probe!Statuses
<1> QED BY <1>2, <1>3, <1>4, <1>5, <1>6, <1>7, <1>8, <1>9, <1>10, <1>11 DEF Probe!Next, Probe!Driver

LEMMA ProbeProves == ProbeInv => Probe!IsolationIsProven
<1> SUFFICES ASSUME ProbeInv, pc = "done"
             PROVE  /\ verdict = "isolated" =>
                         /\ ~killed /\ route = "no"
                         /\ \A t \in Target : answer[t] = "blocked" /\ <<t, "blocked">> \in outcomes
                    /\ (\E t \in Target : <<t, "reached">> \in outcomes) => verdict = "isolation_failed"
  BY DEF Probe!IsolationIsProven
<1>1. \A t \in Target : <<t, "blocked">> \in outcomes => answer[t] = "blocked"
  BY DEF ProbeInv, ReportsAreTrue, Reports
<1> QED BY <1>1 DEF ProbeInv, StatusTells, VerdictTells

-----------------------------------------------------------------------------
(* The driver: the shapes of its steps *)

Hunting == {"list", "look", "kill", "again", "looktwice", "late"}
Busy    == Hunting \cup {"started", "poll", "drain"}
Nexts   == {"drain", "export", "walkdeps", "login", "command", "compute"}

\* The place the driver is at, or returns to when the hunt is over.
Place == IF pc \in Hunting THEN then ELSE pc

\* A step between jobs that only moves on, perhaps with an outcome.
Plain ==
  /\ Driver!Quiet /\ pc \notin Busy /\ pc' \notin Busy \cup {"decided"}
  /\ pc' \in {"export", "walk", "compute"} => pc = "export"

\* A hunt begins: after a job that is waited for, killed or not, or between jobs.
Begins(uids, next) ==
  /\ Driver!BeginQuiesce(uids, next)
  /\ \E gone \in SUBSET Proc :
       /\ owner' = [p \in Proc |-> IF p \in gone THEN "none" ELSE owner[p]]
       /\ holds' = holds \ gone
  /\ lead' \in {lead, NoProc}
  /\ UNCHANGED <<order, pipe, wrote, writes, forks, job, seen, clocks>>

HuntsAfterJob ==
  /\ pc \in {"started", "poll"}
  /\ Begins({Driver!JobUid[job]}, "drain")
  /\ \/ jstatus' = jstatus /\ jexit' \in {"zero", "other"}
     \/ /\ jstatus' = (IF seen > Cap THEN "output_limit" ELSE "timeout")
        /\ jexit' = jexit

HuntsBetween(uids, next) ==
  /\ pc \notin Busy /\ next # "drain" /\ (next = "compute" => pc = "walk")
  /\ Begins(uids, next) /\ UNCHANGED <<jstatus, jexit>>

\* Where the driver hunts between jobs, and whom.
Between == {<<Driver!Uids, "export">>, <<{"deps"}, "walkdeps">>, <<{"deps"}, "login">>,
            <<{"deps"}, "command">>, <<{"run"}, "compute">>}

Spawns(from) == \E j \in Driver!Jobs : Driver!Spawn(j, from)

DriverTyped ==
  /\ order \in [mode : {"run", "build"}, deps : BOOLEAN]
  /\ owner \in [Proc -> {"deps", "run", "none"}] /\ holds \subseteq Proc
  /\ lead \in Proc \cup {NoProc}
  /\ pipe \in Nat /\ seen \in Nat /\ wrote \in Nat
  /\ writes \in 0..MaxWrites /\ forks \in 0..MaxForks
  /\ listed \subseteq Proc /\ found \subseteq Proc /\ rounds \in 0..MaxRounds
  /\ slips \in [{"deps", "run"} -> Nat]
  /\ hunted \subseteq {"deps", "run"} /\ proved \subseteq {"deps", "run"}
  /\ clocks \subseteq {"deps", "login", "all"} /\ job \in {"install", "login", "command"}
  /\ jstatus \in {"exited", "timeout", "output_limit", "not_started"}
  /\ jexit \in {"none", "zero", "other"}

LEMMA SameOwner == DriverTyped => owner = [p \in Proc |-> IF p \in {} THEN "none" ELSE owner[p]] /\ holds = holds \ {}
  BY DEF DriverTyped

\* A hunt that kills nobody.
LEMMA BeginsQuietly ==
  ASSUME DriverTyped, NEW uids, NEW next, Driver!BeginQuiesce(uids, next),
         UNCHANGED <<order, owner, holds, lead, pipe, wrote, writes, forks, job, seen, clocks>>
  PROVE  Begins(uids, next)
<1>1. \E gone \in SUBSET Proc : /\ owner' = [p \in Proc |-> IF p \in gone THEN "none" ELSE owner[p]]
                                /\ holds' = holds \ gone
  <2>1. {} \in SUBSET Proc
    OBVIOUS
  <2> QED BY <2>1, SameOwner
<1> QED BY <1>1 DEF Begins

DriverStep ==
  \/ Plain
  \/ HuntsAfterJob
  \/ \E b \in Between : HuntsBetween(b[1], b[2])
  \/ Spawns("install") \/ Spawns("login") \/ Spawns("command")
  \/ Driver!Poll \/ Driver!Drain \/ Driver!Quiesce
  \/ Driver!Processes
  \/ \E c \in {"deps", "login", "all"} : Driver!Tick(c)

LEMMA DepsFailedHunts ==
  ASSUME DriverTyped, NEW from, from \notin Busy, Driver!DepsFailed(from)
  PROVE  HuntsBetween(Driver!Uids, "export")
  BY BeginsQuietly DEF Driver!DepsFailed, HuntsBetween, Driver!procVars, Driver!jobVars

LEMMA AfterJobHunts ==
  ASSUME DriverTyped, Driver!Reap \/ Driver!KillGroup
  PROVE  HuntsAfterJob
<1>1. CASE Driver!Reap
  <2>1. Begins({Driver!JobUid[job]}, "drain")
    <3>1. /\ Driver!BeginQuiesce({Driver!JobUid[job]}, "drain") /\ lead' = NoProc
          /\ UNCHANGED <<order, owner, holds, pipe, wrote, writes, forks, job, seen, clocks>>
      BY <1>1 DEF Driver!Reap
    <3>2. \E gone \in SUBSET Proc : /\ owner' = [p \in Proc |-> IF p \in gone THEN "none" ELSE owner[p]]
                                    /\ holds' = holds \ gone
      <4>1. {} \in SUBSET Proc
        OBVIOUS
      <4> QED BY <3>1, <4>1, SameOwner
    <3> QED BY <3>1, <3>2 DEF Begins
  <2> QED BY <1>1, <2>1 DEF Driver!Reap, HuntsAfterJob
<1>2. CASE Driver!KillGroup
  <2>1. PICK group \in SUBSET Driver!Live({Driver!JobUid[job]}) :
          /\ owner' = [p \in Proc |-> IF p \in group \cup {lead} THEN "none" ELSE owner[p]]
          /\ holds' = holds \ (group \cup {lead})
    BY <1>2 DEF Driver!KillGroup
  <2> DEFINE gone == (group \cup {lead}) \cap Proc
  <2>2. /\ gone \in SUBSET Proc
        /\ owner' = [p \in Proc |-> IF p \in gone THEN "none" ELSE owner[p]]
        /\ holds' = holds \ gone
    BY <2>1 DEF DriverTyped
  <2>3. Begins({Driver!JobUid[job]}, "drain")
    BY <1>2, <2>2 DEF Driver!KillGroup, Begins
  <2> QED BY <1>2, <2>3 DEF Driver!KillGroup, HuntsAfterJob
<1> QED BY <1>1, <1>2

LEMMA StepShapes == DriverTyped /\ Driver!Next => DriverStep
<1> SUFFICES ASSUME DriverTyped, Driver!Next PROVE DriverStep
  OBVIOUS
<1> USE DEF Driver!Goto, Driver!GoOn, Driver!Fail, Busy, Hunting
<1>1. CASE \/ Driver!ParseHeader \/ Driver!ReadInputs \/ Driver!ExtractSnapshot \/ Driver!PrepareCodexHome
           \/ Driver!ReadExport \/ Driver!ComputeChanges \/ Driver!Frame
  BY <1>1 DEF DriverStep, Plain, Driver!ParseHeader, Driver!ReadInputs, Driver!ExtractSnapshot,
              Driver!PrepareCodexHome, Driver!ReadExport, Driver!ComputeChanges, Driver!Frame, Driver!Enter
<1>2. CASE Driver!RunDeps
  <2>1. ASSUME NEW from \in {"deps", "unpack", "install", "decided", "walkdeps", "readsite", "closure"},
               Driver!DepsFailed(from)
        PROVE  DriverStep
    <3>1. <<Driver!Uids, "export">> \in Between
      BY DEF Between
    <3>2. HuntsBetween(Driver!Uids, "export")
      BY <2>1, DepsFailedHunts
    <3> QED BY <3>1, <3>2 DEF DriverStep
  <2>2. ASSUME NEW from \in {"deps", "walkdeps", "readsite"}, NEW to \in {"unpack", "readsite", "closure"},
               Driver!InTime(from, to)
        PROVE  DriverStep
    BY <2>2 DEF DriverStep, Plain, Driver!InTime
  <2>3. CASE Driver!CheckDeps \/ Driver!WalkDeps \/ Driver!ReadSite
    BY <2>1, <2>2, <2>3 DEF Driver!CheckDeps, Driver!WalkDeps, Driver!ReadSite
  <2>4. CASE Driver!ExtractDeps
    BY <2>1, <2>4 DEF Driver!ExtractDeps, DriverStep, Plain
  <2>5. CASE Driver!Install
    BY <2>1, <2>5 DEF Driver!Install, DriverStep, Spawns, Driver!Jobs
  <2>6. CASE Driver!AfterInstall
    <3>1. CASE Driver!DepsFailed("decided")
      BY <2>1, <3>1
    <3>2. CASE ~Driver!DepsFailed("decided")
      <4>1. /\ pc = "decided" /\ Driver!BeginQuiesce({"deps"}, "walkdeps")
            /\ UNCHANGED <<order, Driver!procVars, Driver!jobVars, Driver!outVars, clocks>>
        BY <2>6, <3>2 DEF Driver!AfterInstall
      <4>2. HuntsBetween({"deps"}, "walkdeps")
        BY <4>1, BeginsQuietly DEF HuntsBetween, Driver!procVars, Driver!jobVars
      <4>3. <<{"deps"}, "walkdeps">> \in Between
        BY DEF Between
      <4> QED BY <4>2, <4>3 DEF DriverStep
    <3> QED BY <3>1, <3>2
  <2>7. CASE Driver!CheckClosure
    <3>1. CASE Driver!DepsFailed("closure")
      BY <2>1, <3>1
    <3>2. CASE ~Driver!DepsFailed("closure")
      <4>1. /\ pc = "closure" /\ Driver!BeginQuiesce({"deps"}, IF Driver!Build THEN "login" ELSE "command")
            /\ UNCHANGED <<order, Driver!procVars, Driver!jobVars, clocks>>
        BY <2>7, <3>2 DEF Driver!CheckClosure
      <4>2. PICK next \in {"login", "command"} : next = IF Driver!Build THEN "login" ELSE "command"
        OBVIOUS
      <4>3. HuntsBetween({"deps"}, next)
        BY <4>1, <4>2, BeginsQuietly DEF HuntsBetween, Driver!procVars, Driver!jobVars
      <4>4. <<{"deps"}, next>> \in Between
        BY <4>2 DEF Between
      <4> QED BY <4>3, <4>4 DEF DriverStep
    <3> QED BY <3>1, <3>2
  <2> QED BY <1>2, <2>3, <2>4, <2>5, <2>6, <2>7 DEF Driver!RunDeps
<1>3. CASE Driver!StartLogin \/ Driver!StartCommand
  BY <1>3 DEF Driver!StartLogin, Driver!StartCommand, DriverStep, Spawns, Driver!Jobs, Plain
<1>4. CASE Driver!AfterLogin
  <2>1. CASE Driver!BeginQuiesce(Driver!Uids, "export")
    <3>1. HuntsBetween(Driver!Uids, "export")
      BY <1>4, <2>1, BeginsQuietly DEF Driver!AfterLogin, HuntsBetween, Driver!procVars, Driver!jobVars
    <3>2. <<Driver!Uids, "export">> \in Between
      BY DEF Between
    <3> QED BY <3>1, <3>2 DEF DriverStep
  <2>2. CASE ~Driver!BeginQuiesce(Driver!Uids, "export")
    BY <1>4, <2>2 DEF Driver!AfterLogin, DriverStep, Plain, Driver!Quiet
  <2> QED BY <2>1, <2>2
<1>5. CASE Driver!AfterCommand
  <2>1. HuntsBetween(Driver!Uids, "export")
    BY <1>5, BeginsQuietly DEF Driver!AfterCommand, HuntsBetween, Driver!procVars, Driver!jobVars
  <2>2. <<Driver!Uids, "export">> \in Between
    BY DEF Between
  <2> QED BY <2>1, <2>2 DEF DriverStep
<1>6. CASE Driver!RunWalk
  <2>1. HuntsBetween({"run"}, "compute")
    BY <1>6, BeginsQuietly DEF Driver!RunWalk, HuntsBetween, Driver!procVars, Driver!jobVars
  <2>2. <<{"run"}, "compute">> \in Between
    BY DEF Between
  <2> QED BY <2>1, <2>2 DEF DriverStep
<1>7. CASE Driver!Reap \/ Driver!KillGroup
  BY <1>7, AfterJobHunts DEF DriverStep
<1>8. CASE Driver!Poll \/ Driver!Drain \/ Driver!Quiesce \/ Driver!Processes \/ \E c \in {"deps", "login", "all"} : Driver!Tick(c)
  BY <1>8 DEF DriverStep
<1> QED BY <1>1, <1>2, <1>3, <1>4, <1>5, <1>6, <1>7, <1>8 DEF Driver!Next, Driver!Driver

LEMMA BetweenUids == \A b \in Between : b[1] \subseteq {"deps", "run"} /\ b[2] \in Nexts /\ b[2] # "drain"
  BY DEF Between, Driver!Uids, Nexts

LEMMA NewNumberIsNew ==
  Driver!NewNumbers # {} =>
    /\ Driver!NewNumber \in Proc /\ owner[Driver!NewNumber] = "none"
    /\ Driver!NewNumber # lead /\ Driver!NewNumber \notin listed
  BY DEF Driver!NewNumbers, Driver!NewNumber

LEMMA BeginsTyped ==
  ASSUME DriverTyped, NEW uids \in SUBSET {"deps", "run"}, NEW next, Begins(uids, next)
  PROVE  /\ order' = order /\ clocks' = clocks /\ job' = job
         /\ owner' \in [Proc -> {"deps", "run", "none"}] /\ holds' \subseteq Proc
         /\ lead' \in Proc \cup {NoProc}
         /\ pipe' = pipe /\ seen' = seen /\ wrote' = wrote /\ writes' = writes /\ forks' = forks
         /\ listed' = {} /\ found' = {} /\ rounds' = 0
         /\ slips' \in [{"deps", "run"} -> Nat]
         /\ hunted' = uids /\ proved' = proved \ uids
<1>1. Driver!BeginQuiesce(uids, next)
  BY DEF Begins
<1>2. slips' \in [{"deps", "run"} -> Nat]
  BY <1>1 DEF Driver!BeginQuiesce, Driver!Uids, DriverTyped
<1>3. owner' \in [Proc -> {"deps", "run", "none"}] /\ holds' \subseteq Proc
  BY DEF Begins, DriverTyped
<1> QED BY <1>1, <1>2, <1>3 DEF Driver!BeginQuiesce, Begins, DriverTyped

LEMMA BeginsIsTyped ==
  ASSUME DriverTyped, NEW uids \in SUBSET {"deps", "run"}, NEW next, Begins(uids, next),
         jstatus' \in {"exited", "timeout", "output_limit", "not_started"},
         jexit' \in {"none", "zero", "other"}
  PROVE  DriverTyped'
<1>1. 0 \in 0..MaxRounds
  BY DriverAssumption
<1>2. /\ order' = order /\ clocks' = clocks /\ job' = job
      /\ pipe' = pipe /\ seen' = seen /\ wrote' = wrote /\ writes' = writes /\ forks' = forks
      /\ listed' = {} /\ found' = {} /\ rounds' = 0 /\ hunted' = uids /\ proved' = proved \ uids
  BY BeginsTyped, Zenon
<1>3. /\ owner' \in [Proc -> {"deps", "run", "none"}] /\ holds' \subseteq Proc
      /\ lead' \in Proc \cup {NoProc} /\ slips' \in [{"deps", "run"} -> Nat]
  BY BeginsTyped, Zenon
<1>4. rounds' \in 0..MaxRounds /\ listed' \subseteq Proc /\ found' \subseteq Proc
      /\ hunted' \subseteq {"deps", "run"} /\ proved' \subseteq {"deps", "run"}
  BY <1>1, <1>2 DEF DriverTyped
<1> QED BY <1>2, <1>3, <1>4 DEF DriverTyped

LEMMA ProcessStepTyped == DriverTyped /\ Driver!Processes => DriverTyped'
<1> SUFFICES ASSUME DriverTyped, NEW p \in Proc,
                    Driver!Write(p) \/ Driver!ClosePipe(p) \/ Driver!Exit(p) \/ Driver!Fork(p)
             PROVE  DriverTyped'
  BY DEF Driver!Processes
<1> USE DriverAssumption DEF DriverTyped, Driver!scanVars, Driver!goVars, Driver!jobVars
<1>1. CASE Driver!Write(p)
  BY <1>1 DEF Driver!Write
<1>2. CASE Driver!ClosePipe(p) \/ Driver!Exit(p)
  BY <1>2 DEF Driver!ClosePipe, Driver!Exit
<1>3. CASE Driver!Fork(p)
  <2>1. owner' \in [Proc -> {"deps", "run", "none"}] /\ holds' \subseteq Proc
    BY <1>3, NewNumberIsNew DEF Driver!Fork
  <2>2. slips' \in [{"deps", "run"} -> Nat]
    BY <1>3 DEF Driver!Fork
  <2>3. forks' \in 0..MaxForks
    BY <1>3 DEF Driver!Fork
  <2> QED BY <1>3, <2>1, <2>2, <2>3 DEF Driver!Fork
<1> QED BY <1>1, <1>2, <1>3

LEMMA QuiesceTyped == DriverTyped /\ Driver!Quiesce => DriverTyped'
<1> SUFFICES ASSUME DriverTyped, Driver!Quiesce PROVE DriverTyped'
  OBVIOUS
<1> USE DEF DriverTyped, Driver!procVars, Driver!jobVars
<1>1. ASSUME NEW from, NEW to, Driver!List(from, to)
      PROVE  DriverTyped'
  BY <1>1 DEF Driver!List, Driver!Lost, Driver!Live, Driver!scanVars
<1>2. CASE Driver!Look \/ Driver!LookTwice
  BY <1>2 DEF Driver!Look, Driver!LookTwice, Driver!Cleared
<1>3. CASE Driver!KillFound
  BY <1>3 DEF Driver!KillFound
<1>4. CASE Driver!Late
  <2>1. slips' \in [{"deps", "run"} -> Nat]
    BY <1>4 DEF Driver!Late, Driver!Lost, Driver!scanVars, Driver!Uids
  <2>2. rounds' \in 0..MaxRounds
    BY <1>4, DriverAssumption DEF Driver!Late, Driver!Lost, Driver!scanVars
  <2> QED BY <1>4, <2>1, <2>2 DEF Driver!Late, Driver!Lost, Driver!scanVars
<1> QED BY <1>1, <1>2, <1>3, <1>4 DEF Driver!Quiesce

LEMMA DriverTypedStep == DriverTyped /\ DriverStep => DriverTyped'
<1> SUFFICES ASSUME DriverTyped, DriverStep PROVE DriverTyped'
  OBVIOUS
<1>1. CASE Plain
  BY <1>1 DEF Plain, Driver!Quiet, DriverTyped, Driver!procVars, Driver!scanVars, Driver!jobVars
<1>2. CASE HuntsAfterJob
  <2>1. {Driver!JobUid[job]} \in SUBSET {"deps", "run"}
    BY DEF DriverTyped, Driver!JobUid
  <2>2. jstatus' \in {"exited", "timeout", "output_limit", "not_started"} /\ jexit' \in {"none", "zero", "other"}
    BY <1>2 DEF HuntsAfterJob, DriverTyped
  <2>3. PICK uids \in SUBSET {"deps", "run"} : Begins(uids, "drain")
    BY <1>2, <2>1 DEF HuntsAfterJob
  <2> QED BY <2>2, <2>3, BeginsIsTyped
<1>3. CASE \E b \in Between : HuntsBetween(b[1], b[2])
  <2>1. PICK b \in Between : HuntsBetween(b[1], b[2])
    BY <1>3
  <2>2. b[1] \in SUBSET {"deps", "run"} /\ Begins(b[1], b[2])
    BY <2>1, BetweenUids DEF HuntsBetween
  <2>3. jstatus' \in {"exited", "timeout", "output_limit", "not_started"} /\ jexit' \in {"none", "zero", "other"}
    BY <2>1 DEF HuntsBetween, DriverTyped
  <2> QED BY <2>2, <2>3, BeginsIsTyped
<1>4. ASSUME NEW from, Spawns(from) PROVE DriverTyped'
  <2>1. PICK j \in Driver!Jobs : Driver!Spawn(j, from)
    BY <1>4 DEF Spawns
  <2>2. Driver!JobUid[j] \in {"deps", "run"} /\ j \in {"install", "login", "command"}
    BY DEF Driver!Jobs, Driver!JobUid
  <2>3. /\ owner' \in [Proc -> {"deps", "run", "none"}] /\ holds' \subseteq Proc
        /\ lead' \in Proc \cup {NoProc}
    BY <2>1, <2>2, NewNumberIsNew DEF Driver!Spawn, DriverTyped
  <2>4. /\ pipe' = 0 /\ seen' = 0 /\ wrote' = 0 /\ job' = j /\ jexit' = "none"
        /\ jstatus' \in {"exited", "not_started"} /\ proved' \subseteq proved
        /\ UNCHANGED <<order, writes, forks, listed, found, rounds, slips, hunted, clocks>>
    BY <2>1 DEF Driver!Spawn, Driver!NewJob, Driver!scanVars
  <2> QED BY <2>2, <2>3, <2>4 DEF DriverTyped
<1>5. CASE Driver!Poll
  <2> USE DEF DriverTyped, Driver!procVars, Driver!scanVars, Driver!jobVars
  <2>1. ASSUME NEW from, NEW to, Driver!Pump(from, to) PROVE DriverTyped'
    BY <2>1 DEF Driver!Pump
  <2> QED BY <1>5, <2>1 DEF Driver!Poll
<1>6. CASE Driver!Drain
  <2> USE DEF DriverTyped, Driver!procVars, Driver!scanVars, Driver!jobVars
  <2>1. ASSUME NEW from, NEW to, Driver!Pump(from, to) PROVE DriverTyped'
    BY <2>1 DEF Driver!Pump
  <2> QED BY <1>6, <2>1 DEF Driver!Drain
<1>7. CASE \E c \in {"deps", "login", "all"} : Driver!Tick(c)
  BY <1>7 DEF Driver!Tick, DriverTyped, Driver!procVars, Driver!scanVars, Driver!jobVars, Driver!goVars
<1> QED BY <1>1, <1>2, <1>3, <1>4, <1>5, <1>6, <1>7, ProcessStepTyped, QuiesceTyped DEF DriverStep

-----------------------------------------------------------------------------
(* The capture of a job *)

\* Every byte is read or still in the pipe, and slips are forks.
Counted ==
  /\ wrote = seen + pipe /\ wrote <= writes
  /\ \A u \in {"deps", "run"} : slips[u] <= forks

\* A hunt has a place to return to, and the one before an export is for everybody.
HuntInv ==
  /\ pc \in Hunting => /\ then \in Nexts
                       /\ then = "export" => hunted = {"deps", "run"}
                       /\ then = "compute" => hunted = {"run"} /\ "deps" \in proved
  /\ pc \in {"export", "walk", "compute"} => proved = {"deps", "run"}

\* What is known of a job while it runs, while its pipe is drained, and then.
CaptureInv ==
  /\ Place \in {"started", "poll"} => jstatus = "exited" /\ jexit = "none"
  /\ Place \in {"drain", "decided"} => (jstatus = "exited") = (jexit # "none")
  /\ Place = "drain" /\ jstatus = "output_limit" => seen > Cap
  /\ pc = "decided" /\ jstatus # "not_started" =>
       /\ holds = {} /\ pipe = 0
       /\ (jstatus = "output_limit") = (seen > Cap)

LEMMA BeginsCounted ==
  ASSUME DriverTyped, Counted, NEW uids, NEW next, Begins(uids, next)
  PROVE  Counted'
<1>1. \A u \in {"deps", "run"} : slips'[u] \in {0, slips[u]}
  BY DEF Begins, Driver!BeginQuiesce, Driver!Uids
<1> QED BY <1>1 DEF Begins, Counted, DriverTyped

LEMMA CountedStep == DriverTyped /\ Counted /\ DriverStep => Counted'
<1> SUFFICES ASSUME DriverTyped, Counted, DriverStep PROVE Counted'
  OBVIOUS
<1>1. CASE Plain
  BY <1>1 DEF Plain, Driver!Quiet, Counted, Driver!procVars, Driver!scanVars, Driver!jobVars
<1>2. CASE HuntsAfterJob \/ \E b \in Between : HuntsBetween(b[1], b[2])
  BY <1>2, BeginsCounted DEF HuntsAfterJob, HuntsBetween
<1>3. ASSUME NEW from, Spawns(from) PROVE Counted'
  <2>1. pipe' = 0 /\ seen' = 0 /\ wrote' = 0 /\ UNCHANGED <<writes, forks, slips>>
    BY <1>3 DEF Spawns, Driver!Spawn, Driver!NewJob, Driver!scanVars
  <2> QED BY <2>1 DEF Counted, DriverTyped
<1>4. ASSUME NEW from, NEW to, Driver!Pump(from, to) PROVE Counted'
  BY <1>4 DEF Driver!Pump, Driver!scanVars, Counted, DriverTyped
<1>5. CASE Driver!Poll \/ Driver!Drain
  <2> USE DEF Counted, Driver!procVars, Driver!scanVars, Driver!jobVars
  <2> QED BY <1>4, <1>5 DEF Driver!Poll, Driver!Drain
<1>6. CASE Driver!Quiesce
  <2>1. /\ UNCHANGED <<wrote, seen, pipe, writes, forks>>
        /\ \/ slips' = slips
           \/ slips' = [u \in {"deps", "run"} |-> IF u \in hunted THEN 0 ELSE slips[u]]
    BY <1>6 DEF Driver!Quiesce, Driver!List, Driver!Lost, Driver!Look, Driver!LookTwice, Driver!Cleared,
                Driver!KillFound, Driver!Late, Driver!scanVars, Driver!procVars, Driver!jobVars, Driver!Uids
  <2>2. \A u \in {"deps", "run"} : slips'[u] \in {0, slips[u]}
    BY <2>1
  <2> QED BY <2>1, <2>2 DEF Counted, DriverTyped
<1>7. CASE Driver!Processes
  <2>1. PICK p \in Proc : Driver!Write(p) \/ Driver!ClosePipe(p) \/ Driver!Exit(p) \/ Driver!Fork(p)
    BY <1>7 DEF Driver!Processes
  <2>2. CASE Driver!Write(p) \/ Driver!ClosePipe(p) \/ Driver!Exit(p)
    BY <2>2 DEF Driver!Write, Driver!ClosePipe, Driver!Exit, Counted, DriverTyped, Driver!scanVars, Driver!jobVars
  <2>3. CASE Driver!Fork(p)
    <3>1. /\ UNCHANGED <<wrote, seen, pipe, writes>> /\ forks' = forks + 1
          /\ slips' = slips \/ slips' = [slips EXCEPT ![owner[p]] = @ + 1]
      BY <2>3 DEF Driver!Fork, Driver!jobVars
    <3>2. \A u \in {"deps", "run"} : slips'[u] \in {slips[u], slips[u] + 1}
      BY <3>1 DEF DriverTyped
    <3> QED BY <3>1, <3>2 DEF Counted, DriverTyped
  <2> QED BY <2>1, <2>2, <2>3
<1>8. CASE \E c \in {"deps", "login", "all"} : Driver!Tick(c)
  BY <1>8 DEF Driver!Tick, Counted, Driver!procVars, Driver!scanVars, Driver!jobVars
<1> QED BY <1>1, <1>2, <1>3, <1>5, <1>6, <1>7, <1>8 DEF DriverStep

LEMMA HuntStep == DriverTyped /\ HuntInv /\ DriverStep => HuntInv'
<1> SUFFICES ASSUME DriverTyped, HuntInv, DriverStep PROVE HuntInv'
  OBVIOUS
<1> USE DEF HuntInv, Hunting, Driver!Goto
<1>1. CASE Plain
  BY <1>1 DEF Plain, Driver!Quiet, Busy
<1>2. CASE HuntsAfterJob
  BY <1>2 DEF HuntsAfterJob, Begins, Driver!BeginQuiesce, Nexts
<1>3. CASE \E b \in Between : HuntsBetween(b[1], b[2])
  <2>1. PICK b \in Between : HuntsBetween(b[1], b[2])
    BY <1>3
  <2>2. /\ pc' = "list" /\ then' = b[2] /\ hunted' = b[1] /\ proved' = proved \ b[1]
        /\ b[2] = "compute" => pc = "walk"
    BY <2>1 DEF HuntsBetween, Begins, Driver!BeginQuiesce
  <2>3. /\ b[2] \in Nexts /\ (b[2] = "export" => b[1] = {"deps", "run"})
        /\ b[2] = "compute" => b[1] = {"run"}
    BY DEF Between, Nexts, Driver!Uids
  <2> QED BY <2>2, <2>3
<1>4. ASSUME NEW from \in {"install", "login", "command"}, Spawns(from) PROVE HuntInv'
  BY <1>4 DEF Spawns, Driver!Spawn
<1>5. CASE Driver!Poll \/ Driver!Drain
  <2>1. pc' \in {"started", "poll", "drain", "decided", "result"}
    BY <1>5 DEF Driver!Poll, Driver!Drain, Driver!Pump, Driver!Fail
  <2> QED BY <2>1
<1>6. CASE Driver!Quiesce
  <2>1. ASSUME NEW from \in {"look", "looktwice"}, Driver!Cleared(from) PROVE HuntInv'
    BY <2>1 DEF Driver!Cleared, Nexts, DriverTyped
  <2>2. CASE Driver!Lost
    BY <2>2 DEF Driver!Lost, Driver!Fail
  <2> QED BY <1>6, <2>1, <2>2 DEF Driver!Quiesce, Driver!List, Driver!Look, Driver!LookTwice, Driver!KillFound, Driver!Late
<1>7. CASE Driver!Processes \/ \E c \in {"deps", "login", "all"} : Driver!Tick(c)
  BY <1>7 DEF Driver!Processes, Driver!Write, Driver!ClosePipe, Driver!Exit, Driver!Fork, Driver!Tick,
              Driver!scanVars, Driver!goVars
<1> QED BY <1>1, <1>2, <1>3, <1>4, <1>5, <1>6, <1>7 DEF DriverStep

\* A step that leaves the job's outcome and its counter alone, and the driver where
\* it was or somewhere beyond the job.
LEMMA CaptureKept ==
  ASSUME CaptureInv, UNCHANGED <<jstatus, jexit, seen>>, pc' # "decided",
         Place' = Place \/ Place' \notin {"started", "poll", "drain", "decided"}
  PROVE  CaptureInv'
  BY DEF CaptureInv

LEMMA CaptureStep == DriverTyped /\ HuntInv /\ CaptureInv /\ DriverStep => CaptureInv'
<1> SUFFICES ASSUME DriverTyped, HuntInv, CaptureInv, DriverStep PROVE CaptureInv'
  OBVIOUS
<1>1. CASE Plain
  <2>1. UNCHANGED <<jstatus, jexit, seen>> /\ pc' # "decided" /\ Place' \notin {"started", "poll", "drain", "decided"}
    BY <1>1 DEF Plain, Driver!Quiet, Driver!jobVars, Busy, Hunting, Place
  <2> QED BY <2>1, CaptureKept
<1>2. CASE HuntsAfterJob
  <2>1. Place' = "drain" /\ pc' = "list" /\ seen' = seen
    BY <1>2 DEF HuntsAfterJob, Begins, Driver!BeginQuiesce, Place, Hunting
  <2>2. jstatus = "exited" /\ jexit = "none"
    BY <1>2 DEF HuntsAfterJob, CaptureInv, Place, Hunting
  <2> QED BY <1>2, <2>1, <2>2 DEF HuntsAfterJob, CaptureInv
<1>3. CASE \E b \in Between : HuntsBetween(b[1], b[2])
  <2>1. PICK b \in Between : HuntsBetween(b[1], b[2])
    BY <1>3
  <2>2. UNCHANGED <<jstatus, jexit, seen>> /\ pc' = "list" /\ Place' = b[2]
    BY <2>1 DEF HuntsBetween, Begins, Driver!BeginQuiesce, Place, Hunting
  <2>3. b[2] \notin {"started", "poll", "drain", "decided"}
    BY BetweenUids DEF Nexts
  <2> QED BY <2>2, <2>3, CaptureKept
<1>4. ASSUME NEW from, Spawns(from) PROVE CaptureInv'
  <2>1. /\ pc' = "started" /\ jstatus' = "exited" /\ jexit' = "none"
        \/ /\ pc' = "decided" /\ jstatus' = "not_started" /\ jexit' = "none"
    BY <1>4 DEF Spawns, Driver!Spawn, Driver!NewJob, Driver!Goto
  <2> QED BY <2>1 DEF CaptureInv, Place, Hunting
<1>5. ASSUME NEW from \in {"started", "drain"}, NEW to \in {"poll", "drain"},
             from = "started" <=> to = "poll", Driver!Pump(from, to)
      PROVE  CaptureInv'
  <2>1. pc = from /\ pc' = to /\ Place = from /\ Place' = to /\ UNCHANGED <<jstatus, jexit>>
    BY <1>5 DEF Driver!Pump, Driver!Goto, Place, Hunting
  <2>2. seen' > seen /\ seen' \in Nat
    BY <1>5 DEF Driver!Pump, DriverTyped
  <2> QED BY <1>5, <2>1, <2>2, DriverAssumption DEF CaptureInv, DriverTyped
<1>6. CASE Driver!Poll
  <2>1. CASE Driver!Pump("started", "poll")
    BY <1>5, <2>1
  <2>2. CASE ~Driver!Pump("started", "poll")
    <3>1. /\ pc \in {"started", "poll"} /\ pc' \in {"started", "poll"}
          /\ UNCHANGED <<jstatus, jexit, seen>>
      BY <1>6, <2>2 DEF Driver!Poll, Driver!jobVars
    <3> QED BY <3>1 DEF CaptureInv, Place, Hunting
  <2> QED BY <2>1, <2>2
<1>7. CASE Driver!Drain
  <2>1. CASE Driver!Pump("drain", "drain")
    BY <1>5, <2>1
  <2>2. CASE Driver!Fail("drain") /\ UNCHANGED Driver!jobVars
    BY <2>2 DEF Driver!Fail, Driver!Goto, Driver!jobVars, CaptureInv, Place, Hunting
  <2>3. CASE /\ Driver!Goto("drain", "decided") /\ holds = {} /\ pipe = 0
             /\ jstatus' = (IF seen > Cap THEN "output_limit" ELSE jstatus)
             /\ jexit' = (IF jstatus' = "exited" THEN jexit ELSE "none")
             /\ UNCHANGED <<Driver!procVars, seen>>
    BY <2>3 DEF Driver!Goto, Driver!procVars, CaptureInv, Place, Hunting
  <2> QED BY <1>7, <2>1, <2>2, <2>3 DEF Driver!Drain
<1>8. CASE Driver!Quiesce
  <2>1. pc \in Hunting /\ UNCHANGED <<jstatus, jexit, seen>>
    BY <1>8 DEF Driver!Quiesce, Driver!List, Driver!Lost, Driver!Fail, Driver!Look, Driver!LookTwice, Driver!Cleared,
                Driver!KillFound, Driver!Late, Driver!Goto, Driver!jobVars, Hunting
  <2>2. (pc' \in Hunting /\ then' = then) \/ pc' = then \/ pc' = "result"
    BY <1>8 DEF Driver!Quiesce, Driver!List, Driver!Lost, Driver!Fail, Driver!Look, Driver!LookTwice, Driver!Cleared,
                Driver!KillFound, Driver!Late, Driver!Goto, Hunting
  <2>3. then \in Nexts
    BY <2>1 DEF HuntInv
  <2>4. pc' # "decided" /\ (Place' = Place \/ Place' = "result")
    BY <2>1, <2>2, <2>3 DEF Place, Hunting, Nexts
  <2> QED BY <2>1, <2>4, CaptureKept
<1>9. CASE Driver!Processes
  <2>1. /\ UNCHANGED <<pc, then, jstatus, jexit, seen>>
        /\ holds = {} => holds' = {} /\ pipe' = pipe
    BY <1>9 DEF Driver!Processes, Driver!Write, Driver!ClosePipe, Driver!Exit, Driver!Fork, Driver!goVars, Driver!jobVars
  <2> QED BY <2>1 DEF CaptureInv, Place
<1>10. CASE \E c \in {"deps", "login", "all"} : Driver!Tick(c)
  BY <1>10 DEF Driver!Tick, Driver!goVars, Driver!jobVars, Driver!procVars, CaptureInv, Place
<1> QED BY <1>1, <1>2, <1>3, <1>4, <1>6, <1>7, <1>8, <1>9, <1>10 DEF DriverStep

LEMMA CaptureProves == DriverTyped /\ Counted /\ CaptureInv => Driver!CaptureIsWhole
  BY DriverAssumption DEF DriverTyped, Counted, CaptureInv, Driver!CaptureIsWhole

LEMMA QuietProves == HuntInv => /\ pc = "export" => proved = Driver!Uids
                                /\ pc \in {"walk", "compute"} => proved = Driver!Uids
  BY DEF HuntInv, Driver!Uids

-----------------------------------------------------------------------------
(* What slips through a hunt *)

Alive(u) == {p \in Proc : owner[p] = u}

\* Who is alive and not in the listing was forked after it: once behind the first
\* look, and once more behind the second.
SlipInv ==
  /\ \A u \in proved : Alive(u) # {} => slips[u] >= 2
  /\ pc \in Hunting => hunted \cap proved = {}
  /\ \A u \in hunted :
       /\ pc = "look" /\ Alive(u) \ listed # {} => slips[u] >= 1
       /\ pc \in {"again", "looktwice"} /\ Alive(u) # {} => slips[u] >= 1
       /\ pc = "looktwice" /\ Alive(u) \ listed # {} => slips[u] >= 2

\* A step outside of the scans, after which no more of a proved user live than before.
LEMMA SlipKept ==
  ASSUME SlipInv, pc' \notin {"look", "again", "looktwice"},
         proved' \subseteq proved, pc' \in Hunting => hunted' \cap proved' = {},
         \A u \in proved' : (Alive(u) = {} => Alive(u)' = {}) /\ slips'[u] = slips[u]
  PROVE  SlipInv'
  BY DEF SlipInv

\* Processes only go.
LEMMA OwnersGo ==
  ASSUME \A p \in Proc : owner'[p] \in {owner[p], "none"}, NEW u \in {"deps", "run"}
  PROVE  Alive(u)' \subseteq Alive(u)
  BY DEF Alive

LEMMA BeginsSlips ==
  ASSUME DriverTyped, SlipInv, NEW uids \in SUBSET {"deps", "run"}, NEW next, Begins(uids, next)
  PROVE  SlipInv'
<1>1. /\ pc' = "list" /\ proved' = proved \ uids /\ hunted' = uids
      /\ \A u \in proved' : slips'[u] = slips[u]
  BY DEF Begins, Driver!BeginQuiesce, Driver!Uids, DriverTyped
<1>2. \A p \in Proc : owner'[p] \in {owner[p], "none"}
  BY DEF Begins
<1>3. \A u \in proved' : Alive(u)' \subseteq Alive(u)
  BY <1>1, <1>2, OwnersGo DEF DriverTyped
<1> QED BY <1>1, <1>3, SlipKept

LEMMA ProcessSlips == DriverTyped /\ SlipInv /\ Driver!Processes => SlipInv'
<1> SUFFICES ASSUME DriverTyped, SlipInv, NEW p \in Proc,
                    Driver!Write(p) \/ Driver!ClosePipe(p) \/ Driver!Exit(p) \/ Driver!Fork(p)
             PROVE  SlipInv'
  BY DEF Driver!Processes
<1>1. UNCHANGED <<pc, hunted, proved, listed>>
  BY DEF Driver!Write, Driver!ClosePipe, Driver!Exit, Driver!Fork, Driver!goVars, Driver!scanVars
<1>2. CASE Driver!Write(p) \/ Driver!ClosePipe(p) \/ Driver!Exit(p)
  <2>1. slips' = slips /\ \A o \in Proc : owner'[o] \in {owner[o], "none"}
    BY <1>2 DEF Driver!Write, Driver!ClosePipe, Driver!Exit, Driver!scanVars, DriverTyped
  <2>2. \A u \in {"deps", "run"} : Alive(u)' \subseteq Alive(u)
    BY <2>1, OwnersGo
  <2> QED BY <1>1, <2>1, <2>2 DEF SlipInv, DriverTyped
<1>3. CASE Driver!Fork(p)
  <2> DEFINE new == Driver!NewNumber
  <2>1. /\ owner[p] \in {"deps", "run"} /\ new \in Proc /\ new \notin listed /\ owner[new] = "none"
        /\ owner' = [owner EXCEPT ![new] = owner[p]]
    BY <1>3, NewNumberIsNew DEF Driver!Fork, DriverTyped
  <2>2. \A u \in {"deps", "run"} : slips[u] \in Nat /\ slips'[u] \in Nat /\ slips'[u] >= slips[u]
    BY <1>3 DEF Driver!Fork, DriverTyped
  <2>3. pc \in {"look", "looktwice"} /\ owner[p] \in hunted => slips'[owner[p]] = slips[owner[p]] + 1
    BY <1>3, <2>1 DEF Driver!Fork, DriverTyped
  <2>4. p \in Alive(owner[p])
    BY DEF Alive
  <2>5. \A u \in {"deps", "run"} : u # owner[p] => Alive(u)' = Alive(u)
    BY <2>1 DEF Alive, DriverTyped
  <2>6. ASSUME NEW u \in proved PROVE Alive(u)' # {} => slips'[u] >= 2
    BY <2>2, <2>4, <2>5, <2>6 DEF SlipInv, DriverTyped
  <2>7. ASSUME NEW u \in hunted
        PROVE  /\ pc = "look" /\ Alive(u)' \ listed # {} => slips'[u] >= 1
               /\ pc \in {"again", "looktwice"} /\ Alive(u)' # {} => slips'[u] >= 1
               /\ pc = "looktwice" /\ Alive(u)' \ listed # {} => slips'[u] >= 2
    <3>1. u \in {"deps", "run"}
      BY DEF DriverTyped
    <3>2. CASE u = owner[p]
      BY <2>2, <2>3, <2>4, <3>1, <3>2 DEF SlipInv
    <3>3. CASE u # owner[p]
      BY <2>2, <2>5, <3>1, <3>3 DEF SlipInv
    <3> QED BY <3>2, <3>3
  <2> QED BY <1>1, <2>6, <2>7 DEF SlipInv
<1> QED BY <1>2, <1>3

LEMMA QuiesceSlips == DriverTyped /\ HuntInv /\ SlipInv /\ Driver!Quiesce => SlipInv'
<1> SUFFICES ASSUME DriverTyped, HuntInv, SlipInv, Driver!Quiesce PROVE SlipInv'
  OBVIOUS
<1> USE DEF Driver!Goto, Driver!procVars
<1>1. pc \in Hunting
  BY DEF Driver!Quiesce, Driver!List, Driver!Lost, Driver!Fail, Driver!Look, Driver!LookTwice, Driver!Cleared,
         Driver!KillFound, Driver!Late, Hunting
<1>2. CASE Driver!Lost
  <2>1. pc' = "result" /\ UNCHANGED <<owner, proved, slips>>
    BY <1>2 DEF Driver!Lost, Driver!Fail, Driver!scanVars
  <2> QED BY <2>1, SlipKept DEF Alive, Hunting
<1>3. CASE Driver!List("list", "look") /\ ~Driver!Lost
  <2>1. pc' = "look" /\ listed' = Driver!Live(hunted) /\ UNCHANGED <<owner, slips, hunted, proved>>
    BY <1>3 DEF Driver!List
  <2>2. \A u \in hunted : Alive(u)' \ listed' = {}
    BY <2>1 DEF Alive, Driver!Live
  <2> QED BY <1>1, <2>1, <2>2 DEF SlipInv, Alive
<1>4. CASE Driver!List("again", "looktwice") /\ ~Driver!Lost
  <2>1. pc = "again" /\ pc' = "looktwice" /\ listed' = Driver!Live(hunted) /\ UNCHANGED <<owner, slips, hunted, proved>>
    BY <1>4 DEF Driver!List
  <2>2. \A u \in hunted : Alive(u)' \ listed' = {}
    BY <2>1 DEF Alive, Driver!Live
  <2> QED BY <1>1, <2>1, <2>2 DEF SlipInv, Alive
<1>5. CASE Driver!Look
  <2>1. /\ pc = "look" /\ pc' = (IF listed \cap Driver!Live(hunted) = {} THEN "again" ELSE "kill")
        /\ UNCHANGED <<owner, slips, hunted, proved>>
    BY <1>5 DEF Driver!Look
  <2>2. pc' = "again" => \A u \in hunted : Alive(u) # {} => Alive(u) \ listed # {}
    BY <2>1 DEF Alive, Driver!Live
  <2> QED BY <1>1, <2>1, <2>2 DEF SlipInv, Alive
<1>6. CASE Driver!KillFound
  <2>1. pc' = "late" /\ UNCHANGED <<proved, slips, hunted>> /\ \A p \in Proc : owner'[p] \in {owner[p], "none"}
    BY <1>6 DEF Driver!KillFound
  <2>2. \A u \in proved' : Alive(u)' \subseteq Alive(u)
    BY <2>1, OwnersGo DEF DriverTyped
  <2> QED BY <1>1, <2>1, <2>2, SlipKept DEF SlipInv
<1>7. CASE Driver!LookTwice
  <2>1. CASE Driver!Cleared("looktwice") /\ listed \cap Driver!Live(hunted) = {}
    <3>1. pc = "looktwice" /\ pc' = then /\ proved' = proved \cup hunted /\ UNCHANGED <<owner, slips, hunted>>
      BY <2>1 DEF Driver!Cleared
    <3>2. \A u \in hunted : Alive(u) # {} => Alive(u) \ listed # {}
      BY <2>1 DEF Alive, Driver!Live
    <3>3. pc' \notin Hunting
      BY <1>1, <3>1 DEF HuntInv, Nexts, Hunting
    <3> QED BY <3>1, <3>2, <3>3 DEF SlipInv, Alive, Hunting
  <2>2. CASE pc' = "late" /\ UNCHANGED <<owner, slips, hunted, proved>>
    BY <1>1, <2>2, SlipKept DEF SlipInv, Alive
  <2> QED BY <1>7, <2>1, <2>2 DEF Driver!LookTwice
<1>8. CASE Driver!Late /\ ~Driver!Lost
  <2>1. pc' = "list" /\ UNCHANGED <<owner, hunted, proved>> /\ slips' = [u \in Driver!Uids |-> IF u \in hunted THEN 0 ELSE slips[u]]
    BY <1>8 DEF Driver!Late
  <2>2. \A u \in proved' : slips'[u] = slips[u]
    BY <1>1, <2>1 DEF SlipInv, DriverTyped, Driver!Uids
  <2> QED BY <1>1, <2>1, <2>2, SlipKept DEF SlipInv, Alive
<1> QED BY <1>2, <1>3, <1>4, <1>5, <1>6, <1>7, <1>8 DEF Driver!Quiesce

LEMMA SlipStep == DriverTyped /\ HuntInv /\ SlipInv /\ DriverStep => SlipInv'
<1> SUFFICES ASSUME DriverTyped, HuntInv, SlipInv, DriverStep PROVE SlipInv'
  OBVIOUS
<1>1. ASSUME UNCHANGED <<owner, slips, proved>>, pc' \notin Hunting PROVE SlipInv'
  BY <1>1, SlipKept DEF Alive, Hunting
<1>2. CASE Plain
  BY <1>1, <1>2 DEF Plain, Driver!Quiet, Driver!procVars, Driver!scanVars, Busy
<1>3. CASE HuntsAfterJob
  <2>1. {Driver!JobUid[job]} \in SUBSET {"deps", "run"}
    BY DEF DriverTyped, Driver!JobUid
  <2> QED BY <1>3, <2>1, BeginsSlips DEF HuntsAfterJob
<1>4. CASE \E b \in Between : HuntsBetween(b[1], b[2])
  BY <1>4, BetweenUids, BeginsSlips DEF HuntsBetween
<1>5. ASSUME NEW from, Spawns(from) PROVE SlipInv'
  <2>1. PICK j \in Driver!Jobs : Driver!Spawn(j, from)
    BY <1>5 DEF Spawns
  <2>2. pc' \in {"started", "decided"} /\ slips' = slips
    BY <2>1 DEF Driver!Spawn, Driver!Goto, Driver!scanVars
  <2>3. CASE UNCHANGED <<owner, proved>>
    BY <1>1, <2>2, <2>3 DEF Hunting
  <2>4. CASE /\ Driver!NewNumbers # {} /\ proved' = proved \ {Driver!JobUid[j]}
             /\ owner' = [owner EXCEPT ![Driver!NewNumber] = Driver!JobUid[j]]
    <3>1. \A u \in proved' : Alive(u)' \subseteq Alive(u)
      BY <2>4, NewNumberIsNew DEF Alive, DriverTyped
    <3> QED BY <2>2, <2>4, <3>1, SlipKept DEF Hunting
  <2> QED BY <2>1, <2>3, <2>4 DEF Driver!Spawn
<1>6. CASE Driver!Poll \/ Driver!Drain
  BY <1>1, <1>6 DEF Driver!Poll, Driver!Drain, Driver!Pump, Driver!Fail, Driver!Goto, Driver!procVars, Driver!scanVars, Hunting
<1>7. CASE \E c \in {"deps", "login", "all"} : Driver!Tick(c)
  BY <1>7 DEF Driver!Tick, SlipInv, Alive, Driver!procVars, Driver!scanVars, Driver!goVars
<1> QED BY <1>2, <1>3, <1>4, <1>5, <1>6, <1>7, ProcessSlips, QuiesceSlips DEF DriverStep

LEMMA SlipProves == SlipInv => Driver!SurvivorsSlippedTwice
  BY DEF SlipInv, Alive, Driver!SurvivorsSlippedTwice, Driver!Live

-----------------------------------------------------------------------------
(* What the driver knows at each place, and what it may say in the end *)

OutTyped ==
  /\ deps \in {"null", "failed", "installed"} /\ login \in {"null", "chatgpt", "rejected"}
  /\ status \in {"not_started", "deps_failed", "exited", "timeout", "output_limit"}
  /\ exit \in {"none", "zero", "other"} /\ change \in {"none", "ok", "refused"}
  /\ ran \in BOOLEAN /\ infra \in BOOLEAN

JobPlaces == {"started", "poll", "drain", "decided"}
AtJob(j)  == Place \in JobPlaces /\ job = j

\* Nothing has been decided; dependencies are there if they were asked for; a build is
\* logged in.
Fresh    == status = "not_started" /\ exit = "none" /\ ran = FALSE /\ change = "none" /\ infra = FALSE
Provided == deps = (IF order.deps THEN "installed" ELSE "null")
LoggedIn == login = (IF order.mode = "build" THEN "chatgpt" ELSE "null")

\* What holds of an outcome wherever the driver gives up.
Consistent ==
  /\ (status = "exited") = (exit # "none")
  /\ deps = "failed" => status \in {"deps_failed", "not_started"}
  /\ deps # "failed" => status # "deps_failed"
  /\ order.mode # "build" => login = "null"

\* The command ran, or the dependencies failed, or the login was rejected.
Known ==
  \/ ran = TRUE /\ Provided /\ LoggedIn
  \/ ran = FALSE /\ status = "deps_failed" /\ deps = "failed" /\ order.deps = TRUE
  \/ ran = FALSE /\ status = "not_started" /\ Provided

StageInv ==
  /\ Place \in {"header", "inputs", "extract", "home"} =>
       Fresh /\ login = "null" /\ deps = (IF order.deps THEN "failed" ELSE "null")
  /\ Place \in {"deps", "unpack", "install", "walkdeps", "readsite", "closure"} \/ AtJob("install") =>
       Fresh /\ login = "null" /\ deps = "failed" /\ order.deps = TRUE
  /\ Place = "login" \/ AtJob("login") => Fresh /\ login = "null" /\ Provided /\ order.mode = "build"
  /\ Place = "command" \/ AtJob("command") => Fresh /\ Provided /\ LoggedIn
  /\ Place \in {"export", "walk", "compute"} => Known /\ infra = FALSE /\ change = "none"
  /\ Place \in {"walk", "compute"} => ran = TRUE /\ order.mode = "build"
  /\ Place \in {"result", "done"} /\ infra = FALSE =>
       Known /\ (change # "none" => ran = TRUE /\ order.mode = "build")
  /\ Place = "done" /\ infra = TRUE => change = "none"

OutcomeInv == OutTyped /\ Consistent /\ StageInv

LEMMA StageKept ==
  ASSUME OutcomeInv, UNCHANGED <<order, Driver!outVars>>, job' = job,
         Place' = Place \/ (Place \in JobPlaces /\ Place' \in JobPlaces)
  PROVE  OutcomeInv'
<1> USE DEF Driver!outVars, JobPlaces
<1>1. OutTyped' /\ Consistent'
  BY DEF OutcomeInv, OutTyped, Consistent
<1>2. (Fresh' = Fresh) /\ (Provided' = Provided) /\ (LoggedIn' = LoggedIn) /\ (Known' = Known)
  BY DEF Fresh, Provided, LoggedIn, Known
<1>3. StageInv'
  BY <1>2 DEF OutcomeInv, StageInv, AtJob
<1> QED BY <1>1, <1>3 DEF OutcomeInv

LEMMA StageFails ==
  ASSUME OutcomeInv, order' = order, NEW from, Driver!Fail(from)
  PROVE  OutcomeInv'
<1>1. pc' = "result" /\ infra' = TRUE /\ UNCHANGED <<deps, login, status, exit, ran, change>>
  BY DEF Driver!Fail, Driver!Goto
<1>2. Place' = "result"
  BY <1>1 DEF Place, Hunting
<1> QED BY <1>1, <1>2 DEF OutcomeInv, OutTyped, Consistent, StageInv, AtJob, JobPlaces

\* The place after a hunt has begun.
LEMMA HuntPlace ==
  ASSUME NEW uids, NEW next, Driver!BeginQuiesce(uids, next)
  PROVE  Place' = next
  BY DEF Driver!BeginQuiesce, Place, Hunting

LEMMA QuietPlace ==
  ASSUME pc \notin Hunting
  PROVE  Place = pc
  BY DEF Place

LEMMA QuietPlaceNext ==
  ASSUME pc' \notin Hunting
  PROVE  Place' = pc'
  BY DEF Place

\* The steps inside of a job or of a hunt say nothing.
LEMMA StageInJob ==
  ASSUME OutcomeInv, HuntInv,
         \/ Driver!Reap \/ Driver!KillGroup \/ Driver!Poll \/ Driver!Drain \/ Driver!Quiesce
         \/ Driver!Processes \/ \E c \in {"deps", "login", "all"} : Driver!Tick(c)
  PROVE  OutcomeInv'
<1> USE DEF Driver!Goto, Driver!jobVars
<1>1. CASE Driver!Reap \/ Driver!KillGroup
  <2>1. pc \in {"started", "poll"} /\ Driver!BeginQuiesce({Driver!JobUid[job]}, "drain")
        /\ UNCHANGED <<order, job, Driver!outVars>>
    BY <1>1 DEF Driver!Reap, Driver!KillGroup
  <2>2. Place = pc
    BY <2>1 DEF Place, Hunting
  <2>3. Place' = "drain"
    BY <2>1, HuntPlace
  <2> QED BY <2>1, <2>2, <2>3, StageKept DEF JobPlaces
<1>2. CASE Driver!Poll
  <2>1. pc \in {"started", "poll"} /\ pc' \in {"started", "poll"} /\ UNCHANGED <<order, job, Driver!outVars>>
    BY <1>2 DEF Driver!Poll, Driver!Pump
  <2> QED BY <2>1, StageKept DEF Place, Hunting, JobPlaces
<1>3. CASE Driver!Drain
  <2>1. CASE Driver!Fail("drain") /\ order' = order
    BY <2>1, StageFails
  <2>2. CASE pc = "drain" /\ pc' \in {"drain", "decided"} /\ UNCHANGED <<order, job, Driver!outVars>>
    BY <2>2, StageKept DEF Place, Hunting, JobPlaces
  <2> QED BY <1>3, <2>1, <2>2 DEF Driver!Drain, Driver!Pump
<1>4. CASE Driver!Quiesce
  <2>1. CASE Driver!Lost
    BY <2>1, StageFails DEF Driver!Lost
  <2>2. CASE ~Driver!Lost
    <3>1. pc \in Hunting /\ UNCHANGED <<order, job, then, Driver!outVars>> /\ (pc' \in Hunting \/ pc' = then)
      BY <1>4, <2>2 DEF Driver!Quiesce, Driver!List, Driver!Look, Driver!LookTwice, Driver!Cleared,
                        Driver!KillFound, Driver!Late, Hunting
    <3>2. Place' = Place
      BY <3>1 DEF HuntInv, Place, Nexts, Hunting
    <3> QED BY <3>1, <3>2, StageKept
  <2> QED BY <2>1, <2>2
<1>5. CASE Driver!Processes \/ \E c \in {"deps", "login", "all"} : Driver!Tick(c)
  <2>1. UNCHANGED <<order, pc, then, job, Driver!outVars>>
    BY <1>5 DEF Driver!Processes, Driver!Write, Driver!ClosePipe, Driver!Exit, Driver!Fork, Driver!Tick, Driver!goVars
  <2> QED BY <2>1, StageKept DEF Place
<1> QED BY <1>1, <1>2, <1>3, <1>4, <1>5

\* Before the first job.
LEMMA StageBefore ==
  ASSUME OutcomeInv, DriverTyped,
         Driver!ParseHeader \/ Driver!ReadInputs \/ Driver!ExtractSnapshot \/ Driver!PrepareCodexHome
  PROVE  OutcomeInv'
<1> USE DEF Driver!Goto, Driver!GoOn, Driver!outVars
<1>1. order' = order
  BY DEF Driver!ParseHeader, Driver!ReadInputs, Driver!ExtractSnapshot, Driver!PrepareCodexHome, Driver!Quiet
<1>2. CASE \E from \in {"inputs", "extract", "home"} : Driver!Fail(from)
  BY <1>1, <1>2, StageFails
<1>3. CASE ~ \E from \in {"inputs", "extract", "home"} : Driver!Fail(from)
  <2>1. /\ pc \in {"header", "inputs", "extract", "home"}
        /\ UNCHANGED <<login, status, exit, ran, change>>
        /\ \/ pc' \in {"inputs", "extract", "home", Driver!Enter} /\ deps' = deps /\ infra' = infra
           \/ pc' = "result" /\ infra' = TRUE /\ deps' = "null"
    BY <1>3 DEF Driver!ParseHeader, Driver!ReadInputs, Driver!ExtractSnapshot, Driver!PrepareCodexHome
  <2>2. /\ Driver!Enter \in {"deps", "login", "command"}
        /\ Driver!Enter = "deps" => order.deps = TRUE
        /\ Driver!Enter = "login" => order.deps = FALSE /\ order.mode = "build"
        /\ Driver!Enter = "command" => order.deps = FALSE /\ order.mode # "build"
    BY DEF Driver!Enter, Driver!Build, DriverTyped
  <2>3. Place = pc /\ Place' = pc'
    BY <2>1, <2>2 DEF Place, Hunting
  <2>4. Fresh /\ login = "null" /\ deps = (IF order.deps THEN "failed" ELSE "null")
    BY <2>1, <2>3 DEF OutcomeInv, StageInv
  <2>5. OutTyped' /\ Consistent'
    BY <1>1, <2>1, <2>4 DEF OutcomeInv, OutTyped, Consistent, Fresh
  <2>6. StageInv'
    BY <1>1, <2>1, <2>2, <2>3, <2>4 DEF StageInv, Fresh, Provided, LoggedIn, AtJob, JobPlaces
  <2> QED BY <2>5, <2>6 DEF OutcomeInv
<1> QED BY <1>2, <1>3

\* The dependencies.
LEMMA StageDeps ==
  ASSUME OutcomeInv, DriverTyped, Driver!RunDeps
  PROVE  OutcomeInv'
<1> USE DEF Driver!Goto, Driver!GoOn
<1>1. ASSUME NEW from \in {"deps", "unpack", "install", "walkdeps", "readsite", "closure", "decided"},
             from = "decided" => job = "install", Driver!DepsFailed(from)
      PROVE  OutcomeInv'
  <2>1. pc = from /\ status' = "deps_failed" /\ deps' = "failed" /\ UNCHANGED <<order, login, exit, ran, change, infra>>
    BY <1>1 DEF Driver!DepsFailed
  <2>2. Place' = "export"
    BY <1>1, HuntPlace DEF Driver!DepsFailed
  <2>3. Fresh /\ login = "null" /\ order.deps = TRUE
    BY <1>1, <2>1 DEF OutcomeInv, StageInv, AtJob, JobPlaces, Place, Hunting
  <2> QED BY <2>1, <2>2, <2>3 DEF OutcomeInv, OutTyped, Consistent, StageInv, Fresh, Known, AtJob, JobPlaces
<1>2. ASSUME NEW from \in {"deps", "unpack", "walkdeps", "readsite"}, NEW to \in {"unpack", "install", "readsite", "closure"},
             Driver!GoOn(from, to), order' = order
      PROVE  OutcomeInv'
  <2>1. Place = from /\ Place' = to /\ UNCHANGED Driver!outVars
    BY <1>2 DEF Place, Hunting
  <2>2. Fresh /\ login = "null" /\ deps = "failed" /\ order.deps = TRUE
    BY <2>1 DEF OutcomeInv, StageInv
  <2> QED BY <1>2, <2>1, <2>2 DEF OutcomeInv, OutTyped, Consistent, StageInv, Fresh, Driver!outVars, AtJob, JobPlaces
<1>3. CASE Driver!CheckDeps \/ Driver!ExtractDeps \/ Driver!WalkDeps \/ Driver!ReadSite
  BY <1>1, <1>2, <1>3 DEF Driver!CheckDeps, Driver!ExtractDeps, Driver!WalkDeps, Driver!ReadSite, Driver!InTime, Driver!Quiet
<1>4. CASE Driver!Install
  <2>1. CASE Driver!DepsFailed("install")
    BY <1>1, <2>1
  <2>2. CASE Driver!Spawn("install", "install")
    <3>1. Place = "install" /\ AtJob("install")' /\ UNCHANGED <<order, Driver!outVars>>
      BY <2>2 DEF Driver!Spawn, Driver!NewJob, Place, Hunting, AtJob, JobPlaces
    <3>2. Fresh /\ login = "null" /\ deps = "failed" /\ order.deps = TRUE
      BY <3>1 DEF OutcomeInv, StageInv
    <3> QED BY <3>1, <3>2 DEF OutcomeInv, OutTyped, Consistent, StageInv, Fresh, Driver!outVars, AtJob, JobPlaces
  <2> QED BY <1>4, <2>1, <2>2 DEF Driver!Install
<1>5. CASE Driver!AfterInstall
  <2>1. CASE Driver!DepsFailed("decided")
    BY <1>1, <1>5, <2>1 DEF Driver!AfterInstall
  <2>2. CASE ~Driver!DepsFailed("decided")
    <3>1. pc = "decided" /\ job = "install" /\ Driver!BeginQuiesce({"deps"}, "walkdeps") /\ UNCHANGED <<order, Driver!outVars>>
      BY <1>5, <2>2 DEF Driver!AfterInstall
    <3>2. Place = "decided" /\ Place' = "walkdeps"
      BY <3>1, HuntPlace DEF Place, Hunting
    <3>3. Fresh /\ login = "null" /\ deps = "failed" /\ order.deps = TRUE
      BY <3>1, <3>2 DEF OutcomeInv, StageInv, AtJob, JobPlaces
    <3> QED BY <3>1, <3>2, <3>3 DEF OutcomeInv, OutTyped, Consistent, StageInv, Fresh, Driver!outVars, AtJob, JobPlaces
  <2> QED BY <2>1, <2>2
<1>6. CASE Driver!CheckClosure
  <2>1. CASE Driver!DepsFailed("closure")
    BY <1>1, <2>1
  <2>2. CASE ~Driver!DepsFailed("closure")
    <3>1. /\ pc = "closure" /\ deps' = "installed" /\ Driver!BeginQuiesce({"deps"}, IF Driver!Build THEN "login" ELSE "command")
          /\ UNCHANGED <<order, login, status, exit, ran, change, infra>>
      BY <1>6, <2>2 DEF Driver!CheckClosure
    <3>2. Place' = IF order.mode = "build" THEN "login" ELSE "command"
      BY <3>1, HuntPlace DEF Driver!Build
    <3>3. Fresh /\ login = "null" /\ deps = "failed" /\ order.deps = TRUE
      BY <3>1 DEF OutcomeInv, StageInv, Place, Hunting
    <3> QED BY <3>1, <3>2, <3>3 DEF OutcomeInv, OutTyped, Consistent, StageInv, Fresh, Provided, LoggedIn, AtJob, JobPlaces
  <2> QED BY <2>1, <2>2
<1> QED BY <1>3, <1>4, <1>5, <1>6 DEF Driver!RunDeps

\* The login check, the command, and what is read after them.
LEMMA StageAfter ==
  ASSUME OutcomeInv, DriverTyped, CaptureInv,
         \/ Driver!StartLogin \/ Driver!AfterLogin \/ Driver!StartCommand \/ Driver!AfterCommand
         \/ Driver!ReadExport \/ Driver!RunWalk \/ Driver!ComputeChanges \/ Driver!Frame
  PROVE  OutcomeInv'
<1> USE DEF Driver!Goto, Driver!GoOn
<1>1. ASSUME NEW j \in {"login", "command"}, Driver!Spawn(j, j)
      PROVE  OutcomeInv'
  <2>1. Place = j /\ Place' \in JobPlaces /\ job' = j /\ UNCHANGED <<order, Driver!outVars>>
    BY <1>1 DEF Driver!Spawn, Driver!NewJob, Place, Hunting, JobPlaces
  <2>2. /\ Fresh
        /\ j = "login" => login = "null" /\ Provided /\ order.mode = "build"
        /\ j = "command" => Provided /\ LoggedIn
    BY <2>1 DEF OutcomeInv, StageInv
  <2> QED BY <2>1, <2>2 DEF OutcomeInv, OutTyped, Consistent, StageInv, Fresh, Provided, LoggedIn, Driver!outVars, AtJob, JobPlaces
<1>2. CASE Driver!StartLogin \/ Driver!StartCommand
  BY <1>1, <1>2, StageFails DEF Driver!StartLogin, Driver!StartCommand, Driver!Quiet
<1>3. CASE Driver!AfterLogin
  <2>1. /\ pc = "decided" /\ job = "login" /\ UNCHANGED <<order, deps, status, exit, ran, change, infra>>
        /\ \/ login' = "chatgpt" /\ pc' = "command"
           \/ login' = "rejected" /\ Driver!BeginQuiesce(Driver!Uids, "export")
    BY <1>3 DEF Driver!AfterLogin
  <2>2. Fresh /\ Provided /\ order.mode = "build"
    BY <2>1 DEF OutcomeInv, StageInv, AtJob, JobPlaces, Place, Hunting
  <2>3. \/ login' = "chatgpt" /\ Place' = "command"
        \/ login' = "rejected" /\ Place' = "export"
    BY <2>1, HuntPlace, QuietPlaceNext DEF Hunting
  <2> QED BY <2>1, <2>2, <2>3 DEF OutcomeInv, OutTyped, Consistent, StageInv, Fresh, Provided, LoggedIn, Known, AtJob, JobPlaces
<1>4. CASE Driver!AfterCommand
  <2>1. /\ pc = "decided" /\ job = "command" /\ status' = jstatus /\ exit' = jexit /\ ran' = TRUE
        /\ UNCHANGED <<order, deps, login, change, infra>>
    BY <1>4 DEF Driver!AfterCommand
  <2>2. Place' = "export"
    BY <1>4, HuntPlace DEF Driver!AfterCommand
  <2>3. Fresh /\ Provided /\ LoggedIn
    BY <2>1 DEF OutcomeInv, StageInv, AtJob, JobPlaces, Place, Hunting
  <2>4. (jstatus = "exited") = (jexit # "none")
    BY <2>1 DEF CaptureInv, Place, Hunting
  <2>5. Provided' /\ LoggedIn'
    BY <2>1, <2>3 DEF Provided, LoggedIn
  <2>6. deps # "failed"
    BY <2>3 DEF Provided
  <2>7. jstatus \in {"exited", "timeout", "output_limit", "not_started"} /\ jexit \in {"none", "zero", "other"}
    BY DEF DriverTyped
  <2>8. OutTyped' /\ Consistent'
    BY <2>1, <2>4, <2>6, <2>7 DEF OutcomeInv, OutTyped, Consistent
  <2>9. StageInv'
    BY <2>1, <2>2, <2>3, <2>5 DEF StageInv, Fresh, Known, AtJob, JobPlaces
  <2> QED BY <2>8, <2>9 DEF OutcomeInv
<1>5. CASE Driver!ReadExport
  <2>1. /\ Place = "export" /\ Place' = (IF order.mode = "build" /\ ran THEN "walk" ELSE "result")
        /\ UNCHANGED <<order, Driver!outVars>>
    BY <1>5 DEF Driver!ReadExport, Driver!Quiet, Driver!Build, Place, Hunting
  <2>2. Known /\ infra = FALSE /\ change = "none"
    BY <2>1 DEF OutcomeInv, StageInv
  <2>3. (ran = TRUE) = ran
    BY DEF OutcomeInv, OutTyped
  <2> QED BY <2>1, <2>2, <2>3 DEF OutcomeInv, OutTyped, Consistent, StageInv, Known, Provided, LoggedIn, Driver!outVars, AtJob, JobPlaces
<1>6. CASE Driver!RunWalk
  <2>1. Place = "walk" /\ UNCHANGED <<order, Driver!outVars>>
    BY <1>6 DEF Driver!RunWalk, Place, Hunting
  <2>2. Place' = "compute"
    BY <1>6, HuntPlace DEF Driver!RunWalk
  <2>3. Known /\ infra = FALSE /\ change = "none" /\ ran = TRUE /\ order.mode = "build"
    BY <2>1 DEF OutcomeInv, StageInv
  <2> QED BY <2>1, <2>2, <2>3 DEF OutcomeInv, OutTyped, Consistent, StageInv, Known, Provided, LoggedIn, Driver!outVars, AtJob, JobPlaces
<1>7. CASE Driver!ComputeChanges
  <2>1. Place = "compute" /\ Place' = "result" /\ change' \in {"ok", "refused"} /\ UNCHANGED <<order, deps, login, status, exit, ran, infra>>
    BY <1>7 DEF Driver!ComputeChanges, Driver!Quiet, Place, Hunting
  <2>2. Known /\ infra = FALSE /\ ran = TRUE /\ order.mode = "build"
    BY <2>1 DEF OutcomeInv, StageInv
  <2> QED BY <2>1, <2>2 DEF OutcomeInv, OutTyped, Consistent, StageInv, Known, Provided, LoggedIn, AtJob, JobPlaces
<1>8. CASE Driver!Frame
  <2>1. /\ Place = "result" /\ Place' = "done" /\ UNCHANGED <<order, deps, login, exit, ran, infra>>
        /\ change' = (IF infra THEN "none" ELSE change)
        /\ status' = (IF infra /\ status = "deps_failed" THEN "not_started" ELSE status)
    BY <1>8 DEF Driver!Frame, Driver!Quiet, Place, Hunting
  <2>2. OutTyped' /\ Consistent'
    BY <2>1 DEF OutcomeInv, OutTyped, Consistent
  <2>3. CASE infra = FALSE
    <3>1. Known /\ (change # "none" => ran = TRUE /\ order.mode = "build") /\ change' = change /\ status' = status
      BY <2>1, <2>3 DEF OutcomeInv, StageInv
    <3>2. StageInv'
      BY <2>1, <2>3, <3>1 DEF StageInv, Known, Provided, LoggedIn, AtJob, JobPlaces
    <3> QED BY <2>2, <3>2 DEF OutcomeInv
  <2>4. CASE infra = TRUE
    <3>1. change' = "none" /\ infra' = TRUE
      BY <2>1, <2>4
    <3>2. StageInv'
      BY <2>1, <3>1 DEF StageInv, AtJob, JobPlaces
    <3> QED BY <2>2, <3>2 DEF OutcomeInv
  <2> QED BY <2>3, <2>4 DEF OutcomeInv, OutTyped
<1> QED BY <1>2, <1>3, <1>4, <1>5, <1>6, <1>7, <1>8

LEMMA OutcomeStep == DriverTyped /\ HuntInv /\ CaptureInv /\ OutcomeInv /\ Driver!Next => OutcomeInv'
  BY StageInJob, StageBefore, StageDeps, StageAfter DEF Driver!Next, Driver!Driver

LEMMA OutcomeProves ==
  DriverTyped /\ OutcomeInv => Driver!OutcomeIsEarned /\ (pc \in {"walk", "compute"} => ran)
<1> SUFFICES ASSUME DriverTyped, OutcomeInv
             PROVE  Driver!OutcomeIsEarned /\ (pc \in {"walk", "compute"} => ran)
  OBVIOUS
<1>1. pc \in {"walk", "compute"} => ran
  BY DEF OutcomeInv, StageInv, Place, Hunting
<1>2. ASSUME pc = "done"
      PROVE  /\ Driver!DriverBuilds /\ (infra \/ Driver!RunnerAccepts)
             /\ change # "none" => ran /\ ~infra /\ login = "chatgpt" /\ deps # "failed"
  <2>1. /\ infra = FALSE => Known /\ (change # "none" => ran = TRUE /\ order.mode = "build")
        /\ infra = TRUE => change = "none"
    BY <1>2 DEF OutcomeInv, StageInv, Place, Hunting
  <2>2. infra \in BOOLEAN /\ order.deps \in BOOLEAN /\ order.mode \in {"run", "build"} /\ deps \in {"null", "failed", "installed"}
    BY DEF OutcomeInv, OutTyped, DriverTyped
  <2>3. Consistent
    BY DEF OutcomeInv
  <2>4. CASE infra = TRUE
    BY <2>1, <2>2, <2>3, <2>4 DEF Driver!DriverBuilds, Driver!Build, Consistent
  <2>5. CASE infra = FALSE
    <3>1. /\ (deps = "null") = ~order.deps
          /\ change # "none" => ran /\ order.mode = "build" /\ login = "chatgpt" /\ deps # "failed"
      BY <2>1, <2>2, <2>5 DEF Known, Provided, LoggedIn
    <3> QED BY <2>2, <2>3, <2>5, <3>1 DEF Driver!DriverBuilds, Driver!RunnerAccepts, Driver!Build, Consistent
  <2> QED BY <2>2, <2>4, <2>5
<1> QED BY <1>1, <1>2 DEF Driver!OutcomeIsEarned

-----------------------------------------------------------------------------
(* The driver's invariant *)

DriverInv == DriverTyped /\ Counted /\ HuntInv /\ CaptureInv /\ SlipInv /\ OutcomeInv

LEMMA DriverStarts == Driver!Init => DriverInv
<1> SUFFICES ASSUME Driver!Init PROVE DriverInv
  OBVIOUS
<1>1. DriverTyped
  BY DriverAssumption DEF Driver!Init, Driver!Uids, DriverTyped
<1>2. Counted
  BY DEF Driver!Init, Driver!Uids, Counted
<1>3. HuntInv /\ CaptureInv /\ SlipInv
  BY DEF Driver!Init, HuntInv, CaptureInv, SlipInv, Place, Hunting
<1>4. Place = "header"
  BY DEF Driver!Init, Place, Hunting
<1>5. OutTyped /\ Consistent
  BY DEF Driver!Init, OutTyped, Consistent
<1>6. StageInv
  BY <1>4 DEF Driver!Init, StageInv, Fresh, AtJob, JobPlaces
<1> QED BY <1>1, <1>2, <1>3, <1>5, <1>6 DEF DriverInv, OutcomeInv

LEMMA DriverInvStep == DriverInv /\ Driver!Next => DriverInv'
  BY StepShapes, DriverTypedStep, CountedStep, HuntStep, CaptureStep, SlipStep, OutcomeStep DEF DriverInv

LEMMA DriverIsTyped == DriverInv => Driver!TypeOK
<1> SUFFICES ASSUME DriverInv PROVE Driver!TypeOK
  OBVIOUS
<1>1. pipe \in 0..MaxWrites /\ seen \in 0..MaxWrites /\ wrote \in 0..MaxWrites
  BY DriverAssumption DEF DriverInv, DriverTyped, Counted
<1>2. \A u \in {"deps", "run"} : slips[u] \in 0..MaxForks
  BY DriverAssumption DEF DriverInv, DriverTyped, Counted
<1>3. slips \in [{"deps", "run"} -> 0..MaxForks]
  BY <1>2 DEF DriverInv, DriverTyped
<1>4. ran \in BOOLEAN /\ infra \in BOOLEAN
  BY DEF DriverInv, OutcomeInv, OutTyped
<1>5. {ran, infra} \subseteq BOOLEAN
  BY <1>4, Zenon
<1> QED BY <1>1, <1>3, <1>5 DEF DriverInv, DriverTyped, OutcomeInv, OutTyped, Driver!TypeOK, Driver!Uids, Driver!Jobs

LEMMA DriverProves ==
  DriverInv => /\ Driver!CaptureIsWhole /\ Driver!SurvivorsSlippedTwice
               /\ Driver!ReadsAreQuiet /\ Driver!OutcomeIsEarned
  BY CaptureProves, SlipProves, QuietProves, OutcomeProves DEF DriverInv, Driver!ReadsAreQuiet

LEMMA ProbeIsTyped == ProbeInv => Probe!TypeOK
<1> SUFFICES ASSUME ProbeInv PROVE Probe!TypeOK
  OBVIOUS
<1>1. killed \in BOOLEAN /\ garbled \in BOOLEAN /\ infra \in BOOLEAN
  BY DEF ProbeInv, ProbeTyped
<1>2. {killed, garbled, infra} \subseteq BOOLEAN
  BY <1>1, Zenon
<1> QED BY <1>2 DEF ProbeInv, ProbeTyped, Probe!TypeOK

-----------------------------------------------------------------------------
(* Paths *)

\* A path and what lies above it, the root included.
Above(p) == {SubSeq(p, 1, n) : n \in 0..Len(p)}

LEMMA PathLength == \A p \in Path : p \in Seq(STRING) /\ Len(p) \in Nat \ {0}
<1> SUFFICES ASSUME NEW p \in Path PROVE p \in Seq(STRING) /\ Len(p) \in Nat \ {0}
  OBVIOUS
<1>1. p \in Seq(STRING) /\ p # <<>>
  BY PathAssumption
<1> QED BY <1>1, EmptySeq

LEMMA Prefixes ==
  ASSUME NEW p \in Path, NEW n \in 0..Len(p)
  PROVE  /\ SubSeq(p, 1, n) \in Seq(STRING) /\ Len(SubSeq(p, 1, n)) = n
         /\ \A i \in 1..n : SubSeq(p, 1, n)[i] = p[i]
         /\ \A m \in 0..n : SubSeq(SubSeq(p, 1, n), 1, m) = SubSeq(p, 1, m)
<1>1. p \in Seq(STRING) /\ Len(p) \in Nat \ {0} /\ n \in Nat
  BY PathLength
<1> DEFINE q == SubSeq(p, 1, n)
<1>2. q \in Seq(STRING) /\ Len(q) = n /\ \A i \in 1..n : q[i] = p[i]
  <2>1. \A i \in 1..n : p[i] \in STRING
    BY <1>1
  <2> QED BY <1>1, <2>1, SubSeqProperties
<1>3. ASSUME NEW m \in 0..n PROVE SubSeq(q, 1, m) = SubSeq(p, 1, m)
  <2>1. m \in Nat /\ \A i \in 1..m : p[i] \in STRING /\ q[i] = p[i] /\ q[i] \in STRING
    BY <1>1, <1>2
  <2>2. SubSeq(q, 1, m) \in Seq(STRING) /\ Len(SubSeq(q, 1, m)) = m /\ \A i \in 1..m : SubSeq(q, 1, m)[i] = p[i]
    BY <1>2, <2>1, SubSeqProperties
  <2>3. SubSeq(p, 1, m) \in Seq(STRING) /\ Len(SubSeq(p, 1, m)) = m /\ \A i \in 1..m : SubSeq(p, 1, m)[i] = p[i]
    BY <1>1, <2>1, SubSeqProperties
  <2> HIDE DEF q
  <2> QED BY <2>2, <2>3, SeqEqual
<1> QED BY <1>2, <1>3

LEMMA WholePath == \A p \in Path : SubSeq(p, 1, Len(p)) = p
  BY PathLength, SubSeqFull

LEMMA AboveEnds == \A p \in Path : p \in Above(p) /\ <<>> \in Above(p)
<1> SUFFICES ASSUME NEW p \in Path PROVE p \in Above(p) /\ <<>> \in Above(p)
  OBVIOUS
<1>1. Len(p) \in 0..Len(p) /\ 0 \in 0..Len(p)
  BY PathLength
<1>2. p = SubSeq(p, 1, Len(p)) /\ <<>> = SubSeq(p, 1, 0)
  BY WholePath, SubSeqEmpty
<1> QED BY <1>1, <1>2 DEF Above

\* Below a directory on the way to p lies an entry on the way to p.
LEMMA NextOnTheWay ==
  ASSUME NEW p \in Path, NEW q \in Above(p), q # p
  PROVE  \E c \in Above(p) \cap Path : Change!Front(c) = q
<1>1. PICK n \in 0..Len(p) : q = SubSeq(p, 1, n)
  BY DEF Above
<1>2. n # Len(p) /\ Len(p) \in Nat
  BY <1>1, WholePath, PathLength
<1>3. n + 1 \in 1..Len(p) /\ n + 1 \in 0..Len(p) /\ n \in 0..n + 1
  BY <1>2
<1> DEFINE c == SubSeq(p, 1, n + 1)
<1>4. c \in Above(p) /\ c \in Path
  BY <1>3, PathAssumption DEF Above
<1>5. Len(c) = n + 1 /\ SubSeq(c, 1, n) = q
  BY <1>1, <1>3, Prefixes
<1>6. Change!Front(c) = q
  BY <1>2, <1>5 DEF Change!Front
<1> QED BY <1>4, <1>6

\* What lies above p and is not p lies above what p is in.
LEMMA StrictlyAbove ==
  ASSUME NEW p \in Path, NEW q \in Above(p), q # p, q # <<>>
  PROVE  /\ q \in Path
         /\ \A i \in Inputs : i.tree[p].kind # "none" => i.tree[q].kind = "dir"
         /\ \A w \in Seq(STRING) : Change!IsPrefix(w, q) => Change!IsPrefix(w, Change!Front(p))
         /\ Change!Last(q) = Git => Change!GitComponent(Change!Front(p))
<1>1. PICK n \in 0..Len(p) : q = SubSeq(p, 1, n)
  BY DEF Above
<1>2. n # Len(p) /\ n # 0 /\ Len(p) \in Nat /\ p \in Seq(STRING)
  BY <1>1, WholePath, PathLength, SubSeqEmpty
<1>3. n \in 1..Len(p) /\ n < Len(p) /\ Len(p) - 1 \in 0..Len(p) /\ n \in 0..Len(p) - 1 /\ n \in 1..Len(p) - 1
  BY <1>2
<1> DEFINE f == SubSeq(p, 1, Len(p) - 1)
<1>4. Change!Front(p) = f
  BY DEF Change!Front
<1>5. f \in Seq(STRING) /\ Len(f) = Len(p) - 1 /\ (\A i \in 1..Len(p) - 1 : f[i] = p[i])
  BY <1>3, Prefixes
<1>6. Len(q) = n /\ q \in Seq(STRING) /\ \A i \in 1..n : q[i] = p[i]
  BY <1>1, Prefixes
<1>7. q \in Path
  BY <1>1, <1>3, PathAssumption
<1>8. ASSUME NEW i \in Inputs, i.tree[p].kind # "none" PROVE i.tree[q].kind = "dir"
  BY <1>1, <1>3, <1>8, InputAssumption
<1>9. ASSUME NEW w \in Seq(STRING), Change!IsPrefix(w, q) PROVE Change!IsPrefix(w, f)
  <2>1. Len(w) \in 0..n /\ SubSeq(w, 1, Len(w)) = SubSeq(q, 1, Len(w))
    BY <1>2, <1>6, <1>9, LenProperties DEF Change!IsPrefix
  <2>2. Len(w) \in 0..Len(p) - 1
    BY <1>3, <2>1
  <2>3. SubSeq(q, 1, Len(w)) = SubSeq(p, 1, Len(w))
    BY <1>1, <2>1, Prefixes
  <2>4. SubSeq(f, 1, Len(w)) = SubSeq(p, 1, Len(w))
    BY <1>3, <2>2, Prefixes
  <2>5. Len(w) <= Len(f)
    BY <1>2, <1>5, <2>2
  <2> HIDE DEF f
  <2> QED BY <2>1, <2>3, <2>4, <2>5 DEF Change!IsPrefix
<1>10. ASSUME Change!Last(q) = Git PROVE Change!GitComponent(f)
  <2>1. f[n] = Git
    BY <1>3, <1>5, <1>6, <1>10 DEF Change!Last
  <2>2. n \in DOMAIN f
    BY <1>3, <1>5
  <2> HIDE DEF f
  <2> QED BY <2>1, <2>2 DEF Change!GitComponent
<1> QED BY <1>4, <1>7, <1>8, <1>9, <1>10

LEMMA GitInPath ==
  ASSUME NEW p \in Path, Change!GitComponent(p)
  PROVE  Change!GitComponent(Change!Front(p)) \/ Change!Last(p) = Git
<1>1. PICK i \in DOMAIN p : p[i] = Git
  BY DEF Change!GitComponent
<1>2. p \in Seq(STRING) /\ Len(p) \in Nat \ {0} /\ i \in 1..Len(p) /\ Len(p) - 1 \in 0..Len(p)
  BY PathLength
<1>3. CASE i = Len(p)
  BY <1>1, <1>3 DEF Change!Last
<1>4. CASE i # Len(p)
  <2> DEFINE f == SubSeq(p, 1, Len(p) - 1)
  <2>1. i \in 1..Len(p) - 1
    BY <1>2, <1>4
  <2>2. f \in Seq(STRING) /\ Len(f) = Len(p) - 1 /\ f[i] = p[i]
    BY <1>2, <2>1, Prefixes
  <2>3. i \in DOMAIN f
    BY <2>1, <2>2
  <2> HIDE DEF f
  <2>4. Change!GitComponent(f)
    BY <1>1, <2>2, <2>3 DEF Change!GitComponent
  <2> QED BY <2>4 DEF Change!Front, f
<1> QED BY <1>3, <1>4

LEMMA RootIsClean ==
  ~Change!GitComponent(<<>>) /\ \A w \in Seq(STRING) : Change!IsPrefix(w, <<>>) => w = <<>>
<1>1. ASSUME NEW w \in Seq(STRING), Change!IsPrefix(w, <<>>) PROVE w = <<>>
  <2>1. Len(w) = 0
    BY <1>1, LenProperties, EmptySeq DEF Change!IsPrefix
  <2> QED BY <2>1, EmptySeq
<1>2. ~Change!GitComponent(<<>>)
  BY DEF Change!GitComponent
<1> QED BY <1>1, <1>2

-----------------------------------------------------------------------------
(* The walk *)

Kind(p)  == input.tree[p].kind
Stops    == {"C", "T", "E"}
Stopped  == \E r \in records : r.kind \in Stops
Recorded(p) == \E r \in records : r.path = p

\* A directory that is walked into.
Walked(d) == d \in Path /\ Change!Plain(d) /\ Kind(d) = "dir"

\* The record of an entry says what the tree holds there.
Truthful(r) ==
  /\ r.path \in Path /\ Change!Seen(r.path)
  /\ r.body = input.tree[r.path].body /\ r.exec = input.tree[r.path].exec
  /\ r.kind = "D" => Walked(r.path)
  /\ r.kind = "G" => Change!Last(r.path) = Git /\ ~Change!Withheld(r.path)
  /\ r.kind \in {"F", "S", "B", "L", "O"} => Change!Plain(r.path)
  /\ r.kind \in {"F", "S", "B"} => Kind(r.path) = "file"
  /\ r.kind = "F" => r.size = input.tree[r.path].body
  /\ r.kind = "S" => r.path \notin Change!Base /\ Change!Generated(r.path)
  /\ r.kind = "L" => Kind(r.path) = "link"
  /\ r.kind = "O" => Kind(r.path) = "special"
  /\ r.kind = "W" => Change!Withheld(r.path)
  /\ r.kind \in {"F", "B"} => r.path \in Change!Base \/ ~Change!Generated(r.path)
  /\ r.kind = "B" => input.tree[r.path].body > input.caps.file_bytes
  /\ r.kind \in {"D", "F", "S", "L", "O", "G", "W", "B"}

WalkTyped ==
  /\ input \in Inputs /\ pc \in {"walk", "read", "compute", "done"}
  /\ stack \in Seq(Path \cup {<<>>}) /\ todo \subseteq Path
  /\ count \in Nat /\ sent \in Nat /\ whole \in BOOLEAN
  /\ result.status \in {"none", "ok", "refused", "infrastructure"}
  /\ Change!BaselineError(input.tar) => pc = "done" /\ result.status = "infrastructure"

\* What is still to be looked at can be seen, and lies in directories walked into.
OnTheWay ==
  /\ \A p \in todo : Change!Seen(p)
  /\ \A d \in Change!Range(stack) : d = <<>> \/ Walked(d)

RecordsTrue == \A r \in records : r.kind \in Stops \/ Truthful(r)

\* Everything that can be seen is recorded or lies at or below something that is
\* still to be looked at, unless the walk was stopped.
Waiting == todo \cup Change!Range(stack)
Covered ==
  \/ Stopped
  \/ \A p \in Path : Change!Seen(p) => Recorded(p) \/ \E q \in Waiting : q \in Above(p)
Complete == Stopped \/ \A p \in Path : Change!Seen(p) => Recorded(p)

WalkInv ==
  /\ WalkTyped /\ OnTheWay /\ RecordsTrue
  /\ pc = "walk" => Covered
  /\ pc = "read" => Complete
  /\ pc = "compute" /\ whole = TRUE => Complete
  /\ result.status = "ok" =>
       /\ pc = "done" /\ ~Change!RefusesWalk /\ Complete
       /\ result.changes = Change!Changes /\ result.excluded = Change!Excluded

LEMMA InputFacts ==
  ASSUME input \in Inputs
  PROVE  /\ \A p \in Path : /\ Kind(p) \in {"none", "file", "dir", "link", "special"}
                            /\ input.tree[p].body \in Nat
         /\ input.withheld \subseteq Seq(STRING) \ {<<>>}
         /\ input.caps.entries \in Nat /\ input.caps.total_bytes \in Nat /\ input.caps.added_files \in Nat
<1>1. \A p \in Path : input.tree[p] \in [kind : {"none", "file", "dir", "link", "special"}, body : Nat, exec : BOOLEAN]
  BY InputAssumption
<1> QED BY <1>1, InputAssumption DEF Kind

LEMMA RangeOfStack ==
  ASSUME NEW S, NEW s \in Seq(S)
  PROVE  /\ Change!Range(s) \subseteq S
         /\ s # <<>> => /\ Change!Last(s) \in Change!Range(s) /\ Change!Front(s) \in Seq(S)
                        /\ Change!Range(s) = Change!Range(Change!Front(s)) \cup {Change!Last(s)}
<1>1. Len(s) \in Nat /\ DOMAIN s = 1..Len(s) /\ \A i \in 1..Len(s) : s[i] \in S
  BY LenProperties, ElementOfSeq
<1>2. Change!Range(s) = {s[i] : i \in 1..Len(s)}
  BY <1>1 DEF Change!Range
<1>3. ASSUME s # <<>>
      PROVE  /\ Change!Last(s) \in Change!Range(s) /\ Change!Front(s) \in Seq(S)
             /\ Change!Range(s) = Change!Range(Change!Front(s)) \cup {Change!Last(s)}
  <2> DEFINE f == SubSeq(s, 1, Len(s) - 1)
  <2>1. Len(s) # 0
    BY <1>3, EmptySeq
  <2>2. f \in Seq(S) /\ Len(f) = Len(s) - 1 /\ \A i \in 1..Len(s) - 1 : f[i] = s[i]
    BY <1>1, <2>1, SubSeqProperties
  <2>3. DOMAIN f = 1..Len(s) - 1
    BY <2>2, LenProperties
  <2>4. Change!Front(s) = f /\ Change!Last(s) = s[Len(s)]
    BY DEF Change!Front, Change!Last
  <2> HIDE DEF f
  <2>5. Change!Range(f) = {s[i] : i \in 1..Len(s) - 1}
    BY <2>2, <2>3 DEF Change!Range
  <2>6. 1..Len(s) = (1..Len(s) - 1) \cup {Len(s)}
    <3>1. \A n \in Nat \ {0} : 1..n = (1..n - 1) \cup {n}
      OBVIOUS
    <3> QED BY <1>1, <2>1, <3>1
  <2> QED BY <1>2, <2>2, <2>4, <2>5, <2>6
<1> QED BY <1>1, <1>2, <1>3

LEMMA RangeGrows ==
  ASSUME NEW S, NEW s \in Seq(S), NEW e \in S
  PROVE  Append(s, e) \in Seq(S) /\ Change!Range(Append(s, e)) = Change!Range(s) \cup {e}
<1>1. Len(s) \in Nat /\ DOMAIN s = 1..Len(s)
  BY LenProperties
<1>2. Change!Range(s) = {s[i] : i \in 1..Len(s)}
  BY <1>1 DEF Change!Range
<1>3. /\ Append(s, e) \in Seq(S) /\ Len(Append(s, e)) = Len(s) + 1
      /\ \A i \in 1..Len(s) : Append(s, e)[i] = s[i]
      /\ Append(s, e)[Len(s) + 1] = e
  BY AppendProperties
<1> DEFINE a == Append(s, e)
<1>4. DOMAIN a = 1..Len(s) + 1
  BY <1>3, LenProperties
<1> HIDE DEF a
<1>5. Change!Range(a) = {a[i] : i \in 1..Len(s) + 1}
  BY <1>4 DEF Change!Range
<1>6. \A i \in Int : i \in 1..Len(s) + 1 <=> (i \in 1..Len(s) \/ i = Len(s) + 1)
  BY <1>1
<1>7. (\A i \in 1..Len(s) : a[i] = s[i]) /\ a[Len(s) + 1] = e
  BY <1>3 DEF a
<1>8. Change!Range(a) = Change!Range(s) \cup {e}
  BY <1>2, <1>5, <1>6, <1>7
<1> QED BY <1>3, <1>8 DEF a

\* The stack of the walk, with one more directory.
LEMMA StackGrows ==
  ASSUME WalkTyped, NEW p \in Path, stack' = Append(stack, p)
  PROVE  stack' \in Seq(Path \cup {<<>>}) /\ Change!Range(stack)' = Change!Range(stack) \cup {p}
<1> DEFINE ways == Path \cup {<<>>}
<1>1. stack \in Seq(ways) /\ p \in ways
  BY DEF WalkTyped
<1>2. Change!Range(stack)' = Change!Range(Append(stack, p))
  BY DEF Change!Range
<1> HIDE DEF ways
<1>3. Append(stack, p) \in Seq(ways) /\ Change!Range(Append(stack, p)) = Change!Range(stack) \cup {p}
  BY ONLY <1>1, RangeGrows
<1> QED BY <1>2, <1>3 DEF ways

\* The entries of a directory that is walked into can be seen.
LEMMA ChildrenSeen ==
  ASSUME input \in Inputs, NEW d, d = <<>> \/ Walked(d)
  PROVE  \A p \in Change!Children(d) : p \in Path /\ Change!Seen(p)
<1> SUFFICES ASSUME NEW p \in Path, Change!Front(p) = d, Change!Lives(p)
             PROVE  Change!Seen(p)
  BY DEF Change!Children
<1>1. CASE d = <<>>
  <2>1. ~Change!UnderAny(input.withheld, <<>>)
    BY RootIsClean, InputFacts DEF Change!UnderAny
  <2> QED BY <1>1, <2>1, RootIsClean DEF Change!Seen
<1>2. CASE Walked(d)
  <2>1. ~Change!UnderAny(input.withheld, d)
    BY <1>2 DEF Walked, Change!Plain, Change!Withheld
  <2>2. ~Change!GitComponent(d)
    BY <1>2, GitInPath DEF Walked, Change!Plain, Change!Seen
  <2> QED BY <2>1, <2>2 DEF Change!Seen
<1> QED BY <1>1, <1>2

\* What lies strictly above something that can be seen is a directory that is walked into.
LEMMA WayIsWalked ==
  ASSUME input \in Inputs, NEW p \in Path, Change!Seen(p), NEW q \in Above(p), q # p, q # <<>>
  PROVE  Kind(q) = "dir" /\ ~Change!Withheld(q) /\ Change!Last(q) # Git
<1>1. Kind(q) = "dir"
  BY StrictlyAbove DEF Change!Seen, Change!Lives, Kind
<1>2. ~Change!Withheld(q)
  <2>1. input.withheld \subseteq Seq(STRING)
    BY InputFacts
  <2> QED BY <2>1, StrictlyAbove DEF Change!Withheld, Change!UnderAny, Change!Seen
<1>3. Change!Last(q) # Git
  BY StrictlyAbove DEF Change!Seen
<1> QED BY <1>1, <1>2, <1>3

\* What is said of the tree stays so.
LEMMA SameTree ==
  ASSUME input' = input
  PROVE  /\ \A r : Truthful(r)' = Truthful(r)
         /\ \A p : Change!Seen(p)' = Change!Seen(p) /\ Walked(p)' = Walked(p)
         /\ \A p : Kind(p)' = Kind(p) /\ Change!Withheld(p)' = Change!Withheld(p)
         /\ Change!BaselineError(input.tar)' = Change!BaselineError(input.tar)
         /\ Change!Base' = Change!Base
<1> USE DEF Kind, Walked, Change!Plain, Change!Seen, Change!Lives, Change!Withheld
<1>1. Change!Base' = Change!Base
  BY DEF Change!Base, Change!BaselineFiles
<1>2. \A p : Change!Generated(p)' = Change!Generated(p)
  BY DEF Change!Generated
<1>3. \A p : /\ Change!Seen(p)' = Change!Seen(p) /\ Walked(p)' = Walked(p)
             /\ Kind(p)' = Kind(p) /\ Change!Withheld(p)' = Change!Withheld(p) /\ Change!Plain(p)' = Change!Plain(p)
  OBVIOUS
<1>4. \A r : Truthful(r)' = Truthful(r)
  <2> HIDE DEF Kind, Walked, Change!Plain, Change!Seen, Change!Lives, Change!Withheld
  <2> QED BY <1>1, <1>2, <1>3 DEF Truthful
<1>5. Change!BaselineError(input.tar)' = Change!BaselineError(input.tar)
  BY DEF Change!BaselineError
<1> QED BY <1>1, <1>3, <1>4, <1>5

\* A directory .git counts for what is beneath it as well.
IsRepository(p) == Change!Last(p) = Git /\ ~Change!Withheld(p) /\ Kind(p) = "dir"
Weight(p) == IF IsRepository(p) THEN input.tree[p].body ELSE 0

\* The three ways a step of the walk can go.
StopsAs(k) ==
  /\ records' = records \cup {Change!EndRecord(k)}
  /\ pc' = "read" /\ UNCHANGED <<stack, todo>>
StopsHere == \E k \in Stops : StopsAs(k)
GoesInto(p) ==
  /\ Walked(p) /\ stack' = Append(stack, p) /\ todo' = todo \ {p} /\ UNCHANGED <<pc, records, sent>>
TakesAs(p, r) ==
  /\ r.path = p /\ Truthful(r) /\ records' = records \cup {r}
  /\ sent' = (IF r.kind = "F" THEN sent + r.size ELSE sent)
  /\ r.kind = "F" => sent' <= input.caps.total_bytes
Takes(p) ==
  /\ ~Walked(p) /\ \E r : TakesAs(p, r)
  /\ todo' = todo \ {p} /\ UNCHANGED <<pc, stack>>

\* What a visit does: it counts the entry with what is beneath it and goes on, or
\* finds that a cap would not hold it, or cannot read it.
Visits(p) ==
  \/ StopsAs("C") /\ count + 1 + Weight(p) > input.caps.entries
  \/ StopsAs("T") /\ p \in Change!Tracked /\ sent + input.tree[p].body > input.caps.total_bytes
  \/ StopsAs("E")
  \/ (GoesInto(p) \/ Takes(p)) /\ count' = count + 1 + Weight(p) /\ ~(count' > input.caps.entries)

LEMMA RecordFields ==
  ASSUME NEW k, NEW p, NEW n
  PROVE  /\ Change!Record(k, p, n).kind = k /\ Change!Record(k, p, n).path = p
         /\ Change!Record(k, p, n).size = n
         /\ Change!Record(k, p, n).body = input.tree[p].body /\ Change!Record(k, p, n).exec = input.tree[p].exec
  BY DEF Change!Record

\* What is counted beneath a repository is all of it, or more than the cap has left.
LEMMA Counts ==
  ASSUME input \in Inputs, count \in Nat, NEW p \in Path, ~(count + 1 > input.caps.entries),
         ~Change!Withheld(p), Change!Last(p) = Git
  PROVE  /\ Change!CountBeneath(p) \in Nat /\ Weight(p) \in Nat
         /\ \/ Change!CountBeneath(p) = Weight(p)
            \/ /\ count + 1 + Change!CountBeneath(p) > input.caps.entries
               /\ count + 1 + Weight(p) > input.caps.entries
<1>1. input.caps.entries \in Nat /\ input.tree[p].body \in Nat
  BY InputFacts
<1>2. input.caps.entries - (count + 1) \in Nat
  BY <1>1
<1> QED BY <1>1, <1>2 DEF Change!CountBeneath, Weight, IsRepository, Kind

LEMMA VisitShapes ==
  ASSUME WalkTyped, OnTheWay, Change!Visit
  PROVE  /\ UNCHANGED <<input, whole, result>> /\ count' \in Nat /\ sent' \in Nat /\ pc = "walk"
         /\ \E p \in todo : Visits(p)
<1> DEFINE p == CHOOSE q \in todo : TRUE
           node == input.tree[p]
           size == node.body
           next == todo' = todo \ {p} /\ UNCHANGED <<pc, stack>>
<1>1. p \in todo /\ pc = "walk" /\ UNCHANGED <<input, whole, result>>
  BY DEF Change!Visit
<1>2. p \in Path /\ Change!Seen(p)
  BY <1>1 DEF WalkTyped, OnTheWay
<1>3. /\ size \in Nat /\ input.caps.entries \in Nat /\ input.caps.total_bytes \in Nat
      /\ Kind(p) \in {"file", "dir", "link", "special"} /\ count \in Nat /\ sent \in Nat
  BY <1>2, InputFacts DEF WalkTyped, Change!Seen, Change!Lives, Kind
<1>4. ASSUME NEW k, Change!Stop(Change!EndRecord(k)) PROVE StopsAs(k) /\ sent' = sent
  BY <1>4 DEF Change!Stop, Change!Emit, StopsAs
<1>5. CASE count + 1 > input.caps.entries
  <2>1. Change!Stop(Change!EndRecord("C")) /\ count' = count + 1
    BY <1>5 DEF Change!Visit
  <2>2. count + 1 + Weight(p) > input.caps.entries
    BY <1>3, <1>5 DEF Weight
  <2>3. Visits(p)
    BY <1>4, <2>1, <2>2 DEF Visits
  <2> QED BY <1>1, <1>3, <1>4, <2>1, <2>3
<1>6. CASE ~(count + 1 > input.caps.entries)
  <2>1. count' = count + 1 + (IF ~Change!Withheld(p) /\ Change!Last(p) = Git THEN Change!CountBeneath(p) ELSE 0)
    BY <1>6 DEF Change!Visit
  <2>2. ~(~Change!Withheld(p) /\ Change!Last(p) = Git) =>
          Weight(p) = 0 /\ count' = count + 1 + Weight(p) /\ ~(count' > input.caps.entries) /\ count' \in Nat
    BY <1>3, <1>6, <2>1 DEF Weight, IsRepository
  <2>3. /\ Change!Withheld(p) => Change!Emit(Change!Record("W", p, 0)) /\ next /\ UNCHANGED sent
        /\ ~Change!Withheld(p) /\ Change!Last(p) = Git =>
             \/ count' > input.caps.entries /\ Change!Stop(Change!EndRecord("C"))
             \/ ~(count' > input.caps.entries) /\ Change!Emit(Change!Record("G", p, Change!CountBeneath(p))) /\ next /\ UNCHANGED sent
        /\ Change!Plain(p) =>
             /\ node.kind = "link" => Change!Emit(Change!Record("L", p, 0)) /\ next /\ UNCHANGED sent
             /\ node.kind = "special" => Change!Emit(Change!Record("O", p, 0)) /\ next /\ UNCHANGED sent
             /\ node.kind = "dir" => stack' = Append(stack, p) /\ todo' = todo \ {p} /\ UNCHANGED <<pc, sent, records>>
             /\ node.kind = "file" =>
                  \/ Change!SkipsGenerated(p) /\ Change!Emit(Change!Record("S", p, size)) /\ next /\ UNCHANGED sent
                  \/ /\ ~Change!SkipsGenerated(p)
                     /\ \/ size > input.caps.file_bytes /\ Change!Emit(Change!Record("B", p, size)) /\ next /\ UNCHANGED sent
                        \/ sent + size > input.caps.total_bytes /\ Change!Stop(Change!EndRecord("T"))
                        \/ /\ ~(sent + size > input.caps.total_bytes)
                           /\ Change!Emit(Change!Record("F", p, size)) /\ next /\ sent' = sent + size
                        \/ Change!Stop(Change!EndRecord("E"))
    BY <1>6 DEF Change!Visit, Change!Plain
  <2>4. ASSUME NEW k, NEW n, Change!Emit(Change!Record(k, p, n)), next, ~Walked(p), Truthful(Change!Record(k, p, n)),
               IF k = "F" THEN sent' = sent + n /\ sent' <= input.caps.total_bytes ELSE UNCHANGED sent
        PROVE  Takes(p)
    <3>1. TakesAs(p, Change!Record(k, p, n))
      BY <2>4, RecordFields DEF Change!Emit, TakesAs
    <3> QED BY <2>4, <3>1 DEF Takes
  <2>5. ASSUME NEW k \in {"F", "S", "L", "O", "G", "W", "B"}, NEW n,
               k = "G" => Change!Last(p) = Git /\ ~Change!Withheld(p),
               k = "W" => Change!Withheld(p),
               k \in {"F", "S", "B", "L", "O"} => Change!Plain(p),
               k \in {"F", "S", "B"} => Kind(p) = "file", k = "F" => n = size,
               k = "S" => Change!SkipsGenerated(p),
               k \in {"F", "B"} => ~Change!SkipsGenerated(p),
               k = "B" => size > input.caps.file_bytes,
               k = "L" => Kind(p) = "link", k = "O" => Kind(p) = "special"
        PROVE  Truthful(Change!Record(k, p, n))
    BY <1>2, <2>5, RecordFields DEF Truthful, Change!SkipsGenerated, Kind
  <2>6. CASE Change!Withheld(p)
    <3>1. ~Walked(p) /\ Truthful(Change!Record("W", p, 0)) /\ sent' = sent
      BY <2>3, <2>5, <2>6 DEF Walked, Change!Plain
    <3>2. Takes(p)
      BY <2>3, <2>4, <2>6, <3>1
    <3>3. Visits(p)
      BY <2>2, <2>6, <3>2 DEF Visits
    <3> QED BY <1>1, <1>3, <2>2, <2>6, <3>1, <3>3
  <2>7. CASE ~Change!Withheld(p) /\ Change!Last(p) = Git
    <3> DEFINE b == Change!CountBeneath(p)
               w == Weight(p)
    <3>1. ~Walked(p) /\ Truthful(Change!Record("G", p, b))
      BY <2>5, <2>7 DEF Walked, Change!Plain
    <3>2. /\ b \in Nat /\ w \in Nat
          /\ b = w \/ (count + 1 + b > input.caps.entries /\ count + 1 + w > input.caps.entries)
      BY <1>2, <1>6, <2>7, Counts DEF WalkTyped
    <3>3. count' = count + 1 + b
      BY <2>1, <2>7
    <3>4. CASE count' > input.caps.entries
      <4>1. Change!Stop(Change!EndRecord("C"))
        BY <2>3, <2>7, <3>4
      <4>2. count + 1 + w > input.caps.entries
        <5> HIDE DEF b, w
        <5> QED BY <3>2, <3>3, <3>4
      <4>3. Visits(p)
        BY <1>4, <4>1, <4>2 DEF Visits
      <4> QED BY <1>1, <1>3, <1>4, <3>2, <3>3, <4>1, <4>3
    <3>5. CASE ~(count' > input.caps.entries)
      <4>1. Change!Emit(Change!Record("G", p, b)) /\ next /\ UNCHANGED sent
        BY <2>3, <2>7, <3>5
      <4>2. count' = count + 1 + w
        <5> HIDE DEF b, w
        <5> QED BY <1>3, <3>2, <3>3, <3>5
      <4>3. Takes(p)
        BY <2>4, <3>1, <4>1
      <4>4. Visits(p)
        BY <3>5, <4>2, <4>3 DEF Visits
      <4> QED BY <1>1, <1>3, <3>2, <3>3, <4>1, <4>4
    <3> QED BY <3>4, <3>5
  <2>8. CASE ~Change!Withheld(p) /\ Change!Last(p) # Git
    <3>1. Change!Plain(p)
      BY <1>2, <2>8 DEF Change!Plain
    <3>2. count' = count + 1 + Weight(p) /\ ~(count' > input.caps.entries) /\ count' \in Nat
      BY <2>2, <2>8
    <3>3. CASE Kind(p) = "dir"
      <4>1. GoesInto(p) /\ sent' = sent
        BY <1>2, <2>3, <3>1, <3>3 DEF GoesInto, Walked, Kind
      <4> QED BY <1>1, <1>3, <3>2, <4>1 DEF Visits
    <3>4. CASE Kind(p) \in {"link", "special"}
      <4>1. ~Walked(p) /\ sent' = sent
        BY <2>3, <3>1, <3>4 DEF Walked, Kind
      <4>2. Takes(p)
        BY <2>3, <2>4, <2>5, <3>1, <3>4, <4>1 DEF Kind
      <4> QED BY <1>1, <1>3, <3>2, <4>1, <4>2 DEF Visits
    <3>5. CASE Kind(p) = "file"
      <4>1. ~Walked(p)
        BY <3>5 DEF Walked
      <4>2. CASE Change!SkipsGenerated(p)
        <5>1. Change!Emit(Change!Record("S", p, size)) /\ next /\ UNCHANGED sent
          BY <2>3, <3>1, <3>5, <4>2 DEF Kind
        <5>2. Truthful(Change!Record("S", p, size))
          BY <2>5, <3>1, <3>5, <4>2
        <5>3. Takes(p)
          BY <2>4, <4>1, <5>1, <5>2
        <5> QED BY <1>1, <1>3, <3>2, <5>1, <5>3 DEF Visits
      <4>3. CASE ~Change!SkipsGenerated(p)
        <5>1. \/ size > input.caps.file_bytes /\ Change!Emit(Change!Record("B", p, size)) /\ next /\ UNCHANGED sent
              \/ sent + size > input.caps.total_bytes /\ Change!Stop(Change!EndRecord("T"))
              \/ /\ ~(sent + size > input.caps.total_bytes)
                 /\ Change!Emit(Change!Record("F", p, size)) /\ next /\ sent' = sent + size
              \/ Change!Stop(Change!EndRecord("E"))
          BY <2>3, <3>1, <3>5, <4>3 DEF Kind
        <5>2. CASE size > input.caps.file_bytes /\ Change!Emit(Change!Record("B", p, size)) /\ next /\ UNCHANGED sent
          <6>1. Truthful(Change!Record("B", p, size))
            BY <2>5, <3>1, <3>5, <4>3, <5>2
          <6>2. Takes(p)
            BY <2>4, <4>1, <5>2, <6>1
          <6> QED BY <1>1, <1>3, <3>2, <5>2, <6>2 DEF Visits
        <5>3. CASE sent + size > input.caps.total_bytes /\ Change!Stop(Change!EndRecord("T"))
          <6>1. p \in Change!Tracked
            BY <1>2, <3>1, <3>5, <4>3 DEF Change!Tracked, Change!SkipsGenerated, Kind
          <6> QED BY <1>1, <1>3, <1>4, <3>2, <5>3, <6>1 DEF Visits
        <5>4. CASE /\ ~(sent + size > input.caps.total_bytes)
                   /\ Change!Emit(Change!Record("F", p, size)) /\ next /\ sent' = sent + size
          <6>1. Truthful(Change!Record("F", p, size))
            BY <2>5, <3>1, <3>5, <4>3
          <6>2. sent' <= input.caps.total_bytes /\ sent' \in Nat
            BY <1>3, <5>4
          <6>3. Takes(p)
            BY <2>4, <4>1, <5>4, <6>1, <6>2
          <6> QED BY <1>1, <3>2, <6>2, <6>3 DEF Visits
        <5>5. CASE Change!Stop(Change!EndRecord("E"))
          BY <1>1, <1>3, <1>4, <3>2, <5>5 DEF Visits
        <5> QED BY <5>1, <5>2, <5>3, <5>4, <5>5
      <4> QED BY <4>2, <4>3
    <3> QED BY <1>3, <3>3, <3>4, <3>5
  <2> QED BY <2>6, <2>7, <2>8
<1> QED BY <1>5, <1>6

\* What a step does to the coverage.
LEMMA StopsCovers ==
  ASSUME StopsHere
  PROVE  Stopped'
<1>1. PICK k \in Stops : records' = records \cup {Change!EndRecord(k)}
  BY DEF StopsHere, StopsAs
<1>2. Change!EndRecord(k).kind = k
  BY DEF Change!EndRecord
<1> QED BY <1>1, <1>2 DEF Stopped

LEMMA GrowsCover ==
  ASSUME input' = input, records \subseteq records', Covered,
         \A p \in Path, q \in Waiting :
           Change!Seen(p) /\ q \in Above(p) => Recorded(p)' \/ \E c \in Waiting' : c \in Above(p)
  PROVE  Covered'
<1>1. CASE Stopped
  BY <1>1 DEF Covered, Stopped
<1>2. CASE ~Stopped
  <2>1. \A p \in Path : Recorded(p) => Recorded(p)'
    BY DEF Recorded
  <2>2. \A p \in Path : Change!Seen(p)' = Change!Seen(p)
    BY SameTree
  <2> QED BY <1>2, <2>1, <2>2 DEF Covered
<1> QED BY <1>1, <1>2

LEMMA OpensCover ==
  ASSUME WalkTyped, OnTheWay, Covered, input' = input, stack # <<>>, todo = {},
         stack' = Change!Front(stack), todo' = Change!Children(Change!Last(stack)),
         records \subseteq records', Change!Last(stack) # <<>> => \E r \in records' : r.path = Change!Last(stack)
  PROVE  Covered'
<1> DEFINE dir == Change!Last(stack)
<1>1. stack \in Seq(Path \cup {<<>>})
  BY DEF WalkTyped
<1>2. Change!Range(stack) = Change!Range(stack)' \cup {dir}
  <2>1. Change!Range(stack)' = Change!Range(Change!Front(stack))
    BY DEF Change!Range
  <2> QED BY <1>1, <2>1, RangeOfStack
<1>3. Waiting = Change!Range(stack)' \cup {dir} /\ Waiting' = Change!Children(dir) \cup Change!Range(stack)'
  BY <1>2 DEF Waiting
<1> HIDE DEF dir
<1>4. ASSUME NEW p \in Path, NEW q \in Waiting, Change!Seen(p), q \in Above(p)
      PROVE  Recorded(p)' \/ \E c \in Waiting' : c \in Above(p)
  <2>1. CASE q # dir
    BY <1>3, <1>4, <2>1
  <2>2. CASE q = dir /\ q = p
    BY <2>2, PathAssumption DEF dir, Recorded
  <2>3. CASE q = dir /\ q # p
    <3>1. PICK c \in Above(p) \cap Path : Change!Front(c) = q
      BY <1>4, <2>3, NextOnTheWay
    <3>2. input \in Inputs
      BY DEF WalkTyped
    <3>3. c # <<>>
      BY PathLength, EmptySeq
    <3>4. Change!Lives(c)
      <4>1. CASE c = p
        BY <1>4, <4>1 DEF Change!Seen
      <4>2. CASE c # p
        <5>1. Kind(c) = "dir"
          BY <1>4, <3>1, <3>2, <3>3, <4>2, WayIsWalked
        <5> QED BY <5>1 DEF Kind, Change!Lives
      <4> QED BY <4>1, <4>2
    <3>5. c \in Change!Children(dir)
      BY <2>3, <3>1, <3>4 DEF Change!Children
    <3> QED BY <1>3, <3>1, <3>5
  <2> QED BY <2>1, <2>2, <2>3
<1> QED BY <1>4, GrowsCover

LEMMA VisitsCover ==
  ASSUME WalkTyped, OnTheWay, Covered, input' = input, NEW p \in todo, GoesInto(p) \/ Takes(p)
  PROVE  Covered'
<1>1. p \in Path /\ Change!Seen(p) /\ input \in Inputs /\ stack \in Seq(Path \cup {<<>>})
  BY DEF WalkTyped, OnTheWay
<1>2. CASE GoesInto(p)
  <2>1. Change!Range(stack)' = Change!Range(stack) \cup {p}
    <3>1. stack' = Append(stack, p)
      BY <1>2 DEF GoesInto
    <3> QED BY <1>1, <3>1, StackGrows
  <2>2. Waiting \subseteq Waiting' /\ records' = records
    BY <1>2, <2>1 DEF GoesInto, Waiting
  <2> QED BY <2>2, GrowsCover
<1>3. CASE Takes(p)
  <2>1. /\ Waiting \subseteq Waiting' \cup {p} /\ Recorded(p)' /\ records \subseteq records' /\ ~Walked(p)
    BY <1>3 DEF Takes, TakesAs, Waiting, Recorded
  <2>2. ASSUME NEW o \in Path, NEW q \in Waiting, Change!Seen(o), q \in Above(o)
        PROVE  Recorded(o)' \/ \E c \in Waiting' : c \in Above(o)
    <3>1. CASE q # p
      BY <2>1, <2>2, <3>1
    <3>2. CASE q = p /\ o = p
      BY <2>1, <3>2
    <3>3. CASE q = p /\ o # p
      <4>1. p # <<>>
        BY <1>1, PathLength, EmptySeq
      <4>2. Kind(p) = "dir" /\ ~Change!Withheld(p) /\ Change!Last(p) # Git
        BY <1>1, <2>2, <3>3, <4>1, WayIsWalked
      <4>3. Walked(p)
        BY <1>1, <4>2 DEF Walked, Change!Plain
      <4> QED BY <2>1, <4>3
    <3> QED BY <3>1, <3>2, <3>3
  <2> QED BY <2>1, <2>2, GrowsCover
<1> QED BY <1>2, <1>3

-----------------------------------------------------------------------------
(* The walk's steps *)

LEMMA WalkStarts == Change!InitWith(Inputs) => WalkInv
<1> SUFFICES ASSUME Change!InitWith(Inputs) PROVE WalkInv
  OBVIOUS
<1>1. /\ input \in Inputs /\ todo = {} /\ stack = <<<<>>>> /\ records = {} /\ whole = FALSE
      /\ count = 0 /\ sent = 0
      /\ pc = (IF Change!BaselineError(input.tar) THEN "done" ELSE "walk")
      /\ result.status = (IF Change!BaselineError(input.tar) THEN "infrastructure" ELSE "none")
  BY DEF Change!InitWith, Change!NoResult
<1>2. stack \in Seq(Path \cup {<<>>}) /\ Change!Range(stack) = {<<>>}
  <2>1. stack \in Seq(Path \cup {<<>>}) /\ DOMAIN stack = {1} /\ stack[1] = <<>>
    BY <1>1
  <2> QED BY <2>1 DEF Change!Range
<1>3. WalkTyped
  BY <1>1, <1>2 DEF WalkTyped
<1>4. OnTheWay /\ RecordsTrue
  BY <1>1, <1>2 DEF OnTheWay, RecordsTrue
<1>5. Covered
  BY <1>2, AboveEnds DEF Covered, Waiting
<1> QED BY <1>1, <1>3, <1>4, <1>5 DEF WalkInv

\* What stays as it is when a step only moves the walk on.
LEMMA StaysTrue ==
  ASSUME input' = input, RecordsTrue, records' \subseteq records
  PROVE  RecordsTrue'
<1>1. \A r \in records : r.kind \in Stops \/ Truthful(r)'
  BY SameTree DEF RecordsTrue
<1> QED BY <1>1 DEF RecordsTrue, Stops

LEMMA MoreIsTrue ==
  ASSUME input' = input, RecordsTrue, NEW r, r.kind \in Stops \/ Truthful(r), records' = records \cup {r}
  PROVE  RecordsTrue'
<1>1. \A s \in records' : s.kind \in Stops \/ Truthful(s)'
  BY SameTree DEF RecordsTrue
<1> QED BY <1>1 DEF RecordsTrue, Stops

\* A step that ends the walk.
LEMMA StopsStep ==
  ASSUME WalkTyped, OnTheWay, RecordsTrue, StopsHere, UNCHANGED <<input, whole, result>>, count' \in Nat, sent' \in Nat,
         pc = "walk", result.status # "ok"
  PROVE  WalkInv'
<1>1. /\ pc' = "read" /\ UNCHANGED <<stack, todo>>
      /\ \E k \in Stops : records' = records \cup {Change!EndRecord(k)}
  BY DEF StopsHere, StopsAs
<1>2. WalkTyped'
  BY <1>1, SameTree DEF WalkTyped
<1>3. OnTheWay'
  <2>1. Change!Range(stack)' = Change!Range(stack)
    BY <1>1 DEF Change!Range
  <2> QED BY <1>1, <2>1, SameTree DEF OnTheWay
<1>4. RecordsTrue'
  <2>1. PICK k \in Stops : records' = records \cup {Change!EndRecord(k)}
    BY <1>1
  <2>2. Change!EndRecord(k).kind \in Stops
    BY DEF Change!EndRecord
  <2> QED BY <2>1, <2>2, MoreIsTrue
<1>5. Complete'
  BY StopsCovers DEF Complete
<1> QED BY <1>1, <1>2, <1>3, <1>4, <1>5 DEF WalkInv

LEMMA OpenStep == WalkInv /\ Change!OpenDir => WalkInv'
<1> SUFFICES ASSUME WalkInv, Change!OpenDir PROVE WalkInv'
  OBVIOUS
<1> DEFINE dir == Change!Last(stack)
<1>1. /\ pc = "walk" /\ todo = {} /\ stack # <<>> /\ UNCHANGED <<input, count, whole, result>>
      /\ WalkTyped /\ OnTheWay /\ RecordsTrue /\ Covered
  BY DEF Change!OpenDir, WalkInv
<1>2. result.status # "ok"
  BY <1>1 DEF WalkInv
<1>3. Change!BaselineError(input.tar) => FALSE
  BY <1>1 DEF WalkTyped
<1>4. /\ stack \in Seq(Path \cup {<<>>}) /\ dir \in Change!Range(stack) /\ Change!Front(stack) \in Seq(Path \cup {<<>>})
      /\ Change!Range(Change!Front(stack)) \subseteq Change!Range(stack)
  <2>1. stack \in Seq(Path \cup {<<>>})
    BY <1>1 DEF WalkTyped
  <2> QED BY <1>1, <2>1, RangeOfStack
<1>5. dir = <<>> \/ Walked(dir)
  BY <1>1, <1>4 DEF OnTheWay
<1>6. CASE /\ stack' = Change!Front(stack) /\ todo' = Change!Children(dir)
           /\ dir = <<>> => UNCHANGED records
           /\ dir # <<>> => \E n : Change!Emit(Change!Record("D", dir, n))
           /\ UNCHANGED <<pc, sent>>
  <2>1. \A p \in Change!Children(dir) : p \in Path /\ Change!Seen(p)
    BY <1>1, <1>5, ChildrenSeen DEF WalkTyped
  <2>2. Change!Range(stack)' = Change!Range(Change!Front(stack))
    BY <1>6 DEF Change!Range
  <2>3. WalkTyped'
    BY <1>1, <1>3, <1>4, <1>6, <2>1, SameTree DEF WalkTyped
  <2>4. OnTheWay'
    <3>1. \A p \in todo' : Change!Seen(p)'
      BY <1>1, <1>6, <2>1, SameTree
    <3>2. \A d \in Change!Range(stack)' : d = <<>> \/ Walked(d)'
      BY <1>1, <1>4, <2>2, SameTree DEF OnTheWay
    <3> QED BY <3>1, <3>2 DEF OnTheWay
  <2>5. RecordsTrue'
    <3>1. CASE dir = <<>>
      BY <1>1, <1>6, <3>1, StaysTrue
    <3>2. CASE dir # <<>>
      <4>0. PICK n : Change!Emit(Change!Record("D", dir, n))
        BY <1>6, <3>2
      <4> DEFINE r == Change!Record("D", dir, n)
      <4>1. records' = records \cup {r}
        BY <4>0 DEF Change!Emit
      <4>2. Walked(dir) /\ dir \in Path /\ Change!Seen(dir)
        BY <1>5, <3>2 DEF Walked, Change!Plain
      <4>3. /\ r.kind = "D" /\ r.path = dir
            /\ r.body = input.tree[dir].body /\ r.exec = input.tree[dir].exec
        BY RecordFields
      <4> HIDE DEF r, dir
      <4>4. Truthful(r)
        BY <4>2, <4>3 DEF Truthful
      <4> QED BY <1>1, <4>1, <4>4, MoreIsTrue
    <3> QED BY <3>1, <3>2
  <2>6. Covered'
    <3>1. dir # <<>> => \E r \in records' : r.path = dir
      BY <1>6, RecordFields DEF Change!Emit
    <3>2. records \subseteq records'
      BY <1>6 DEF Change!Emit
    <3> QED BY <1>1, <1>6, <3>1, <3>2, OpensCover
  <2> QED BY <1>1, <1>2, <1>6, <2>3, <2>4, <2>5, <2>6 DEF WalkInv
<1>7. CASE Change!Stop(Change!EndRecord("E"))
  <2>1. StopsHere /\ UNCHANGED sent
    BY <1>7 DEF Change!Stop, Change!Emit, StopsHere, StopsAs, Stops
  <2>2. count' \in Nat /\ sent' \in Nat
    BY <1>1, <2>1 DEF WalkTyped
  <2>3. UNCHANGED <<input, whole, result>>
    BY <1>1
  <2> QED BY <1>1, <1>2, <2>1, <2>2, <2>3, StopsStep
<1>8. \/ /\ stack' = Change!Front(stack) /\ todo' = Change!Children(dir)
         /\ dir = <<>> => UNCHANGED records
         /\ dir # <<>> => \E n : Change!Emit(Change!Record("D", dir, n))
         /\ UNCHANGED <<pc, sent>>
      \/ Change!Stop(Change!EndRecord("E"))
  BY Zenon DEF Change!OpenDir
<1> QED BY <1>6, <1>7, <1>8

LEMMA VisitStep == WalkInv /\ Change!Visit => WalkInv'
<1> SUFFICES ASSUME WalkInv, Change!Visit PROVE WalkInv'
  OBVIOUS
<1>1. /\ pc = "walk" /\ UNCHANGED <<input, whole, result>> /\ count' \in Nat /\ sent' \in Nat
      /\ StopsHere \/ \E p \in todo : GoesInto(p) \/ Takes(p)
  BY VisitShapes DEF WalkInv, Visits, StopsHere, Stops
<1>2. WalkTyped /\ OnTheWay /\ RecordsTrue /\ Covered
  BY <1>1 DEF WalkInv
<1>3. result.status # "ok"
  BY <1>1 DEF WalkInv
<1>4. Change!BaselineError(input.tar) => FALSE
  BY <1>1, <1>2 DEF WalkTyped
<1>5. CASE StopsHere
  BY <1>1, <1>2, <1>3, <1>5, StopsStep
<1>6. ASSUME NEW p \in todo, GoesInto(p) \/ Takes(p) PROVE WalkInv'
  <2>1. Covered'
    BY <1>1, <1>2, <1>6, VisitsCover
  <2>2. CASE GoesInto(p)
    <3>1. Walked(p) /\ stack' = Append(stack, p) /\ todo' = todo \ {p} /\ UNCHANGED <<pc, records>>
      BY <2>2 DEF GoesInto
    <3>2. stack' \in Seq(Path \cup {<<>>}) /\ Change!Range(stack)' = Change!Range(stack) \cup {p}
      <4>1. p \in Path
        BY <1>2 DEF WalkTyped
      <4> QED BY <1>2, <3>1, <4>1, StackGrows
    <3>3. WalkTyped'
      BY <1>1, <1>2, <1>4, <3>1, <3>2, SameTree DEF WalkTyped
    <3>4. OnTheWay'
      <4>1. \A q \in todo' : Change!Seen(q)'
        BY <1>1, <1>2, <3>1, SameTree DEF OnTheWay
      <4>2. \A d \in Change!Range(stack)' : d = <<>> \/ Walked(d)'
        BY <1>1, <1>2, <3>1, <3>2, SameTree DEF OnTheWay
      <4> QED BY <4>1, <4>2 DEF OnTheWay
    <3>5. RecordsTrue'
      BY <1>1, <1>2, <3>1, StaysTrue
    <3> QED BY <1>1, <1>3, <2>1, <3>1, <3>3, <3>4, <3>5 DEF WalkInv
  <2>3. CASE Takes(p)
    <3>1. todo' = todo \ {p} /\ UNCHANGED <<pc, stack>>
      BY <2>3 DEF Takes
    <3>2. PICK r : Truthful(r) /\ records' = records \cup {r}
      BY <2>3 DEF Takes, TakesAs
    <3>3. WalkTyped'
      BY <1>1, <1>2, <1>4, <3>1, SameTree DEF WalkTyped
    <3>4. OnTheWay'
      <4>1. Change!Range(stack)' = Change!Range(stack)
        BY <3>1 DEF Change!Range
      <4> QED BY <1>1, <1>2, <3>1, <4>1, SameTree DEF OnTheWay
    <3>5. RecordsTrue'
      BY <1>1, <1>2, <3>2, MoreIsTrue
    <3> QED BY <1>1, <1>3, <2>1, <3>1, <3>3, <3>4, <3>5 DEF WalkInv
  <2> QED BY <1>6, <2>2, <2>3
<1> QED BY <1>1, <1>5, <1>6

\* When everything has been looked at, everything that can be seen is recorded.
LEMMA EndStep == WalkInv /\ Change!EndWalk => WalkInv'
<1> SUFFICES ASSUME WalkInv, Change!EndWalk PROVE WalkInv'
  OBVIOUS
<1>1. /\ pc = "walk" /\ todo = {} /\ stack = <<>> /\ pc' = "read"
      /\ UNCHANGED <<input, stack, todo, count, sent, records, whole, result>>
  BY DEF Change!EndWalk
<1>2. WalkTyped /\ OnTheWay /\ RecordsTrue /\ Covered /\ result.status # "ok"
  BY <1>1 DEF WalkInv
<1>3. Change!BaselineError(input.tar) => FALSE
  BY <1>1, <1>2 DEF WalkTyped
<1>4. Waiting = {}
  BY <1>1 DEF Waiting, Change!Range
<1>5. Complete
  BY <1>2, <1>4 DEF Covered, Complete
<1>6. Complete'
  BY <1>1, <1>5, SameTree DEF Complete, Stopped, Recorded, Stops
<1>7. WalkTyped'
  BY <1>1, <1>2, <1>3, SameTree DEF WalkTyped
<1>8. OnTheWay'
  <2>1. Change!Range(stack)' = Change!Range(stack)
    BY <1>1 DEF Change!Range
  <2> QED BY <1>1, <1>2, <2>1, SameTree DEF OnTheWay
<1>9. RecordsTrue'
  BY <1>1, <1>2, StaysTrue
<1> QED BY <1>1, <1>2, <1>6, <1>7, <1>8, <1>9 DEF WalkInv

LEMMA ReadStep == WalkInv /\ Change!ReadRecords => WalkInv'
<1> SUFFICES ASSUME WalkInv, Change!ReadRecords PROVE WalkInv'
  OBVIOUS
<1>1. /\ pc = "read" /\ pc' = "compute" /\ UNCHANGED <<input, stack, todo, count, sent, result>>
      /\ \/ whole' = TRUE /\ UNCHANGED records
         \/ whole' = FALSE /\ records' = {}
  BY DEF Change!ReadRecords
<1>2. WalkTyped /\ OnTheWay /\ RecordsTrue /\ Complete /\ result.status # "ok"
  BY <1>1 DEF WalkInv
<1>3. Change!BaselineError(input.tar) => FALSE
  BY <1>1, <1>2 DEF WalkTyped
<1>4. whole' = TRUE => Complete'
  BY <1>1, <1>2, SameTree DEF Complete, Stopped, Recorded, Stops
<1>5. WalkTyped'
  BY <1>1, <1>2, <1>3, SameTree DEF WalkTyped
<1>6. OnTheWay'
  <2>1. Change!Range(stack)' = Change!Range(stack)
    BY <1>1 DEF Change!Range
  <2> QED BY <1>1, <1>2, <2>1, SameTree DEF OnTheWay
<1>7. RecordsTrue'
  BY <1>1, <1>2, StaysTrue
<1> QED BY <1>1, <1>2, <1>4, <1>5, <1>6, <1>7 DEF WalkInv

\* What is computed depends on the records, on what was read of them, and on the input.
LEMMA SameVerdict ==
  ASSUME input' = input, records' = records, whole' = whole
  PROVE  /\ Change!RefusesWalk' = Change!RefusesWalk
         /\ Change!Changes' = Change!Changes /\ Change!Excluded' = Change!Excluded
<1>1. Change!Base' = Change!Base /\ \A p : Change!Based(p)' = Change!Based(p)
  BY DEF Change!Base, Change!Based, Change!BaselineFiles, Change!Withheld
<1>2. \A p : Change!Generated(p)' = Change!Generated(p)
  BY DEF Change!Generated
<1>3. \A r : Change!Unwanted(r)' = Change!Unwanted(r)
  BY <1>1, <1>2 DEF Change!Unwanted
<1>4. \A k : Change!Of(k)' = Change!Of(k)
  BY DEF Change!Of
<1>5. Change!Sent' = Change!Sent
  BY <1>3, <1>4 DEF Change!Sent
<1>6. Change!RefusesWalk' = Change!RefusesWalk
  BY <1>3, <1>4 DEF Change!RefusesWalk
<1>7. Change!Changes' = Change!Changes
  BY <1>1, <1>5 DEF Change!Changes
<1>8. Change!BaselineDirs(input.tar)' = Change!BaselineDirs(input.tar)
  BY DEF Change!BaselineDirs, Change!Withheld
<1>9. Change!Excluded' = Change!Excluded
  BY <1>1, <1>2, <1>3, <1>4, <1>8 DEF Change!Excluded
<1> QED BY <1>6, <1>7, <1>9

LEMMA ComputeStep == WalkInv /\ Change!ComputeChanges => WalkInv'
<1> SUFFICES ASSUME WalkInv, Change!ComputeChanges PROVE WalkInv'
  OBVIOUS
<1>1. /\ pc = "compute" /\ pc' = "done" /\ UNCHANGED <<input, stack, todo, count, sent, records, whole>>
      /\ result' = (IF Change!RefusesWalk \/ Change!RefusesChanges THEN Change!NoResult("refused")
                    ELSE [status |-> "ok", changes |-> Change!Changes, excluded |-> Change!Excluded])
  BY DEF Change!ComputeChanges
<1>2. WalkTyped /\ OnTheWay /\ RecordsTrue /\ (whole = TRUE => Complete)
  BY <1>1 DEF WalkInv
<1>3. Change!BaselineError(input.tar) => FALSE
  BY <1>1, <1>2 DEF WalkTyped
<1>4. result'.status \in {"refused", "ok"}
  BY <1>1 DEF Change!NoResult
<1>5. WalkTyped'
  BY <1>1, <1>2, <1>3, <1>4, SameTree DEF WalkTyped
<1>6. OnTheWay'
  <2>1. Change!Range(stack)' = Change!Range(stack)
    BY <1>1 DEF Change!Range
  <2> QED BY <1>1, <1>2, <2>1, SameTree DEF OnTheWay
<1>7. RecordsTrue'
  BY <1>1, <1>2, StaysTrue
<1>8. ASSUME result'.status = "ok"
      PROVE  /\ ~Change!RefusesWalk' /\ Complete'
             /\ result'.changes = Change!Changes' /\ result'.excluded = Change!Excluded'
  <2>1. /\ ~Change!RefusesWalk
        /\ result'.changes = Change!Changes /\ result'.excluded = Change!Excluded
    BY <1>1, <1>8 DEF Change!NoResult
  <2>2. Complete
    BY <1>2, <2>1 DEF Change!RefusesWalk, WalkTyped
  <2>3. Complete'
    BY <1>1, <2>2, SameTree DEF Complete, Stopped, Recorded, Stops
  <2> QED BY <2>1, <2>3, <1>1, SameVerdict
<1> QED BY <1>1, <1>5, <1>6, <1>7, <1>8 DEF WalkInv

LEMMA WalkStep == WalkInv /\ Change!Next => WalkInv'
  BY OpenStep, VisitStep, EndStep, ReadStep, ComputeStep DEF Change!Next

LEMMA WalkIsTyped == WalkInv => Change!TypeOK
<1> SUFFICES ASSUME WalkInv PROVE Change!TypeOK
  OBVIOUS
<1>1. WalkTyped /\ RecordsTrue
  BY DEF WalkInv
<1>2. Change!Range(stack) \subseteq Path \cup {<<>>}
  <2>1. stack \in Seq(Path \cup {<<>>})
    BY <1>1 DEF WalkTyped
  <2> QED BY <2>1, RangeOfStack
<1>3. \A r \in records : r.kind \in {"D", "F", "S", "L", "O", "G", "W", "B", "C", "T", "E"}
  BY <1>1 DEF RecordsTrue, Truthful, Stops
<1> QED BY <1>1, <1>2, <1>3 DEF WalkTyped, Change!TypeOK

-----------------------------------------------------------------------------
(* The change set rebuilds the tree *)

\* What the baseline holds: withheld paths and repositories are not in it.
LEMMA BaseFacts ==
  ASSUME ~Change!BaselineError(input.tar)
  PROVE  \A p \in Change!Base : /\ Change!Based(p).path = p /\ ~Change!Withheld(p) /\ ~Change!GitComponent(p)
<1> SUFFICES ASSUME NEW p \in Change!Base
             PROVE  /\ Change!Based(p).path = p /\ ~Change!Withheld(p) /\ ~Change!GitComponent(p)
  OBVIOUS
<1>1. PICK m \in Change!BaselineFiles(input.tar) : m.path = p
  BY DEF Change!Base
<1>2. Change!Based(p).path = p
  BY <1>1 DEF Change!Based
<1>3. m \in input.tar /\ ~Change!Withheld(m.path)
  BY <1>1 DEF Change!BaselineFiles
<1>4. ~Change!GitComponent(m.path)
  BY <1>3 DEF Change!BaselineError
<1> QED BY <1>1, <1>2, <1>3, <1>4

\* A record that is sent is one of a tracked file, as the tree holds it, and every
\* tracked file has one.
LEMMA SentIsTracked ==
  ASSUME RecordsTrue, Complete, ~Change!RefusesWalk
  PROVE  /\ \A r \in Change!Sent : /\ r.path \in Change!Tracked
                                   /\ r.body = input.tree[r.path].body /\ r.exec = input.tree[r.path].exec
         /\ \A p \in Change!Tracked : \E r \in Change!Sent : r.path = p
<1>1. \A r \in records : r.kind \notin {"C", "T", "E", "W", "B"}
  BY DEF Change!RefusesWalk, Change!Of
<1>2. \A r \in records : r.kind \in {"L", "O", "S"} => Change!Unwanted(r)
  BY DEF Change!RefusesWalk, Change!Of
<1>3. \A r \in records : Truthful(r)
  BY <1>1 DEF RecordsTrue, Stops
<1>4. \A p \in Path : Change!Seen(p) => Recorded(p)
  BY <1>1 DEF Complete, Stopped, Stops
<1>5. ASSUME NEW r \in Change!Sent
      PROVE  /\ r.path \in Change!Tracked
             /\ r.body = input.tree[r.path].body /\ r.exec = input.tree[r.path].exec
  <2>1. r \in records /\ r.kind = "F" /\ ~Change!Unwanted(r)
    BY DEF Change!Sent, Change!Of
  <2>2. Truthful(r)
    BY <1>3, <2>1
  <2> QED BY <2>1, <2>2 DEF Truthful, Change!Tracked, Change!Unwanted, Kind
<1>6. ASSUME NEW p \in Change!Tracked PROVE \E r \in Change!Sent : r.path = p
  <2>1. p \in Path /\ Change!Plain(p) /\ Kind(p) = "file" /\ (p \in Change!Base \/ ~Change!Generated(p))
    BY DEF Change!Tracked, Kind
  <2>2. PICK r \in records : r.path = p
    BY <1>4, <2>1 DEF Change!Plain, Recorded
  <2>3. Truthful(r) /\ r.kind \notin {"C", "T", "E", "W", "B"} /\ (r.kind \in {"L", "O", "S"} => Change!Unwanted(r))
    BY <1>1, <1>2, <1>3
  <2>4. ~Change!Unwanted(r)
    BY <2>1, <2>2 DEF Change!Unwanted
  <2>5. r.kind = "F"
    BY <2>1, <2>2, <2>3, <2>4 DEF Truthful, Walked, Change!Plain
  <2> QED BY <2>2, <2>4, <2>5 DEF Change!Sent, Change!Of
<1> QED BY <1>5, <1>6

\* What can be seen and is no directory is tracked or named as left out.
LEMMA NothingIsLost ==
  ASSUME RecordsTrue, Complete, ~Change!RefusesWalk, ~Change!BaselineError(input.tar)
  PROVE  /\ \A p \in Path : Change!Seen(p) /\ input.tree[p].kind # "dir" =>
              p \in Change!Tracked \/ \E e \in Change!Excluded : e.path = p
         /\ \A e \in Change!Excluded : e.path \notin Change!Base
<1>1. \A r \in records : r.kind \notin {"C", "T", "E", "W", "B"}
  BY DEF Change!RefusesWalk, Change!Of
<1>2. \A r \in records : r.kind \in {"L", "O", "S"} => Change!Unwanted(r)
  BY DEF Change!RefusesWalk, Change!Of
<1>3. \A r \in records : Truthful(r)
  BY <1>1 DEF RecordsTrue, Stops
<1>4. \A p \in Path : Change!Seen(p) => Recorded(p)
  BY <1>1 DEF Complete, Stopped, Stops
<1>5. ASSUME NEW p \in Path, Change!Seen(p), input.tree[p].kind # "dir"
      PROVE  p \in Change!Tracked \/ \E e \in Change!Excluded : e.path = p
  <2>1. PICK r \in records : r.path = p
    BY <1>4, <1>5 DEF Recorded
  <2>2. Truthful(r) /\ r.kind \notin {"C", "T", "E", "W", "B"} /\ (r.kind \in {"L", "O", "S"} => Change!Unwanted(r))
    BY <1>1, <1>2, <1>3
  <2>3. r.kind \in {"F", "S", "L", "O", "G"}
    BY <1>5, <2>1, <2>2 DEF Truthful, Walked, Kind
  <2>4. CASE r.kind = "G"
    <3>1. [path |-> r.path, reason |-> "git", entries |-> r.size + 1] \in Change!Excluded
      BY <2>4 DEF Change!Excluded, Change!Of
    <3> QED BY <2>1, <3>1
  <2>5. CASE r.kind \in {"F", "S", "L", "O"} /\ Change!Unwanted(r)
    <3>1. [path |-> r.path, reason |-> "generated", entries |-> 1] \in Change!Excluded
      BY <2>5 DEF Change!Excluded, Change!Of
    <3> QED BY <2>1, <3>1
  <2>6. CASE r.kind = "F" /\ ~Change!Unwanted(r)
    <3>1. r \in Change!Sent
      BY <2>6 DEF Change!Sent, Change!Of
    <3> QED BY <2>1, <3>1, SentIsTracked
  <2> QED BY <2>2, <2>3, <2>4, <2>5, <2>6
<1>6. ASSUME NEW e \in Change!Excluded PROVE e.path \notin Change!Base
  <2>1. \/ \E r \in Change!Of({"G"}) : e.path = r.path
        \/ \E r \in records : e.path = r.path /\ Change!Unwanted(r)
        \/ \E r \in records : e.path = r.path /\ r.path \notin Change!Base
    BY DEF Change!Excluded, Change!Of
  <2>2. ASSUME NEW r \in Change!Of({"G"}) PROVE r.path \notin Change!Base
    <3>1. r.path \in Path /\ Change!Last(r.path) = Git
      BY <1>3 DEF Change!Of, Truthful
    <3>2. Change!GitComponent(r.path)
      <4>1. Len(r.path) \in DOMAIN r.path
        BY <3>1, PathLength
      <4> QED BY <3>1, <4>1 DEF Change!Last, Change!GitComponent
    <3> QED BY <3>2, BaseFacts
  <2> QED BY <2>1, <2>2 DEF Change!Unwanted
<1> QED BY <1>5, <1>6

EntryOf(p) == [path |-> p, body |-> input.tree[p].body, exec |-> input.tree[p].exec]
Same(p)    == Change!Based(p).body = input.tree[p].body /\ Change!Based(p).exec = input.tree[p].exec

\* A change is of a tracked file that is new or not as it was, or deletes what is
\* tracked no more; and there is one for each of them.
LEMMA ChangesAreDifferences ==
  ASSUME RecordsTrue, Complete, ~Change!RefusesWalk, ~Change!BaselineError(input.tar)
  PROVE  /\ \A c \in Change!Changes :
              \/ /\ c.op # "deleted" /\ c.path \in Change!Tracked
                 /\ c.body = input.tree[c.path].body /\ c.exec = input.tree[c.path].exec
                 /\ ~(c.path \in Change!Base /\ Same(c.path))
              \/ c.op = "deleted" /\ c.path \in Change!Base \ Change!Tracked
         /\ \A p \in Change!Tracked : ~(p \in Change!Base /\ Same(p)) =>
              \E c \in Change!Changes : c.op # "deleted" /\ c.path = p
         /\ \A p \in Change!Base \ Change!Tracked : \E c \in Change!Changes : c.path = p
<1>1. \A r \in Change!Sent : /\ r.path \in Change!Tracked
                             /\ r.body = input.tree[r.path].body /\ r.exec = input.tree[r.path].exec
  BY SentIsTracked
<1>2. \A p \in Change!Tracked : \E r \in Change!Sent : r.path = p
  BY SentIsTracked
<1>3. \A op, r : /\ Change!Entry(op, r).op = op /\ Change!Entry(op, r).path = r.path
                 /\ Change!Entry(op, r).body = r.body /\ Change!Entry(op, r).exec = r.exec
  BY DEF Change!Entry
<1>4. \A p \in Change!Base : Change!Based(p).path = p
  BY BaseFacts
<1>5. ASSUME NEW c \in Change!Changes
      PROVE  \/ \E r \in Change!Sent : /\ \E op \in {"added", "modified", "mode"} : c = Change!Entry(op, r)
                                       /\ ~(r.path \in Change!Base /\ Same(r.path))
             \/ \E p \in Change!Base : p \notin {r.path : r \in Change!Sent} /\ c = Change!Entry("deleted", Change!Based(p))
  <2>1. \/ \E r \in Change!Sent : c = Change!Entry("added", r) /\ r.path \notin Change!Base
        \/ \E r \in Change!Sent : c = Change!Entry("modified", r) /\ r.body # Change!Based(r.path).body
        \/ \E r \in Change!Sent : c = Change!Entry("mode", r) /\ r.exec # Change!Based(r.path).exec
        \/ \E p \in Change!Base \ {r.path : r \in Change!Sent} : c = Change!Entry("deleted", Change!Based(p))
    BY DEF Change!Changes
  <2>2. CASE \E r \in Change!Sent : c = Change!Entry("added", r) /\ r.path \notin Change!Base
    BY <2>2
  <2>3. CASE \E r \in Change!Sent : c = Change!Entry("modified", r) /\ r.body # Change!Based(r.path).body
    BY <1>1, <2>3 DEF Same
  <2>4. CASE \E r \in Change!Sent : c = Change!Entry("mode", r) /\ r.exec # Change!Based(r.path).exec
    BY <1>1, <2>4 DEF Same
  <2>5. CASE \E p \in Change!Base \ {r.path : r \in Change!Sent} : c = Change!Entry("deleted", Change!Based(p))
    BY <2>5
  <2> QED BY <2>1, <2>2, <2>3, <2>4, <2>5
<1>6. ASSUME NEW c \in Change!Changes
      PROVE  \/ /\ c.op # "deleted" /\ c.path \in Change!Tracked
                /\ c.body = input.tree[c.path].body /\ c.exec = input.tree[c.path].exec
                /\ ~(c.path \in Change!Base /\ Same(c.path))
             \/ c.op = "deleted" /\ c.path \in Change!Base \ Change!Tracked
  <2>1. CASE \E r \in Change!Sent : /\ \E op \in {"added", "modified", "mode"} : c = Change!Entry(op, r)
                                    /\ ~(r.path \in Change!Base /\ Same(r.path))
    <3>1. PICK r \in Change!Sent : /\ \E op \in {"added", "modified", "mode"} : c = Change!Entry(op, r)
                                   /\ ~(r.path \in Change!Base /\ Same(r.path))
      BY <2>1
    <3>2. c.op \in {"added", "modified", "mode"} /\ c.path = r.path /\ c.body = r.body /\ c.exec = r.exec
      BY <1>3, <3>1
    <3> QED BY <1>1, <3>1, <3>2
  <2>2. CASE \E p \in Change!Base : p \notin {r.path : r \in Change!Sent} /\ c = Change!Entry("deleted", Change!Based(p))
    <3>1. PICK p \in Change!Base : p \notin {r.path : r \in Change!Sent} /\ c = Change!Entry("deleted", Change!Based(p))
      BY <2>2
    <3>2. c.op = "deleted" /\ c.path = p
      BY <1>3, <1>4, <3>1
    <3> QED BY <1>2, <3>1, <3>2
  <2> QED BY <1>5, <2>1, <2>2
<1>7. ASSUME NEW p \in Change!Tracked, ~(p \in Change!Base /\ Same(p))
      PROVE  \E c \in Change!Changes : c.op # "deleted" /\ c.path = p
  <2>1. PICK r \in Change!Sent : r.path = p
    BY <1>2
  <2>2. r.body = input.tree[p].body /\ r.exec = input.tree[p].exec
    BY <1>1, <2>1
  <2>3. CASE p \notin Change!Base
    <3>1. Change!Entry("added", r) \in Change!Changes
      BY <2>1, <2>3 DEF Change!Changes
    <3> QED BY <1>3, <2>1, <3>1
  <2>4. CASE p \in Change!Base /\ r.body # Change!Based(p).body
    <3>1. Change!Entry("modified", r) \in Change!Changes
      BY <2>1, <2>4 DEF Change!Changes
    <3> QED BY <1>3, <2>1, <3>1
  <2>5. CASE p \in Change!Base /\ r.body = Change!Based(p).body
    <3>1. r.exec # Change!Based(p).exec
      BY <1>7, <2>2, <2>5 DEF Same
    <3>2. Change!Entry("mode", r) \in Change!Changes
      BY <2>1, <2>5, <3>1 DEF Change!Changes
    <3> QED BY <1>3, <2>1, <3>2
  <2> QED BY <2>3, <2>4, <2>5
<1>8. ASSUME NEW p \in Change!Base \ Change!Tracked PROVE \E c \in Change!Changes : c.path = p
  <2>1. p \notin {r.path : r \in Change!Sent}
    BY <1>1
  <2>2. Change!Entry("deleted", Change!Based(p)) \in Change!Changes
    BY <2>1 DEF Change!Changes
  <2> QED BY <1>3, <1>4, <2>2
<1> QED BY <1>6, <1>7, <1>8

LEMMA WalkProves == WalkInv => Change!PatchRebuilds
<1> SUFFICES ASSUME WalkInv, result.status = "ok"
             PROVE  /\ Change!Patched = {EntryOf(p) : p \in Change!Tracked}
                    /\ \A e \in result.excluded : e.path \notin Change!Base
                    /\ \A c \in result.changes : ~Change!Withheld(c.path) /\ ~Change!GitComponent(c.path)
                    /\ \A p \in Path : Change!Seen(p) /\ input.tree[p].kind # "dir" =>
                         p \in Change!Tracked \cup {e.path : e \in result.excluded}
  BY DEF Change!PatchRebuilds, EntryOf
<1>1. /\ RecordsTrue /\ Complete /\ ~Change!RefusesWalk /\ ~Change!BaselineError(input.tar)
      /\ result.changes = Change!Changes /\ result.excluded = Change!Excluded
  BY DEF WalkInv, WalkTyped
<1> DEFINE gone == {c.path : c \in result.changes}
<1>2. \A p \in Change!Base \ gone : p \in Change!Tracked /\ Same(p)
  BY <1>1, ChangesAreDifferences
<1>3. \A c \in result.changes : c.op # "deleted" =>
        c.path \in Change!Tracked /\ [path |-> c.path, body |-> c.body, exec |-> c.exec] = EntryOf(c.path)
  BY <1>1, ChangesAreDifferences DEF EntryOf
<1>4. \A p \in Change!Base : Same(p) => [path |-> p, body |-> Change!Based(p).body, exec |-> Change!Based(p).exec] = EntryOf(p)
  BY DEF Same, EntryOf
<1>5. \A p \in Change!Tracked : (p \in Change!Base \ gone /\ Same(p)) \/ \E c \in result.changes : c.op # "deleted" /\ c.path = p
  <2> SUFFICES ASSUME NEW p \in Change!Tracked, p \in Change!Base, Same(p) PROVE p \notin gone
    BY <1>1, ChangesAreDifferences
  <2> QED BY <1>1, ChangesAreDifferences
<1>6. Change!Patched = {[path |-> p, body |-> Change!Based(p).body, exec |-> Change!Based(p).exec] : p \in Change!Base \ gone}
                       \cup {[path |-> c.path, body |-> c.body, exec |-> c.exec] : c \in {c \in result.changes : c.op # "deleted"}}
  BY DEF Change!Patched
<1> HIDE DEF gone
<1>7. Change!Patched = {EntryOf(p) : p \in Change!Tracked}
  <2>1. \A x \in Change!Patched : \E p \in Change!Tracked : x = EntryOf(p)
    BY <1>2, <1>3, <1>4, <1>6
  <2>2. \A p \in Change!Tracked : EntryOf(p) \in Change!Patched
    <3> SUFFICES ASSUME NEW p \in Change!Tracked PROVE EntryOf(p) \in Change!Patched
      OBVIOUS
    <3>1. CASE p \in Change!Base \ gone /\ Same(p)
      BY <1>4, <1>6, <3>1
    <3>2. CASE \E c \in result.changes : c.op # "deleted" /\ c.path = p
      BY <1>3, <1>6, <3>2
    <3> QED BY <1>5, <3>1, <3>2
  <2> QED BY <2>1, <2>2
<1>8. \A c \in result.changes : ~Change!Withheld(c.path) /\ ~Change!GitComponent(c.path)
  <2>1. \A p \in Change!Tracked : ~Change!Withheld(p) /\ ~Change!GitComponent(p)
    BY GitInPath DEF Change!Tracked, Change!Plain, Change!Seen
  <2>2. \A c \in result.changes : c.path \in Change!Tracked \cup Change!Base
    BY <1>1, ChangesAreDifferences
  <2> QED BY <1>1, <2>1, <2>2, BaseFacts
<1>9. /\ \A e \in result.excluded : e.path \notin Change!Base
      /\ \A p \in Path : Change!Seen(p) /\ input.tree[p].kind # "dir" =>
           p \in Change!Tracked \cup {e.path : e \in result.excluded}
  BY <1>1, NothingIsLost
<1> QED BY <1>7, <1>8, <1>9

\* An unfit tree never becomes a change set.
LEMMA WalkRefuses == WalkInv /\ result.status = "ok" => ~Change!Unfit
<1> SUFFICES ASSUME WalkInv, result.status = "ok" PROVE ~Change!Unfit
  OBVIOUS
<1>1. RecordsTrue /\ Complete /\ ~Change!RefusesWalk
  BY DEF WalkInv
<1>2. \A r \in records : /\ r.kind \notin {"C", "T", "E", "W", "B"} /\ r.path \notin NotUtf8
                         /\ r.kind \in {"L", "O", "S"} => Change!Unwanted(r)
                         /\ r.kind = "F" => ~(r.size > input.caps.file_bytes)
  BY <1>1 DEF Change!RefusesWalk, Change!Of
<1>3. \A r \in records : Truthful(r)
  BY <1>1, <1>2 DEF RecordsTrue, Stops
<1>4. \A p \in Path : Change!Seen(p) => Recorded(p)
  BY <1>1, <1>2 DEF Complete, Stopped, Stops
<1>5. \A p \in Change!Entries : \E r \in records : r.path = p
  BY <1>4 DEF Change!Entries, Recorded
<1>6. \A r \in records : ~Change!Withheld(r.path)
  BY <1>2, <1>3 DEF Truthful, Walked, Change!Plain
<1>7. ASSUME NEW p \in Change!Entries, Kind(p) \in {"link", "special"}
      PROVE  Change!Plain(p) => p \notin Change!Base /\ Change!Generated(p)
  <2>1. PICK r \in records : r.path = p
    BY <1>5
  <2>2. Change!Plain(p) => r.kind \in {"L", "O"}
    BY <1>2, <1>3, <1>7, <2>1 DEF Truthful, Walked, Change!Plain
  <2> QED BY <1>2, <2>1, <2>2 DEF Change!Unwanted
<1>8. ASSUME NEW p \in Change!Tracked PROVE ~(input.tree[p].body > input.caps.file_bytes)
  <2>1. PICK r \in Change!Sent : r.path = p
    BY <1>1, SentIsTracked
  <2>2. r \in records /\ r.kind = "F"
    BY DEF Change!Sent, Change!Of
  <2>3. r.size = input.tree[p].body
    BY <1>3, <2>1, <2>2 DEF Truthful
  <2> QED BY <1>2, <2>2, <2>3
<1> QED BY <1>2, <1>5, <1>6, <1>7, <1>8 DEF Change!Unfit, Kind

-----------------------------------------------------------------------------
(* The walk and the caps *)

\* Whoever takes part in the count: what is recorded, and the directories on the
\* stack, which get their records when they are opened.
Met       == {p \in Path : Recorded(p)} \cup (Change!Range(stack) \ {<<>>})
Opened(d) == IF d = <<>> THEN <<>> \notin Change!Range(stack) ELSE Recorded(d)

Sized(S)  == {<<p, input.tree[p].body>> : p \in S}
CountOf(S) == Cardinality(S) + Change!Total(Sized({p \in S : IsRepository(p)}))

\* The walk meets an entry once: it is not on the stack twice, nor looked at again
\* when it has been met, and is met only after its directory was opened.
MetOnce ==
  /\ \A i, j \in DOMAIN stack : stack[i] = stack[j] => i = j
  /\ \A p \in Met \cup todo : Opened(Change!Front(p))
  /\ todo \cap Met = {}
  /\ \A d \in Change!Range(stack) : ~Recorded(d)

\* What has been counted are the entries that have been met, and what has been sent
\* are the files with an F record.
SentPairs == {<<r.path, r.size>> : r \in Change!Of({"F"})}
Tallied ==
  /\ count = CountOf(Met) /\ count <= input.caps.entries
  /\ sent = Change!Total(SentPairs) /\ sent <= input.caps.total_bytes

TooMany  == CountOf(Change!Entries) > input.caps.entries
TooLarge == Change!Total(Sized(Change!Tracked)) > input.caps.total_bytes

\* The walk stops at a cap only when the tree is over it; and one that was not
\* stopped has counted all of the tree.
StopsAreEarned ==
  \A r \in records : /\ r.kind = "C" => TooMany
                     /\ r.kind = "T" => TooLarge
OneRecordEach ==
  /\ IsFiniteSet(records)
  /\ \A r, s \in records : r.kind \notin Stops /\ s.kind \notin Stops /\ r.path = s.path => r = s

CountInv ==
  /\ StopsAreEarned /\ OneRecordEach
  /\ pc = "walk" => ~Stopped /\ MetOnce /\ Tallied
  /\ pc = "read" \/ (pc = "compute" /\ whole = TRUE) \/ result.status = "ok" => Stopped \/ ~TooMany
  /\ result.status = "none" <=> pc # "done"
  /\ pc = "done" /\ whole = TRUE => Complete
  /\ result.status = "refused" => Change!RefusesWalk \/ Change!RefusesChanges
  /\ result.status = "ok" => ~Change!RefusesChanges

-----------------------------------------------------------------------------
(* Sums *)

LEMMA ChangeCounts == ASSUME NEW S PROVE Change!Cardinality(S) = Cardinality(S)
  BY Zenon DEF Cardinality, Change!Cardinality

Layer(x, k) == {<<x, n>> : n \in 1..k}

LEMMA LayerSize ==
  ASSUME NEW x, NEW k \in Nat
  PROVE  IsFiniteSet(Layer(x, k)) /\ Cardinality(Layer(x, k)) = k
<1> DEFINE L == Layer(x, k)
           f == [n \in 1..k |-> <<x, n>>]
<1>1. IsFiniteSet(1..k) /\ Cardinality(1..k) = k
  BY FS_Interval
<1>2. f \in Bijection(1..k, L)
  <2>1. f \in [1..k -> L]
    BY DEF Layer
  <2>2. \A i, j \in 1..k : f[i] = f[j] => i = j
    OBVIOUS
  <2>3. \A y \in L : \E i \in 1..k : f[i] = y
    BY DEF Layer
  <2> HIDE DEF f, L
  <2> QED BY <2>1, <2>2, <2>3 DEF Bijection, Injection, Surjection, IsInjective
<1>3. ExistsBijection(1..k, L)
  BY <1>2 DEF ExistsBijection
<1> HIDE DEF L
<1> QED BY <1>1, <1>3, FS_Bijection DEF L

\* A set of pairs with sizes: its units are finite, and its total is a number.
Sizes(S) == IsFiniteSet(S) /\ \A x \in S : x[2] \in Nat

LEMMA UnitsAreFinite ==
  ASSUME NEW S, Sizes(S)
  PROVE  IsFiniteSet(Change!Units(S)) /\ Change!Total(S) = Cardinality(Change!Units(S)) /\ Change!Total(S) \in Nat
<1> DEFINE T == {Layer(x, x[2]) : x \in S}
           f == [x \in S |-> Layer(x, x[2])]
<1>1. f \in Surjection(S, T)
  BY DEF Surjection
<1>2. \A L \in T : IsFiniteSet(L)
  BY LayerSize DEF Sizes
<1>3. Change!Units(S) = UNION T
  BY DEF Change!Units, Layer
<1> HIDE DEF T, f
<1>4. IsFiniteSet(T)
  BY <1>1, FS_Surjection DEF Sizes
<1>5. IsFiniteSet(Change!Units(S))
  BY <1>2, <1>3, <1>4, FS_UNION
<1>6. Change!Total(S) = Cardinality(Change!Units(S))
  BY ChangeCounts DEF Change!Total
<1> QED BY <1>5, <1>6, FS_CardinalityType

LEMMA TotalOfNone == Change!Total({}) = 0 /\ Sizes({})
<1>1. Change!Units({}) = {}
  BY DEF Change!Units
<1> QED BY <1>1, ChangeCounts, FS_EmptySet DEF Change!Total, Sizes

LEMMA TotalAdds ==
  ASSUME NEW S, Sizes(S), NEW x, x \notin S, x[2] \in Nat
  PROVE  Sizes(S \cup {x}) /\ Change!Total(S \cup {x}) = Change!Total(S) + x[2]
<1> DEFINE U == Change!Units(S)
           L == Layer(x, x[2])
<1>1. Sizes(S \cup {x})
  BY FS_AddElement DEF Sizes
<1>2. Change!Units(S \cup {x}) = U \cup L
  BY DEF Change!Units, Layer
<1>3. U \cap L = {}
  BY DEF Change!Units, Layer
<1>4. IsFiniteSet(U) /\ Change!Total(S) = Cardinality(U) /\ Cardinality(U) \in Nat
  BY UnitsAreFinite
<1>5. IsFiniteSet(L) /\ Cardinality(L) = x[2]
  BY LayerSize
<1>6. Change!Total(S \cup {x}) = Cardinality(U \cup L)
  BY <1>2, ChangeCounts DEF Change!Total
<1> HIDE DEF U, L
<1>7. Cardinality(U \cup L) = Cardinality(U) + Cardinality(L) - Cardinality(U \cap L)
  BY <1>4, <1>5, FS_Union
<1>8. Cardinality(U \cap L) = 0
  BY <1>3, FS_EmptySet
<1> QED BY <1>1, <1>4, <1>5, <1>6, <1>7, <1>8

LEMMA TotalGrows ==
  ASSUME NEW S, Sizes(S), NEW T \in SUBSET S
  PROVE  Sizes(T) /\ Change!Total(T) <= Change!Total(S)
<1> DEFINE U == Change!Units(S)
           V == Change!Units(T)
<1>1. Sizes(T)
  BY FS_Subset DEF Sizes
<1>2. V \in SUBSET U
  BY DEF Change!Units
<1>3. IsFiniteSet(U) /\ Change!Total(S) = Cardinality(U) /\ Change!Total(T) = Cardinality(V)
  BY <1>1, UnitsAreFinite
<1> HIDE DEF U, V
<1>4. Cardinality(V) <= Cardinality(U)
  BY <1>2, <1>3, FS_Subset
<1> QED BY <1>1, <1>3, <1>4

\* The pairs of a finite set of paths.
LEMMA SizedPaths ==
  ASSUME input \in Inputs, NEW S, S \subseteq Path, IsFiniteSet(S)
  PROVE  Sizes(Sized(S))
<1> DEFINE T == Sized(S)
           f == [p \in S |-> <<p, input.tree[p].body>>]
<1>1. f \in Surjection(S, T)
  BY DEF Surjection, Sized
<1>2. \A x \in T : x[2] \in Nat
  BY InputFacts DEF Sized
<1> HIDE DEF T, f
<1>3. IsFiniteSet(T)
  BY <1>1, FS_Surjection
<1> QED BY <1>2, <1>3 DEF Sizes, T

LEMMA CountAdds ==
  ASSUME input \in Inputs, NEW S, S \subseteq Path, IsFiniteSet(S), NEW p \in Path, p \notin S
  PROVE  /\ CountOf(S) \in Nat /\ Weight(p) \in Nat
         /\ CountOf(S \cup {p}) = CountOf(S) + 1 + Weight(p)
<1> DEFINE R == {q \in S : IsRepository(q)}
           x == <<p, input.tree[p].body>>
           Q == {q \in S \cup {p} : IsRepository(q)}
<1>1. R \subseteq S /\ IsFiniteSet(R)
  BY FS_Subset
<1>2. Sizes(Sized(R)) /\ Change!Total(Sized(R)) \in Nat
  <2> HIDE DEF R
  <2> QED BY <1>1, SizedPaths, UnitsAreFinite
<1>3. x[2] \in Nat /\ x \notin Sized(R)
  BY InputFacts DEF Sized
<1>4. Cardinality(S \cup {p}) = Cardinality(S) + 1 /\ Cardinality(S) \in Nat
  BY FS_AddElement, FS_CardinalityType
<1>5. CountOf(S) = Cardinality(S) + Change!Total(Sized(R)) /\ CountOf(S \cup {p}) = Cardinality(S \cup {p}) + Change!Total(Sized(Q))
  BY DEF CountOf
<1>6. CASE IsRepository(p)
  <2>1. Sized(Q) = Sized(R) \cup {x}
    BY <1>6 DEF Sized
  <2>2. Weight(p) = x[2]
    BY <1>6 DEF Weight
  <2> HIDE DEF R, Q, x
  <2>3. Change!Total(Sized(R) \cup {x}) = Change!Total(Sized(R)) + x[2]
    BY <1>2, <1>3, TotalAdds
  <2> QED BY <1>2, <1>3, <1>4, <1>5, <2>1, <2>2, <2>3
<1>7. CASE ~IsRepository(p)
  <2>1. Q = R /\ Weight(p) = 0
    BY <1>7 DEF Weight
  <2> HIDE DEF R, Q, x
  <2> QED BY <1>2, <1>4, <1>5, <2>1
<1> QED BY <1>6, <1>7

LEMMA CountGrows ==
  ASSUME input \in Inputs, NEW S, S \subseteq Path, IsFiniteSet(S), NEW T \in SUBSET S
  PROVE  CountOf(T) <= CountOf(S) /\ CountOf(T) \in Nat /\ CountOf(S) \in Nat
<1> DEFINE R == {q \in S : IsRepository(q)}
           Q == {q \in T : IsRepository(q)}
<1>1. R \subseteq Path /\ IsFiniteSet(R) /\ Q \subseteq Path /\ IsFiniteSet(Q) /\ Sized(Q) \subseteq Sized(R)
  BY FS_Subset DEF Sized
<1>2. Cardinality(T) <= Cardinality(S) /\ Cardinality(S) \in Nat /\ Cardinality(T) \in Nat
  BY FS_Subset, FS_CardinalityType
<1>3. CountOf(S) = Cardinality(S) + Change!Total(Sized(R)) /\ CountOf(T) = Cardinality(T) + Change!Total(Sized(Q))
  BY DEF CountOf
<1> HIDE DEF R, Q
<1>4. Sizes(Sized(R)) /\ Sizes(Sized(Q))
  BY <1>1, SizedPaths
<1>5. Change!Total(Sized(Q)) <= Change!Total(Sized(R)) /\ Change!Total(Sized(R)) \in Nat /\ Change!Total(Sized(Q)) \in Nat
  BY <1>1, <1>4, TotalGrows, UnitsAreFinite
<1> QED BY <1>2, <1>3, <1>5

\* No tree is without end.
LEMMA EntriesAreFinite ==
  ASSUME input \in Inputs
  PROVE  /\ Change!Entries \subseteq Path /\ IsFiniteSet(Change!Entries)
         /\ Change!Tracked \subseteq Change!Entries /\ IsFiniteSet(Change!Tracked)
<1>1. IsFiniteSet({p \in Path : input.tree[p].kind # "none"})
  BY InputAssumption
<1>2. Change!Entries \subseteq {p \in Path : input.tree[p].kind # "none"}
  BY DEF Change!Entries, Change!Seen, Change!Lives
<1>3. Change!Tracked \subseteq Change!Entries
  BY DEF Change!Tracked, Change!Entries, Change!Plain
<1> QED BY <1>1, <1>2, <1>3, FS_Subset DEF Change!Entries

-----------------------------------------------------------------------------
(* The walk keeps count *)

LEMMA SameCounts ==
  ASSUME input' = input
  PROVE  /\ Change!Entries' = Change!Entries /\ Change!Tracked' = Change!Tracked
         /\ \A S : CountOf(S)' = CountOf(S)
         /\ TooMany' = TooMany /\ TooLarge' = TooLarge
<1>1. \A p : /\ Change!Seen(p)' = Change!Seen(p) /\ Kind(p)' = Kind(p)
             /\ Change!Withheld(p)' = Change!Withheld(p)
  BY SameTree
<1>2. Change!Base' = Change!Base /\ \A p : Change!Generated(p)' = Change!Generated(p)
  BY SameTree DEF Change!Generated
<1>3. Change!Entries' = Change!Entries
  BY <1>1 DEF Change!Entries
<1>4. Change!Tracked' = Change!Tracked
  BY <1>1, <1>2 DEF Change!Tracked, Change!Plain
<1>5. \A p : IsRepository(p)' = IsRepository(p)
  BY <1>1 DEF IsRepository
<1>6. \A S : Sized(S)' = Sized(S)
  BY DEF Sized
<1>7. ASSUME NEW S PROVE CountOf(S)' = CountOf(S)
  <2>1. {p \in S : IsRepository(p)}' = {p \in S : IsRepository(p)}
    BY <1>5
  <2> QED BY <2>1, <1>6 DEF CountOf, Sized
<1>8. TooMany' = TooMany
  <2>1. CountOf(Change!Entries)' = CountOf(Change!Entries)
    BY <1>3, <1>5, <1>6 DEF CountOf, Sized
  <2> QED BY <2>1 DEF TooMany
<1>9. TooLarge' = TooLarge
  BY <1>4, <1>6 DEF TooLarge, Sized
<1> QED BY <1>3, <1>4, <1>7, <1>8, <1>9

\* What has been met are entries, and there are not without end of them.
LEMMA MetAreEntries ==
  ASSUME WalkTyped, OnTheWay, RecordsTrue, ~Stopped
  PROVE  /\ Met \subseteq Change!Entries /\ Met \subseteq Path /\ IsFiniteSet(Met)
         /\ \A r \in records : Truthful(r)
<1>1. \A r \in records : Truthful(r)
  BY DEF RecordsTrue, Stopped
<1>2. Met \subseteq Change!Entries
  BY <1>1 DEF Met, Recorded, Truthful, Change!Entries, OnTheWay, Walked, Change!Plain
<1>3. input \in Inputs
  BY DEF WalkTyped
<1> QED BY <1>1, <1>2, <1>3, EntriesAreFinite, FS_Subset

LEMMA SentIsSized ==
  ASSUME WalkTyped, RecordsTrue, OneRecordEach
  PROVE  Sizes(SentPairs) /\ SentPairs \subseteq Sized(Change!Tracked)
<1> DEFINE F == Change!Of({"F"})
           f == [r \in F |-> <<r.path, r.size>>]
<1>1. \A r \in F : r \in records /\ r.kind = "F" /\ Truthful(r)
  BY DEF Change!Of, RecordsTrue, Stops
<1>2. IsFiniteSet(F)
  BY <1>1, FS_Subset DEF OneRecordEach
<1>3. f \in Surjection(F, SentPairs)
  BY DEF Surjection, SentPairs
<1>4. SentPairs \subseteq Sized(Change!Tracked)
  BY <1>1 DEF SentPairs, Sized, Truthful, Change!Tracked, Kind
<1>5. IsFiniteSet(SentPairs)
  <2> HIDE DEF F, f
  <2> QED BY <1>2, <1>3, FS_Surjection
<1>6. \A x \in SentPairs : x[2] \in Nat
  BY <1>4, InputFacts DEF Sized, WalkTyped, Change!Tracked
<1> QED BY <1>4, <1>5, <1>6 DEF Sizes

LEMMA CountStarts == Change!InitWith(Inputs) => CountInv
<1> SUFFICES ASSUME Change!InitWith(Inputs) PROVE CountInv
  OBVIOUS
<1>1. /\ input \in Inputs /\ todo = {} /\ stack = <<<<>>>> /\ records = {} /\ whole = FALSE
      /\ count = 0 /\ sent = 0
      /\ pc = (IF Change!BaselineError(input.tar) THEN "done" ELSE "walk")
      /\ result.status = (IF Change!BaselineError(input.tar) THEN "infrastructure" ELSE "none")
  BY DEF Change!InitWith, Change!NoResult
<1>2. DOMAIN stack = {1} /\ Change!Range(stack) = {<<>>}
  <2>1. DOMAIN stack = {1} /\ stack[1] = <<>>
    BY <1>1
  <2> QED BY <2>1 DEF Change!Range
<1>3. Met = {} /\ ~Stopped /\ \A d : ~Recorded(d)
  BY <1>1, <1>2 DEF Met, Recorded, Stopped
<1>4. MetOnce
  BY <1>1, <1>2, <1>3 DEF MetOnce
<1>5. SentPairs = {}
  BY <1>1 DEF SentPairs, Change!Of
<1>6. CountOf({}) = 0
  <2>1. Sized({p \in {} : IsRepository(p)}) = {}
    BY DEF Sized
  <2> QED BY <2>1, TotalOfNone, FS_EmptySet DEF CountOf
<1>7. Tallied
  BY <1>1, <1>3, <1>5, <1>6, TotalOfNone, InputFacts DEF Tallied
<1>8. StopsAreEarned /\ OneRecordEach
  BY <1>1, FS_EmptySet DEF StopsAreEarned, OneRecordEach
<1> QED BY <1>1, <1>3, <1>4, <1>7, <1>8 DEF CountInv

\* A step that stops the walk for a reason.
LEMMA CountStops ==
  ASSUME CountInv, pc = "walk", NEW k \in Stops, StopsAs(k), UNCHANGED <<input, whole, result>>,
         k = "C" => TooMany, k = "T" => TooLarge
  PROVE  CountInv'
<1>1. records' = records \cup {Change!EndRecord(k)} /\ pc' = "read"
  BY DEF StopsAs
<1>2. Change!EndRecord(k).kind = k
  BY DEF Change!EndRecord
<1>3. result.status = "none"
  BY DEF CountInv
<1>4. StopsAreEarned'
  BY <1>1, <1>2, SameCounts DEF CountInv, StopsAreEarned
<1>5. OneRecordEach'
  <2>1. IsFiniteSet(records')
    BY <1>1, FS_AddElement DEF CountInv, OneRecordEach
  <2> QED BY <1>1, <1>2, <2>1 DEF CountInv, OneRecordEach, Stops
<1>6. Stopped'
  BY <1>1, <1>2 DEF Stopped
<1> QED BY <1>1, <1>3, <1>4, <1>5, <1>6 DEF CountInv

\* One more record, of an entry that had none.
LEMMA OneMoreRecord ==
  ASSUME StopsAreEarned, OneRecordEach, ~Stopped, input' = input, NEW r, Truthful(r), ~Recorded(r.path),
         records' = records \cup {r}
  PROVE  StopsAreEarned' /\ OneRecordEach' /\ ~Stopped' /\ \A p : Recorded(p)' <=> Recorded(p) \/ p = r.path
<1>1. r.kind \notin Stops
  BY DEF Truthful, Stops
<1>2. StopsAreEarned'
  BY <1>1, SameCounts DEF StopsAreEarned, Stops
<1>3. IsFiniteSet(records')
  BY FS_AddElement DEF OneRecordEach
<1>4. OneRecordEach'
  BY <1>3 DEF OneRecordEach, Recorded, Stops
<1>5. ~Stopped'
  BY <1>1 DEF Stopped, Stops
<1> QED BY <1>2, <1>4, <1>5 DEF Recorded

\* The directory on top of the stack is not below it as well.
LEMMA TopIsOnce ==
  ASSUME NEW S, NEW s \in Seq(S), s # <<>>, \A i, j \in DOMAIN s : s[i] = s[j] => i = j
  PROVE  /\ Change!Last(s) \notin Change!Range(Change!Front(s))
         /\ \A i, j \in DOMAIN Change!Front(s) : Change!Front(s)[i] = Change!Front(s)[j] => i = j
<1>1. Len(s) \in Nat \ {0} /\ DOMAIN s = 1..Len(s) /\ \A i \in 1..Len(s) : s[i] \in S
  BY LenProperties, ElementOfSeq, EmptySeq
<1> DEFINE f == SubSeq(s, 1, Len(s) - 1)
<1>2. f \in Seq(S) /\ Len(f) = Len(s) - 1 /\ \A i \in 1..Len(s) - 1 : f[i] = s[i]
  BY <1>1, SubSeqProperties
<1>3. DOMAIN f = 1..Len(s) - 1
  BY <1>2, LenProperties
<1>4. Change!Front(s) = f /\ Change!Last(s) = s[Len(s)]
  BY DEF Change!Front, Change!Last
<1> HIDE DEF f
<1>5. \A i \in 1..Len(s) - 1 : i \in DOMAIN s /\ i # Len(s)
  <2>1. \A n \in Nat \ {0} : \A i \in 1..n - 1 : i \in 1..n /\ i # n
    OBVIOUS
  <2> QED BY ONLY <1>1, <2>1, Zenon
<1>6. Len(s) \in DOMAIN s
  <2>1. \A n \in Nat \ {0} : n \in 1..n
    OBVIOUS
  <2> QED BY ONLY <1>1, <2>1, Zenon
<1>7. \A i, j \in DOMAIN s : s[i] = s[j] => i = j
  OBVIOUS
<1>8. s[Len(s)] \notin Change!Range(f)
  BY ONLY <1>2, <1>3, <1>5, <1>6, <1>7, Zenon DEF Change!Range
<1>9. \A i, j \in DOMAIN f : f[i] = f[j] => i = j
  BY ONLY <1>2, <1>3, <1>5, <1>7, Zenon
<1> QED BY ONLY <1>4, <1>8, <1>9, Zenon

LEMMA PushedOnce ==
  ASSUME NEW S, NEW s \in Seq(S), NEW e \in S, e \notin Change!Range(s),
         \A i, j \in DOMAIN s : s[i] = s[j] => i = j
  PROVE  \A i, j \in DOMAIN Append(s, e) : Append(s, e)[i] = Append(s, e)[j] => i = j
<1>1. Len(s) \in Nat /\ DOMAIN s = 1..Len(s)
  BY LenProperties
<1> DEFINE a == Append(s, e)
           n == Len(s) + 1
<1>2. /\ a \in Seq(S) /\ Len(a) = n
      /\ \A i \in 1..Len(s) : a[i] = s[i]
      /\ a[n] = e
  BY AppendProperties
<1>3. DOMAIN a = 1..n
  BY <1>2, LenProperties
<1>4. \A i \in DOMAIN a : i \in DOMAIN s \/ i = n
  <2>1. \A m \in Nat : \A i \in 1..m + 1 : i \in 1..m \/ i = m + 1
    OBVIOUS
  <2> HIDE DEF a
  <2> QED BY <1>1, <1>3, <2>1
<1>5. \A i \in DOMAIN s : s[i] # e
  BY DEF Change!Range
<1> HIDE DEF a, n
<1>6. \A i \in DOMAIN s : a[i] = s[i]
  BY <1>1, <1>2
<1> SUFFICES ASSUME NEW i \in DOMAIN a, NEW j \in DOMAIN a, a[i] = a[j] PROVE i = j
  BY DEF a
<1> QED BY <1>2, <1>4, <1>5, <1>6

\* What is met stays met when a directory is opened: its place on the stack becomes
\* a record, and its entries are new.
LEMMA OpenCounts == WalkInv /\ CountInv /\ Change!OpenDir => CountInv'
<1> SUFFICES ASSUME WalkInv, CountInv, Change!OpenDir PROVE CountInv'
  OBVIOUS
<1> DEFINE dir == Change!Last(stack)
<1>1. /\ pc = "walk" /\ todo = {} /\ stack # <<>> /\ UNCHANGED <<input, count, whole, result>>
      /\ WalkTyped /\ OnTheWay /\ RecordsTrue
  BY DEF Change!OpenDir, WalkInv
<1>2. ~Stopped /\ MetOnce /\ Tallied /\ StopsAreEarned /\ OneRecordEach /\ result.status = "none"
  BY <1>1 DEF CountInv
<1>3. CASE Change!Stop(Change!EndRecord("E"))
  <2>1. StopsAs("E") /\ "E" \in Stops
    BY <1>3 DEF Change!Stop, Change!Emit, StopsAs, Stops
  <2> QED BY <1>1, <2>1, CountStops
<1>4. CASE /\ stack' = Change!Front(stack) /\ todo' = Change!Children(dir)
           /\ dir = <<>> => UNCHANGED records
           /\ dir # <<>> => \E n : Change!Emit(Change!Record("D", dir, n))
           /\ UNCHANGED <<pc, sent>>
  <2>1. stack \in Seq(Path \cup {<<>>})
    BY <1>1 DEF WalkTyped
  <2>2. \A i, j \in DOMAIN stack : stack[i] = stack[j] => i = j
    BY <1>2 DEF MetOnce
  <2>3. /\ dir \notin Change!Range(stack)'
        /\ Change!Range(stack) = Change!Range(stack)' \cup {dir}
        /\ \A i, j \in DOMAIN stack' : stack'[i] = stack'[j] => i = j
    <3>1. Change!Range(stack)' = Change!Range(Change!Front(stack))
      BY <1>4 DEF Change!Range
    <3>2. /\ dir \notin Change!Range(Change!Front(stack))
          /\ \A i, j \in DOMAIN Change!Front(stack) : Change!Front(stack)[i] = Change!Front(stack)[j] => i = j
      BY <1>1, <2>1, <2>2, TopIsOnce
    <3>3. Change!Range(stack) = Change!Range(Change!Front(stack)) \cup {dir}
      BY <1>1, <2>1, RangeOfStack
    <3> QED BY <1>4, <3>1, <3>2, <3>3
  <2>4. dir = <<>> \/ (dir \in Path /\ Walked(dir))
    BY <1>1, <2>3 DEF OnTheWay, Walked
  <2>5. ~Recorded(dir)
    BY <1>2, <2>3 DEF MetOnce
  <2>6. /\ StopsAreEarned' /\ OneRecordEach' /\ ~Stopped'
        /\ \A p : Recorded(p)' <=> Recorded(p) \/ (p = dir /\ dir # <<>>)
        /\ SentPairs' = SentPairs
    <3>1. CASE dir = <<>>
      <4>1. records' = records
        BY <1>4, <3>1
      <4>2. StopsAreEarned'
        BY <1>1, <1>2, <4>1, SameCounts DEF StopsAreEarned
      <4> QED BY <1>2, <3>1, <4>1, <4>2 DEF OneRecordEach, Stopped, Recorded, SentPairs, Change!Of
    <3>2. CASE dir # <<>>
      <4>1. PICK n : Change!Emit(Change!Record("D", dir, n))
        BY <1>4, <3>2
      <4> DEFINE r == Change!Record("D", dir, n)
      <4>2. /\ r.kind = "D" /\ r.path = dir /\ records' = records \cup {r}
            /\ r.body = input.tree[dir].body /\ r.exec = input.tree[dir].exec
        BY <4>1, RecordFields DEF Change!Emit
      <4>3. dir \in Path /\ Walked(dir) /\ Change!Seen(dir)
        BY <2>4, <3>2 DEF Walked, Change!Plain
      <4> HIDE DEF r, dir
      <4>4. Truthful(r)
        BY <4>2, <4>3 DEF Truthful
      <4>5. StopsAreEarned' /\ OneRecordEach' /\ ~Stopped' /\ \A p : Recorded(p)' <=> Recorded(p) \/ p = r.path
        BY <1>1, <1>2, <2>5, <4>2, <4>4, OneMoreRecord
      <4>6. Change!Of({"F"})' = Change!Of({"F"})
        BY <4>2 DEF Change!Of
      <4> QED BY <3>2, <4>2, <4>5, <4>6 DEF SentPairs
    <3> QED BY <3>1, <3>2
  <2>7. Met' = Met
    BY <2>3, <2>4, <2>6 DEF Met
  <2>8. todo' \cap Met = {}
    <3> SUFFICES ASSUME NEW p \in Change!Children(dir), p \in Met PROVE FALSE
      BY <1>4
    <3>1. Opened(dir)
      BY <1>2 DEF Change!Children, MetOnce
    <3> QED BY <2>3, <2>5, <3>1 DEF Opened
  <2>9. \A d : Opened(d) \/ d = dir => Opened(d)'
    BY <2>3, <2>6 DEF Opened
  <2>10. MetOnce'
    <3>1. \A p \in Met' \cup todo' : Opened(Change!Front(p))'
      <4>1. \A p \in Met : Opened(Change!Front(p))
        BY <1>2 DEF MetOnce
      <4>2. \A p \in todo' : Change!Front(p) = dir
        BY <1>4 DEF Change!Children
      <4>3. ASSUME NEW p \in Met' \cup todo' PROVE Opened(Change!Front(p))'
        <5>1. Opened(Change!Front(p)) \/ Change!Front(p) = dir
          BY <2>7, <4>1, <4>2
        <5> QED BY <5>1, <2>9
      <4> QED BY <4>3
    <3>2. \A d \in Change!Range(stack)' : ~Recorded(d)'
      BY <1>2, <2>3, <2>6 DEF MetOnce
    <3> QED BY <2>3, <2>7, <2>8, <3>1, <3>2 DEF MetOnce
  <2>11. Tallied'
    <3>1. CountOf(Met)' = CountOf(Met)
      BY <1>1, <2>7, SameCounts
    <3> QED BY <1>1, <1>2, <1>4, <2>6, <3>1 DEF Tallied
  <2> QED BY <1>1, <1>2, <1>4, <2>6, <2>10, <2>11 DEF CountInv
<1>5. \/ /\ stack' = Change!Front(stack) /\ todo' = Change!Children(dir)
         /\ dir = <<>> => UNCHANGED records
         /\ dir # <<>> => \E n : Change!Emit(Change!Record("D", dir, n))
         /\ UNCHANGED <<pc, sent>>
      \/ Change!Stop(Change!EndRecord("E"))
  BY Zenon DEF Change!OpenDir
<1> QED BY <1>3, <1>4, <1>5

\* An entry that is visited is met from then on.
LEMMA VisitMeets ==
  ASSUME WalkInv, CountInv, pc = "walk", input' = input, NEW p \in todo, GoesInto(p) \/ Takes(p)
  PROVE  /\ Met' = Met \cup {p} /\ p \notin Met /\ MetOnce'
         /\ StopsAreEarned' /\ OneRecordEach' /\ ~Stopped'
<1>1. WalkTyped /\ OnTheWay /\ RecordsTrue /\ ~Stopped /\ MetOnce /\ StopsAreEarned /\ OneRecordEach
  BY DEF WalkInv, CountInv
<1>2. p \in Path /\ p # <<>> /\ p \notin Met /\ ~Recorded(p) /\ p \notin Change!Range(stack)
  <2>1. p \in Path /\ p # <<>>
    BY <1>1, PathLength, EmptySeq DEF WalkTyped
  <2> QED BY <1>1, <2>1 DEF MetOnce, Met
<1>3. CASE GoesInto(p)
  <2>1. stack' = Append(stack, p) /\ todo' = todo \ {p} /\ UNCHANGED <<pc, records>>
    BY <1>3 DEF GoesInto
  <2>2. Change!Range(stack)' = Change!Range(stack) \cup {p}
    BY <1>1, <1>2, <2>1, StackGrows
  <2>3. StopsAreEarned' /\ OneRecordEach' /\ ~Stopped'
    <3>1. StopsAreEarned'
      BY <1>1, <2>1, SameCounts DEF StopsAreEarned
    <3> QED BY <1>1, <2>1, <3>1 DEF OneRecordEach, Stopped
  <2>4. \A d : Recorded(d)' <=> Recorded(d)
    BY <2>1 DEF Recorded
  <2>5. Met' = Met \cup {p}
    BY <1>2, <2>2, <2>4 DEF Met
  <2>6. \A d : Opened(d) => Opened(d)'
    BY <1>2, <2>2, <2>4 DEF Opened
  <2>7. \A i, j \in DOMAIN stack' : stack'[i] = stack'[j] => i = j
    <3>1. stack \in Seq(Path \cup {<<>>}) /\ p \in Path \cup {<<>>}
      BY <1>1, <1>2 DEF WalkTyped
    <3>2. \A i, j \in DOMAIN stack : stack[i] = stack[j] => i = j
      BY <1>1 DEF MetOnce
    <3> QED BY <1>2, <2>1, <3>1, <3>2, PushedOnce
  <2>8. \A q \in Met' \cup todo' : Opened(Change!Front(q))'
    <3>1. \A q \in Met \cup todo : Opened(Change!Front(q))
      BY <1>1 DEF MetOnce
    <3>2. Met' \cup todo' \subseteq Met \cup todo
      BY <2>1, <2>5
    <3> QED BY <2>6, <3>1, <3>2
  <2>9. MetOnce'
    BY <1>1, <1>2, <2>1, <2>2, <2>4, <2>5, <2>7, <2>8 DEF MetOnce
  <2> QED BY <1>2, <2>3, <2>5, <2>9
<1>4. CASE Takes(p)
  <2>1. PICK r : TakesAs(p, r)
    BY <1>4 DEF Takes
  <2>2. todo' = todo \ {p} /\ UNCHANGED <<pc, stack>>
    BY <1>4 DEF Takes
  <2>3. r.path = p /\ Truthful(r) /\ records' = records \cup {r}
    BY <2>1 DEF TakesAs
  <2>4. StopsAreEarned' /\ OneRecordEach' /\ ~Stopped' /\ \A q : Recorded(q)' <=> Recorded(q) \/ q = p
    BY <1>1, <1>2, <2>3, OneMoreRecord
  <2>5. Change!Range(stack)' = Change!Range(stack)
    BY <2>2 DEF Change!Range
  <2>6. Met' = Met \cup {p}
    BY <1>2, <2>4, <2>5 DEF Met
  <2>7. \A d : Opened(d) => Opened(d)'
    BY <2>4, <2>5 DEF Opened
  <2>8. \A q \in Met' \cup todo' : Opened(Change!Front(q))'
    <3>1. \A q \in Met \cup todo : Opened(Change!Front(q))
      BY <1>1 DEF MetOnce
    <3>2. Met' \cup todo' \subseteq Met \cup todo
      BY <2>2, <2>6
    <3> QED BY <2>7, <3>1, <3>2
  <2>9. MetOnce'
    BY <1>1, <1>2, <2>2, <2>4, <2>5, <2>6, <2>8 DEF MetOnce
  <2> QED BY <1>2, <2>4, <2>6, <2>9
<1> QED BY <1>3, <1>4

\* A visit counts what it meets, and stops only when the whole is over a cap.
LEMMA VisitCounts == WalkInv /\ CountInv /\ Change!Visit => CountInv'
<1> SUFFICES ASSUME WalkInv, CountInv, Change!Visit PROVE CountInv'
  OBVIOUS
<1>1. /\ UNCHANGED <<input, whole, result>> /\ pc = "walk" /\ \E p \in todo : Visits(p)
      /\ WalkTyped /\ OnTheWay /\ RecordsTrue
  BY VisitShapes DEF WalkInv
<1>2. ~Stopped /\ MetOnce /\ Tallied /\ StopsAreEarned /\ OneRecordEach /\ result.status = "none"
  BY <1>1 DEF CountInv
<1>3. PICK p \in todo : Visits(p)
  BY <1>1
<1>4. input \in Inputs /\ p \in Path /\ p \in Change!Entries /\ p \notin Met
  BY <1>1, <1>2 DEF WalkTyped, OnTheWay, Change!Entries, MetOnce
<1>5. Met \subseteq Change!Entries /\ Met \subseteq Path /\ IsFiniteSet(Met) /\ \A r \in records : Truthful(r)
  BY <1>1, <1>2, MetAreEntries
<1>6. count = CountOf(Met) /\ CountOf(Met) \in Nat /\ Weight(p) \in Nat /\ CountOf(Met \cup {p}) = count + 1 + Weight(p)
  BY <1>2, <1>4, <1>5, CountAdds DEF Tallied
<1>7. Sizes(SentPairs) /\ SentPairs \subseteq Sized(Change!Tracked) /\ sent = Change!Total(SentPairs)
  BY <1>1, <1>2, SentIsSized DEF Tallied
<1>8. <<p, input.tree[p].body>> \notin SentPairs /\ input.tree[p].body \in Nat
  <2>1. ~Recorded(p)
    BY <1>2, <1>4 DEF Met
  <2> QED BY <1>4, <2>1, InputFacts DEF SentPairs, Change!Of, Recorded
<1>9. CASE StopsAs("C") /\ count + 1 + Weight(p) > input.caps.entries
  <2>1. Met \cup {p} \in SUBSET Change!Entries /\ Change!Entries \subseteq Path /\ IsFiniteSet(Change!Entries)
    BY <1>4, <1>5, EntriesAreFinite
  <2>2. CountOf(Met \cup {p}) <= CountOf(Change!Entries) /\ CountOf(Change!Entries) \in Nat
    BY <1>4, <2>1, CountGrows
  <2>3. input.caps.entries \in Nat
    BY <1>4, InputFacts
  <2>4. TooMany
    BY <1>6, <1>9, <2>2, <2>3 DEF TooMany
  <2> QED BY <1>1, <1>9, <2>4, CountStops DEF Stops
<1>10. CASE StopsAs("T") /\ p \in Change!Tracked /\ sent + input.tree[p].body > input.caps.total_bytes
  <2> DEFINE x == <<p, input.tree[p].body>>
             T == Sized(Change!Tracked)
  <2>1. IsFiniteSet(Change!Tracked) /\ Change!Tracked \subseteq Path
    BY <1>4, EntriesAreFinite DEF Change!Tracked
  <2>2. Sizes(T)
    BY <1>4, <2>1, SizedPaths
  <2>3. SentPairs \cup {x} \in SUBSET T /\ x[2] = input.tree[p].body
    BY <1>7, <1>10 DEF Sized
  <2> HIDE DEF x, T
  <2>4. Change!Total(SentPairs \cup {x}) <= Change!Total(T) /\ Change!Total(T) \in Nat
    BY <2>2, <2>3, TotalGrows, UnitsAreFinite
  <2>5. x \notin SentPairs /\ x[2] \in Nat
    BY <1>8 DEF x
  <2>6. Change!Total(SentPairs \cup {x}) = sent + x[2] /\ sent \in Nat
    BY <1>7, <2>5, TotalAdds, UnitsAreFinite
  <2>7. input.caps.total_bytes \in Nat
    BY <1>4, InputFacts
  <2>8. Change!Total(T) > input.caps.total_bytes
    BY <1>10, <2>3, <2>4, <2>5, <2>6, <2>7
  <2>9. TooLarge
    BY <2>8 DEF TooLarge, T
  <2> QED BY <1>1, <1>10, <2>9, CountStops DEF Stops
<1>11. CASE StopsAs("E")
  BY <1>1, <1>11, CountStops DEF Stops
<1>12. CASE (GoesInto(p) \/ Takes(p)) /\ count' = count + 1 + Weight(p) /\ ~(count' > input.caps.entries)
  <2>1. /\ Met' = Met \cup {p} /\ MetOnce' /\ StopsAreEarned' /\ OneRecordEach' /\ ~Stopped'
    BY <1>1, <1>12, VisitMeets
  <2>2. pc' = "walk"
    BY <1>1, <1>12 DEF GoesInto, Takes
  <2>3. count' = CountOf(Met)' /\ count' <= input.caps.entries
    <3>1. CountOf(Met)' = CountOf(Met \cup {p})
      BY <1>1, <2>1, SameCounts
    <3>2. count' \in Nat /\ input.caps.entries \in Nat
      BY <1>4, <1>6, <1>12, InputFacts
    <3> QED BY <1>6, <1>12, <3>1, <3>2
  <2>4. sent' = Change!Total(SentPairs)' /\ sent' <= input.caps.total_bytes
    <3>0. Change!Total(SentPairs)' = Change!Total(SentPairs')
      BY DEF Change!Total, Change!Units, SentPairs
    <3>1. CASE GoesInto(p)
      <4>1. SentPairs' = SentPairs /\ sent' = sent
        BY <3>1 DEF GoesInto, SentPairs, Change!Of
      <4> QED BY <1>2, <1>7, <3>0, <4>1 DEF Tallied
    <3>2. CASE Takes(p)
      <4>1. PICK r : TakesAs(p, r)
        BY <3>2 DEF Takes
      <4>2. /\ r.path = p /\ Truthful(r) /\ records' = records \cup {r}
            /\ sent' = (IF r.kind = "F" THEN sent + r.size ELSE sent)
            /\ r.kind = "F" => sent' <= input.caps.total_bytes
        BY <4>1 DEF TakesAs
      <4>3. CASE r.kind = "F"
        <5> DEFINE x == <<p, input.tree[p].body>>
        <5>1. r.size = input.tree[p].body
          BY <4>2, <4>3 DEF Truthful
        <5>2. Change!Of({"F"})' = Change!Of({"F"}) \cup {r}
          BY <4>2, <4>3 DEF Change!Of
        <5>3. SentPairs' = SentPairs \cup {x}
          BY <4>2, <5>1, <5>2 DEF SentPairs
        <5>4. x \notin SentPairs /\ x[2] \in Nat /\ x[2] = r.size
          BY <1>8, <5>1
        <5> HIDE DEF x
        <5>5. Change!Total(SentPairs \cup {x}) = Change!Total(SentPairs) + x[2]
          BY <1>7, <5>4, TotalAdds
        <5> QED BY <1>7, <3>0, <4>2, <4>3, <5>3, <5>4, <5>5
      <4>4. CASE r.kind # "F"
        <5>1. SentPairs' = SentPairs
          BY <4>2, <4>4 DEF SentPairs, Change!Of
        <5> QED BY <1>2, <1>7, <3>0, <4>2, <4>4, <5>1 DEF Tallied
      <4> QED BY <4>3, <4>4
    <3> QED BY <1>12, <3>1, <3>2
  <2>5. Tallied'
    BY <1>1, <2>3, <2>4 DEF Tallied
  <2> QED BY <1>1, <1>2, <2>1, <2>2, <2>5 DEF CountInv
<1> QED BY <1>3, <1>9, <1>10, <1>11, <1>12 DEF Visits

\* At its end the walk has met all of the tree.
LEMMA EndCounts == WalkInv /\ CountInv /\ Change!EndWalk => CountInv'
<1> SUFFICES ASSUME WalkInv, CountInv, Change!EndWalk PROVE CountInv'
  OBVIOUS
<1>1. /\ pc = "walk" /\ todo = {} /\ stack = <<>> /\ pc' = "read"
      /\ UNCHANGED <<input, stack, todo, count, sent, records, whole, result>>
  BY DEF Change!EndWalk
<1>2. /\ WalkTyped /\ OnTheWay /\ RecordsTrue /\ Covered
      /\ ~Stopped /\ MetOnce /\ Tallied /\ StopsAreEarned /\ OneRecordEach /\ result.status = "none"
  BY <1>1 DEF WalkInv, CountInv
<1>3. Waiting = {} /\ Change!Range(stack) = {}
  BY <1>1 DEF Waiting, Change!Range
<1>4. \A p \in Path : Change!Seen(p) => Recorded(p)
  BY <1>2, <1>3 DEF Covered
<1>5. Met = Change!Entries
  <2>1. Met \subseteq Change!Entries
    BY <1>2, MetAreEntries
  <2> QED BY <1>4, <2>1 DEF Met, Change!Entries
<1>6. ~TooMany
  <2>1. input \in Inputs
    BY <1>2 DEF WalkTyped
  <2>2. count \in Nat /\ input.caps.entries \in Nat
    BY <1>2, <2>1, InputFacts DEF WalkTyped
  <2> QED BY <1>2, <1>5, <2>2 DEF TooMany, Tallied
<1>7. ~TooMany' /\ StopsAreEarned' /\ OneRecordEach'
  BY <1>1, <1>2, <1>6, SameCounts DEF StopsAreEarned, OneRecordEach
<1> QED BY <1>1, <1>2, <1>7 DEF CountInv

LEMMA ReadCounts == WalkInv /\ CountInv /\ Change!ReadRecords => CountInv'
<1> SUFFICES ASSUME WalkInv, CountInv, Change!ReadRecords PROVE CountInv'
  OBVIOUS
<1>1. /\ pc = "read" /\ pc' = "compute" /\ UNCHANGED <<input, stack, todo, count, sent, result>>
      /\ \/ whole' = TRUE /\ UNCHANGED records
         \/ whole' = FALSE /\ records' = {}
  BY DEF Change!ReadRecords
<1>2. StopsAreEarned /\ OneRecordEach /\ result.status = "none" /\ (Stopped \/ ~TooMany)
  BY <1>1 DEF CountInv
<1>3. TooMany' = TooMany /\ TooLarge' = TooLarge
  BY <1>1, SameCounts
<1>4. StopsAreEarned'
  BY <1>1, <1>2, <1>3 DEF StopsAreEarned
<1>5. OneRecordEach'
  BY <1>1, <1>2, FS_EmptySet DEF OneRecordEach
<1>6. whole' = TRUE => (Stopped' \/ ~TooMany')
  BY <1>1, <1>2, <1>3 DEF Stopped
<1> QED BY <1>1, <1>2, <1>4, <1>5, <1>6 DEF CountInv

LEMMA ComputeCounts == WalkInv /\ CountInv /\ Change!ComputeChanges => CountInv'
<1> SUFFICES ASSUME WalkInv, CountInv, Change!ComputeChanges PROVE CountInv'
  OBVIOUS
<1>1. /\ pc = "compute" /\ pc' = "done" /\ UNCHANGED <<input, stack, todo, count, sent, records, whole>>
      /\ result' = (IF Change!RefusesWalk \/ Change!RefusesChanges THEN Change!NoResult("refused")
                    ELSE [status |-> "ok", changes |-> Change!Changes, excluded |-> Change!Excluded])
  BY DEF Change!ComputeChanges
<1>2. /\ StopsAreEarned /\ OneRecordEach /\ (whole = TRUE => Stopped \/ ~TooMany)
      /\ whole \in BOOLEAN /\ (whole = TRUE => Complete)
  BY <1>1 DEF CountInv, WalkInv, WalkTyped
<1>3. result'.status \in {"refused", "ok"}
  BY <1>1 DEF Change!NoResult
<1>4. StopsAreEarned' /\ OneRecordEach'
  BY <1>1, <1>2, SameCounts DEF StopsAreEarned, OneRecordEach
<1>5. whole' = TRUE => Complete' /\ (Stopped' \/ ~TooMany')
  <2>1. TooMany' = TooMany /\ Complete' = Complete /\ Stopped' = Stopped
    BY <1>1, SameTree, SameCounts DEF Complete, Stopped, Recorded, Stops
  <2> QED BY <1>1, <1>2, <2>1
<1>6. /\ Change!RefusesWalk' = Change!RefusesWalk /\ Change!RefusesChanges' = Change!RefusesChanges
  <2>1. Change!RefusesWalk' = Change!RefusesWalk /\ Change!Changes' = Change!Changes
    BY <1>1, SameVerdict
  <2>2. Change!RefusesChanges' = Change!RefusesChanges
    BY <1>1, <2>1 DEF Change!RefusesChanges
  <2> QED BY <2>1, <2>2
<1>7. result'.status = "ok" => ~Change!RefusesWalk /\ ~Change!RefusesChanges
  BY <1>1 DEF Change!NoResult
<1>8. result'.status = "refused" => Change!RefusesWalk \/ Change!RefusesChanges
  BY <1>1
<1>9. result'.status = "ok" => whole' = TRUE
  BY <1>1, <1>2, <1>7 DEF Change!RefusesWalk
<1> QED BY <1>1, <1>3, <1>4, <1>5, <1>6, <1>7, <1>8, <1>9 DEF CountInv

LEMMA CountStep == WalkInv /\ CountInv /\ Change!Next => CountInv'
  BY OpenCounts, VisitCounts, EndCounts, ReadCounts, ComputeCounts DEF Change!Next

-----------------------------------------------------------------------------
(* The walk and the driver agree about the caps *)

NewEntry(p) == [op |-> "added", path |-> p, body |-> input.tree[p].body, exec |-> input.tree[p].exec]
Added == {c \in Change!Changes : c.op = "added"}

\* What is added are the tracked files that were not in the baseline, each once.
LEMMA AddedAreNew ==
  ASSUME RecordsTrue, Complete, ~Change!RefusesWalk
  PROVE  Added = {NewEntry(p) : p \in Change!Tracked \ Change!Base}
<1>1. /\ \A r \in Change!Sent : /\ r.path \in Change!Tracked
                                /\ r.body = input.tree[r.path].body /\ r.exec = input.tree[r.path].exec
      /\ \A p \in Change!Tracked : \E r \in Change!Sent : r.path = p
  BY SentIsTracked
<1>2. \A op, r : Change!Entry(op, r).op = op
  BY DEF Change!Entry
<1>3. \A r \in Change!Sent : Change!Entry("added", r) = NewEntry(r.path)
  BY <1>1 DEF Change!Entry, NewEntry
<1>4. Added = {Change!Entry("added", r) : r \in {r \in Change!Sent : r.path \notin Change!Base}}
  <2>1. ASSUME NEW c \in Added PROVE \E r \in Change!Sent : r.path \notin Change!Base /\ c = Change!Entry("added", r)
    <3>1. c \in Change!Changes /\ c.op = "added"
      BY DEF Added
    <3>2. \/ \E r \in Change!Sent : r.path \notin Change!Base /\ c = Change!Entry("added", r)
          \/ \E r : c = Change!Entry("modified", r)
          \/ \E r : c = Change!Entry("mode", r)
          \/ \E r : c = Change!Entry("deleted", r)
      BY <3>1 DEF Change!Changes
    <3> QED BY <1>2, <3>1, <3>2
  <2>2. ASSUME NEW r \in Change!Sent, r.path \notin Change!Base PROVE Change!Entry("added", r) \in Added
    BY <1>2, <2>2 DEF Added, Change!Changes
  <2> QED BY <2>1, <2>2
<1>5. \A c \in Added : \E p \in Change!Tracked \ Change!Base : c = NewEntry(p)
  BY <1>1, <1>3, <1>4
<1>6. ASSUME NEW p \in Change!Tracked \ Change!Base PROVE NewEntry(p) \in Added
  <2>1. PICK r \in Change!Sent : r.path = p
    BY <1>1
  <2> QED BY <1>3, <1>4, <2>1
<1> QED BY <1>5, <1>6

LEMMA AddedAreCounted ==
  ASSUME input \in Inputs, RecordsTrue, Complete, ~Change!RefusesWalk
  PROVE  Cardinality(Added) = Cardinality(Change!Tracked \ Change!Base)
<1> DEFINE N == Change!Tracked \ Change!Base
           f == [p \in N |-> NewEntry(p)]
<1>1. Added = {NewEntry(p) : p \in N}
  BY AddedAreNew
<1>2. IsFiniteSet(N)
  BY EntriesAreFinite, FS_Difference
<1>3. \A p, q : NewEntry(p) = NewEntry(q) => p = q
  BY DEF NewEntry
<1>4. f \in Bijection(N, Added)
  <2> HIDE DEF N
  <2>1. f \in [N -> Added] /\ DOMAIN f = N
    BY <1>1
  <2>2. \A p, q \in N : f[p] = f[q] => p = q
    BY <1>3
  <2>3. \A c \in Added : \E p \in N : f[p] = c
    BY <1>1
  <2> HIDE DEF f
  <2> QED BY <2>1, <2>2, <2>3 DEF Bijection, Injection, Surjection, IsInjective
<1>5. ExistsBijection(N, Added)
  BY <1>4 DEF ExistsBijection
<1> HIDE DEF N
<1> QED BY <1>2, <1>5, FS_Bijection DEF N

\* The counts of the model's own words.
LEMMA InOtherWords ==
  /\ Change!Cardinality(Change!Entries) + Change!Beneath = CountOf(Change!Entries)
  /\ Change!Total({<<p, input.tree[p].body>> : p \in Change!Tracked}) = Change!Total(Sized(Change!Tracked))
  /\ Change!Total({<<r.path, r.size>> : r \in Change!Of({"F"})}) = Change!Total(SentPairs)
  /\ Change!Cardinality({c \in Change!Changes : c.op = "added"}) = Cardinality(Added)
<1>1. {p \in Change!Entries : Change!Last(p) = Git /\ ~Change!Withheld(p) /\ input.tree[p].kind = "dir"}
        = {p \in Change!Entries : IsRepository(p)}
  BY DEF IsRepository, Kind
<1>2. Change!Beneath = Change!Total(Sized({p \in Change!Entries : IsRepository(p)}))
  BY <1>1 DEF Change!Beneath, Sized
<1>3. Change!Cardinality(Change!Entries) = Cardinality(Change!Entries)
  BY ChangeCounts
<1>4. Change!Cardinality({c \in Change!Changes : c.op = "added"}) = Cardinality(Added)
  BY ChangeCounts DEF Added
<1> QED BY <1>2, <1>3, <1>4 DEF CountOf, Sized, SentPairs

LEMMA ImproperMeans ==
  Change!Improper <=>
    Change!Unfit \/ TooMany \/ TooLarge \/ Cardinality(Change!Tracked \ Change!Base) > input.caps.added_files
  BY InOtherWords, ChangeCounts DEF Change!Improper, TooMany, TooLarge

\* What comes out as a change set is over none of the caps.
LEMMA OkIsProper ==
  ASSUME WalkInv, CountInv, result.status = "ok"
  PROVE  ~Change!Improper
<1>1. /\ WalkTyped /\ RecordsTrue /\ Complete /\ ~Change!RefusesWalk /\ ~Change!RefusesChanges
      /\ OneRecordEach /\ (Stopped \/ ~TooMany) /\ input \in Inputs
  BY DEF WalkInv, CountInv, WalkTyped
<1>2. ~Stopped /\ ~TooMany
  BY <1>1 DEF Change!RefusesWalk, Change!Of, Stopped, Stops
<1>3. ~Change!Unfit
  BY WalkRefuses
<1>4. ~TooLarge
  <2>1. Sized(Change!Tracked) \subseteq SentPairs
    <3>1. \A p \in Change!Tracked : \E r \in Change!Sent : r.path = p
      BY <1>1, SentIsTracked
    <3>2. \A r \in Change!Sent : r \in Change!Of({"F"}) /\ r.size = input.tree[r.path].body
      BY <1>1 DEF Change!Sent, Change!Of, RecordsTrue, Truthful, Stops
    <3> QED BY <3>1, <3>2 DEF Sized, SentPairs
  <2>2. Sized(Change!Tracked) = SentPairs
    BY <1>1, <2>1, SentIsSized
  <2>3. ~(Change!Total(SentPairs) > input.caps.total_bytes)
    BY <1>1, InOtherWords DEF Change!RefusesWalk
  <2> QED BY <2>2, <2>3 DEF TooLarge
<1>5. ~(Cardinality(Change!Tracked \ Change!Base) > input.caps.added_files)
  BY <1>1, AddedAreCounted, InOtherWords DEF Change!RefusesChanges
<1> QED BY <1>2, <1>3, <1>4, <1>5, ImproperMeans

\* Of a proper tree that could be read nothing is refused before the changes are known.
LEMMA ProperIsWalked ==
  ASSUME WalkInv, CountInv, ~Change!Improper, whole = TRUE, Change!Of({"E"}) = {}
  PROVE  ~Change!RefusesWalk
<1>1. /\ WalkTyped /\ RecordsTrue /\ OneRecordEach /\ StopsAreEarned /\ input \in Inputs
      /\ ~Change!Unfit /\ ~TooMany /\ ~TooLarge
  BY ImproperMeans DEF WalkInv, CountInv, WalkTyped
<1>2. \A r \in records : r.kind \notin Stops
  BY <1>1 DEF StopsAreEarned, Change!Of, Stops
<1>3. \A r \in records : Truthful(r) /\ r.path \in Change!Entries
  BY <1>1, <1>2 DEF RecordsTrue, Truthful, Change!Entries
<1>4. \A r \in records : r.kind \in {"F", "B"} => r.path \in Change!Tracked
  BY <1>3 DEF Truthful, Change!Tracked, Kind
<1>5. \A p \in Change!Entries : ~Change!Withheld(p) /\ p \notin NotUtf8
  BY <1>1 DEF Change!Unfit
<1>6. \A p \in Change!Tracked : ~(input.tree[p].body > input.caps.file_bytes)
  BY <1>1 DEF Change!Unfit
<1>7. \A p \in Change!Entries : Change!Plain(p) /\ Kind(p) \in {"link", "special"} => p \notin Change!Base /\ Change!Generated(p)
  BY <1>1 DEF Change!Unfit, Kind
<1>8. \A r \in records : r.kind \notin {"C", "T", "E", "W", "B"} /\ r.path \notin NotUtf8
  BY <1>2, <1>3, <1>4, <1>5, <1>6 DEF Truthful, Stops
<1>9. \A r \in records : r.kind \in {"L", "O", "S"} => Change!Unwanted(r)
  BY <1>3, <1>7 DEF Truthful, Change!Unwanted
<1>10. \A r \in records : r.kind = "F" => ~(r.size > input.caps.file_bytes)
  BY <1>3, <1>4, <1>6 DEF Truthful
<1>11. ~(Change!Total(SentPairs) > input.caps.total_bytes)
  <2>1. SentPairs \in SUBSET Sized(Change!Tracked) /\ Sizes(SentPairs)
    BY <1>1, SentIsSized
  <2>2. IsFiniteSet(Change!Tracked) /\ Change!Tracked \subseteq Path
    BY <1>1, EntriesAreFinite DEF Change!Tracked
  <2>3. Sizes(Sized(Change!Tracked))
    BY <1>1, <2>2, SizedPaths
  <2>4. /\ Change!Total(SentPairs) <= Change!Total(Sized(Change!Tracked))
        /\ Change!Total(SentPairs) \in Nat /\ Change!Total(Sized(Change!Tracked)) \in Nat
    BY <2>1, <2>3, TotalGrows, UnitsAreFinite
  <2>5. input.caps.total_bytes \in Nat
    BY <1>1, InputFacts
  <2> QED BY <1>1, <2>4, <2>5 DEF TooLarge
<1>12. ~(Change!Cardinality(records) > input.caps.entries)
  <2> DEFINE f == [r \in records |-> r.path]
             E == Change!Entries
  <2>1. IsFiniteSet(E) /\ E \subseteq Path
    BY <1>1, EntriesAreFinite
  <2>2. f \in Injection(records, E)
    <3>1. f \in [records -> E] /\ DOMAIN f = records
      BY <1>3
    <3>2. \A r, s \in records : f[r] = f[s] => r = s
      BY <1>1, <1>2 DEF OneRecordEach
    <3> HIDE DEF f, E
    <3> QED BY <3>1, <3>2 DEF Injection, IsInjective
  <2> HIDE DEF f
  <2>3. Cardinality(records) <= Cardinality(E) /\ Cardinality(records) \in Nat
    <3> HIDE DEF E
    <3> QED BY <2>1, <2>2, FS_Injection, FS_CardinalityType
  <2> DEFINE R == Sized({p \in E : IsRepository(p)})
  <2>4. Change!Total(R) \in Nat
    <3>1. {p \in E : IsRepository(p)} \subseteq Path /\ IsFiniteSet({p \in E : IsRepository(p)})
      BY <2>1, FS_Subset
    <3> HIDE DEF E
    <3> QED BY <1>1, <3>1, SizedPaths, UnitsAreFinite
  <2>5. Cardinality(E) + Change!Total(R) <= input.caps.entries /\ Cardinality(E) \in Nat /\ input.caps.entries \in Nat
    <3>1. ~(Cardinality(E) + Change!Total(R) > input.caps.entries)
      BY <1>1 DEF TooMany, CountOf
    <3>2. Cardinality(E) \in Nat /\ input.caps.entries \in Nat
      BY <1>1, <2>1, FS_CardinalityType, InputFacts
    <3> HIDE DEF E, R
    <3> QED BY <2>4, <3>1, <3>2
  <2> HIDE DEF E, R
  <2>6. Cardinality(records) <= input.caps.entries
    BY <2>3, <2>4, <2>5
  <2> QED BY <2>3, <2>5, <2>6, ChangeCounts
<1> QED BY <1>8, <1>9, <1>10, <1>11, <1>12, InOtherWords DEF Change!RefusesWalk, Change!Of

LEMMA CapsProve == WalkInv /\ CountInv => Change!CapsAgree
<1> SUFFICES ASSUME WalkInv, CountInv, pc = "done", result.status # "infrastructure"
             PROVE  /\ Change!Improper => result.status = "refused"
                    /\ ~Change!Improper /\ whole /\ Change!Of({"E"}) = {} /\ result.status = "refused" =>
                         \E c \in Change!Changes : c.path \in NotPlain
  BY DEF Change!CapsAgree
<1>1. result.status \in {"ok", "refused"} /\ whole \in BOOLEAN /\ input \in Inputs /\ RecordsTrue
  BY DEF WalkInv, CountInv, WalkTyped
<1>2. Change!Improper => result.status = "refused"
  BY <1>1, OkIsProper
<1>3. ASSUME ~Change!Improper, whole = TRUE, Change!Of({"E"}) = {}, result.status = "refused"
      PROVE  \E c \in Change!Changes : c.path \in NotPlain
  <2>1. ~Change!RefusesWalk
    BY <1>3, ProperIsWalked
  <2>2. Change!RefusesChanges /\ Complete
    BY <1>3, <2>1 DEF CountInv
  <2>3. ~(Cardinality(Added) > input.caps.added_files)
    BY <1>1, <1>3, <2>1, <2>2, AddedAreCounted, ImproperMeans
  <2> QED BY <2>2, <2>3, InOtherWords DEF Change!RefusesChanges
<1>4. whole => whole = TRUE
  BY <1>1
<1> QED BY <1>2, <1>3, <1>4

-----------------------------------------------------------------------------
(* The three parts side by side *)

ContainerInv ==
  \/ part = "driver" /\ DriverInv
  \/ part = "change" /\ WalkInv /\ CountInv
  \/ part = "probe" /\ ProbeInv

LEMMA ContainerStarts == Init => ContainerInv
  BY DriverStarts, WalkStarts, CountStarts, ProbeStarts DEF Init, ContainerInv

\* A step in which nothing moves.
Idle == UNCHANGED vars

LEMMA IdleVars ==
  ASSUME Idle
  PROVE  /\ UNCHANGED <<part, order, pc, then, hunted, owner, holds, lead, pipe, seen, wrote, writes, forks, listed>>
         /\ UNCHANGED <<found, rounds, slips, proved, clocks, job, jstatus, jexit, deps, login, status, exit>>
         /\ UNCHANGED <<ran, change, infra, input, stack, todo, count, sent, records, whole, result, answer>>
         /\ UNCHANGED <<route, child, clock, pending, lines, outcomes, killed, garbled, rows, verdict>>
  BY DEF Idle, vars, Driver!vars, Driver!procVars, Driver!scanVars, Driver!goVars, Driver!jobVars,
         Driver!outVars, DriverRest

LEMMA DriverIdles == DriverInv /\ Idle => DriverInv'
<1> SUFFICES ASSUME DriverInv, Idle PROVE DriverInv'
  OBVIOUS
<1>1. DriverTyped'
  BY IdleVars DEF DriverInv, DriverTyped
<1>2. Counted' /\ HuntInv' /\ CaptureInv'
  BY IdleVars DEF DriverInv, Counted, HuntInv, CaptureInv, Place
<1>3. SlipInv'
  BY IdleVars DEF DriverInv, SlipInv, Alive
<1>4. OutTyped' /\ Consistent'
  BY IdleVars DEF DriverInv, OutcomeInv, OutTyped, Consistent
<1>5. StageInv'
  BY IdleVars DEF DriverInv, OutcomeInv, StageInv, Place, Fresh, Known, Provided, LoggedIn, AtJob
<1> QED BY <1>1, <1>2, <1>3, <1>4, <1>5 DEF DriverInv, OutcomeInv

LEMMA WalkIdles == WalkInv /\ Idle => WalkInv'
<1> SUFFICES ASSUME WalkInv, Idle PROVE WalkInv'
  OBVIOUS
<1>1. UNCHANGED <<input, pc, stack, todo, count, sent, records, whole, result>>
  BY IdleVars
<1>2. Change!Range(stack)' = Change!Range(stack)
  BY <1>1 DEF Change!Range
<1>3. WalkTyped'
  BY <1>1, SameTree DEF WalkInv, WalkTyped
<1>4. OnTheWay'
  BY <1>1, <1>2, SameTree DEF WalkInv, OnTheWay
<1>5. RecordsTrue'
  BY <1>1, StaysTrue DEF WalkInv
<1>6. Stopped' = Stopped /\ Waiting' = Waiting /\ \A p : Recorded(p)' = Recorded(p)
  BY <1>1, <1>2 DEF Stopped, Waiting, Recorded
<1>7. \A p : Change!Seen(p)' = Change!Seen(p)
  BY <1>1, SameTree
<1>8. Covered' = Covered /\ Complete' = Complete
  BY <1>6, <1>7 DEF Covered, Complete
<1>9. Change!RefusesWalk' = Change!RefusesWalk /\ Change!Changes' = Change!Changes /\ Change!Excluded' = Change!Excluded
  BY <1>1, SameVerdict
<1> QED BY <1>1, <1>3, <1>4, <1>5, <1>8, <1>9 DEF WalkInv

LEMMA CountIdles == CountInv /\ Idle => CountInv'
<1> SUFFICES ASSUME CountInv, Idle PROVE CountInv'
  OBVIOUS
<1>1. UNCHANGED <<input, pc, stack, todo, count, sent, records, whole, result>>
  BY IdleVars
<1>2. Change!Range(stack)' = Change!Range(stack)
  BY <1>1 DEF Change!Range
<1>3. \A p : Recorded(p)' = Recorded(p)
  BY <1>1 DEF Recorded
<1>4. Met' = Met /\ \A d : Opened(d)' = Opened(d)
  BY <1>2, <1>3 DEF Met, Opened
<1>5. MetOnce' = MetOnce
  BY <1>1, <1>2, <1>3, <1>4 DEF MetOnce
<1>6. TooMany' = TooMany /\ TooLarge' = TooLarge /\ CountOf(Met)' = CountOf(Met)
  BY <1>1, <1>4, SameCounts
<1>7. SentPairs' = SentPairs
  BY <1>1 DEF SentPairs, Change!Of
<1>8. Tallied' = Tallied
  <2>1. Change!Total(SentPairs)' = Change!Total(SentPairs)
    BY <1>7 DEF Change!Total, Change!Units
  <2> QED BY <1>1, <1>6, <2>1 DEF Tallied
<1>9. Stopped' = Stopped /\ Complete' = Complete
  BY <1>1, <1>3, SameTree DEF Stopped, Complete
<1>10. StopsAreEarned' = StopsAreEarned /\ OneRecordEach' = OneRecordEach
  BY <1>1, <1>6 DEF StopsAreEarned, OneRecordEach
<1>11. Change!RefusesWalk' = Change!RefusesWalk /\ Change!RefusesChanges' = Change!RefusesChanges
  <2>1. Change!RefusesWalk' = Change!RefusesWalk /\ Change!Changes' = Change!Changes
    BY <1>1, SameVerdict
  <2>2. Change!RefusesChanges' = Change!RefusesChanges
    BY <1>1, <2>1 DEF Change!RefusesChanges
  <2> QED BY <2>1, <2>2
<1> QED BY <1>1, <1>5, <1>6, <1>8, <1>9, <1>10, <1>11 DEF CountInv

LEMMA ProbeIdles == ProbeInv /\ Idle => ProbeInv'
<1> SUFFICES ASSUME ProbeInv, Idle PROVE ProbeInv'
  OBVIOUS
<1>1. UNCHANGED <<answer, route, pc, child, clock, pending, lines, outcomes, killed, garbled, infra, status, rows, verdict>>
  BY IdleVars
<1>2. ProbeTyped'
  BY <1>1 DEF ProbeInv, ProbeTyped
<1>3. ReportsAreTrue' /\ StatusTells' /\ VerdictTells'
  BY <1>1 DEF ProbeInv, ReportsAreTrue, Reports, StatusTells, VerdictTells
<1> QED BY <1>2, <1>3 DEF ProbeInv

LEMMA ContainerStep == ContainerInv /\ [Next]_vars => ContainerInv'
<1> SUFFICES ASSUME ContainerInv, [Next]_vars PROVE ContainerInv'
  OBVIOUS
<1>1. CASE InDriver /\ Driver!Next
  BY <1>1, DriverInvStep DEF ContainerInv, InDriver
<1>2. CASE InChange /\ Change!Next
  BY <1>2, WalkStep, CountStep DEF ContainerInv, InChange
<1>3. CASE InProbe /\ Probe!Next
  BY <1>3, ProbeStep DEF ContainerInv, InProbe
<1>4. CASE Idle
  <2>1. part' = part
    BY <1>4, IdleVars
  <2> QED BY <1>4, <2>1, DriverIdles, WalkIdles, CountIdles, ProbeIdles DEF ContainerInv
<1> QED BY <1>1, <1>2, <1>3, <1>4 DEF Next, Idle

LEMMA ContainerIsInvariant == Spec => []ContainerInv
<1>1. Init => ContainerInv
  BY ContainerStarts
<1>2. ContainerInv /\ [Next]_vars => ContainerInv'
  BY ContainerStep
<1> QED BY <1>1, <1>2, PTL DEF Spec

-----------------------------------------------------------------------------
\* The variables of the part that runs keep their types; the bounds of the counters
\* among them follow from what is counted.
THEOREM TypesAreKept == Spec => []TypeOK
<1>1. ContainerInv => TypeOK
  BY DriverIsTyped, WalkIsTyped, ProbeIsTyped DEF ContainerInv, TypeOK
<1> QED BY <1>1, ContainerIsInvariant, PTL

\* Supervisor of sandbox_driver.py: an outcome counts all that a job wrote, only a
\* process that slipped through two scans survives its hunt, exports are read when
\* nobody is alive, and an outcome says what was done.
THEOREM DriverIsSound == Spec => []DriverSound
<1>1. ContainerInv => DriverSound
  BY DriverProves DEF ContainerInv, DriverSound
<1> QED BY <1>1, ContainerIsInvariant, PTL

\* probe_child and its verdict: "isolated" is said only when every target was tried
\* to the end and none could be reached.
THEOREM IsolationProved == Spec => []IsolationIsProven
<1>1. ContainerInv => IsolationIsProven
  BY ProbeProves DEF ContainerInv, IsolationIsProven
<1> QED BY <1>1, ContainerIsInvariant, PTL

\* walk_tree and compute_changes: a change set applied to the baseline gives the files
\* of the working tree, leaves out nothing the baseline has, and says nothing of
\* withheld paths and repositories.
THEOREM PatchIsExact == Spec => [](part = "change" => Change!PatchRebuilds)
<1>1. ContainerInv => (part = "change" => Change!PatchRebuilds)
  BY WalkProves DEF ContainerInv
<1> QED BY <1>1, ContainerIsInvariant, PTL

\* ... and a tree with something in it that no change set may speak of is refused.
THEOREM UnfitIsRefused == Spec => [](part = "change" /\ result.status = "ok" => ~Change!Unfit)
<1>1. ContainerInv => (part = "change" /\ result.status = "ok" => ~Change!Unfit)
  BY WalkRefuses DEF ContainerInv
<1> QED BY <1>1, ContainerIsInvariant, PTL

\* Both, and the caps: walk_tree counts entries and bytes as the driver does, so that
\* no tree over a cap becomes a change set and none that is within them and was read to
\* its end is refused, but for the name of a changed path.
THEOREM ChangeSetProved == Spec => []ChangeSetExact
<1>1. ContainerInv => ChangeSetExact
  BY WalkProves, CapsProve DEF ContainerInv, ChangeSetExact, Change!ChangeSetExact
<1> QED BY <1>1, ContainerIsInvariant, PTL
=============================================================================
