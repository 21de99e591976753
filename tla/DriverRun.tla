----------------------------- MODULE DriverRun -------------------------------
(***************************************************************************)
(* scripts/sandbox_driver.py in the container: main_run and main_build.    *)
(*                                                                         *)
(* The driver runs up to three programs of somebody else, one after the    *)
(* other: the installer (as 65531), the login check and the command or     *)
(* Codex (as 65532).  Each may fork, leave its process group, keep the     *)
(* output pipe open or close it, and outlive its leader.  _supervise       *)
(* captures one program; quiesce looks for what it left, kills it and looks *)
(* again.  A scan is a listing of /proc and, later, one look at each entry *)
(* of the listing: a process forked in between is not in it.               *)
(*                                                                         *)
(* stdout and stderr are one pipe here, and a byte of the model is any     *)
(* number of bytes.                                                        *)
(***************************************************************************)
EXTENDS Naturals, FiniteSets

CONSTANTS
  Proc,        \* process ids
  NoProc,      \* no process
  Cap,         \* the capture cap of every job
  MaxWrites,   \* bound: bytes all processes write
  MaxForks,    \* bound: forks
  MaxRounds    \* scans that fit into QUIESCE_SECONDS

VARIABLES
  order,       \* the spec line: mode, and whether a deps tar came with it
  pc,          \* where the driver is
  then,        \* where it goes on once quiesce has succeeded
  hunted,      \* the uids quiesce is looking for
  owner,       \* uid of each process, "none" for an id that is not in use
  holds,       \* processes that hold a write end of the job's pipe
  lead,        \* the job's leader until it is waited for
  pipe,        \* written and not read
  seen,        \* _Capture.seen
  wrote,       \* history: all the job's processes have written
  writes, forks,
  listed,      \* the listing of the scan that is going on
  found,       \* the live processes it saw
  rounds,      \* scans of this quiesce
  slips,       \* history: per uid, forks of the last round between listing and looks
  proved,      \* history: uids a quiesce has cleared and no job was started for
  clocks,      \* deadlines that have passed
  job,         \* installer, login check or command
  jstatus, jexit,           \* _supervise's outcome
  deps, login,              \* deps object and login_status
  status, exit, ran,        \* command_status, command_exit, ran_command or ran_codex
  change, infra             \* the change set, and `infrastructure is not None'

procVars == <<owner, holds, lead, pipe, wrote, writes, forks>>
scanVars == <<listed, found, rounds, slips>>
goVars   == <<pc, then, hunted>>
jobVars  == <<job, jstatus, jexit, seen>>
outVars  == <<deps, login, status, exit, ran, change, infra>>
vars     == <<order, procVars, scanVars, goVars, jobVars, outVars, proved, clocks>>

Uids     == {"deps", "run"}          \* DEPS_UID and RUN_UID: CHILD_UIDS
Jobs     == {"install", "login", "command"}
JobUid   == [install |-> "deps", login |-> "run", command |-> "run"]
Build    == order.mode = "build"
Live(us) == {p \in Proc : owner[p] \in us}

TypeOK ==
  /\ order \in [mode : {"run", "build"}, deps : BOOLEAN]
  /\ owner \in [Proc -> Uids \cup {"none"}] /\ holds \subseteq Proc
  /\ lead \in Proc \cup {NoProc}
  /\ {pipe, seen, wrote, writes} \subseteq 0..MaxWrites /\ forks \in 0..MaxForks
  /\ listed \subseteq Proc /\ found \subseteq Proc /\ rounds \in 0..MaxRounds
  /\ slips \in [Uids -> 0..MaxForks] /\ hunted \subseteq Uids /\ proved \subseteq Uids
  /\ clocks \subseteq {"deps", "login", "all"} /\ job \in Jobs
  /\ jstatus \in {"exited", "timeout", "output_limit", "not_started"}
  /\ jexit \in {"none", "zero", "other"}
  /\ deps \in {"null", "failed", "installed"} /\ login \in {"null", "chatgpt", "rejected"}
  /\ status \in {"not_started", "deps_failed", "exited", "timeout", "output_limit"}
  /\ exit \in {"none", "zero", "other"} /\ change \in {"none", "ok", "refused"}
  /\ {ran, infra} \subseteq BOOLEAN

Init ==
  /\ order \in [mode : {"run", "build"}, deps : BOOLEAN]
  /\ pc = "header" /\ then = "header" /\ hunted = {}
  /\ owner = [p \in Proc |-> "none"] /\ holds = {} /\ lead = NoProc
  /\ pipe = 0 /\ seen = 0 /\ wrote = 0 /\ writes = 0 /\ forks = 0
  /\ listed = {} /\ found = {} /\ rounds = 0 /\ slips = [u \in Uids |-> 0]
  /\ proved = {} /\ clocks = {}
  /\ job = "command" /\ jstatus = "not_started" /\ jexit = "none"
  /\ deps = (IF order.deps THEN "failed" ELSE "null") /\ login = "null"
  /\ status = "not_started" /\ exit = "none" /\ ran = FALSE
  /\ change = "none" /\ infra = FALSE

Goto(from, to) == pc = from /\ pc' = to

\* An infrastructure reason: every later step is skipped and the result says so.
Fail(from) ==
  /\ Goto(from, "result")
  /\ infra' = TRUE
  /\ UNCHANGED <<deps, login, status, exit, ran, change>>

-----------------------------------------------------------------------------
(* The processes of the running job, and time *)

\* The number of a process means nothing: any that nobody remembers is a new one.
NewNumbers == {q \in Proc : owner[q] = "none" /\ q # lead /\ q \notin listed \cup found}
NewNumber  == CHOOSE q \in NewNumbers : TRUE

Fork(p) ==
  /\ owner[p] # "none" /\ NewNumbers # {} /\ forks < MaxForks
  /\ owner' = [owner EXCEPT ![NewNumber] = owner[p]]
  /\ holds' = (IF p \in holds THEN holds \cup {NewNumber} ELSE holds)
  /\ forks' = forks + 1
  /\ slips' = (IF pc \in {"look", "looktwice"} /\ owner[p] \in hunted
               THEN [slips EXCEPT ![owner[p]] = @ + 1] ELSE slips)
  /\ UNCHANGED <<lead, pipe, wrote, writes, listed, found, rounds, order, goVars, jobVars, outVars, proved, clocks>>

ClosePipe(p) ==
  /\ p \in holds
  /\ holds' = holds \ {p}
  /\ UNCHANGED <<owner, lead, pipe, wrote, writes, forks, scanVars, order, goVars, jobVars, outVars, proved, clocks>>

Write(p) ==
  /\ p \in holds /\ writes < MaxWrites
  /\ pipe' = pipe + 1 /\ wrote' = wrote + 1 /\ writes' = writes + 1
  /\ UNCHANGED <<owner, holds, lead, forks, scanVars, order, goVars, jobVars, outVars, proved, clocks>>

Exit(p) ==
  /\ owner[p] # "none"
  /\ owner' = [owner EXCEPT ![p] = "none"] /\ holds' = holds \ {p}
  /\ UNCHANGED <<lead, pipe, wrote, writes, forks, scanVars, order, goVars, jobVars, outVars, proved, clocks>>

Processes == \E p \in Proc : Write(p) \/ ClosePipe(p) \/ Exit(p) \/ Fork(p)

Before == {"header", "inputs", "extract", "home"}

\* The deps budget lies inside the whole one, which begins with the deps phase
\* or, in a run without deps, with the command; the login check has its own
\* deadline besides.
Begun(c) ==
  CASE c = "deps"  -> order.deps /\ pc \notin Before
    [] c = "login" -> job = "login" /\ pc \in {"started", "poll"}
    [] c = "all"   -> /\ pc \notin Before
                      /\ order.deps => "deps" \in clocks
                      /\ Build \/ order.deps \/ pc \in {"started", "poll"}

Tick(c) ==
  /\ c \notin clocks /\ Begun(c) /\ pc # "done"
  /\ clocks' = clocks \cup {c}
  /\ UNCHANGED <<order, procVars, scanVars, goVars, jobVars, outVars, proved>>

\* Mutant: the installer is waited for without its budget.
ExpiredExceptInstall == \/ job = "login" /\ clocks \cap {"login", "all"} # {}
                        \/ job = "command" /\ "all" \in clocks

Expired == \/ job = "install" /\ "deps" \in clocks
           \/ job = "login" /\ clocks \cap {"login", "all"} # {}
           \/ job = "command" /\ "all" \in clocks

-----------------------------------------------------------------------------
(* _supervise: one job from its fork to its outcome *)

NewJob(j) ==
  /\ job' = j
  /\ pipe' = 0 /\ seen' = 0 /\ wrote' = 0
  /\ jstatus' = "exited" /\ jexit' = "none"

\* _exec_child: a child in its own session that holds both ends of nothing but
\* the pipe; if exec fails it says so and is waited for.
Spawn(j, from) ==
  \/ /\ NewNumbers # {}
     /\ NewJob(j)
     /\ Goto(from, "started")
     /\ owner' = [owner EXCEPT ![NewNumber] = JobUid[j]]
     /\ holds' = {NewNumber} /\ lead' = NewNumber
     /\ proved' = proved \ {JobUid[j]}
     /\ UNCHANGED <<order, writes, forks, scanVars, then, hunted, outVars, clocks>>
  \/ /\ job' = j /\ jstatus' = "not_started" /\ jexit' = "none"
     /\ Goto(from, "decided")
     /\ pipe' = 0 /\ seen' = 0 /\ wrote' = 0
     /\ UNCHANGED <<order, owner, holds, lead, writes, forks, scanVars, then, hunted, outVars, proved, clocks>>

\* quiesce(uids), and where the driver goes on after it.
BeginQuiesce(uids, next) ==
  /\ pc' = "list" /\ then' = next /\ hunted' = uids
  /\ rounds' = 0 /\ slips' = [u \in Uids |-> IF u \in uids THEN 0 ELSE slips[u]]
  /\ proved' = proved \ uids /\ listed' = {} /\ found' = {}

\* _Capture.pump: what is ready is read and counted, kept or not.
Pump(from, to) ==
  /\ Goto(from, to)
  /\ \E n \in 1..pipe : pipe' = pipe - n /\ seen' = seen + n
  /\ UNCHANGED <<order, owner, holds, lead, wrote, writes, forks, scanVars, then, hunted, job, jstatus, jexit, outVars, proved, clocks>>

\* The loop of _supervise: reap, else pump, then the cap before the deadline.
\* killpg takes the leader and whatever is still in its group.
Poll ==
  \/ /\ pc = "started" /\ owner[lead] # "none"
     /\ IF pipe > 0 THEN Pump("started", "poll")
        ELSE /\ Expired /\ pc' = "poll"
             /\ UNCHANGED <<order, procVars, scanVars, then, hunted, jobVars, outVars, proved, clocks>>
  \/ /\ pc = "poll" /\ seen <= Cap /\ ~Expired
     /\ pc' = "started"
     /\ UNCHANGED <<order, procVars, scanVars, then, hunted, jobVars, outVars, proved, clocks>>

Reap ==
  /\ pc = "started" /\ owner[lead] = "none"
  /\ \E code \in {"zero", "other"} : jexit' = code
  /\ lead' = NoProc
  /\ BeginQuiesce({JobUid[job]}, "drain")
  /\ UNCHANGED <<order, owner, holds, pipe, wrote, writes, forks, job, jstatus, seen, outVars, clocks>>

KillGroup ==
  /\ pc = "poll" /\ (seen > Cap \/ Expired)
  /\ jstatus' = (IF seen > Cap THEN "output_limit" ELSE "timeout")
  /\ \E group \in SUBSET Live({JobUid[job]}) :
       /\ owner' = [p \in Proc |-> IF p \in group \cup {lead} THEN "none" ELSE owner[p]]
       /\ holds' = holds \ (group \cup {lead})
  /\ lead' = NoProc
  /\ BeginQuiesce({JobUid[job]}, "drain")
  /\ UNCHANGED <<order, pipe, wrote, writes, forks, job, jexit, seen, outVars, clocks>>

\* Mutant: the outcome is taken without reading the pipe to its end.
DrainNothing ==
  /\ Goto("drain", "decided")
  /\ jstatus' = (IF seen > Cap THEN "output_limit" ELSE jstatus)
  /\ UNCHANGED <<order, procVars, scanVars, then, hunted, job, jexit, seen, outVars, proved, clocks>>

\* _Capture.drain: to the end of the pipe, which no writer holds any more, and
\* then the decision; CaptureError if the end does not come in time.
Drain ==
  \/ Pump("drain", "drain")
  \/ /\ Goto("drain", "decided")
     /\ holds = {} /\ pipe = 0
     /\ jstatus' = (IF seen > Cap THEN "output_limit" ELSE jstatus)
     /\ jexit' = (IF jstatus' = "exited" THEN jexit ELSE "none")
     /\ UNCHANGED <<order, procVars, scanVars, then, hunted, job, seen, outVars, proved, clocks>>
  \/ /\ Fail("drain")
     /\ holds' = {}      \* the read ends are closed: what they hold is no pipe any more
     /\ UNCHANGED <<order, owner, lead, pipe, wrote, writes, forks, scanVars, then, hunted, jobVars, proved, clocks>>

-----------------------------------------------------------------------------
(* quiesce *)

Lost == /\ Fail(pc)
        /\ holds' = {}
        /\ UNCHANGED <<order, owner, lead, pipe, wrote, writes, forks, scanVars, then, hunted, jobVars, proved, clocks>>

\* scan_proc lists /proc ...
List(from, to) ==
  \/ /\ Goto(from, to)
     /\ listed' = Live(hunted)
     /\ UNCHANGED <<order, procVars, found, rounds, slips, then, hunted, jobVars, outVars, proved, clocks>>
  \/ pc = from /\ Lost

Cleared(from) ==
  /\ pc = from /\ pc' = then
  /\ proved' = proved \cup hunted /\ listed' = {} /\ found' = {}
  /\ UNCHANGED <<order, procVars, rounds, slips, then, hunted, jobVars, outVars, clocks>>

\* Mutant: one empty scan is taken as proof.
LookOnce ==
  /\ pc = "look"
  /\ IF listed \cap Live(hunted) = {} THEN Cleared("look")
     ELSE /\ found' = listed \cap Live(hunted) /\ listed' = {} /\ pc' = "kill"
          /\ UNCHANGED <<order, procVars, rounds, slips, then, hunted, jobVars, outVars, proved, clocks>>

\* ... and reads the status of each entry; one that is gone is skipped.
Look ==
  /\ pc = "look"
  /\ found' = listed \cap Live(hunted) /\ listed' = {}
  /\ pc' = (IF found' = {} THEN "again" ELSE "kill")
  /\ UNCHANGED <<order, procVars, rounds, slips, then, hunted, jobVars, outVars, proved, clocks>>

KillFound ==
  /\ Goto("kill", "late")
  /\ owner' = [p \in Proc |-> IF p \in found THEN "none" ELSE owner[p]]
  /\ holds' = holds \ found /\ found' = {}
  /\ UNCHANGED <<order, lead, pipe, wrote, writes, forks, listed, rounds, slips, then, hunted, jobVars, outVars, proved, clocks>>

LookTwice ==
  \/ listed \cap Live(hunted) = {} /\ Cleared("looktwice")
  \/ /\ listed \cap Live(hunted) # {}
     /\ Goto("looktwice", "late") /\ listed' = {}
     /\ UNCHANGED <<order, procVars, found, rounds, slips, then, hunted, jobVars, outVars, proved, clocks>>

\* Mutant: quiesce never gives up.
LateForever ==
  /\ Goto("late", "list")
  /\ rounds' = rounds + 1
  /\ UNCHANGED <<order, procVars, listed, found, slips, then, hunted, jobVars, outVars, proved, clocks>>

\* Out of QUIESCE_SECONDS, or another round.
Late ==
  \/ /\ Goto("late", "list") /\ rounds < MaxRounds
     /\ rounds' = rounds + 1 /\ slips' = [u \in Uids |-> IF u \in hunted THEN 0 ELSE slips[u]]
     /\ UNCHANGED <<order, procVars, listed, found, then, hunted, jobVars, outVars, proved, clocks>>
  \/ pc = "late" /\ Lost

Quiesce == List("list", "look") \/ Look \/ KillFound \/ List("again", "looktwice") \/ LookTwice \/ Late

-----------------------------------------------------------------------------
(* Before the first job *)

Quiet == UNCHANGED <<order, procVars, scanVars, then, hunted, jobVars, proved, clocks>>

GoOn(from, to) == Goto(from, to) /\ UNCHANGED outVars

Enter == IF order.deps THEN "deps" ELSE IF Build THEN "login" ELSE "command"

\* The nonce and the spec line, with all that parse_spec asks of it.  A spec that
\* is refused is answered by a run that has none, hence no deps object either.
ParseHeader ==
  /\ \/ GoOn("header", "inputs")
     \/ /\ Goto("header", "result") /\ infra' = TRUE /\ deps' = "null"
        /\ UNCHANGED <<login, status, exit, ran, change>>
  /\ Quiet

\* The inputs are read to their announced length and the deps tar is hashed;
\* a build looks at the placeholder, makes its scratch directory and the
\* baseline.
ReadInputs == (GoOn("inputs", "extract") \/ Fail("inputs")) /\ Quiet

ExtractSnapshot == (GoOn("extract", IF Build THEN "home" ELSE Enter) \/ Fail("extract")) /\ Quiet

PrepareCodexHome == (GoOn("home", Enter) \/ Fail("home")) /\ Quiet

-----------------------------------------------------------------------------
(* run_deps: every phase is preceded by a look at the clock *)

DepsFailed(from) ==
  /\ pc = from
  /\ status' = "deps_failed" /\ deps' = "failed"
  /\ BeginQuiesce(Uids, "export")
  /\ UNCHANGED <<order, procVars, jobVars, login, exit, ran, change, infra, clocks>>

InTime(from, to) ==
  /\ "deps" \notin clocks
  /\ GoOn(from, to) /\ Quiet

CheckDeps   == InTime("deps", "unpack") \/ DepsFailed("deps")
ExtractDeps == (GoOn("unpack", "install") /\ Quiet) \/ DepsFailed("unpack")
Install     == ("deps" \notin clocks /\ Spawn("install", "install")) \/ ("deps" \in clocks /\ DepsFailed("install"))

AfterInstall ==
  /\ pc = "decided" /\ job = "install"
  /\ IF jstatus = "exited" /\ jexit = "zero"
     THEN /\ BeginQuiesce({"deps"}, "walkdeps")
          /\ UNCHANGED <<order, procVars, jobVars, outVars, clocks>>
     ELSE DepsFailed("decided")

WalkDeps     == InTime("walkdeps", "readsite") \/ DepsFailed("walkdeps")
ReadSite     == InTime("readsite", "closure") \/ DepsFailed("readsite")

\* The closure check and the last look at the clock.
CheckClosure ==
  \/ /\ pc = "closure" /\ "deps" \notin clocks
     /\ deps' = "installed"
     /\ BeginQuiesce({"deps"}, IF Build THEN "login" ELSE "command")
     /\ UNCHANGED <<order, procVars, jobVars, login, status, exit, ran, change, infra, clocks>>
  \/ DepsFailed("closure")

RunDeps == CheckDeps \/ ExtractDeps \/ Install \/ AfterInstall \/ WalkDeps \/ ReadSite \/ CheckClosure

-----------------------------------------------------------------------------
(* The login check, the command, and what is read after them *)

StartLogin == Spawn("login", "login")

AfterLogin ==
  /\ pc = "decided" /\ job = "login"
  /\ UNCHANGED <<order, procVars, jobVars, deps, status, exit, ran, change, infra, clocks>>
  /\ \/ /\ jstatus = "exited" /\ jexit = "zero"
        /\ login' = "chatgpt" /\ pc' = "command"
        /\ UNCHANGED <<then, hunted, scanVars, proved>>
     \/ login' = "rejected" /\ BeginQuiesce(Uids, "export")

\* run_command, or the prompt and Codex.
StartCommand ==
  \/ Spawn("command", "command")
  \/ Build /\ Fail("command") /\ Quiet

AfterCommand ==
  /\ pc = "decided" /\ job = "command"
  /\ status' = jstatus /\ exit' = jexit /\ ran' = TRUE
  /\ BeginQuiesce(Uids, "export")
  /\ UNCHANGED <<order, procVars, jobVars, deps, login, change, infra, clocks>>

\* read_export in a helper of its own, whatever it says.
ReadExport == GoOn("export", IF Build /\ ran THEN "walk" ELSE "result") /\ Quiet

\* run_walk: the helper is read to the end, or killed; then uid 65532 again.
RunWalk ==
  /\ pc = "walk"
  /\ BeginQuiesce({"run"}, "compute")
  /\ UNCHANGED <<order, procVars, jobVars, outVars, clocks>>

ComputeChanges ==
  /\ Goto("compute", "result")
  /\ \E c \in {"ok", "refused"} : change' = c
  /\ UNCHANGED <<deps, login, status, exit, ran, infra>> /\ Quiet

\* The result: an infrastructure reason takes the change set and deps_failed.
Frame ==
  /\ Goto("result", "done")
  /\ change' = (IF infra THEN "none" ELSE change)
  /\ status' = (IF infra /\ status = "deps_failed" THEN "not_started" ELSE status)
  /\ UNCHANGED <<deps, login, exit, ran, infra>> /\ Quiet

Driver ==
  \/ ParseHeader \/ ReadInputs \/ ExtractSnapshot \/ PrepareCodexHome
  \/ RunDeps
  \/ StartLogin \/ AfterLogin \/ StartCommand \/ AfterCommand
  \/ Poll \/ Reap \/ KillGroup \/ Drain \/ Quiesce
  \/ ReadExport \/ RunWalk \/ ComputeChanges \/ Frame

Next == Driver \/ Processes \/ \E c \in {"deps", "login", "all"} : Tick(c)

-----------------------------------------------------------------------------
(* What the driver and the runner accept as a result *)

\* build_result and _check_deps_result, and build_build_result.
DriverBuilds ==
  /\ (status = "exited") = (exit # "none")
  /\ deps = "null" => status # "deps_failed"
  /\ deps = "installed" => status # "deps_failed"
  /\ deps = "failed" => status \in {"deps_failed", "not_started"}
  /\ ~Build => change = "none" /\ login = "null"

\* read_framed, _check_result_deps and read_build_result of the runner.
RunnerAccepts ==
  /\ ~infra
  /\ (deps = "null") = ~order.deps
  /\ deps = "installed" => status # "deps_failed"
  /\ deps = "failed" => status \in {"deps_failed", "not_started"}

-----------------------------------------------------------------------------
(* Properties *)

\* An outcome is decided over everything the job's processes wrote: nobody can
\* write any more, all of it is counted, and one byte beyond the cap, whoever
\* wrote it and when, makes it output_limit.
CaptureIsWhole ==
  pc = "decided" /\ jstatus # "not_started" =>
    /\ holds = {} /\ seen = wrote
    /\ (jstatus = "output_limit") = (wrote > Cap)

\* A process outlives a quiesce that succeeded only if it forked between the
\* listing and the looks of both scans; no single unlucky fork is enough.
SurvivorsSlippedTwice == \A u \in proved : Live({u}) # {} => slips[u] >= 2

\* Exports and the working tree are read, and the exit code of the command
\* stands, only after both uids were cleared since the last job.
ReadsAreQuiet ==
  /\ pc = "export" => proved = Uids
  /\ pc \in {"walk", "compute"} => proved = Uids /\ ran

\* Whatever happened on the way, the driver can frame the outcome and the
\* runner takes it, unless the driver itself gives an infrastructure reason; and
\* a change set is told only of a Codex that ran after an accepted login, on
\* dependencies that were installed, without any failure of the driver.
OutcomeIsEarned ==
  pc = "done" =>
    /\ DriverBuilds /\ (infra \/ RunnerAccepts)
    /\ change # "none" => ran /\ ~infra /\ login = "chatgpt" /\ deps # "failed"
=============================================================================
