---------------------------- MODULE BuildSession -----------------------------
(***************************************************************************)
(* scripts/sandbox_build.py, run() and finish(): one build in disposable   *)
(* containers, from the first docker object to the written result.         *)
(*                                                                         *)
(* The main thread creates an internal network, proves its isolation with  *)
(* a probe container, removes the probe, creates the egress network and    *)
(* the proxy, sends it the login, runs the builder and, on every way out,  *)
(* removes everything again.  A reader thread follows the proxy's output   *)
(* (ProxySession): the first alarm it sees is recorded and kills the       *)
(* builder.  The docker daemon may refuse a call, may not answer it in     *)
(* time, and may still carry out a create whose client has given up.       *)
(*                                                                         *)
(* The proxy at the other end of the pipe is any process that keeps        *)
(* ProxyLines; SandboxProxy does.                                          *)
(***************************************************************************)
EXTENDS Naturals, Sequences, FiniteSets

CONSTANTS
  SubnetAttempts,   \* SUBNET_ATTEMPTS (3 in the code)
  MaxLines,         \* bound: lines the proxy writes
  MaxSurvivors,     \* bound: objects docker could remove at the end and does not
  MaxInterrupts     \* bound: KeyboardInterrupts

ASSUME BoundsAssumption ==
  SubnetAttempts \in Nat /\ MaxLines \in Nat /\ MaxSurvivors \in Nat /\ MaxInterrupts \in Nat

Containers == {"probe", "proxy", "builder"}
Networks   == {"int", "egr"}
Objects    == Containers \cup Networks

\* cleanup(): the containers in reverse order of creation, then the networks.
CleanupOrder == <<"builder", "proxy", "probe", "egr", "int">>

VARIABLES
  lines, stopped, gone, code,   \* the proxy process: see ProxyLines
  obj,         \* the daemon's view of the run's objects
  late,        \* creates nobody waits for that the daemon may still carry out
  landed,      \* history: the ones it did after the object was proved absent
  pc,          \* where the main thread is
  failure,     \* first_failure: why the run leaves the try block
  attempts,    \* subnets drawn so far
  registered,  \* state.created
  removed,     \* state.removed
  survivors,   \* objects whose removal could not be proved
  verdict,     \* what evaluate_probe said
  tokenSent,   \* has the login been written to the proxy?
  client,      \* the docker client attached to the proxy
  relayed,     \* lines it has passed on, once it is lost or closed
  read,        \* lines the reader has processed
  reader,      \* the reader: following, calling on_alarm, or finished
  ready, ended,\* READY and END seen
  alarm,       \* ProxySession.alarm
  closing,     \* ProxySession._closing
  named,       \* builder["name"] is set
  killFailed,  \* history: docker kill did not reach a running builder
  started,     \* history: the builder has run
  output,      \* what the builder left behind
  oom, result, \* what run() has taken from it
  clean,       \* proxy.wait() returned 0
  status,      \* build_status of the manifest
  wrote,       \* what finish() has written to the host
  exit,        \* the exit code of the process
  interrupts

proxyVars  == <<lines, stopped, gone, code>>
daemon     == <<obj, late, landed>>
books      == <<attempts, registered, removed, survivors>>
session    == <<client, relayed, read, reader, ready, ended, alarm, closing>>
build      == <<named, killFailed, started, output, oom, result, clean>>
verdicts   == <<verdict, tokenSent>>
ending     == <<status, wrote, exit, interrupts>>
vars == <<proxyVars, daemon, pc, failure, books, verdicts, session, build, ending>>

Proxy == INSTANCE ProxyLines

Results  == {"exited", "rejected", "refused", "other"}
Outputs  == Results \cup {"none", "oom", "nonzero", "malformed"}
Statuses == {"none", "exited", "other", "change_refused", "oom", "auth_failed", "credential_exposed"}
Trying   == {"network", "networkCheck", "probe", "probeRun", "probeRemove", "egress", "egressCheck",
             "proxy", "connect", "attach", "ready", "token", "checkAlarm", "builder", "name",
             "recheck", "start", "stream", "inspect", "closeStdin", "wait", "checkEnd"}
Ended    == {"done", "aborted"}

TypeOK ==
  /\ obj \in [Objects -> {"absent", "created", "running", "exited"}]
  /\ late \in SUBSET Objects /\ landed \in SUBSET Objects
  /\ pc \in Trying \cup {"stop", "cleanup", "finish", "decide"} \cup Ended
  /\ failure \in {"none", "infra", "refused", "isolation", "interrupt"}
  /\ attempts \in 0..SubnetAttempts
  /\ registered \in SUBSET Objects /\ removed \in SUBSET Objects /\ survivors \in SUBSET Objects
  /\ verdict \in {"none", "isolated", "isolation_failed", "isolation_unverified"}
  /\ tokenSent \in BOOLEAN
  /\ client \in {"none", "open", "lost", "closed"}
  /\ relayed \in 0..Len(lines)
  /\ read \in 0..Len(lines)
  /\ reader \in {"following", "alarming", "finished"}
  /\ ready \in BOOLEAN /\ ended \in BOOLEAN /\ closing \in BOOLEAN
  /\ alarm \in {"none", "refresh_attempt", "credential", "abort"}
  /\ named \in BOOLEAN /\ killFailed \in BOOLEAN /\ started \in BOOLEAN
  /\ output \in Outputs /\ oom \in BOOLEAN /\ result \in Results \cup {"none"}
  /\ clean \in BOOLEAN
  /\ status \in Statuses
  /\ wrote \in {"nothing", "log", "text", "all"}
  /\ exit \in {0, 2, 5, 130}
  /\ interrupts \in 0..MaxInterrupts

Init ==
  /\ Proxy!LinesInit
  /\ obj = [o \in Objects |-> "absent"]
  /\ late = {} /\ landed = {}
  /\ pc = "network" /\ failure = "none" /\ attempts = 0
  /\ registered = {} /\ removed = {} /\ survivors = {}
  /\ verdict = "none" /\ tokenSent = FALSE
  /\ client = "none" /\ relayed = 0 /\ read = 0 /\ reader = "following"
  /\ ready = FALSE /\ ended = FALSE /\ alarm = "none" /\ closing = FALSE
  /\ named = FALSE /\ killFailed = FALSE /\ started = FALSE
  /\ output = "none" /\ oom = FALSE /\ result = "none" /\ clean = FALSE
  /\ status = "none" /\ wrote = "nothing" /\ exit = 0 /\ interrupts = 0

Goto(from, to) == pc = from /\ pc' = to /\ UNCHANGED failure
Fail(from, why) == pc = from /\ pc' = "stop" /\ failure' = why
Becomes(o, s) == obj' = [obj EXCEPT ![o] = s]

-----------------------------------------------------------------------------
(* Docker *)

\* Mutant: an object is registered once its create has succeeded.
RegisterAfterwards(o, from, to) ==
  /\ UNCHANGED <<landed, removed, survivors>>
  /\ \/ /\ Becomes(o, "created")
        /\ Goto(from, to)
        /\ registered' = registered \cup {o}
        /\ UNCHANGED late
     \/ /\ Fail(from, "infra")
        /\ UNCHANGED <<obj, late, registered>>
     \/ /\ Fail(from, "infra")
        /\ UNCHANGED registered
        /\ \/ Becomes(o, "created") /\ UNCHANGED late
           \/ late' = late \cup {o} /\ UNCHANGED obj

\* _create: registered before the call.  It succeeds, is refused, or the
\* client gives up after DOCKER_TIMEOUT or at a Ctrl-C -- the daemon has
\* created the object by then, or still will.
Create(o, from, to) ==
  /\ registered' = registered \cup {o}
  /\ UNCHANGED <<landed, removed, survivors>>
  /\ \/ /\ Becomes(o, "created")
        /\ Goto(from, to)
        /\ UNCHANGED late
     \/ /\ Fail(from, "infra")
        /\ UNCHANGED <<obj, late>>
     \/ /\ \E why \in {"infra", "interrupt"} : Fail(from, why)
        /\ \/ Becomes(o, "created") /\ UNCHANGED late
           \/ late' = late \cup {o} /\ UNCHANGED obj

\* The daemon gets to a create its client no longer waits for.
Lands(o) ==
  /\ o \in late
  /\ late' = late \ {o}
  /\ Becomes(o, "created")
  /\ landed' = landed \cup ({o} \cap removed)
  /\ UNCHANGED <<proxyVars, pc, failure, books, verdicts, session, build, ending>>

\* A network with a running member cannot be removed.
Removable(o) ==
  \/ o \in Containers
  \/ o = "int" /\ (\A c \in Containers : obj[c] # "running")
  \/ o = "egr" /\ obj["proxy"] # "running"

\* Mutant: the absence of the object is not inspected.
ProvedAbsentUnseen(o) == UNCHANGED obj \/ Becomes(o, "absent")

\* remove_object: rm, then the daemon's own answer that there is no such
\* object.
ProvedAbsent(o) == Removable(o) /\ Becomes(o, "absent")

\* ... and every way in which that proof is not to be had.
NotProved(o) ==
  \/ UNCHANGED obj
  \/ Removable(o) /\ Becomes(o, "absent")

-----------------------------------------------------------------------------
(* The networks and the probe *)

\* Mutant: one attempt too many.
DrawsAgainOnceMore == attempts <= SubnetAttempts

DrawsAgain == attempts < SubnetAttempts

\* create_internal_network: another subnet is drawn after an overlap.
CreateInternal ==
  /\ UNCHANGED <<proxyVars, verdicts, session, build, ending>>
  /\ pc = "network"
  /\ \/ /\ DrawsAgain
        /\ attempts' = attempts + 1
        /\ \/ Create("int", "network", "networkCheck")
           \/ /\ registered' = registered \cup {"int"}   \* overlap
              /\ UNCHANGED <<pc, failure, daemon, removed, survivors>>
     \/ /\ ~DrawsAgain
        /\ Fail("network", "infra")
        /\ UNCHANGED <<daemon, books>>

\* check_network refuses a network that is not as asked for.
CheckInternal ==
  /\ \/ Goto("networkCheck", "probe")
     \/ \E why \in {"infra", "refused"} : Fail("networkCheck", why)
  /\ UNCHANGED <<proxyVars, daemon, books, verdicts, session, build, ending>>

CreateProbe ==
  /\ Create("probe", "probe", "probeRun")
  /\ UNCHANGED <<proxyVars, attempts, verdicts, session, build, ending>>

\* stream_start, _container_state, read_framed and evaluate_probe.
RunProbe ==
  /\ UNCHANGED <<proxyVars, late, landed, books, tokenSent, session, build, ending>>
  /\ \/ /\ Goto("probeRun", "probeRemove")
        /\ Becomes("probe", "exited")
        /\ verdict' \in {"isolated", "isolation_failed", "isolation_unverified"}
     \/ /\ Fail("probeRun", "infra")
        /\ \E s \in {"created", "running", "exited"} : Becomes("probe", s)
        /\ UNCHANGED verdict

\* The probe gives its address up before the verdict is looked at.
RemoveProbe ==
  /\ UNCHANGED <<proxyVars, late, landed, attempts, registered, survivors, verdicts, session, build, ending>>
  /\ \/ /\ ProvedAbsent("probe")
        /\ removed' = removed \cup {"probe"}
        /\ \/ verdict = "isolated" /\ Goto("probeRemove", "egress")
           \/ verdict # "isolated" /\ Fail("probeRemove", "isolation")
     \/ /\ NotProved("probe")
        /\ Fail("probeRemove", "infra")
        /\ UNCHANGED removed

-----------------------------------------------------------------------------
(* The proxy *)

CreateEgress ==
  /\ Create("egr", "egress", "egressCheck")
  /\ UNCHANGED <<proxyVars, attempts, verdicts, session, build, ending>>

CheckEgress ==
  /\ Goto("egressCheck", "proxy") \/ Fail("egressCheck", "infra")
  /\ UNCHANGED <<proxyVars, daemon, books, verdicts, session, build, ending>>

CreateProxy ==
  /\ Create("proxy", "proxy", "connect")
  /\ UNCHANGED <<proxyVars, attempts, verdicts, session, build, ending>>

Connect ==
  /\ Goto("connect", "attach") \/ Fail("connect", "infra")
  /\ UNCHANGED <<proxyVars, daemon, books, verdicts, session, build, ending>>

\* ProxySession.start: the attached client, the reader, the spec on stdin.
Attach ==
  /\ UNCHANGED <<proxyVars, late, landed, books, verdicts, relayed, read, reader, ready, ended, alarm,
                 closing, build, ending>>
  /\ \/ Goto("attach", "ready") /\ client' = "open"
     \/ Fail("attach", "infra") /\ client' \in {"none", "open"}
  /\ \/ client' = "open" /\ Becomes("proxy", "running")
     \/ UNCHANGED obj

WaitReady ==
  /\ UNCHANGED <<proxyVars, daemon, books, verdicts, session, build, ending>>
  /\ \/ ready /\ Goto("ready", "token")
     \/ Fail("ready", "infra")

SendToken ==
  /\ UNCHANGED <<proxyVars, daemon, books, verdict, session, build, ending>>
  /\ \/ Goto("token", "checkAlarm") /\ tokenSent' = TRUE
     \/ Fail("token", "infra") /\ tokenSent' \in BOOLEAN

\* The proxy process, any that keeps its protocol.  Only a running builder
\* can reach it: no refresh attempt and no response before that.  What it does
\* once the attached client is closed reaches nobody and is not followed.
ProxyRuns ==
  /\ client # "closed"
  /\ obj["proxy"] = "running"
  /\ Proxy!LinesNext
  /\ \A n \in DOMAIN lines' \ DOMAIN lines : lines'[n] \in {"event", "credential"} => started
  /\ Becomes("proxy", IF gone' THEN "exited" ELSE "running")
  /\ UNCHANGED <<late, landed, pc, failure, books, verdicts, session, build, ending>>

\* The attached client loses its connection to the daemon.
ClientLost ==
  /\ client = "open"
  /\ client' = "lost"
  /\ relayed' \in read..Len(lines)
  /\ UNCHANGED <<proxyVars, daemon, pc, failure, books, verdicts, read, reader, ready, ended, alarm,
                 closing, build, ending>>

-----------------------------------------------------------------------------
(* The reader thread *)

\* Mutant: the last alarm is recorded instead of the first.
RaiseLast(kind) == alarm' = kind /\ reader' = "alarming"

\* _raise_alarm: the first alarm is recorded, then on_alarm is called.
Raise(kind) ==
  \/ alarm = "none" /\ alarm' = kind /\ reader' = "alarming"
  \/ alarm # "none" /\ UNCHANGED <<alarm, reader>>

\* The lines that reach the reader.
Heard == IF client = "open" THEN Len(lines) ELSE relayed

\* _line
ReadLine ==
  LET line == lines[read + 1] IN
  /\ reader = "following"
  /\ read < Heard
  /\ read' = read + 1
  /\ ready' = (ready \/ line = "ready")
  /\ ended' = (ended \/ line = "end")
  /\ \/ line = "event" /\ Raise("refresh_attempt")
     \/ line = "credential" /\ Raise("credential")
     \/ line = "abort" /\ Raise("abort")
     \/ line \in {"ready", "record", "end"} /\ UNCHANGED <<alarm, reader>>
  /\ UNCHANGED <<proxyVars, daemon, pc, failure, books, verdicts, client, relayed, closing, build, ending>>

\* kill_builder, called by the reader: a container that does not run cannot
\* be killed, and a docker call that fails is let pass.
KillBuilder ==
  /\ reader = "alarming"
  /\ reader' = "following"
  /\ \/ /\ named /\ obj["builder"] = "running"
        /\ Becomes("builder", "exited")
        /\ UNCHANGED killFailed
     \/ /\ named
        /\ killFailed' = TRUE
        /\ UNCHANGED obj
     \/ /\ ~named
        /\ UNCHANGED <<obj, killFailed>>
  /\ UNCHANGED <<proxyVars, late, landed, pc, failure, books, verdicts, client, relayed, read, ready,
                 ended, alarm, closing, named, started, output, oom, result, clean, ending>>

\* End of the stream: unexpected before close_stdin, so an alarm.
ReadEnd ==
  /\ client # "none"
  /\ reader = "following"
  /\ read = Heard
  /\ client = "open" => obj["proxy"] # "running"
  /\ \/ /\ ~closing /\ alarm = "none"
        /\ Raise("abort")
     \/ /\ closing \/ alarm # "none"
        /\ reader' = "finished"
        /\ UNCHANGED alarm
  /\ UNCHANGED <<proxyVars, daemon, pc, failure, books, verdicts, client, relayed, read, ready, ended,
                 closing, build, ending>>

-----------------------------------------------------------------------------
(* The builder *)

CheckAlarm ==
  /\ \/ alarm = "none" /\ Goto("checkAlarm", "builder")
     \/ alarm # "none" /\ Goto("checkAlarm", "closeStdin")
  /\ UNCHANGED <<proxyVars, daemon, books, verdicts, session, build, ending>>

CreateBuilder ==
  /\ Create("builder", "builder", "name")
  /\ UNCHANGED <<proxyVars, attempts, verdicts, session, build, ending>>

\* Mutant: the name is published once the builder has been started.
NameAfterwards ==
  /\ Goto("name", "recheck")
  /\ UNCHANGED <<proxyVars, daemon, books, verdicts, session, build, ending>>

\* builder["name"] is set before the start, so that an alarm finds it.
NameBuilder ==
  /\ Goto("name", "recheck")
  /\ named' = TRUE
  /\ UNCHANGED <<proxyVars, daemon, books, verdicts, session, killFailed, started, output, oom, result,
                 clean, ending>>

\* An alarm in between: kill_builder once more.  The container is created and
\* not running yet, so the call has no effect, and the start follows.
Recheck ==
  /\ Goto("recheck", "start")
  /\ UNCHANGED <<proxyVars, daemon, books, verdicts, session, build, ending>>

StartBuilder ==
  /\ UNCHANGED <<proxyVars, late, landed, books, verdicts, session, named, killFailed, output, oom, result,
                 clean, ending>>
  /\ \/ /\ Goto("start", "stream")
        /\ \/ Becomes("builder", "running") /\ started' = TRUE
           \/ UNCHANGED <<obj, started>>   \* docker start failed: no output
     \/ /\ Fail("start", "infra")          \* no docker client
        /\ UNCHANGED <<obj, started>>

\* The builder's driver ends by itself, or the memory limit ends it.  What it
\* says is heard only while the runner is attached.
BuilderEnds ==
  /\ obj["builder"] = "running"
  /\ Becomes("builder", "exited")
  /\ output' \in IF pc = "stream" THEN Outputs ELSE {output, "oom"}
  /\ UNCHANGED <<proxyVars, late, landed, pc, failure, books, verdicts, session, named, killFailed, started,
                 oom, result, clean, ending>>

\* stream_start returns what it read, or raises after its own kill: over the
\* deadline or the cap.  With an alarm up, the exception is dropped.
StreamReturns ==
  /\ pc = "stream"
  /\ UNCHANGED <<proxyVars, late, landed, books, verdicts, session, killFailed, started, oom, result,
                 clean, ending>>
  /\ \/ /\ obj["builder"] # "running"
        /\ Goto("stream", "inspect")
        /\ named' = FALSE
        /\ UNCHANGED <<obj, output>>
     \/ /\ Goto("stream", "inspect")           \* the attached client is lost
        /\ named' = FALSE
        /\ output' = "none"
        /\ UNCHANGED obj
     \/ /\ alarm = "none"
        /\ Fail("stream", "infra")
        /\ \/ UNCHANGED obj
           \/ obj["builder"] = "running" /\ Becomes("builder", "exited")
        /\ UNCHANGED <<named, output>>
     \/ /\ alarm # "none"
        /\ Goto("stream", "inspect")
        /\ named' = FALSE
        /\ output' = "none"
        /\ \/ UNCHANGED obj
           \/ obj["builder"] = "running" /\ Becomes("builder", "exited")

\* _container_state and read_build_result, unless an alarm is up.
Inspect ==
  /\ UNCHANGED <<proxyVars, daemon, books, verdicts, session, named, killFailed, started, output, clean, ending>>
  /\ \/ /\ alarm # "none"
        /\ Goto("inspect", "closeStdin")
        /\ UNCHANGED <<oom, result>>
     \/ /\ alarm = "none" /\ output = "oom"
        /\ Goto("inspect", "closeStdin")
        /\ oom' = TRUE
        /\ UNCHANGED result
     \/ /\ alarm = "none" /\ output \in Results
        /\ Goto("inspect", "closeStdin")
        /\ result' = output
        /\ UNCHANGED oom
     \/ /\ alarm = "none"    \* no result, a malformed one, or docker inspect failed
        /\ Fail("inspect", "infra")
        /\ UNCHANGED <<oom, result>>

CloseStdin ==
  /\ Goto("closeStdin", "wait")
  /\ closing' = TRUE
  /\ UNCHANGED <<proxyVars, daemon, books, verdicts, client, relayed, read, reader, ready, ended,
                 alarm, build, ending>>

\* Mutant: proxy.wait() without a timeout.
WaitForEver ==
  /\ gone
  /\ Goto("wait", "checkEnd")
  /\ clean' = (client = "open" /\ code = 0)
  /\ UNCHANGED <<proxyVars, daemon, books, verdicts, session, named, killFailed, started, output, oom, result, ending>>

\* proxy.wait(): the client's exit code, or None after the timeout.  The
\* join of the reader is bounded too: it may be behind.
Wait ==
  /\ Goto("wait", "checkEnd")
  /\ clean' \in {FALSE, client = "open" /\ gone /\ code = 0}
  /\ UNCHANGED <<proxyVars, daemon, books, verdicts, session, named, killFailed, started, output, oom, result, ending>>

\* Mutant: the proxy's end is not looked at.
CheckEndSkipped ==
  /\ pc = "checkEnd"
  /\ pc' = "stop"
  /\ UNCHANGED <<proxyVars, daemon, failure, books, verdicts, session, build, ending>>

CheckEnd ==
  /\ UNCHANGED <<proxyVars, daemon, books, verdicts, session, build, ending>>
  /\ \/ /\ alarm = "none" /\ ~(clean /\ ended)
        /\ Fail("checkEnd", "infra")
     \/ /\ alarm # "none" \/ (clean /\ ended)
        /\ Goto("checkEnd", "stop")

-----------------------------------------------------------------------------
(* The finally clause *)

CloseClient ==
  /\ client' = IF client = "none" THEN "none" ELSE "closed"
  /\ IF client = "open" THEN relayed' \in read..Len(lines) ELSE UNCHANGED relayed

\* proxy.stop(): the attached client ends with the run.
StopProxy ==
  /\ Goto("stop", "cleanup")
  /\ closing' = TRUE
  /\ CloseClient
  /\ UNCHANGED <<proxyVars, daemon, books, verdicts, read, reader, ready, ended, alarm, build, ending>>

Pending == registered \ (removed \cup survivors)

\* cleanup(): one object after the other, past every failure.
CleanupOne ==
  /\ pc = "cleanup"
  /\ \E n \in DOMAIN CleanupOrder :
       LET o == CleanupOrder[n] IN
       /\ o \in Pending
       /\ \A m \in 1..(n - 1) : CleanupOrder[m] \notin Pending
       /\ \/ ProvedAbsent(o) /\ removed' = removed \cup {o} /\ UNCHANGED survivors
          \/ (Cardinality(survivors) < MaxSurvivors \/ ~Removable(o)) /\ NotProved(o)
             /\ survivors' = survivors \cup {o} /\ UNCHANGED removed
  /\ UNCHANGED <<proxyVars, late, landed, pc, failure, attempts, registered, verdicts, session, build, ending>>

\* The exit code of a run that failed: main() reports it.
Codes == [infra |-> 5, isolation |-> 5, refused |-> 2, interrupt |-> 130]

\* A survivor decides the exit code, then what failed first.
CleanupDone ==
  /\ pc = "cleanup"
  /\ Pending = {}
  /\ \/ survivors # {} /\ pc' = "done" /\ exit' = 5
     \/ survivors = {} /\ failure # "none" /\ pc' = "done" /\ exit' = Codes[failure]
     \/ survivors = {} /\ failure = "none" /\ pc' = "finish" /\ UNCHANGED exit
  /\ UNCHANGED <<proxyVars, daemon, failure, books, verdicts, session, build, status, wrote, interrupts>>

-----------------------------------------------------------------------------
(* finish() *)

\* decide_status: strongest first.
BuildStatus(hit) ==
  IF alarm = "credential" \/ hit THEN "credential_exposed"
  ELSE IF alarm = "refresh_attempt" THEN "auth_failed"
  ELSE IF oom THEN "oom"
  ELSE IF result = "rejected" THEN "auth_failed"
  ELSE IF result = "refused" THEN "change_refused"
  ELSE result

\* An aborted run leaves its log and fails.
FinishAborted ==
  /\ \/ alarm # "abort" /\ Goto("finish", "decide") /\ UNCHANGED <<wrote, exit>>
     \/ alarm = "abort" /\ Goto("finish", "done") /\ wrote' = "log" /\ exit' = 5
  /\ UNCHANGED <<proxyVars, daemon, books, verdicts, session, build, status, interrupts>>

\* What goes to the host with a status: a result only beside a status that is
\* not credential_exposed, an OOM or an early alarm leaves no result.
Output(s) ==
  IF result = "none" THEN "log" ELSE IF s = "credential_exposed" THEN "text" ELSE "all"

\* Scan, decide, write, and only then the manifest and the lines on stdout.  A
\* hit is a needle in the log or in a member; each write may fail.
Finish ==
  /\ Goto("decide", "done")
  /\ \E hit \in BOOLEAN :
       LET s == BuildStatus(hit) IN
       \/ s # "none" /\ status' = s /\ wrote' = Output(s) /\ exit' \in {0, 5}
       \/ s # "none" /\ wrote' \in {wrote, Output(s)} /\ exit' \in {2, 5} /\ UNCHANGED status
       \/ s = "none" /\ exit' = 5 /\ UNCHANGED <<status, wrote>>
  /\ UNCHANGED <<proxyVars, daemon, books, verdicts, session, build, interrupts>>

-----------------------------------------------------------------------------
Main ==
  \/ CreateInternal \/ CheckInternal \/ CreateProbe \/ RunProbe \/ RemoveProbe
  \/ CreateEgress \/ CheckEgress \/ CreateProxy \/ Connect \/ Attach \/ WaitReady \/ SendToken
  \/ CheckAlarm \/ CreateBuilder \/ NameBuilder \/ Recheck \/ StartBuilder \/ StreamReturns
  \/ Inspect \/ CloseStdin \/ Wait \/ CheckEnd
  \/ StopProxy \/ CleanupOne \/ CleanupDone \/ FinishAborted \/ Finish

Reader == ReadLine \/ KillBuilder \/ ReadEnd

\* Ctrl-C: the try block leaves through the finally clause, which a further
\* one cuts short.
Interrupt ==
  /\ pc \notin Ended
  /\ interrupts < MaxInterrupts
  /\ interrupts' = interrupts + 1
  /\ \/ pc \in Trying /\ pc' = "stop" /\ failure' = "interrupt" /\ UNCHANGED exit
     \/ pc \notin Trying /\ pc' = "aborted" /\ exit' = 130 /\ UNCHANGED failure
  /\ UNCHANGED <<proxyVars, daemon, books, verdicts, session, build, status, wrote>>

Next ==
  \/ Main \/ Interrupt
  \/ pc \notin Ended /\ (Reader \/ ProxyRuns \/ ClientLost \/ BuilderEnds)
  \/ \E o \in Objects : Lands(o)

Spec == Init /\ [][Next]_vars

\* The main thread is scheduled; nothing is assumed of the daemon, of the
\* containers or of the reader.
FairSpec == Spec /\ WF_vars(Main)

-----------------------------------------------------------------------------
(* Properties *)

\* The isolation proof is worth something only while it is true: the probe is
\* proved gone before there is a proxy, a builder at its address or a login
\* in the proxy, however docker answers.
ProbeAlone ==
  obj["probe"] # "absent" =>
    /\ obj["proxy"] = "absent" /\ obj["builder"] = "absent"
    /\ ~tokenSent

\* A run that ends, with whatever outcome, has proved the removal of every
\* object it created or names it as a survivor; only a create that docker
\* carried out after its client had given up and after the proof escapes.
LeftoversNamed ==
  pc = "done" =>
    \A o \in Objects : obj[o] # "absent" => o \in survivors \/ o \in landed

\* While the runner waits for the builder, an alarm of the builder's own
\* making has stopped it as soon as on_alarm returned, unless docker failed.
AlarmStopsBuilder ==
  (pc = "stream" /\ alarm \in {"refresh_attempt", "credential"} /\ reader # "alarming" /\ ~killFailed)
    => obj["builder"] # "running"

\* BUILD_STATUS=exited is the only status change_apply.py accepts.  It means
\* that the proxy never announced a credential in a response, not in a line
\* that was still unread either, and no refresh attempt before its END.
ExitedMeansServed ==
  status = "exited" =>
    /\ result = "exited" /\ ~oom
    /\ \A n \in DOMAIN lines : lines[n] # "credential"
    /\ \A n \in DOMAIN lines : lines[n] = "event" => \E m \in 1..(n - 1) : lines[m] = "end"

\* "a hit -> credential_exposed ... and no change set is written at all": the
\* change set reaches the host beside an announced credential only when a
\* refresh attempt was announced first.
ExposureWithheld ==
  wrote = "all" =>
    \A n \in DOMAIN lines :
      lines[n] = "credential" => \E m \in 1..(n - 1) : lines[m] = "event"

\* decide_status(): "strongest first: credential_exposed, auth_failed".
StrongestFirst ==
  \A n \in 1..read : lines[n] = "credential" /\ status # "none" => status = "credential_exposed"

\* A run ends, whatever docker, the proxy and the builder do: every wait of
\* the main thread has a deadline.
RunEnds == <>(pc \in Ended)
=============================================================================
