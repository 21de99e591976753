------------------------------- MODULE HostRun --------------------------------
(* src/scripts/sandbox_run.py: main, run and the janitor, for several runs on  *)
(* one docker daemon, with what a build that died has left behind. One unit of *)
(* time is the 300 seconds of the deadline label; a docker call or the ends of *)
(* the client take at most one. A docker call may fail, or be carried out      *)
(* after the client gave up. Builds are runs that only sweep here: BuildSession*)
(* has the rest of them. What fetch_deps leaves is FetchJob's.                 *)
EXTENDS Integers, FiniteSets

CONSTANTS
  Run, Build,     \* the runs, and those of sandbox_build among them
  Old, Net,       \* what a build left behind, and the networks among it
  Max,            \* JANITOR_MAX
  Timeout,        \* --timeout
  MaxNow          \* bound of the clock

VARIABLES
  now,        \* the clock of the host
  pc,         \* where a run is
  due,        \* when its docker call or its stream is over at the latest
  obj,        \* the daemon's objects, by name: a run for its container
  late,       \* runs whose create the daemon may still carry out
  sweep,      \* the janitor of a run
  why,        \* "none", or the exception on its way to main
  note,       \* what the run knows and has put on disk
  exit        \* the exit code, or -1

vars == <<now, pc, due, obj, late, sweep, why, note, exit>>

Margin == 1
Grace  == 2
Slack  == 1

There(o) == obj[o].at # "none"
Kind(o) == IF o \in Net THEN "network" ELSE "container"

\* The locals of the janitor, before it and after it.
Idle(i) ==
  [since |-> 0, kinds |-> {"container"} \cup (IF i \in Build THEN {"network"} ELSE {}),
   todo |-> {}, tally |-> 0, deferred |-> FALSE, bad |-> FALSE, fault |-> FALSE]

Nothing ==
  [dir |-> FALSE, cleanup |-> "not_needed", kept |-> FALSE, stream |-> "none",
   manifest |-> "none", said |-> FALSE]

Init ==
  /\ now = 0
  /\ pc = [i \in Run |-> "start"]
  /\ due = [i \in Run |-> 0]
  /\ obj = [o \in Run \cup Old |->
       IF o \in Old THEN [at |-> "over", deadline |-> 1] ELSE [at |-> "none", deadline |-> 0]]
  /\ late = {}
  /\ sweep = [i \in Run |-> Idle(i)]
  /\ why = [i \in Run |-> "none"]
  /\ note = [i \in Run |-> Nothing]
  /\ exit = [i \in Run |-> -1]

Goto(i, l) == pc' = [pc EXCEPT ![i] = l]
Fail(i, kind) == why' = [why EXCEPT ![i] = kind] /\ Goto(i, "failing")
Within(i, d) == due' = [due EXCEPT ![i] = now + d]

-----------------------------------------------------------------------------
(* Before a container exists *)

\* The static checks, then the run directory.
OpenRunDir(i) ==
  /\ pc[i] = "start"
  /\ \/ Fail(i, "refused") /\ UNCHANGED note
     \/ note' = [note EXCEPT ![i].dir = TRUE] /\ Goto(i, "image") /\ UNCHANGED why
  /\ UNCHANGED <<now, due, obj, late, sweep, exit>>

ResolveImage(i) ==
  /\ pc[i] = "image"
  /\ \/ Fail(i, "refused") /\ UNCHANGED sweep
     \/ Fail(i, "infrastructure") /\ UNCHANGED sweep
     \/ sweep' = [sweep EXCEPT ![i].since = now] /\ Goto(i, "list") /\ UNCHANGED why
  /\ UNCHANGED <<now, due, obj, late, note, exit>>

\* Mutant: without the grace.
ExpiredAtDeadline(kind, since) ==
  {o \in Run \cup Old : There(o) /\ Kind(o) = kind /\ obj[o].deadline < since}

Expired(kind, since) == {o \in Run \cup Old : There(o) /\ Kind(o) = kind /\ obj[o].deadline + Grace < since}

\* Containers go first: a network somebody is attached to cannot be removed.
FirstKind(kinds) == IF "container" \in kinds THEN "container" ELSE "network"

ListExpired(i) ==
  /\ pc[i] = "list" /\ sweep[i].kinds # {}
  /\ \/ Fail(i, "infrastructure") /\ UNCHANGED sweep
     \/ LET kind == FirstKind(sweep[i].kinds)
        IN  sweep' = [sweep EXCEPT ![i].kinds = @ \ {kind}, ![i].todo = Expired(kind, sweep[i].since)]
        /\ Goto(i, "remove") /\ UNCHANGED why
  /\ UNCHANGED <<now, due, obj, late, note, exit>>

Attached(o) == o \in Net /\ \E c \in Old \ Net : There(c)

\* rm and the answer to the inspect after it: the object is proved gone, it is
\* still there, or docker fails before or after the removal.
RemoveObject(o, gone, fault) ==
  \/ ~Attached(o) /\ gone /\ ~fault /\ obj' = [obj EXCEPT ![o].at = "none"]
  \/ Attached(o) /\ ~gone /\ ~fault /\ UNCHANGED obj
  \/ ~gone /\ fault /\ (UNCHANGED obj \/ (~Attached(o) /\ obj' = [obj EXCEPT ![o].at = "none"]))

\* Mutant: one too many.
CappedLate(i) == sweep[i].tally > Max

Capped(i) == sweep[i].tally >= Max

RemoveNext(i) ==
  /\ pc[i] = "remove"
  /\ \E o \in sweep[i].todo :
       IF Capped(i)
       THEN /\ sweep' = [sweep EXCEPT ![i].todo = @ \ {o}, ![i].deferred = TRUE]
            /\ UNCHANGED obj
       ELSE \E gone, fault \in BOOLEAN :
              /\ RemoveObject(o, gone, fault)
              /\ sweep' = [sweep EXCEPT ![i].todo = @ \ {o}, ![i].tally = @ + 1,
                                        ![i].bad = @ \/ ~gone, ![i].fault = @ \/ fault]
  /\ UNCHANGED <<now, pc, due, late, why, note, exit>>

Swept(i) ==
  /\ pc[i] = "remove" /\ sweep[i].todo = {}
  /\ IF sweep[i].kinds # {} THEN Goto(i, "list") /\ UNCHANGED why
     ELSE IF sweep[i].bad THEN Fail(i, "infrastructure")
     ELSE Goto(i, IF i \in Build THEN "build" ELSE "snapshot") /\ UNCHANGED why
  /\ UNCHANGED <<now, due, obj, late, sweep, note, exit>>

\* The snapshot worker is killed at its deadline; its directory goes in any case.
SupervisedSnapshot(i) ==
  /\ pc[i] = "snapshot"
  /\ \/ Fail(i, "refused") \/ Fail(i, "infrastructure")
     \/ Goto(i, "fetch") /\ UNCHANGED why
  /\ sweep' = [sweep EXCEPT ![i] = Idle(i)]
  /\ UNCHANGED <<now, due, obj, late, note, exit>>

\* Reading and parsing the --deps files can only refuse. A directory that stays,
\* because it cannot be removed or the worker may live, is never a success.
FetchDeps(i) ==
  /\ pc[i] = "fetch"
  /\ \/ /\ \/ Fail(i, "refused") /\ UNCHANGED note
           \/ \E kept \in BOOLEAN : Fail(i, "infrastructure") /\ note' = [note EXCEPT ![i].kept = kept]
        /\ UNCHANGED <<due, obj>>
     \/ /\ Goto(i, "create") /\ Within(i, 1)
        /\ obj' = [obj EXCEPT ![i].deadline = now + Timeout + Margin]
        /\ note' = [note EXCEPT ![i].cleanup = "pending"]
        /\ UNCHANGED why
  /\ UNCHANGED <<now, late, sweep, exit>>

-----------------------------------------------------------------------------
(* The container *)

Made(i) == obj' = [obj EXCEPT ![i].at = "made"]

\* What goes wrong from here on goes through the finally clause.
Protected(i, kind) == why' = [why EXCEPT ![i] = kind] /\ Goto(i, "cleanup") /\ Within(i, 1)

Create(i) ==
  /\ pc[i] = "create"
  /\ \/ Made(i) /\ Goto(i, "begin") /\ Within(i, Timeout + Slack) /\ UNCHANGED <<late, why>>
     \/ Protected(i, "infrastructure") /\ UNCHANGED <<obj, late>>
     \/ Protected(i, "infrastructure") /\ Made(i) /\ UNCHANGED late
     \/ Protected(i, "infrastructure") /\ late' = late \cup {i} /\ UNCHANGED obj
  /\ UNCHANGED <<now, sweep, note, exit>>

Lands(i) ==
  /\ i \in late
  /\ late' = late \ {i}
  /\ Made(i)
  /\ UNCHANGED <<now, pc, due, sweep, why, note, exit>>

StreamStart(i) ==
  /\ pc[i] = "begin"
  /\ \/ /\ There(i) /\ obj' = [obj EXCEPT ![i].at = "runs"]
        /\ Goto(i, "stream") /\ UNCHANGED <<due, why, note>>
     \/ /\ note' = [note EXCEPT ![i].stream = "cut"]
        /\ Goto(i, "inspect") /\ Within(i, 1) /\ UNCHANGED <<obj, why>>
     \/ Protected(i, "infrastructure") /\ UNCHANGED <<obj, note>>
  /\ UNCHANGED <<now, late, sweep, exit>>

\* The end of the output: the driver's, or that of the client alone.
StreamEnds(i) ==
  /\ pc[i] = "stream"
  /\ note' = [note EXCEPT ![i].stream = IF obj[i].at = "over" THEN "whole" ELSE "cut"]
  /\ Goto(i, "inspect") /\ Within(i, 1)
  /\ UNCHANGED <<now, obj, late, sweep, why, exit>>

\* Over the cap, in the reader's thread, or past the deadline, in the main one:
\* the client and the container are killed, the latter if docker answers.
StreamStopped(i) ==
  /\ pc[i] = "stream"
  /\ \/ There(i) /\ obj' = [obj EXCEPT ![i].at = "over"]
     \/ UNCHANGED obj
  /\ Protected(i, "infrastructure")
  /\ UNCHANGED <<now, late, sweep, note, exit>>

ContainerEnds(i) ==
  /\ obj[i].at = "runs"
  /\ obj' = [obj EXCEPT ![i].at = "over"]
  /\ UNCHANGED <<now, pc, due, late, sweep, why, note, exit>>

\* inspect, then read_result: a container that still runs has exit code 0 too,
\* but a frame that is cut is never a result.
Inspect(i) ==
  /\ pc[i] = "inspect"
  /\ \/ There(i) /\ note[i].stream = "whole" /\ Protected(i, "none")
     \/ Protected(i, "infrastructure")
  /\ UNCHANGED <<now, obj, late, sweep, note, exit>>

\* Mutant: the rm counts, without the proof of absence.
CleanupUnproved(i) ==
  /\ pc[i] = "cleanup"
  /\ \E gone, fault \in BOOLEAN : RemoveObject(i, gone, fault)
  /\ note' = [note EXCEPT ![i].cleanup = "confirmed"]
  /\ Goto(i, IF why[i] = "none" THEN "results" ELSE "failing")
  /\ due' = [due EXCEPT ![i] = 0]
  /\ UNCHANGED <<now, late, sweep, why, exit>>

Cleanup(i) ==
  /\ pc[i] = "cleanup"
  /\ \E gone, fault \in BOOLEAN :
       /\ RemoveObject(i, gone, fault)
       /\ note' = [note EXCEPT ![i].cleanup = IF gone THEN "confirmed" ELSE "UNCONFIRMED"]
       /\ why' = [why EXCEPT ![i] = IF gone THEN @ ELSE "infrastructure"]
       /\ Goto(i, IF gone /\ why[i] = "none" THEN "results" ELSE "failing")
  /\ due' = [due EXCEPT ![i] = 0]
  /\ UNCHANGED <<now, late, sweep, exit>>

-----------------------------------------------------------------------------
(* The evidence *)

\* The exports and the captures, then the manifest.
WriteResults(i) ==
  /\ pc[i] = "results"
  /\ \/ Fail(i, "refused") /\ UNCHANGED note
     \/ Fail(i, "infrastructure") /\ UNCHANGED note
     \/ note' = [note EXCEPT ![i].manifest = "ok"] /\ Goto(i, "emit") /\ UNCHANGED why
  /\ UNCHANGED <<now, due, obj, late, sweep, exit>>

Exit(i, code) == exit' = [exit EXCEPT ![i] = code] /\ Goto(i, "done")

EmitLines(i) ==
  /\ pc[i] = "emit"
  /\ \E said \in BOOLEAN :
       note' = [note EXCEPT ![i].said = said] /\ Exit(i, IF said THEN 0 ELSE 5)
  /\ UNCHANGED <<now, due, obj, late, sweep, why>>

\* A failure leaves a manifest if it can: a static refusal too, in a directory
\* of its own when the scratch directory exists.
ReportFailure(i) ==
  /\ pc[i] = "failing"
  /\ \E dir, written, said \in BOOLEAN :
       /\ note[i].dir => dir
       /\ written => dir
       /\ said => written
       /\ note' = [note EXCEPT ![i].dir = dir, ![i].said = said,
                               ![i].manifest = IF written THEN why[i] ELSE @]
  /\ Exit(i, IF why[i] = "refused" THEN 2 ELSE 5)
  /\ sweep' = [sweep EXCEPT ![i] = Idle(i)]
  /\ UNCHANGED <<now, due, obj, late, why>>

Crash(i) ==
  /\ pc[i] \notin {"done", "dead", "build"}
  /\ Goto(i, "dead")
  /\ due' = [due EXCEPT ![i] = 0]
  /\ sweep' = [sweep EXCEPT ![i] = Idle(i)]
  /\ why' = [why EXCEPT ![i] = "none"]
  /\ note' = [note EXCEPT ![i] = Nothing]
  /\ UNCHANGED <<now, obj, late, exit>>

\* A docker call and the stream end in time.
Timed == {"create", "begin", "stream", "inspect", "cleanup"}

Tick ==
  /\ now < MaxNow
  /\ \A i \in Run : pc[i] \in Timed => now < due[i]
  /\ now' = now + 1
  /\ UNCHANGED <<pc, due, obj, late, sweep, why, note, exit>>

Step(i) ==
  \/ OpenRunDir(i) \/ ResolveImage(i) \/ ListExpired(i) \/ RemoveNext(i) \/ Swept(i)
  \/ SupervisedSnapshot(i) \/ FetchDeps(i) \/ Create(i) \/ StreamStart(i) \/ StreamEnds(i)
  \/ StreamStopped(i) \/ Inspect(i) \/ Cleanup(i) \/ WriteResults(i) \/ EmitLines(i)
  \/ ReportFailure(i)

Next == Tick \/ \E i \in Run : Step(i) \/ Lands(i) \/ ContainerEnds(i) \/ Crash(i)

-----------------------------------------------------------------------------
TypeOK ==
  /\ now \in 0..MaxNow
  /\ obj \in [Run \cup Old -> [at : {"none", "made", "runs", "over"}, deadline : 0..(MaxNow + Timeout + Margin)]]
  /\ late \subseteq Run
  /\ \A i \in Run : sweep[i].todo \subseteq Run \cup Old /\ sweep[i].tally \in 0..Max
  /\ why \in [Run -> {"none", "refused", "infrastructure"}]
  /\ exit \in [Run -> {-1, 0, 2, 5}]

\* The janitor of one run never takes the container of another that is at work:
\* docker's calls and the stream are over before the label's deadline and the
\* grace are (sandbox_run.py:326, "never one within its deadline").
JanitorSpares == \A i \in Run : pc[i] \in {"begin", "stream", "inspect"} => There(i)

\* A run that goes on after its sweep found nothing expired or removed it, up to
\* the cap, and it stops only because docker failed, never because it took the
\* objects in an order in which they cannot be removed.
SweepIsThorough ==
  \A i \in Run :
    /\ sweep[i].bad => sweep[i].fault
    /\ pc[i] \in {"snapshot", "build"} /\ ~sweep[i].deferred =>
         \A o \in Old : There(o) /\ obj[o].deadline + Grace < sweep[i].since =>
                          o \in Net /\ i \notin Build

\* What a run reports is so: 0 with the whole result, the manifest and the lines
\* delivered and nothing left; a confirmed cleanup with nothing of it running;
\* and a download directory that stays with an infrastructure failure.
OutcomeTells ==
  \A i \in Run : pc[i] = "done" =>
    /\ exit[i] = 0 => /\ note[i].manifest = "ok" /\ note[i].said /\ note[i].stream = "whole"
                      /\ ~There(i) /\ ~note[i].kept
    /\ obj[i].at \in {"runs", "over"} => note[i].cleanup = "UNCONFIRMED" /\ exit[i] = 5
    /\ note[i].kept => exit[i] = 5 /\ note[i].manifest \in {"none", "infrastructure"}
    /\ note[i].manifest = "ok" => exit[i] = 0 \/ ~note[i].said
=============================================================================
