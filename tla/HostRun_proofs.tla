--------------------------- MODULE HostRun_proofs ------------------------------
(***************************************************************************)
(* Proofs about HostRun, FetchJob and OsvJob, as the parts "run", "fetch"  *)
(* and "osv" of Host: for any number of runs and of objects a build left,  *)
(* any cap of the janitor, any deadline, any number of wheels and caps,    *)
(* any interrupts and foreign writes, and any service.                     *)
(*                                                                         *)
(* A run: what bounds the clock bounds the container (InTime), so that     *)
(* what a janitor has on its list (Listed) is never at work.  The janitor  *)
(* takes containers before networks (Sweeping), which is why a removal     *)
(* fails only with docker.  What is known at each place (Known) is what    *)
(* the exit reports.                                                       *)
(***************************************************************************)
EXTENDS Host, FiniteSetTheorems, TLAPS

-----------------------------------------------------------------------------
(* The invariant of a run *)

Before  == {"start", "image", "list", "remove", "snapshot", "fetch"}
Early   == Before \cup {"build", "create"}
Serving == {"begin", "stream", "inspect"}
RunPlaces == Early \cup Serving \cup {"cleanup", "results", "emit", "failing", "done", "dead"}

Objects == Run \cup Old
ObjectsTyped ==
  /\ now \in 0..MaxNow
  /\ obj \in [Objects -> [at : {"none", "made", "runs", "over"},
                          deadline : 0..(MaxNow + Timeout + 1)]]
  /\ late \in SUBSET Run
SweepLocals == [since : Nat, kinds : SUBSET {"container", "network"}, todo : SUBSET Objects,
           tally : 0..Max, deferred : BOOLEAN, bad : BOOLEAN, fault : BOOLEAN]
Notes  == [dir : BOOLEAN, cleanup : {"not_needed", "pending", "confirmed", "UNCONFIRMED"},
           kept : BOOLEAN, stream : {"none", "cut", "whole"},
           manifest : {"none", "ok", "refused", "infrastructure"}, said : BOOLEAN]
PlacesTyped == pc \in [Run -> RunPlaces] /\ due \in [Run -> Nat]
SweepTyped  == sweep \in [Run -> SweepLocals]
EndTyped ==
  /\ why \in [Run -> {"none", "refused", "infrastructure"}]
  /\ note \in [Run -> Notes]
  /\ exit \in [Run -> {-1, 0, 2, 5}]
RunTyped == ObjectsTyped /\ PlacesTyped /\ SweepTyped /\ EndTyped

\* A docker call and the stream end in time, so that all is over before the
\* label's deadline and the grace are.
InTime ==
  \A i \in Run :
    /\ pc[i] \in Runs!Timed => now <= due[i]
    /\ pc[i] = "create" => due[i] + Timeout <= obj[i].deadline
    /\ pc[i] \in {"begin", "stream"} => due[i] <= obj[i].deadline + 1
    /\ pc[i] = "inspect" => due[i] <= obj[i].deadline + 2

\* There is no container of a run that has not asked for one.
NotYet == \A i \in Run : Runs!There(i) \/ i \in late => pc[i] \notin Early

\* What a janitor is about to remove has expired, and stays expired.
Listed ==
  \A j \in Run :
    /\ sweep[j].since <= now
    /\ \A o \in sweep[j].todo :
         /\ obj[o].deadline + 2 < sweep[j].since
         /\ o \in Run => pc[o] \notin Early

\* What a build left behind carries the deadline of that build.
OldDeadlines == \A o \in Old : obj[o].deadline = 1

\* The order of the janitor: containers first, one kind at a time, and all of a
\* kind that has expired.
Expired(o, i) == Runs!There(o) /\ obj[o].deadline + 2 < sweep[i].since
SweptInOrder(i) ==
  /\ pc[i] \in {"start", "image"} => sweep[i] = Runs!Idle(i)
  /\ "network" \in sweep[i].kinds => i \in Build
  /\ i \in Build /\ "network" \notin sweep[i].kinds => "container" \notin sweep[i].kinds
  /\ sweep[i].todo \cap Net # {} => sweep[i].todo \subseteq Net
  /\ sweep[i].todo # {} => "container" \notin sweep[i].kinds
  /\ sweep[i].deferred => sweep[i].tally = Max
  /\ sweep[i].bad = sweep[i].fault
  /\ pc[i] = "list" => sweep[i].todo = {}
  /\ pc[i] \in {"snapshot", "build"} => sweep[i].todo = {} /\ sweep[i].kinds = {} /\ ~sweep[i].bad

AllTaken(i) ==
  \A o \in Old :
    Expired(o, i) /\ Runs!Kind(o) \notin sweep[i].kinds /\ (o \in Net => i \in Build) =>
      o \in sweep[i].todo \/ sweep[i].deferred \/ sweep[i].fault

Sweeping == \A i \in Run : SweptInOrder(i) /\ AllTaken(i)

\* What a run knows, by where it is.
Clear(i) == note[i].manifest = "none" /\ ~note[i].kept /\ ~note[i].said
KnownOf(i) ==
  /\ pc[i] \in Early \cup Serving => why[i] = "none" /\ Clear(i)
  /\ pc[i] = "cleanup" => Clear(i) /\ (why[i] = "none" => note[i].stream = "whole")
  /\ pc[i] \in {"results", "emit"} =>
       why[i] = "none" /\ note[i].stream = "whole" /\ ~note[i].kept /\ ~Runs!There(i)
  /\ pc[i] = "results" => note[i].manifest = "none" /\ ~note[i].said
  /\ pc[i] = "emit" => note[i].manifest = "ok"
  /\ pc[i] = "failing" =>
       /\ why[i] # "none" /\ note[i].manifest = "none" /\ ~note[i].said
       /\ note[i].kept => why[i] = "infrastructure"
       /\ obj[i].at \in {"runs", "over"} => note[i].cleanup = "UNCONFIRMED" /\ why[i] = "infrastructure"
  /\ pc[i] = "done" /\ exit[i] = 0 => why[i] = "none"
  /\ i \in late => pc[i] = "dead" \/ why[i] = "infrastructure"

Known == \A i \in Run : KnownOf(i)

RunInv ==
  /\ RunTyped /\ InTime /\ NotYet /\ Listed /\ OldDeadlines /\ Sweeping /\ Known
  /\ Runs!JanitorSpares /\ Runs!OutcomeTells

-----------------------------------------------------------------------------
(* Types and frames of the steps of a run *)

\* What a run does that leaves the daemon's objects and its sweep as they are.
RunQuiet(i) ==
  \/ Runs!OpenRunDir(i) \/ Runs!Swept(i) \/ Runs!StreamEnds(i) \/ Runs!Inspect(i)
  \/ Runs!WriteResults(i) \/ Runs!EmitLines(i)

\* What changes its sweep, and no object.
Planning(i) ==
  \/ Runs!ResolveImage(i) \/ Runs!ListExpired(i) \/ Runs!SupervisedSnapshot(i)
  \/ Runs!ReportFailure(i) \/ Runs!Crash(i)

\* What changes its own object.
RunActs(i) ==
  \/ Runs!FetchDeps(i) \/ Runs!Create(i) \/ Runs!Lands(i) \/ Runs!StreamStart(i)
  \/ Runs!StreamStopped(i) \/ Runs!ContainerEnds(i) \/ Runs!Cleanup(i)

LEMMA RunStepKinds ==
  Runs!Next <=> Runs!Tick \/ \E i \in Run : RunQuiet(i) \/ Planning(i) \/ RunActs(i) \/ Runs!RemoveNext(i)
  BY DEF Runs!Next, Runs!Step, RunQuiet, Planning, RunActs

LEMMA RunQuietKeeps == ASSUME NEW i \in Run, RunQuiet(i) PROVE UNCHANGED <<now, obj, late, sweep>>
  BY DEF RunQuiet, Runs!OpenRunDir, Runs!Swept, Runs!StreamEnds, Runs!Inspect, Runs!WriteResults,
         Runs!EmitLines

LEMMA PlanningKeeps == ASSUME NEW i \in Run, Planning(i) PROVE UNCHANGED <<now, obj, late>>
  BY DEF Planning, Runs!ResolveImage, Runs!ListExpired, Runs!SupervisedSnapshot,
         Runs!ReportFailure, Runs!Crash

LEMMA ActingKeeps == ASSUME NEW i \in Run, RunActs(i) PROVE UNCHANGED <<now, sweep>>
  BY DEF RunActs, Runs!FetchDeps, Runs!Create, Runs!Lands, Runs!StreamStart, Runs!StreamStopped,
         Runs!ContainerEnds, Runs!Cleanup

LEMMA RemoveKeeps ==
  ASSUME NEW i \in Run, Runs!RemoveNext(i)
  PROVE  pc[i] = "remove" /\ UNCHANGED <<now, pc, due, late, why, note, exit>>
  BY Zenon DEF Runs!RemoveNext

LEMMA RunPlacesStep ==
  ASSUME RunTyped, NEW i \in Run, RunQuiet(i) \/ Planning(i) \/ RunActs(i) \/ Runs!RemoveNext(i)
  PROVE  PlacesTyped' /\ \A j \in Run : j # i => pc'[j] = pc[j] /\ due'[j] = due[j]
<1> USE RunAssumption DEF RunTyped, PlacesTyped, ObjectsTyped, RunPlaces, Early, Before, Serving, Runs!Goto,
        Runs!Fail, Runs!Within, Runs!Protected, Runs!Exit, Runs!Slack
<1>1. CASE RunQuiet(i)
  BY <1>1 DEF RunQuiet, Runs!OpenRunDir, Runs!Swept, Runs!StreamEnds, Runs!Inspect, Runs!WriteResults,
              Runs!EmitLines
<1>2. CASE Planning(i)
  <2>1. CASE Runs!ResolveImage(i) \/ Runs!ListExpired(i)
    BY <2>1 DEF Runs!ResolveImage, Runs!ListExpired
  <2>2. CASE Runs!SupervisedSnapshot(i) \/ Runs!ReportFailure(i)
    BY <2>2 DEF Runs!SupervisedSnapshot, Runs!ReportFailure
  <2>3. CASE Runs!Crash(i)
    BY <2>3 DEF Runs!Crash
  <2> QED
    BY <1>2, <2>1, <2>2, <2>3 DEF Planning
<1>3. CASE RunActs(i)
  BY <1>3 DEF RunActs, Runs!FetchDeps, Runs!Create, Runs!Lands, Runs!StreamStart,
              Runs!StreamStopped, Runs!ContainerEnds, Runs!Cleanup
<1>4. CASE Runs!RemoveNext(i)
  BY <1>4, RemoveKeeps
<1> QED
  BY <1>1, <1>2, <1>3, <1>4

\* What a failure leaves on disk.
LEMMA ReportEffect ==
  ASSUME RunTyped, NEW i \in Run, Runs!ReportFailure(i)
  PROVE  \E r \in Notes :
           /\ note' = [note EXCEPT ![i] = r]
           /\ r.cleanup = note[i].cleanup /\ r.kept = note[i].kept /\ r.stream = note[i].stream
           /\ r.manifest \in {why[i], note[i].manifest}
           /\ r.said => r.manifest = why[i]
<1>1. PICK d, w, s \in BOOLEAN :
        /\ s => w
        /\ note' = [note EXCEPT ![i].dir = d, ![i].said = s,
                               ![i].manifest = IF w THEN why[i] ELSE @]
  BY DEF Runs!ReportFailure
<1> DEFINE r == [note[i] EXCEPT !.dir = d, !.said = s, !.manifest = IF w THEN why[i] ELSE @]
<1>2. note[i] \in Notes /\ why[i] \in {"none", "refused", "infrastructure"}
  BY DEF RunTyped, EndTyped
<1>3. note' = [note EXCEPT ![i] = r]
  BY <1>1 DEF RunTyped, EndTyped
<1>4. /\ r \in Notes
      /\ r.cleanup = note[i].cleanup /\ r.kept = note[i].kept /\ r.stream = note[i].stream
      /\ r.manifest \in {why[i], note[i].manifest}
      /\ r.said => r.manifest = why[i]
  BY <1>1, <1>2 DEF Notes
<1> HIDE DEF r
<1> QED
  BY <1>3, <1>4

LEMMA EndStep ==
  ASSUME RunTyped, NEW i \in Run, RunQuiet(i) \/ Planning(i) \/ RunActs(i) \/ Runs!RemoveNext(i)
  PROVE  EndTyped' /\ \A j \in Run : j # i => why'[j] = why[j] /\ note'[j] = note[j] /\ exit'[j] = exit[j]
<1>1. why' \in [Run -> {"none", "refused", "infrastructure"}] /\ \A j \in Run : j # i => why'[j] = why[j]
  <2> USE DEF RunTyped, EndTyped, Runs!Fail, Runs!Protected
  <2>1. CASE RunQuiet(i)
    BY <2>1 DEF RunQuiet, Runs!OpenRunDir, Runs!Swept, Runs!StreamEnds, Runs!Inspect, Runs!WriteResults,
                Runs!EmitLines
  <2>2. CASE Planning(i) \/ Runs!RemoveNext(i)
    <3>1. CASE Planning(i)
      BY <3>1 DEF Planning, Runs!ResolveImage, Runs!ListExpired, Runs!SupervisedSnapshot,
         Runs!ReportFailure, Runs!Crash
    <3>2. CASE Runs!RemoveNext(i)
      BY <3>2, RemoveKeeps
    <3> QED
      BY <2>2, <3>1, <3>2
  <2>3. CASE RunActs(i)
    BY <2>3 DEF RunActs, Runs!FetchDeps, Runs!Create, Runs!Lands, Runs!StreamStart,
                Runs!StreamStopped, Runs!ContainerEnds, Runs!Cleanup
  <2> QED
    BY <2>1, <2>2, <2>3
<1>2. exit' \in [Run -> {-1, 0, 2, 5}] /\ \A j \in Run : j # i => exit'[j] = exit[j]
  <2> USE DEF RunTyped, EndTyped, Runs!Exit
  <2>1. CASE RunQuiet(i)
    BY <2>1 DEF RunQuiet, Runs!OpenRunDir, Runs!Swept, Runs!StreamEnds, Runs!Inspect, Runs!WriteResults,
                Runs!EmitLines
  <2>2. CASE Planning(i) \/ Runs!RemoveNext(i)
    <3>1. CASE Planning(i)
      BY <3>1 DEF Planning, Runs!ResolveImage, Runs!ListExpired, Runs!SupervisedSnapshot,
         Runs!ReportFailure, Runs!Crash
    <3>2. CASE Runs!RemoveNext(i)
      BY <3>2, RemoveKeeps
    <3> QED
      BY <2>2, <3>1, <3>2
  <2>3. CASE RunActs(i)
    BY <2>3 DEF RunActs, Runs!FetchDeps, Runs!Create, Runs!Lands, Runs!StreamStart,
                Runs!StreamStopped, Runs!ContainerEnds, Runs!Cleanup
  <2> QED
    BY <2>1, <2>2, <2>3
<1>3. note' \in [Run -> Notes] /\ \A j \in Run : j # i => note'[j] = note[j]
  <2> USE DEF RunTyped, EndTyped
  <2>1. CASE RunQuiet(i)
    <3>1. CASE Runs!OpenRunDir(i)
      <4>1. note' = note \/ note' = [note EXCEPT ![i].dir = TRUE]
        BY <3>1 DEF Runs!OpenRunDir
      <4>2. [note[i] EXCEPT !.dir = TRUE] \in Notes
        BY DEF Notes
      <4>3. note' = note \/ note' = [note EXCEPT ![i] = [note[i] EXCEPT !.dir = TRUE]]
        BY <4>1, Zenon
      <4>4. note \in [Run -> Notes]
        OBVIOUS
      <4> HIDE DEF RunTyped, EndTyped
      <4> QED
        BY <4>2, <4>3, <4>4
    <3>5. CASE Runs!StreamEnds(i)
      <4> DEFINE s == IF obj[i].at = "over" THEN "whole" ELSE "cut"
      <4>1. note' = [note EXCEPT ![i].stream = s] /\ s \in {"cut", "whole"}
        BY <3>5 DEF Runs!StreamEnds
      <4> HIDE DEF s
      <4> QED
        BY <4>1 DEF Notes
    <3>2. CASE Runs!WriteResults(i)
      BY <3>2 DEF Runs!WriteResults, Notes
    <3>3. CASE Runs!EmitLines(i)
      BY <3>3 DEF Runs!EmitLines, Notes
    <3>4. CASE Runs!Swept(i) \/ Runs!Inspect(i)
      BY <3>4 DEF Runs!Swept, Runs!Inspect
    <3> QED
      BY <2>1, <3>1, <3>2, <3>3, <3>4, <3>5 DEF RunQuiet
  <2>2. CASE Runs!ReportFailure(i)
    BY <2>2, ReportEffect
  <2>3. CASE Runs!Crash(i)
    <3>1. Runs!Nothing \in Notes
      BY DEF Runs!Nothing, Notes
    <3> QED
      BY <2>3, <3>1 DEF Runs!Crash
  <2>4. CASE Runs!ResolveImage(i) \/ Runs!ListExpired(i) \/ Runs!SupervisedSnapshot(i)
              \/ Runs!RemoveNext(i)
    <3>1. note' = note
      BY <2>4, RemoveKeeps DEF Runs!ResolveImage, Runs!ListExpired, Runs!SupervisedSnapshot
    <3> QED
      BY <3>1
  <2>5. CASE RunActs(i)
    BY <2>5 DEF RunActs, Runs!FetchDeps, Runs!Create, Runs!Lands, Runs!StreamStart,
                Runs!StreamStopped, Runs!ContainerEnds, Runs!Cleanup, Notes
  <2> QED
    BY <2>1, <2>2, <2>3, <2>4, <2>5 DEF Planning
<1> QED
  BY <1>1, <1>2, <1>3 DEF EndTyped

\* What docker's answer to a removal means.
LEMMA RemovalEffect ==
  ASSUME RunTyped, NEW o \in Objects, NEW gone \in BOOLEAN, NEW fault \in BOOLEAN,
         Runs!RemoveObject(o, gone, fault)
  PROVE  /\ obj' \in [Objects -> [at : {"none", "made", "runs", "over"},
                                  deadline : 0..(MaxNow + Timeout + 1)]]
         /\ \A u \in Objects : obj'[u].deadline = obj[u].deadline
         /\ \A u \in Objects : obj'[u].at # obj[u].at => u = o /\ obj'[u].at = "none"
         /\ gone => obj'[o].at = "none"
         /\ ~gone /\ ~fault => Runs!Attached(o)
  BY DEF RunTyped, ObjectsTyped, Runs!RemoveObject

\* A step of the janitor: one object less to do, and what came of it.
LEMMA RemoveEffect ==
  ASSUME RunTyped, NEW i \in Run, Runs!RemoveNext(i)
  PROVE  \E o \in sweep[i].todo, r \in SweepLocals :
           /\ sweep' = [sweep EXCEPT ![i] = r]
           /\ r.since = sweep[i].since /\ r.kinds = sweep[i].kinds /\ r.todo = sweep[i].todo \ {o}
           /\ o \in Objects
           /\ \/ /\ Runs!Capped(i) /\ r.deferred /\ UNCHANGED obj
                 /\ r.tally = sweep[i].tally /\ r.bad = sweep[i].bad /\ r.fault = sweep[i].fault
              \/ /\ ~Runs!Capped(i) /\ r.deferred = sweep[i].deferred /\ r.tally = sweep[i].tally + 1
                 /\ \E gone, fault \in BOOLEAN :
                      /\ Runs!RemoveObject(o, gone, fault)
                      /\ r.bad = (sweep[i].bad \/ ~gone) /\ r.fault = (sweep[i].fault \/ fault)
<1>1. sweep \in [Run -> SweepLocals] /\ sweep[i] \in SweepLocals
  BY DEF RunTyped, SweepTyped
<1>2. PICK o \in sweep[i].todo :
        IF Runs!Capped(i)
        THEN /\ sweep' = [sweep EXCEPT ![i].todo = @ \ {o}, ![i].deferred = TRUE]
             /\ UNCHANGED obj
        ELSE \E gone, fault \in BOOLEAN :
               /\ Runs!RemoveObject(o, gone, fault)
               /\ sweep' = [sweep EXCEPT ![i].todo = @ \ {o}, ![i].tally = @ + 1,
                                         ![i].bad = @ \/ ~gone, ![i].fault = @ \/ fault]
  BY DEF Runs!RemoveNext
<1>3. o \in Objects
  BY <1>1 DEF SweepLocals
<1>4. CASE Runs!Capped(i)
  <2> DEFINE r == [sweep[i] EXCEPT !.todo = sweep[i].todo \ {o}, !.deferred = TRUE]
  <2>1. sweep' = [sweep EXCEPT ![i] = r]
    BY <1>1, <1>2, <1>4
  <2>2. /\ r \in SweepLocals /\ r.since = sweep[i].since /\ r.kinds = sweep[i].kinds
        /\ r.todo = sweep[i].todo \ {o} /\ r.deferred
        /\ r.tally = sweep[i].tally /\ r.bad = sweep[i].bad /\ r.fault = sweep[i].fault
    BY <1>1 DEF SweepLocals
  <2> HIDE DEF r
  <2> QED
    BY <1>2, <1>3, <1>4, <2>1, <2>2
<1>5. CASE ~Runs!Capped(i)
  <2>1. PICK gone, fault \in BOOLEAN :
          /\ Runs!RemoveObject(o, gone, fault)
          /\ sweep' = [sweep EXCEPT ![i].todo = @ \ {o}, ![i].tally = @ + 1,
                                    ![i].bad = @ \/ ~gone, ![i].fault = @ \/ fault]
    BY <1>2, <1>5
  <2> DEFINE r == [sweep[i] EXCEPT !.todo = sweep[i].todo \ {o}, !.tally = sweep[i].tally + 1,
                                   !.bad = sweep[i].bad \/ ~gone, !.fault = sweep[i].fault \/ fault]
  <2>2. sweep' = [sweep EXCEPT ![i] = r]
    BY <1>1, <2>1
  <2>3. sweep[i].tally + 1 \in 0..Max
    BY <1>1, <1>5, RunAssumption DEF SweepLocals, Runs!Capped
  <2>4. /\ r \in SweepLocals /\ r.since = sweep[i].since /\ r.kinds = sweep[i].kinds
        /\ r.todo = sweep[i].todo \ {o} /\ r.deferred = sweep[i].deferred
        /\ r.tally = sweep[i].tally + 1
        /\ r.bad = (sweep[i].bad \/ ~gone) /\ r.fault = (sweep[i].fault \/ fault)
    BY <1>1, <2>3 DEF SweepLocals
  <2> HIDE DEF r
  <2> QED
    BY <1>3, <1>5, <2>1, <2>2, <2>4
<1> QED
  BY <1>4, <1>5

LEMMA SweepStep ==
  ASSUME RunTyped, NEW i \in Run, RunQuiet(i) \/ Planning(i) \/ RunActs(i) \/ Runs!RemoveNext(i)
  PROVE  SweepTyped' /\ \A j \in Run : j # i => sweep'[j] = sweep[j]
<1>0. Runs!Idle(i) \in SweepLocals
  BY RunAssumption DEF Runs!Idle, SweepLocals
<1>1. CASE RunQuiet(i) \/ RunActs(i)
  BY <1>1, RunQuietKeeps, ActingKeeps DEF RunTyped, SweepTyped, SweepLocals
<1>2. CASE Runs!ResolveImage(i)
  BY <1>2 DEF RunTyped, SweepTyped, SweepLocals, ObjectsTyped, Runs!ResolveImage
<1>3. CASE Runs!ListExpired(i)
  <2> DEFINE kind == Runs!FirstKind(sweep[i].kinds)
             T    == Runs!Expired(kind, sweep[i].since)
  <2>1. sweep' = sweep \/ sweep' = [sweep EXCEPT ![i].kinds = @ \ {kind}, ![i].todo = T]
    BY <1>3 DEF Runs!ListExpired
  <2>2. T \in SUBSET Objects
    BY DEF Runs!Expired, Objects
  <2> HIDE DEF kind, T
  <2>3. sweep[i] \in SweepLocals
    BY DEF RunTyped, SweepTyped
  <2>4. [sweep[i] EXCEPT !.kinds = @ \ {kind}, !.todo = T] \in SweepLocals
    BY <2>2, <2>3 DEF SweepLocals
  <2>5. sweep' = sweep \/ sweep' = [sweep EXCEPT ![i] = [sweep[i] EXCEPT !.kinds = @ \ {kind}, !.todo = T]]
    BY <2>1 DEF RunTyped, SweepTyped
  <2> QED
    BY <2>4, <2>5 DEF RunTyped, SweepTyped
<1>4. CASE Runs!SupervisedSnapshot(i) \/ Runs!ReportFailure(i) \/ Runs!Crash(i)
  BY <1>0, <1>4 DEF RunTyped, SweepTyped, Runs!SupervisedSnapshot, Runs!ReportFailure, Runs!Crash
<1>5. CASE Runs!RemoveNext(i)
  BY <1>5, RemoveEffect DEF RunTyped, SweepTyped
<1> QED
  BY <1>1, <1>2, <1>3, <1>4, <1>5 DEF Planning

\* Who gets a new deadline is about to create its container, and what goes was on
\* a list of the janitor or is the run's own.
LEMMA ObjectStep ==
  ASSUME RunTyped, NEW i \in Run, RunQuiet(i) \/ Planning(i) \/ RunActs(i) \/ Runs!RemoveNext(i)
  PROVE  /\ ObjectsTyped' /\ now' = now
         /\ \A o \in Objects : obj'[o].deadline # obj[o].deadline => o = i /\ Runs!FetchDeps(i)
         /\ \A o \in Objects : obj'[o].at # obj[o].at =>
              \/ o = i /\ RunActs(i)
              \/ Runs!RemoveNext(i) /\ o \in sweep[i].todo /\ obj'[o].at = "none"
<1>1. CASE RunQuiet(i) \/ Planning(i)
  BY <1>1, RunQuietKeeps, PlanningKeeps DEF RunTyped, ObjectsTyped
<1>2. CASE RunActs(i)
  <2> USE RunAssumption DEF RunTyped, ObjectsTyped, Objects
  <2>1. CASE Runs!FetchDeps(i)
    <3>1. now + Timeout + 1 \in 0..(MaxNow + Timeout + 1)
      OBVIOUS
    <3>2. obj' = obj \/ obj' = [obj EXCEPT ![i].deadline = now + Timeout + 1]
      BY <2>1 DEF Runs!FetchDeps, Runs!Margin
    <3>3. now' = now /\ late' = late
      BY <2>1 DEF Runs!FetchDeps
    <3>4. obj' \in [Objects -> [at : {"none", "made", "runs", "over"},
                                deadline : 0..(MaxNow + Timeout + 1)]]
      BY <3>1, <3>2
    <3> QED
      BY <2>1, <3>2, <3>3, <3>4
  <2>2. CASE Runs!Create(i) \/ Runs!Lands(i)
    BY <1>2, <2>2 DEF Runs!Create, Runs!Lands, Runs!Made
  <2>3. CASE Runs!StreamStart(i) \/ Runs!StreamStopped(i) \/ Runs!ContainerEnds(i)
    BY <1>2, <2>3 DEF Runs!StreamStart, Runs!StreamStopped, Runs!ContainerEnds
  <2>4. CASE Runs!Cleanup(i)
    BY <1>2, <2>4, RemovalEffect DEF Runs!Cleanup
  <2> QED
    BY <1>2, <2>1, <2>2, <2>3, <2>4 DEF RunActs
<1>3. CASE Runs!RemoveNext(i)
  <2>1. PICK o \in sweep[i].todo :
          /\ o \in Objects
          /\ \/ obj' = obj
             \/ \E gone, fault \in BOOLEAN : Runs!RemoveObject(o, gone, fault)
    BY <1>3, RemoveEffect
  <2>2. late' = late /\ now' = now
    BY <1>3, RemoveKeeps
  <2> QED
    BY <1>3, <2>1, <2>2, RemovalEffect DEF RunTyped, ObjectsTyped
<1> QED
  BY <1>1, <1>2, <1>3

LEMMA RunTypedStep ==
  ASSUME RunTyped, NEW i \in Run, RunQuiet(i) \/ Planning(i) \/ RunActs(i) \/ Runs!RemoveNext(i)
  PROVE  RunTyped'
  BY RunPlacesStep, EndStep, SweepStep, ObjectStep DEF RunTyped

-----------------------------------------------------------------------------
(* The clock, and what it bounds *)

RunMoves(i) == RunQuiet(i) \/ Planning(i) \/ RunActs(i) \/ Runs!RemoveNext(i)

\* Only its own client leaves docker with a container to create.
LEMMA LateRunStep == ASSUME NEW i \in Run, RunMoves(i) PROVE late' \subseteq late \cup {i}
<1>1. CASE RunQuiet(i) \/ Planning(i) \/ Runs!RemoveNext(i)
  BY <1>1, RunQuietKeeps, PlanningKeeps, RemoveKeeps
<1>2. CASE Runs!Create(i) \/ Runs!Lands(i)
  BY <1>2 DEF Runs!Create, Runs!Lands
<1>3. CASE Runs!FetchDeps(i) \/ Runs!StreamStart(i) \/ Runs!StreamStopped(i)
            \/ Runs!ContainerEnds(i) \/ Runs!Cleanup(i)
  <2>1. late' = late
    BY <1>3, Zenon DEF Runs!FetchDeps, Runs!StreamStart, Runs!StreamStopped, Runs!ContainerEnds, Runs!Cleanup
  <2> QED
    BY <2>1
<1> QED
  BY <1>1, <1>2, <1>3 DEF RunMoves, RunActs

\* No run goes back to where it has no container yet.
LEMMA NoWayBack ==
  ASSUME RunTyped, NEW i \in Run, RunMoves(i), pc[i] \notin Early
  PROVE  pc'[i] \notin Early
<1> USE DEF RunTyped, PlacesTyped, Early, Before, Runs!Goto, Runs!Fail, Runs!Protected, Runs!Exit
<1>1. CASE RunQuiet(i)
  BY <1>1 DEF RunQuiet, Runs!OpenRunDir, Runs!Swept, Runs!StreamEnds, Runs!Inspect, Runs!WriteResults,
              Runs!EmitLines
<1>2. CASE Planning(i) \/ Runs!RemoveNext(i)
  <2>1. CASE Planning(i)
    BY <2>1 DEF Planning, Runs!ResolveImage, Runs!ListExpired, Runs!SupervisedSnapshot,
       Runs!ReportFailure, Runs!Crash
  <2>2. CASE Runs!RemoveNext(i)
    BY <2>2, RemoveKeeps
  <2> QED
    BY <1>2, <2>1, <2>2
<1>3. CASE RunActs(i)
  BY <1>3 DEF RunActs, Runs!FetchDeps, Runs!Create, Runs!Lands, Runs!StreamStart,
              Runs!StreamStopped, Runs!ContainerEnds, Runs!Cleanup
<1> QED
  BY <1>1, <1>2, <1>3 DEF RunMoves

LEMMA InTimeStep == ASSUME RunTyped, InTime, NEW i \in Run, RunMoves(i) PROVE InTime'
<1>1. now' = now /\ now \in Nat /\ Timeout \in Nat
  BY ObjectStep, RunAssumption DEF RunMoves, RunTyped, ObjectsTyped
<1>2. ASSUME NEW j \in Run, j # i
      PROVE  pc'[j] = pc[j] /\ due'[j] = due[j] /\ obj'[j].deadline = obj[j].deadline
  BY <1>2, RunPlacesStep, ObjectStep DEF RunMoves, Objects
<1>3. due[i] \in Nat /\ obj[i].deadline \in Nat
  BY DEF RunTyped, PlacesTyped, ObjectsTyped, Objects
<1>4. /\ pc'[i] \in Runs!Timed => now <= due'[i]
      /\ pc'[i] = "create" => due'[i] + Timeout <= obj'[i].deadline
      /\ pc'[i] \in {"begin", "stream"} => due'[i] <= obj'[i].deadline + 1
      /\ pc'[i] = "inspect" => due'[i] <= obj'[i].deadline + 2
  <2>1. /\ pc[i] \in Runs!Timed => now <= due[i]
        /\ pc[i] = "create" => due[i] + Timeout <= obj[i].deadline
        /\ pc[i] \in {"begin", "stream"} => due[i] <= obj[i].deadline + 1
        /\ pc[i] = "inspect" => due[i] <= obj[i].deadline + 2
    BY DEF InTime
  <2>2. Runs!FetchDeps(i) \/ obj'[i].deadline = obj[i].deadline
    BY ObjectStep DEF RunMoves, Objects
  <2> USE <1>1, <1>3, <2>1, <2>2
      DEF RunTyped, PlacesTyped, Runs!Timed, Runs!Goto, Runs!Fail, Runs!Within, Runs!Protected, Runs!Exit
  <2>3. CASE Runs!OpenRunDir(i) \/ Runs!Swept(i) \/ Runs!WriteResults(i) \/ Runs!EmitLines(i)
    BY <2>3 DEF Runs!OpenRunDir, Runs!Swept, Runs!WriteResults, Runs!EmitLines
  <2>4. CASE Runs!StreamEnds(i) \/ Runs!Inspect(i)
    BY <2>4 DEF Runs!StreamEnds, Runs!Inspect
  <2>5. CASE Planning(i) \/ Runs!RemoveNext(i)
    <3>1. CASE Planning(i)
      BY <3>1 DEF Planning, Runs!ResolveImage, Runs!ListExpired, Runs!SupervisedSnapshot,
         Runs!ReportFailure, Runs!Crash
    <3>2. CASE Runs!RemoveNext(i)
      BY <3>2, RemoveKeeps
    <3> QED
      BY <2>5, <3>1, <3>2
  <2>6. CASE Runs!FetchDeps(i)
    BY <2>6 DEF Runs!FetchDeps, Runs!Margin, ObjectsTyped, Objects
  <2>7. CASE Runs!Create(i)
    BY <2>7 DEF Runs!Create, Runs!Slack, Runs!FetchDeps
  <2>8. CASE Runs!Lands(i) \/ Runs!ContainerEnds(i)
    <3>1. obj'[i].deadline = obj[i].deadline /\ due' = due /\ pc' = pc
      BY <2>8 DEF Runs!Lands, Runs!ContainerEnds, Runs!Made, ObjectsTyped, Objects
    <3> QED
      BY <3>1
  <2>9. CASE Runs!StreamStart(i) \/ Runs!StreamStopped(i)
    BY <2>9 DEF Runs!StreamStart, Runs!StreamStopped, Runs!FetchDeps
  <2>10. CASE Runs!Cleanup(i)
    BY <2>10 DEF Runs!Cleanup
  <2> QED
    BY <2>3, <2>4, <2>5, <2>6, <2>7, <2>8, <2>9, <2>10 DEF RunMoves, RunQuiet, RunActs
<1> QED
  BY <1>1, <1>2, <1>4 DEF InTime

LEMMA NotYetStep == ASSUME RunTyped, NotYet, NEW i \in Run, RunMoves(i) PROVE NotYet'
<1> SUFFICES ASSUME NEW j \in Run, Runs!There(j)' \/ j \in late' PROVE pc'[j] \notin Early
  BY DEF NotYet
<1>1. CASE j # i
  <2>1. obj'[j].at # obj[j].at => obj'[j].at = "none"
    BY <1>1, ObjectStep DEF RunMoves, Objects
  <2>2. j \in late' => j \in late
    BY <1>1, LateRunStep
  <2>3. pc'[j] = pc[j]
    BY <1>1, RunPlacesStep DEF RunMoves
  <2>4. obj'[j].at # "none" \/ j \in late'
    BY DEF Runs!There
  <2>5. obj[j].at # "none" \/ j \in late
    BY <2>1, <2>2, <2>4
  <2> QED
    BY <2>3, <2>5 DEF NotYet, Runs!There
<1>2. CASE j = i /\ (Runs!There(i) \/ i \in late)
  BY <1>2, NoWayBack DEF NotYet
<1>3. CASE j = i /\ ~Runs!There(i) /\ i \notin late
  <2>1. ~Runs!RemoveNext(i) /\ ~RunQuiet(i) /\ ~Planning(i)
    <3>1. i \in Objects /\ obj[i].at = "none"
      BY <1>3 DEF Objects, Runs!There
    <3>2. Runs!RemoveNext(i) => obj'[i].at = "none" /\ late' = late
      <4> SUFFICES ASSUME Runs!RemoveNext(i) PROVE obj'[i].at = "none" /\ late' = late
        OBVIOUS
      <4>1. late' = late
        BY RemoveKeeps
      <4>2. PICK o \in sweep[i].todo :
              /\ o \in Objects
              /\ UNCHANGED obj \/ \E gone, fault \in BOOLEAN : Runs!RemoveObject(o, gone, fault)
        BY RemoveEffect
      <4>3. UNCHANGED obj \/ \A u \in Objects : obj'[u].at # obj[u].at => obj'[u].at = "none"
        BY <4>2, RemovalEffect
      <4> QED
        BY <3>1, <4>1, <4>3
    <3> QED
      BY <1>3, <3>1, <3>2, RunQuietKeeps, PlanningKeeps DEF Runs!There
  <2>2. Runs!Create(i)
    <3>1. obj'[i].at # "none" \/ i \in late'
      BY <1>3 DEF Runs!There
    <3>2. obj[i] \in [at : {"none", "made", "runs", "over"}, deadline : 0..(MaxNow + Timeout + 1)]
          /\ obj[i].at = "none" /\ obj \in [Objects -> [at : {"none", "made", "runs", "over"},
                          deadline : 0..(MaxNow + Timeout + 1)]]
      BY <1>3 DEF Runs!There, RunTyped, ObjectsTyped, Objects
    <3>3. ~Runs!FetchDeps(i)
      BY <1>3, <3>1, <3>2 DEF Runs!FetchDeps
    <3>4. ~Runs!Lands(i) /\ ~Runs!ContainerEnds(i)
      BY <1>3, <3>2 DEF Runs!Lands, Runs!ContainerEnds
    <3>5. ~Runs!StreamStart(i) /\ ~Runs!StreamStopped(i)
      BY <1>3, <3>1, <3>2 DEF Runs!StreamStart, Runs!StreamStopped, Runs!There
    <3>6. ~Runs!Cleanup(i)
      <4>1. Runs!Cleanup(i) => obj'[i].at = "none" /\ late' = late
        BY <3>2, RemovalEffect DEF Runs!Cleanup, Objects
      <4> QED
        BY <1>3, <3>1, <4>1
    <3> QED
      BY <2>1, <3>3, <3>4, <3>5, <3>6 DEF RunMoves, RunActs
  <2> QED
    BY <1>3, <2>2 DEF Runs!Create, Runs!Goto, Runs!Protected, Early, Before, RunTyped, PlacesTyped
<1> QED
  BY <1>1, <1>2, <1>3

LEMMA ListedStep ==
  ASSUME RunTyped, NotYet, Listed, NEW i \in Run, RunMoves(i)
  PROVE  Listed'
<1>1. now' = now /\ now \in Nat
  BY ObjectStep DEF RunMoves, RunTyped, ObjectsTyped
<1>2. ASSUME NEW o \in Objects, o \in Run => pc[o] \notin Early
      PROVE  obj'[o].deadline = obj[o].deadline /\ (o \in Run => pc'[o] \notin Early)
  <2>1. o \in Run => pc'[o] \notin Early
    BY <1>2, NoWayBack, RunPlacesStep DEF RunMoves
  <2>2. ~(o = i /\ Runs!FetchDeps(i))
    BY <1>2 DEF Runs!FetchDeps, Early, Before
  <2> QED
    BY <2>1, <2>2, ObjectStep DEF RunMoves
<1>3. \A j \in Run : sweep[j] \in SweepLocals
  BY DEF RunTyped, SweepTyped
<1>4. ASSUME NEW j \in Run, sweep'[j].since = sweep[j].since, sweep'[j].todo \subseteq sweep[j].todo
      PROVE  /\ sweep'[j].since <= now
             /\ \A o \in sweep'[j].todo :
                  /\ obj'[o].deadline + 2 < sweep'[j].since
                  /\ o \in Run => pc'[o] \notin Early
  <2>1. \A o \in sweep'[j].todo : o \in Objects /\ obj[o].deadline + 2 < sweep[j].since
                                  /\ (o \in Run => pc[o] \notin Early)
    BY <1>3, <1>4 DEF Listed, SweepLocals
  <2> QED
    BY <1>2, <1>4, <2>1 DEF Listed
<1>5. \A j \in Run : j # i => sweep'[j] = sweep[j]
  BY SweepStep DEF RunMoves
<1>6. /\ sweep'[i].since <= now
      /\ \A o \in sweep'[i].todo :
           /\ obj'[o].deadline + 2 < sweep'[i].since
           /\ o \in Run => pc'[o] \notin Early
  <2>1. CASE RunQuiet(i) \/ RunActs(i)
    BY <2>1, <1>4, RunQuietKeeps, ActingKeeps
  <2>2. CASE Runs!RemoveNext(i)
    <3>1. sweep'[i].since = sweep[i].since /\ sweep'[i].todo \subseteq sweep[i].todo
      BY <2>2, RemoveEffect DEF RunTyped, SweepTyped
    <3> QED
      BY <1>4, <3>1
  <2>3. CASE Runs!SupervisedSnapshot(i) \/ Runs!ReportFailure(i) \/ Runs!Crash(i)
    <3>1. sweep'[i] = Runs!Idle(i)
      BY <2>3 DEF Runs!SupervisedSnapshot, Runs!ReportFailure, Runs!Crash, RunTyped, SweepTyped
    <3> QED
      BY <1>1, <3>1 DEF Runs!Idle
  <2>4. CASE Runs!ResolveImage(i)
    <3>1. sweep'[i] = sweep[i] \/ (sweep'[i].since = now /\ sweep'[i].todo = sweep[i].todo)
      BY <2>4 DEF Runs!ResolveImage, RunTyped, SweepTyped, SweepLocals
    <3>2. sweep[i].since <= now
      BY DEF Listed
    <3>3. \A o \in sweep[i].todo : o \in Objects /\ obj[o].deadline + 2 < sweep[i].since
                                   /\ (o \in Run => pc[o] \notin Early)
      BY <1>3 DEF Listed, SweepLocals
    <3>4. \A o \in sweep[i].todo : obj'[o].deadline + 2 < sweep[i].since
                                   /\ (o \in Run => pc'[o] \notin Early)
      BY <3>3, <1>2
    <3>5. \A o \in sweep[i].todo : obj'[o].deadline \in Nat
      BY <3>3, ObjectStep, RunAssumption DEF RunMoves, ObjectsTyped
    <3>6. sweep[i].since \in Nat
      BY <1>3 DEF SweepLocals
    <3> QED
      BY <1>1, <3>1, <3>2, <3>4, <3>5, <3>6
  <2>5. CASE Runs!ListExpired(i)
    <3> DEFINE kind == Runs!FirstKind(sweep[i].kinds)
               T    == Runs!Expired(kind, sweep[i].since)
    <3>1. sweep' = sweep \/ sweep' = [sweep EXCEPT ![i].kinds = @ \ {kind}, ![i].todo = T]
      BY <2>5 DEF Runs!ListExpired
    <3>2. \A o \in T : /\ o \in Objects /\ obj[o].deadline + 2 < sweep[i].since
                       /\ o \in Run => pc[o] \notin Early
      BY DEF Runs!Expired, Runs!Grace, NotYet, Objects
    <3> HIDE DEF kind, T
    <3>3. sweep'[i] = sweep[i] \/ (sweep'[i].since = sweep[i].since /\ sweep'[i].todo = T)
      BY <3>1 DEF RunTyped, SweepTyped, SweepLocals
    <3>4. CASE sweep'[i] = sweep[i]
      BY <3>4, <1>4
    <3>5. CASE sweep'[i].since = sweep[i].since /\ sweep'[i].todo = T
      BY <1>2, <3>2, <3>5 DEF Listed
    <3> QED
      BY <3>3, <3>4, <3>5
  <2> QED
    BY <2>1, <2>2, <2>3, <2>4, <2>5 DEF RunMoves, Planning
<1> QED
  BY <1>1, <1>4, <1>5, <1>6 DEF Listed

LEMMA OldStep ==
  ASSUME RunTyped, OldDeadlines, NEW i \in Run, RunMoves(i)
  PROVE  OldDeadlines'
<1>1. \A o \in Old : o \in Objects /\ o # i
  BY RunAssumption DEF Objects
<1> QED
  BY <1>1, ObjectStep DEF OldDeadlines, RunMoves

-----------------------------------------------------------------------------
(* The janitor *)

\* The clock stops before a container at work has expired.
LEMMA AtWorkIsNotListed ==
  ASSUME RunTyped, InTime, Listed, NEW i \in Run, NEW o \in sweep[i].todo, o \in Run
  PROVE  pc[o] \notin Serving
<1>1. obj[o].deadline + 2 < sweep[i].since /\ sweep[i].since <= now
  BY DEF Listed
<1>2. obj[o].deadline \in Nat /\ due[o] \in Nat /\ now \in Nat /\ sweep[i].since \in Nat
  BY DEF RunTyped, ObjectsTyped, PlacesTyped, SweepTyped, SweepLocals, Objects
<1>3. pc[o] \in Serving => now <= due[o] /\ due[o] <= obj[o].deadline + 2
  BY <1>2 DEF InTime, Serving, Runs!Timed
<1> QED
  BY <1>1, <1>2, <1>3

LEMMA SparesStep ==
  ASSUME RunTyped, InTime, Listed, Runs!JanitorSpares, NEW i \in Run, RunMoves(i)
  PROVE  Runs!JanitorSpares'
<1> SUFFICES ASSUME NEW j \in Run, pc'[j] \in Serving PROVE obj'[j].at # "none"
  BY DEF Runs!JanitorSpares, Runs!There, Serving
<1>1. pc[j] \in Serving => obj[j].at # "none"
  BY DEF Runs!JanitorSpares, Runs!There, Serving
<1>2. j \in Objects
  BY DEF Objects
<1>3. CASE j # i
  <2>1. pc'[j] = pc[j]
    BY <1>3, RunPlacesStep DEF RunMoves
  <2>2. obj'[j].at # obj[j].at => j \in sweep[i].todo
    BY <1>2, <1>3, ObjectStep DEF RunMoves
  <2> QED
    BY <1>1, <2>1, <2>2, AtWorkIsNotListed
<1>4. CASE j = i
  <2> USE <1>1, <1>2, <1>4
      DEF RunTyped, ObjectsTyped, PlacesTyped, Serving, Runs!Goto, Runs!Fail, Runs!Protected, Runs!Exit
  <2>1. CASE Runs!OpenRunDir(i) \/ Runs!Swept(i) \/ Runs!StreamEnds(i)
    BY <2>1 DEF Runs!OpenRunDir, Runs!Swept, Runs!StreamEnds
  <2>2. CASE Runs!Inspect(i) \/ Runs!WriteResults(i) \/ Runs!EmitLines(i)
    BY <2>2 DEF Runs!Inspect, Runs!WriteResults, Runs!EmitLines
  <2>3. CASE Planning(i) \/ Runs!RemoveNext(i)
    <3>1. CASE Planning(i)
      BY <3>1 DEF Planning, Runs!ResolveImage, Runs!ListExpired, Runs!SupervisedSnapshot,
         Runs!ReportFailure, Runs!Crash
    <3>2. CASE Runs!RemoveNext(i)
      BY <3>2, RemoveKeeps
    <3> QED
      BY <2>3, <3>1, <3>2
  <2>4. CASE Runs!FetchDeps(i) \/ Runs!Cleanup(i)
    BY <2>4 DEF Runs!FetchDeps, Runs!Cleanup
  <2>5. CASE Runs!Create(i) \/ Runs!Lands(i)
    BY <2>5 DEF Runs!Create, Runs!Lands, Runs!Made
  <2>6. CASE Runs!StreamStart(i) \/ Runs!StreamStopped(i) \/ Runs!ContainerEnds(i)
    BY <2>6 DEF Runs!StreamStart, Runs!StreamStopped, Runs!ContainerEnds
  <2> QED
    BY <2>1, <2>2, <2>3, <2>4, <2>5, <2>6 DEF RunMoves, RunQuiet, RunActs
<1> QED
  BY <1>3, <1>4

\* A network with a container of its build on it is taken in vain only where
\* docker refused that container before.
LEMMA InVainAfterFault ==
  ASSUME RunTyped, Listed, OldDeadlines, Sweeping, NEW i \in Run, NEW o \in sweep[i].todo,
         ~Runs!Capped(i), Runs!Attached(o)
  PROVE  sweep[i].fault
<1>1. PICK c \in Old \ Net : Runs!There(c)
  BY DEF Runs!Attached
<1>2. o \in Net /\ o \in Old
  BY RunAssumption DEF Runs!Attached
<1>3. Expired(c, i)
  BY <1>1, <1>2 DEF Expired, Listed, OldDeadlines
<1>4. Runs!Kind(c) = "container" /\ "container" \notin sweep[i].kinds
  BY <1>1 DEF Runs!Kind, Sweeping, SweptInOrder
<1>5. c \notin sweep[i].todo
  BY <1>1, <1>2 DEF Sweeping, SweptInOrder
<1>6. ~sweep[i].deferred
  BY RunAssumption DEF Runs!Capped, Sweeping, SweptInOrder
<1> QED
  BY <1>1, <1>3, <1>4, <1>5, <1>6 DEF Sweeping, AllTaken

\* What a removal leaves of the order of a sweep.
LEMMA RemoveSweeps ==
  ASSUME RunTyped, Listed, OldDeadlines, Sweeping, NEW i \in Run, Runs!RemoveNext(i)
  PROVE  SweptInOrder(i)' /\ AllTaken(i)'
<1>1. PICK o \in sweep[i].todo, r \in SweepLocals :
           /\ sweep' = [sweep EXCEPT ![i] = r]
           /\ r.since = sweep[i].since /\ r.kinds = sweep[i].kinds /\ r.todo = sweep[i].todo \ {o}
           /\ o \in Objects
           /\ \/ /\ Runs!Capped(i) /\ r.deferred /\ UNCHANGED obj
                 /\ r.tally = sweep[i].tally /\ r.bad = sweep[i].bad /\ r.fault = sweep[i].fault
              \/ /\ ~Runs!Capped(i) /\ r.deferred = sweep[i].deferred /\ r.tally = sweep[i].tally + 1
                 /\ \E gone, fault \in BOOLEAN :
                      /\ Runs!RemoveObject(o, gone, fault)
                      /\ r.bad = (sweep[i].bad \/ ~gone) /\ r.fault = (sweep[i].fault \/ fault)
  BY RemoveEffect
<1>2. sweep'[i] = r /\ pc' = pc /\ pc[i] = "remove"
  BY <1>1, RemoveKeeps DEF RunTyped, SweepTyped
<1>3. SweptInOrder(i) /\ AllTaken(i) /\ sweep[i] \in SweepLocals
  BY DEF Sweeping, RunTyped, SweepTyped
<1>4. /\ \A u \in Objects : obj'[u].deadline = obj[u].deadline
      /\ \A u \in Objects : obj'[u].at # "none" => obj[u].at # "none"
      /\ obj'[o].at # "none" /\ o \in Old => r.deferred \/ r.fault
      /\ r.bad = r.fault /\ (r.deferred => r.tally = Max)
      /\ sweep[i].deferred => r.deferred
      /\ sweep[i].fault => r.fault
  <2>1. CASE Runs!Capped(i)
    BY <1>1, <1>3, <2>1, RunAssumption DEF Runs!Capped, SweptInOrder, SweepLocals
  <2>2. CASE ~Runs!Capped(i)
    <3>1. ~sweep[i].deferred
      BY <1>3, <2>2, RunAssumption DEF Runs!Capped, SweptInOrder
    <3>2. PICK gone, fault \in BOOLEAN :
            /\ Runs!RemoveObject(o, gone, fault)
            /\ r.bad = (sweep[i].bad \/ ~gone) /\ r.fault = (sweep[i].fault \/ fault)
      BY <1>1, <2>2
    <3>3. /\ \A u \in Objects : obj'[u].deadline = obj[u].deadline
          /\ \A u \in Objects : obj'[u].at # "none" => obj[u].at # "none"
          /\ gone => obj'[o].at = "none"
          /\ ~gone /\ ~fault => sweep[i].fault
      BY <1>1, <2>2, <3>2, RemovalEffect, InVainAfterFault
    <3>4. ~(gone /\ fault)
      BY <3>2 DEF Runs!RemoveObject
    <3>5. sweep[i].bad = sweep[i].fault /\ r.deferred = sweep[i].deferred
      BY <1>1, <1>3, <2>2 DEF SweptInOrder
    <3> QED
      BY <3>1, <3>2, <3>3, <3>4, <3>5
  <2> QED
    BY <2>1, <2>2
<1>5. SweptInOrder(i)'
  BY <1>1, <1>2, <1>3, <1>4 DEF SweptInOrder
<1>6. AllTaken(i)'
  <2> SUFFICES ASSUME NEW u \in Old, obj'[u].at # "none", obj'[u].deadline + 2 < r.since,
                      Runs!Kind(u) \notin r.kinds, u \in Net => i \in Build
               PROVE  u \in r.todo \/ r.deferred \/ r.fault
    BY <1>2 DEF AllTaken, Expired, Runs!There, Runs!Kind
  <2>1. u \in Objects
    BY DEF Objects
  <2>2. Expired(u, i)
    BY <1>1, <1>4, <2>1 DEF Expired, Runs!There
  <2>3. u \in sweep[i].todo \/ sweep[i].deferred \/ sweep[i].fault
    BY <1>1, <1>3, <2>2 DEF AllTaken
  <2> QED
    BY <1>1, <1>4, <2>3
<1> QED
  BY <1>5, <1>6

\* A listing asks for one kind, and takes all of it that has expired.
LEMMA ListSweeps ==
  ASSUME RunTyped, Sweeping, NEW i \in Run, Runs!ListExpired(i)
  PROVE  SweptInOrder(i)' /\ AllTaken(i)'
<1> DEFINE kind == Runs!FirstKind(sweep[i].kinds)
           T    == Runs!Expired(kind, sweep[i].since)
<1>1. sweep[i] \in SweepLocals /\ sweep \in [Run -> SweepLocals] /\ SweptInOrder(i) /\ AllTaken(i) /\ obj' = obj
  BY DEF Sweeping, RunTyped, SweepTyped, Runs!ListExpired
<1>2. sweep[i].todo = {} /\ sweep[i].kinds # {} /\ pc[i] = "list"
  BY <1>1 DEF Runs!ListExpired, SweptInOrder
<1>3. \/ sweep' = sweep /\ pc'[i] = "failing"
      \/ pc'[i] = "remove" /\ sweep' = [sweep EXCEPT ![i].kinds = @ \ {kind}, ![i].todo = T]
  BY DEF Runs!ListExpired, Runs!Fail, Runs!Goto, RunTyped, PlacesTyped
<1>4. /\ kind \in sweep[i].kinds
      /\ kind = "network" => "container" \notin sweep[i].kinds
      /\ kind \in {"network", "container"}
  BY <1>1, <1>2 DEF Runs!FirstKind, SweepLocals
<1>5. /\ \A o \in T : Runs!Kind(o) = kind
      /\ \A o \in Old : Expired(o, i) /\ Runs!Kind(o) = kind => o \in T
  BY DEF Runs!Expired, Runs!Grace, Expired
<1> HIDE DEF kind, T
<1>6. CASE sweep' = sweep /\ pc'[i] = "failing"
  <2>1. SweptInOrder(i)'
    BY <1>1, <1>6 DEF SweptInOrder
  <2>2. AllTaken(i)'
    BY <1>1, <1>6 DEF AllTaken, Expired, Runs!There, Runs!Kind
  <2> QED
    BY <2>1, <2>2
<1>7. CASE pc'[i] = "remove" /\ sweep' = [sweep EXCEPT ![i].kinds = @ \ {kind}, ![i].todo = T]
  <2>1. PICK r \in {sweep'[i]} :
          /\ r.since = sweep[i].since /\ r.kinds = sweep[i].kinds \ {kind} /\ r.todo = T
          /\ r.tally = sweep[i].tally /\ r.deferred = sweep[i].deferred
          /\ r.bad = sweep[i].bad /\ r.fault = sweep[i].fault
    BY <1>1, <1>7 DEF SweepLocals
  <2>2. r.todo \cap Net # {} => r.todo \subseteq Net
    BY <1>5, <2>1 DEF Runs!Kind
  <2>3. SweptInOrder(i)'
    BY <1>1, <1>4, <1>7, <2>1, <2>2 DEF SweptInOrder
  <2>4. AllTaken(i)'
    <3> SUFFICES ASSUME NEW o \in Old, Expired(o, i), Runs!Kind(o) \notin sweep[i].kinds \ {kind},
                        o \in Net => i \in Build
                 PROVE  o \in T \/ sweep[i].deferred \/ sweep[i].fault
      BY <1>1, <2>1 DEF AllTaken, Expired, Runs!There, Runs!Kind
    <3>1. CASE Runs!Kind(o) = kind
      BY <1>5, <3>1
    <3>2. CASE Runs!Kind(o) # kind
      BY <1>1, <1>2, <3>2 DEF AllTaken
    <3> QED
      BY <3>1, <3>2
  <2> QED
    BY <2>3, <2>4
<1> QED
  BY <1>3, <1>6, <1>7

\* Before and after it, a janitor knows nothing.
LEMMA IdleSweeps ==
  ASSUME NEW i \in Run, sweep'[i] = Runs!Idle(i) \/ sweep'[i] = [Runs!Idle(i) EXCEPT !.since = now]
  PROVE  /\ AllTaken(i)'
         /\ pc'[i] \notin {"start", "image", "snapshot", "build"} => SweptInOrder(i)'
<1>1. PICK r \in {sweep'[i]} :
        /\ r.kinds = {"container"} \cup (IF i \in Build THEN {"network"} ELSE {})
        /\ r.todo = {} /\ r.tally = 0 /\ ~r.deferred /\ r.bad = FALSE /\ r.fault = FALSE
  BY DEF Runs!Idle
<1>2. AllTaken(i)'
  BY <1>1 DEF AllTaken, Expired, Runs!Kind
<1>3. /\ "network" \in r.kinds <=> i \in Build
      /\ r.todo \cap Net = {} /\ r.bad = r.fault
  BY <1>1
<1>4. pc'[i] \notin {"start", "image", "snapshot", "build"} => SweptInOrder(i)'
  <2>1. sweep'[i] = r
    OBVIOUS
  <2> QED
    BY <1>1, <1>3, <2>1 DEF SweptInOrder
<1> QED
  BY <1>2, <1>4

LEMMA SweepingStep ==
  ASSUME RunTyped, Listed, OldDeadlines, Sweeping, NEW i \in Run, RunMoves(i)
  PROVE  Sweeping'
<1>1. \A o \in Old : o \in Objects /\ o # i
  BY RunAssumption DEF Objects
<1>2. \A o \in Old : obj'[o].deadline = obj[o].deadline /\ (obj'[o].at # "none" => obj[o].at # "none")
  BY <1>1, ObjectStep DEF RunMoves
<1>3. ASSUME NEW j \in Run, sweep'[j] = sweep[j]
      PROVE  AllTaken(j)'
  <2> SUFFICES ASSUME NEW o \in Old, obj'[o].at # "none", obj'[o].deadline + 2 < sweep[j].since,
                      Runs!Kind(o) \notin sweep[j].kinds, o \in Net => j \in Build
               PROVE  o \in sweep[j].todo \/ sweep[j].deferred \/ sweep[j].fault
    BY <1>3 DEF AllTaken, Expired, Runs!There, Runs!Kind
  <2>1. Expired(o, j)
    BY <1>2 DEF Expired, Runs!There
  <2> QED
    BY <2>1 DEF Sweeping, AllTaken
<1>4. ASSUME NEW j \in Run, j # i PROVE SweptInOrder(j)' /\ AllTaken(j)'
  <2>1. sweep'[j] = sweep[j] /\ pc'[j] = pc[j]
    BY <1>4, SweepStep, RunPlacesStep DEF RunMoves
  <2>2. SweptInOrder(j)'
    BY <2>1 DEF Sweeping, SweptInOrder
  <2> QED
    BY <1>3, <2>1, <2>2
<1>5. SweptInOrder(i)' /\ AllTaken(i)'
  <2> USE DEF RunTyped, PlacesTyped, Runs!Goto, Runs!Fail, Runs!Protected, Runs!Exit
  <2>1. CASE RunQuiet(i)
    <3>1. sweep'[i] = sweep[i] /\ SweptInOrder(i)
      BY <2>1, RunQuietKeeps DEF Sweeping
    <3>2. pc'[i] \in {"image", "list", "snapshot", "build"} =>
            \/ pc[i] = "start" /\ pc'[i] = "image"
            \/ /\ sweep[i].todo = {} /\ pc'[i] # "image"
               /\ pc'[i] # "list" => sweep[i].kinds = {} /\ ~sweep[i].bad
      BY <2>1 DEF RunQuiet, Runs!OpenRunDir, Runs!Swept, Runs!StreamEnds, Runs!Inspect,
                  Runs!WriteResults, Runs!EmitLines
    <3>3. pc'[i] # "start"
      BY <2>1 DEF RunQuiet, Runs!OpenRunDir, Runs!Swept, Runs!StreamEnds, Runs!Inspect,
                  Runs!WriteResults, Runs!EmitLines
    <3>4. SweptInOrder(i)'
      BY <3>1, <3>2, <3>3 DEF SweptInOrder
    <3> QED
      BY <1>3, <3>1, <3>4
  <2>2. CASE RunActs(i)
    <3>1. sweep'[i] = sweep[i] /\ SweptInOrder(i)
      BY <2>2, ActingKeeps DEF Sweeping
    <3>2. pc'[i] \notin {"start", "image", "list", "snapshot", "build"} \/ pc'[i] = pc[i]
      BY <2>2 DEF RunActs, Runs!FetchDeps, Runs!Create, Runs!Lands, Runs!StreamStart,
                  Runs!StreamStopped, Runs!ContainerEnds, Runs!Cleanup
    <3>3. SweptInOrder(i)'
      BY <3>1, <3>2 DEF SweptInOrder
    <3> QED
      BY <1>3, <3>1, <3>3
  <2>3. CASE Runs!ResolveImage(i)
    <3>1. sweep[i] = Runs!Idle(i) /\ sweep \in [Run -> SweepLocals]
      BY <2>3 DEF Runs!ResolveImage, Sweeping, SweptInOrder, SweepTyped
    <3>2. pc'[i] \in {"failing", "list"}
      BY <2>3 DEF Runs!ResolveImage
    <3>3. sweep'[i] = sweep[i] \/ sweep'[i] = [sweep[i] EXCEPT !.since = now]
      BY <2>3, <3>1 DEF Runs!ResolveImage
    <3> QED
      BY <3>1, <3>2, <3>3, IdleSweeps
  <2>4. CASE Runs!SupervisedSnapshot(i) \/ Runs!ReportFailure(i) \/ Runs!Crash(i)
    <3>1. sweep'[i] = Runs!Idle(i)
      BY <2>4 DEF Runs!SupervisedSnapshot, Runs!ReportFailure, Runs!Crash, SweepTyped
    <3>2. pc'[i] \in {"failing", "fetch", "done", "dead"}
      BY <2>4 DEF Runs!SupervisedSnapshot, Runs!ReportFailure, Runs!Crash
    <3> QED
      BY <3>1, <3>2, IdleSweeps
  <2> QED
    BY <2>1, <2>2, <2>3, <2>4, ListSweeps, RemoveSweeps DEF RunMoves, Planning
<1> QED
  BY <1>4, <1>5 DEF Sweeping

-----------------------------------------------------------------------------
(* What a run knows, and what it reports *)

\* The steps of others take an object away at most.
LEMMA OthersKnow ==
  ASSUME RunTyped, NEW i \in Run, RunMoves(i), NEW j \in Run, j # i
  PROVE  /\ pc'[j] = pc[j] /\ why'[j] = why[j] /\ note'[j] = note[j] /\ exit'[j] = exit[j]
         /\ obj'[j].at = obj[j].at \/ obj'[j].at = "none"
         /\ j \in late' => j \in late
<1>1. j \in Objects
  BY DEF Objects
<1>2. late' \subseteq late \cup {i}
  BY LateRunStep
<1>3. pc'[j] = pc[j] /\ why'[j] = why[j] /\ note'[j] = note[j] /\ exit'[j] = exit[j]
  BY RunPlacesStep, EndStep DEF RunMoves
<1>4. obj'[j].at = obj[j].at \/ obj'[j].at = "none"
  BY <1>1, ObjectStep DEF RunMoves
<1> QED
  BY <1>2, <1>3, <1>4

\* What is done before there is a container, and after.
LEMMA EarlyActions ==
  ASSUME NEW i \in Run,
         \/ Runs!OpenRunDir(i) \/ Runs!Swept(i) \/ Runs!ResolveImage(i) \/ Runs!ListExpired(i)
         \/ Runs!SupervisedSnapshot(i) \/ Runs!RemoveNext(i) \/ Runs!FetchDeps(i) \/ Runs!Create(i)
  PROVE  pc[i] \in Early
<1>1. pc[i] \in {"start", "remove", "image", "list", "snapshot", "fetch", "create"}
  BY RemoveKeeps DEF Runs!OpenRunDir, Runs!Swept, Runs!ResolveImage, Runs!ListExpired,
     Runs!SupervisedSnapshot, Runs!FetchDeps, Runs!Create
<1> QED
  BY <1>1 DEF Early, Before

LEMMA LateActions ==
  ASSUME NEW i \in Run,
         \/ Runs!StreamEnds(i) \/ Runs!Inspect(i) \/ Runs!WriteResults(i) \/ Runs!EmitLines(i)
         \/ Runs!ReportFailure(i) \/ Runs!StreamStart(i) \/ Runs!StreamStopped(i) \/ Runs!Cleanup(i)
  PROVE  pc[i] \notin Early
<1>1. CASE Runs!StreamEnds(i) \/ Runs!Inspect(i) \/ Runs!WriteResults(i) \/ Runs!EmitLines(i)
  BY <1>1 DEF Runs!StreamEnds, Runs!Inspect, Runs!WriteResults, Runs!EmitLines, Early, Before
<1>2. CASE Runs!StreamStart(i) \/ Runs!StreamStopped(i)
  BY <1>2 DEF Runs!StreamStart, Runs!StreamStopped, Early, Before
<1>3. CASE Runs!ReportFailure(i) \/ Runs!Cleanup(i)
  <2>1. pc[i] \in {"failing", "cleanup"}
    BY Zenon, <1>3 DEF Runs!ReportFailure, Runs!Cleanup
  <2> QED
    BY <2>1 DEF Early, Before
<1> QED
  BY <1>1, <1>2, <1>3

\* A run that has no container yet goes on, or fails with nothing to clean up.
LEMMA EarlyKnows ==
  ASSUME RunTyped, NotYet, Known, NEW i \in Run, RunMoves(i), pc[i] \in Early
  PROVE  KnownOf(i)'
<1>1. /\ why[i] = "none" /\ note[i].manifest = "none" /\ ~note[i].kept /\ ~note[i].said
      /\ obj[i].at = "none" /\ i \notin late
  BY DEF Known, KnownOf, Clear, NotYet, Runs!There
<1>2. obj[i] \in [at : {"none", "made", "runs", "over"}, deadline : 0..(MaxNow + Timeout + 1)]
      /\ note[i] \in Notes /\ i \in Objects
  BY DEF RunTyped, ObjectsTyped, EndTyped, Objects
<1> USE <1>1, <1>2 DEF RunTyped, PlacesTyped, EndTyped, Early, Before, Serving, Clear,
        Runs!Goto, Runs!Fail, Runs!Protected, Runs!Exit, Runs!There
<1>3. CASE Runs!OpenRunDir(i)
  <2>1. obj' = obj /\ late' = late
    BY <1>3 DEF Runs!OpenRunDir
  <2>2. note' = note \/ note' = [note EXCEPT ![i].dir = TRUE]
    BY <1>3 DEF Runs!OpenRunDir
  <2>3. note'[i].manifest = "none" /\ ~note'[i].kept /\ ~note'[i].said
    BY <2>2 DEF Notes
  <2>4. \/ pc' = [pc EXCEPT ![i] = "image"] /\ why' = why
        \/ pc' = [pc EXCEPT ![i] = "failing"] /\ why' = [why EXCEPT ![i] = "refused"]
    BY <1>3 DEF Runs!OpenRunDir
  <2> QED
    BY <2>1, <2>3, <2>4 DEF KnownOf
<1>4. CASE Runs!FetchDeps(i)
  <2>1. late' = late /\ obj'[i].at = "none"
    BY <1>4 DEF Runs!FetchDeps, ObjectsTyped
  <2>2. CASE pc'[i] = "create"
    <3>1. why' = why /\ note' = [note EXCEPT ![i].cleanup = "pending"]
      BY <1>4, <2>2 DEF Runs!FetchDeps
    <3>2. note'[i].manifest = "none" /\ ~note'[i].kept /\ ~note'[i].said
      BY <3>1 DEF Notes
    <3> QED
      BY <2>1, <2>2, <3>1, <3>2 DEF KnownOf
  <2>3. CASE pc'[i] # "create"
    <3>1. /\ pc'[i] = "failing"
          /\ \/ why'[i] = "refused" /\ note' = note
             \/ why'[i] = "infrastructure" /\ \E kept \in BOOLEAN : note' = [note EXCEPT ![i].kept = kept]
      BY <1>4, <2>3 DEF Runs!FetchDeps
    <3>2. note'[i].manifest = "none" /\ ~note'[i].said /\ (note'[i].kept => why'[i] = "infrastructure")
      BY <3>1 DEF Notes
    <3> QED
      BY <2>1, <3>1, <3>2 DEF KnownOf
  <2> QED
    BY <2>2, <2>3
<1>5. CASE Runs!Create(i)
  <2>1. note' = note /\ obj'[i].at \in {"none", "made"}
    BY <1>5 DEF Runs!Create, Runs!Made, ObjectsTyped
  <2>2. \/ pc'[i] = "begin" /\ why' = why /\ late' = late
        \/ pc'[i] = "cleanup" /\ why'[i] = "infrastructure"
    BY <1>5 DEF Runs!Create
  <2> QED
    BY <2>1, <2>2 DEF KnownOf
<1>6. CASE Runs!Crash(i)
  <2>1. pc'[i] = "dead" /\ late' = late
    BY <1>6 DEF Runs!Crash
  <2> QED
    BY <2>1 DEF KnownOf
<1>7. CASE Runs!Swept(i) \/ Runs!ResolveImage(i) \/ Runs!ListExpired(i) \/ Runs!SupervisedSnapshot(i)
  <2>1. obj' = obj /\ late' = late /\ note' = note
    BY <1>7 DEF Runs!Swept, Runs!ResolveImage, Runs!ListExpired, Runs!SupervisedSnapshot
  <2>2. \/ pc'[i] \in Early /\ why'[i] = "none"
        \/ pc'[i] = "failing" /\ why'[i] \in {"refused", "infrastructure"}
    BY <1>7 DEF Runs!Swept, Runs!ResolveImage, Runs!ListExpired, Runs!SupervisedSnapshot
  <2> QED
    BY <2>1, <2>2 DEF KnownOf
<1>8. CASE Runs!RemoveNext(i)
  <2>1. pc' = pc /\ why' = why /\ note' = note /\ late' = late
    BY <1>8, RemoveKeeps
  <2> QED
    BY <2>1 DEF KnownOf
<1>9. CASE Runs!Lands(i) \/ Runs!ContainerEnds(i)
  BY <1>9 DEF Runs!Lands, Runs!ContainerEnds
<1> QED
  <2> HIDE DEF RunTyped, PlacesTyped, EndTyped, Early
  <2> QED
    BY <1>3, <1>4, <1>5, <1>6, <1>7, <1>8, <1>9, LateActions DEF RunMoves, RunQuiet, Planning, RunActs

\* A run that had a container, up to its cleanup and after it.
LEMMA LateKnows ==
  ASSUME RunTyped, Known, NEW i \in Run, RunMoves(i), pc[i] \notin Early
  PROVE  KnownOf(i)'
<1>1. KnownOf(i)
  BY DEF Known
<1>2. obj[i] \in [at : {"none", "made", "runs", "over"}, deadline : 0..(MaxNow + Timeout + 1)]
      /\ note[i] \in Notes /\ i \in Objects
  BY DEF RunTyped, ObjectsTyped, EndTyped, Objects
<1> USE <1>2 DEF RunTyped, PlacesTyped, EndTyped, RunPlaces, Early, Before, Serving, Clear,
        Runs!Goto, Runs!Fail, Runs!Protected, Runs!Exit, Runs!There
<1>3. CASE Runs!StreamStart(i)
  <2>1. /\ late' = late /\ note'[i].manifest = note[i].manifest /\ note'[i].kept = note[i].kept
        /\ note'[i].said = note[i].said
    <3>1. late' = late /\ (note' = note \/ note' = [note EXCEPT ![i].stream = "cut"])
      BY <1>3 DEF Runs!StreamStart
    <3> QED
      BY <3>1 DEF Notes
  <2>2. \/ pc'[i] \in {"stream", "inspect"} /\ why' = why
        \/ pc'[i] = "cleanup" /\ why'[i] = "infrastructure"
    BY <1>3 DEF Runs!StreamStart
  <2> QED
    BY <1>1, <1>3, <2>1, <2>2 DEF KnownOf, Runs!StreamStart
<1>4. CASE Runs!StreamEnds(i)
  <2> DEFINE s == IF obj[i].at = "over" THEN "whole" ELSE "cut"
  <2>1. late' = late /\ note' = [note EXCEPT ![i].stream = s] /\ why' = why /\ pc'[i] = "inspect"
    BY <1>4 DEF Runs!StreamEnds
  <2> HIDE DEF s
  <2>2. /\ note'[i].manifest = note[i].manifest /\ note'[i].kept = note[i].kept
        /\ note'[i].said = note[i].said
    BY <2>1 DEF Notes
  <2> QED
    BY <1>1, <1>4, <2>1, <2>2 DEF KnownOf, Runs!StreamEnds
<1>5. CASE Runs!StreamStopped(i) \/ Runs!Inspect(i)
  <2>1. late' = late /\ note' = note /\ pc'[i] = "cleanup"
    BY <1>5 DEF Runs!StreamStopped, Runs!Inspect
  <2>2. why'[i] = "infrastructure" \/ (why'[i] = "none" /\ why[i] = "none" /\ note[i].stream = "whole")
    BY <1>1, <1>5 DEF KnownOf, Runs!StreamStopped, Runs!Inspect
  <2> QED
    BY <1>1, <1>5, <2>1, <2>2 DEF KnownOf, Runs!StreamStopped, Runs!Inspect
<1>6. CASE Runs!Cleanup(i)
  <2>1. PICK gone, fault \in BOOLEAN :
          /\ Runs!RemoveObject(i, gone, fault)
          /\ note' = [note EXCEPT ![i].cleanup = IF gone THEN "confirmed" ELSE "UNCONFIRMED"]
          /\ why' = [why EXCEPT ![i] = IF gone THEN @ ELSE "infrastructure"]
          /\ pc' = [pc EXCEPT ![i] = IF gone /\ why[i] = "none" THEN "results" ELSE "failing"]
    BY <1>6 DEF Runs!Cleanup
  <2>6. Runs!RemoveObject(i, gone, fault) /\ RunTyped
    BY <2>1
  <2>2. gone => obj'[i].at = "none"
    <3> HIDE DEF RunTyped
    <3> QED
      BY <2>6, RemovalEffect
  <2>3. /\ note'[i].manifest = note[i].manifest /\ note'[i].kept = note[i].kept
        /\ note'[i].said = note[i].said /\ note'[i].stream = note[i].stream
        /\ ~gone => note'[i].cleanup = "UNCONFIRMED"
    BY <2>1 DEF Notes
  <2>4. late' = late /\ pc[i] = "cleanup"
    BY <1>6 DEF Runs!Cleanup
  <2>5. /\ why'[i] = IF gone THEN why[i] ELSE "infrastructure"
        /\ pc'[i] = IF gone /\ why[i] = "none" THEN "results" ELSE "failing"
    BY <2>1
  <2> QED
    BY <1>1, <2>2, <2>3, <2>4, <2>5 DEF KnownOf
<1>7. CASE Runs!WriteResults(i)
  <2>1. late' = late /\ obj' = obj /\ pc[i] = "results"
    BY <1>7 DEF Runs!WriteResults
  <2>2. \/ pc'[i] = "failing" /\ why'[i] \in {"refused", "infrastructure"} /\ note' = note
        \/ pc'[i] = "emit" /\ why' = why /\ note' = [note EXCEPT ![i].manifest = "ok"]
    BY <1>7 DEF Runs!WriteResults
  <2>3. CASE pc'[i] = "failing" /\ why'[i] \in {"refused", "infrastructure"} /\ note' = note
    BY <1>1, <2>1, <2>3 DEF KnownOf
  <2>4. CASE pc'[i] = "emit" /\ why' = why /\ note' = [note EXCEPT ![i].manifest = "ok"]
    <3>1. /\ note'[i].manifest = "ok" /\ note'[i].stream = note[i].stream
          /\ note'[i].kept = note[i].kept
      BY <2>4 DEF Notes
    <3> QED
      BY <1>1, <2>1, <2>4, <3>1 DEF KnownOf
  <2> QED
    BY <2>2, <2>3, <2>4
<1>8. CASE Runs!EmitLines(i) \/ Runs!ReportFailure(i) \/ Runs!Crash(i)
  <2>1. late' = late
    BY <1>8 DEF Runs!EmitLines, Runs!ReportFailure, Runs!Crash
  <2>2. CASE Runs!EmitLines(i)
    <3>1. pc[i] = "emit" /\ pc' = [pc EXCEPT ![i] = "done"] /\ why' = why
      BY <2>2 DEF Runs!EmitLines
    <3> QED
      BY <1>1, <2>1, <3>1 DEF KnownOf
  <2>3. CASE Runs!ReportFailure(i)
    <3>1. /\ pc[i] = "failing" /\ pc' = [pc EXCEPT ![i] = "done"] /\ why' = why
          /\ exit' = [exit EXCEPT ![i] = IF why[i] = "refused" THEN 2 ELSE 5]
      BY <2>3 DEF Runs!ReportFailure
    <3>2. exit'[i] # 0
      BY <3>1
    <3> QED
      BY <1>1, <2>1, <3>1, <3>2 DEF KnownOf
  <2>4. CASE Runs!Crash(i)
    <3>1. pc' = [pc EXCEPT ![i] = "dead"]
      BY <2>4 DEF Runs!Crash
    <3> QED
      BY <3>1 DEF KnownOf
  <2> QED
    BY <1>8, <2>2, <2>3, <2>4
<1>9. CASE Runs!Lands(i) \/ Runs!ContainerEnds(i)
  <2>1. pc' = pc /\ why' = why /\ note' = note /\ exit' = exit /\ late' \subseteq late
    BY <1>9 DEF Runs!Lands, Runs!ContainerEnds
  <2>2. CASE Runs!Lands(i)
    <3>1. obj'[i].at = "made" /\ i \in late /\ i \notin late'
      BY <2>2 DEF Runs!Lands, Runs!Made, ObjectsTyped
    <3> QED
      BY <1>1, <2>1, <3>1 DEF KnownOf
  <2>3. CASE Runs!ContainerEnds(i)
    <3>1. obj'[i].at = "over" /\ obj[i].at = "runs"
      BY <2>3 DEF Runs!ContainerEnds, ObjectsTyped
    <3> QED
      BY <1>1, <2>1, <3>1 DEF KnownOf
  <2> QED
    BY <1>9, <2>2, <2>3
<1> QED
  <2> HIDE DEF RunTyped, PlacesTyped, EndTyped, Early
  <2> QED
    BY <1>3, <1>4, <1>5, <1>6, <1>7, <1>8, <1>9, EarlyActions DEF RunMoves, RunQuiet, Planning, RunActs

LEMMA KnownStep == ASSUME RunTyped, NotYet, Known, NEW i \in Run, RunMoves(i) PROVE Known'
<1>1. KnownOf(i)'
  BY EarlyKnows, LateKnows
<1>2. ASSUME NEW j \in Run, j # i PROVE KnownOf(j)'
  <2>1. KnownOf(j)
    BY DEF Known
  <2>2. /\ pc'[j] = pc[j] /\ why'[j] = why[j] /\ note'[j] = note[j] /\ exit'[j] = exit[j]
        /\ obj'[j].at = obj[j].at \/ obj'[j].at = "none"
        /\ j \in late' => j \in late
    BY <1>2, OthersKnow
  <2> QED
    BY <2>1, <2>2 DEF KnownOf, Clear, Runs!There
<1> QED
  BY <1>1, <1>2 DEF Known

\* What a run reports stays so.
LEMMA TellsStep ==
  ASSUME RunTyped, Known, Runs!OutcomeTells, NEW i \in Run, RunMoves(i)
  PROVE  Runs!OutcomeTells'
<1> DEFINE Told(j) == pc[j] = "done" =>
             /\ exit[j] = 0 => /\ note[j].manifest = "ok" /\ note[j].said /\ note[j].stream = "whole"
                               /\ ~Runs!There(j) /\ ~note[j].kept
             /\ obj[j].at \in {"runs", "over"} => note[j].cleanup = "UNCONFIRMED" /\ exit[j] = 5
             /\ note[j].kept => exit[j] = 5 /\ note[j].manifest \in {"none", "infrastructure"}
             /\ note[j].manifest = "ok" => exit[j] = 0 \/ ~note[j].said
<1>1. ASSUME NEW j \in Run, j # i PROVE Told(j)'
  <2>1. Told(j)
    BY DEF Runs!OutcomeTells
  <2>2. /\ pc'[j] = pc[j] /\ note'[j] = note[j] /\ exit'[j] = exit[j]
        /\ obj'[j].at = obj[j].at \/ obj'[j].at = "none"
    BY <1>1, OthersKnow
  <2> QED
    BY <2>1, <2>2 DEF Runs!There
<1>2. Told(i)'
  <2>1. Told(i) /\ KnownOf(i)
    BY DEF Runs!OutcomeTells, Known
  <2>2. obj[i] \in [at : {"none", "made", "runs", "over"}, deadline : 0..(MaxNow + Timeout + 1)]
        /\ note[i] \in Notes /\ note \in [Run -> Notes] /\ i \in Objects
    BY DEF RunTyped, ObjectsTyped, EndTyped, Objects
  <2>3. CASE Runs!EmitLines(i)
    <3>1. PICK said \in BOOLEAN :
            note' = [note EXCEPT ![i].said = said] /\ exit' = [exit EXCEPT ![i] = IF said THEN 0 ELSE 5]
      BY <2>3 DEF Runs!EmitLines, Runs!Exit
    <3>2. /\ note'[i].manifest = note[i].manifest /\ note'[i].kept = note[i].kept
          /\ note'[i].stream = note[i].stream /\ note'[i].said = said
      BY <2>2, <3>1 DEF Notes
    <3>3. exit'[i] = IF said THEN 0 ELSE 5
      BY <3>1 DEF RunTyped, EndTyped
    <3>4. pc[i] = "emit" /\ obj' = obj
      BY <2>3 DEF Runs!EmitLines
    <3>5. note[i].manifest = "ok" /\ note[i].stream = "whole" /\ ~note[i].kept /\ obj'[i].at = "none"
      BY <2>1, <3>4 DEF KnownOf, Runs!There
    <3> QED
      BY <3>2, <3>3, <3>5 DEF Runs!There
  <2>4. CASE Runs!ReportFailure(i)
    <3>1. PICK r \in Notes :
             /\ note' = [note EXCEPT ![i] = r]
             /\ r.cleanup = note[i].cleanup /\ r.kept = note[i].kept
             /\ r.manifest \in {why[i], note[i].manifest}
      BY <2>4, ReportEffect
    <3>2. note'[i] = r /\ why[i] \in {"none", "refused", "infrastructure"}
      BY <2>2, <3>1 DEF RunTyped, EndTyped
    <3>3. pc[i] = "failing" /\ obj' = obj /\ exit' = [exit EXCEPT ![i] = IF why[i] = "refused" THEN 2 ELSE 5]
      BY <2>4 DEF Runs!ReportFailure, Runs!Exit
    <3>4. exit'[i] = IF why[i] = "refused" THEN 2 ELSE 5
      BY <3>3 DEF RunTyped, EndTyped
    <3> QED
      BY <2>1, <3>1, <3>2, <3>3, <3>4 DEF KnownOf
  <2>5. CASE Runs!Lands(i) \/ Runs!ContainerEnds(i)
    <3>1. pc' = pc /\ note' = note /\ exit' = exit
      BY <2>5 DEF Runs!Lands, Runs!ContainerEnds
    <3>2. \/ i \in late /\ obj'[i].at = "made"
          \/ obj[i].at = "runs" /\ obj'[i].at = "over"
      BY <2>2, <2>5 DEF Runs!Lands, Runs!ContainerEnds, Runs!Made, RunTyped, ObjectsTyped
    <3> QED
      BY <2>1, <3>1, <3>2 DEF KnownOf, Runs!There
  <2>6. CASE pc'[i] # "done"
    BY <2>6
  <2> QED
    <3> USE DEF RunTyped, PlacesTyped, Runs!Goto, Runs!Fail, Runs!Protected
    <3>1. CASE Runs!OpenRunDir(i) \/ Runs!Swept(i) \/ Runs!StreamEnds(i)
      BY <2>6, <3>1 DEF Runs!OpenRunDir, Runs!Swept, Runs!StreamEnds
    <3>2. CASE Runs!Inspect(i) \/ Runs!WriteResults(i)
      BY <2>6, <3>2 DEF Runs!Inspect, Runs!WriteResults
    <3>3. CASE Runs!ResolveImage(i) \/ Runs!ListExpired(i) \/ Runs!SupervisedSnapshot(i) \/ Runs!Crash(i)
      BY <2>6, <3>3 DEF Runs!ResolveImage, Runs!ListExpired, Runs!SupervisedSnapshot, Runs!Crash
    <3>5. CASE Runs!RemoveNext(i)
      BY <2>6, <3>5, RemoveKeeps
    <3>4. CASE Runs!FetchDeps(i) \/ Runs!Create(i) \/ Runs!StreamStart(i)
                \/ Runs!StreamStopped(i) \/ Runs!Cleanup(i)
      BY <2>6, <3>4 DEF Runs!FetchDeps, Runs!Create, Runs!StreamStart,
                Runs!StreamStopped, Runs!Cleanup
    <3> QED
      BY <2>3, <2>4, <2>5, <3>1, <3>2, <3>3, <3>4, <3>5 DEF RunMoves, RunQuiet, Planning, RunActs
<1> QED
  BY <1>1, <1>2 DEF Runs!OutcomeTells

-----------------------------------------------------------------------------
(* A run: all steps *)

\* Nothing but the clock.
LEMMA StillHolds ==
  ASSUME RunInv, UNCHANGED <<pc, due, obj, late, sweep, why, note, exit>>,
         now' \in 0..MaxNow, now <= now', \A i \in Run : pc[i] \in Runs!Timed => now' <= due[i]
  PROVE  RunInv'
<1>1. RunTyped'
  BY DEF RunInv, RunTyped, ObjectsTyped, PlacesTyped, SweepTyped, EndTyped
<1>2. InTime' /\ NotYet' /\ OldDeadlines'
  BY DEF RunInv, InTime, NotYet, OldDeadlines, Runs!There
<1>3. Listed'
  <2>1. now \in Nat /\ now' \in Nat /\ \A j \in Run : sweep[j].since \in Nat
    BY RunAssumption DEF RunInv, RunTyped, ObjectsTyped, SweepTyped, SweepLocals
  <2> QED
    BY <2>1 DEF RunInv, Listed
<1>4. Sweeping'
  BY DEF RunInv, Sweeping, SweptInOrder, AllTaken, Expired, Runs!There, Runs!Kind
<1>5. Known' /\ Runs!JanitorSpares' /\ Runs!OutcomeTells'
  BY DEF RunInv, Known, KnownOf, Clear, Runs!There, Runs!JanitorSpares, Runs!OutcomeTells
<1> QED
  BY <1>1, <1>2, <1>3, <1>4, <1>5 DEF RunInv

LEMMA RunStep == RunInv /\ Runs!Next => RunInv'
<1> SUFFICES ASSUME RunInv, Runs!Next PROVE RunInv'
  OBVIOUS
<1>1. CASE Runs!Tick
  <2>1. /\ UNCHANGED <<pc, due, obj, late, sweep, why, note, exit>>
        /\ now < MaxNow /\ now' = now + 1
        /\ \A i \in Run : pc[i] \in Runs!Timed => now < due[i]
    BY <1>1 DEF Runs!Tick
  <2>2. now \in Nat /\ \A i \in Run : due[i] \in Nat
    BY RunAssumption DEF RunInv, RunTyped, ObjectsTyped, PlacesTyped
  <2>3. now' \in 0..MaxNow /\ now <= now' /\ \A i \in Run : pc[i] \in Runs!Timed => now' <= due[i]
    BY <2>1, <2>2, RunAssumption
  <2> QED
    BY <2>1, <2>3, StillHolds
<1>2. ASSUME NEW i \in Run, RunMoves(i) PROVE RunInv'
  <2>1. RunTyped' /\ InTime' /\ NotYet'
    BY <1>2, RunTypedStep, InTimeStep, NotYetStep DEF RunInv, RunMoves
  <2>2. Listed' /\ OldDeadlines' /\ Sweeping'
    BY <1>2, ListedStep, OldStep, SweepingStep DEF RunInv
  <2>3. Known' /\ Runs!JanitorSpares' /\ Runs!OutcomeTells'
    BY <1>2, KnownStep, SparesStep, TellsStep DEF RunInv
  <2> QED
    BY <2>1, <2>2, <2>3 DEF RunInv
<1> QED
  BY <1>1, <1>2, RunStepKinds DEF RunMoves

LEMMA RunStart == Runs!Init => RunInv
<1> SUFFICES ASSUME Runs!Init PROVE RunInv
  OBVIOUS
<1>1. /\ now = 0 /\ late = {}
      /\ \A i \in Run : /\ pc[i] = "start" /\ due[i] = 0 /\ sweep[i] = Runs!Idle(i)
                        /\ why[i] = "none" /\ note[i] = Runs!Nothing /\ exit[i] = -1
                        /\ obj[i].at = "none"
      /\ \A o \in Old : obj[o].deadline = 1
  BY RunAssumption DEF Runs!Init
<1>2. ObjectsTyped
  BY RunAssumption DEF ObjectsTyped, Objects, Runs!Init
<1>3. PlacesTyped
  BY DEF PlacesTyped, RunPlaces, Early, Before, Runs!Init
<1>4. SweepTyped
  BY RunAssumption DEF SweepTyped, SweepLocals, Runs!Idle, Runs!Init
<1>5. EndTyped
  <2>1. Runs!Nothing \in Notes
    BY DEF Runs!Nothing, Notes
  <2> QED
    BY <2>1 DEF EndTyped, Runs!Init
<1>6. InTime /\ NotYet /\ OldDeadlines
  BY <1>1 DEF InTime, NotYet, OldDeadlines, Runs!There, Runs!Timed
<1>7. Listed /\ Sweeping
  <2>1. ASSUME NEW i \in Run PROVE SweptInOrder(i) /\ AllTaken(i) /\ sweep[i].since = 0 /\ sweep[i].todo = {}
    <3>1. PICK r \in {Runs!Idle(i)} :
            /\ r.kinds = {"container"} \cup (IF i \in Build THEN {"network"} ELSE {})
            /\ r.since = 0 /\ r.todo = {} /\ r.tally = 0
            /\ ~r.deferred /\ r.bad = FALSE /\ r.fault = FALSE
      BY DEF Runs!Idle
    <3>2. /\ "network" \in r.kinds <=> i \in Build
          /\ r.todo \cap Net = {} /\ r.bad = r.fault
      BY <3>1
    <3>3. sweep[i] = r /\ pc[i] = "start" /\ r = Runs!Idle(i)
      BY <1>1
    <3>4. SweptInOrder(i)
      BY <3>1, <3>2, <3>3 DEF SweptInOrder
    <3>5. AllTaken(i)
      BY <3>1, <3>3 DEF AllTaken, Expired, Runs!Kind
    <3> QED
      BY <3>1, <3>3, <3>4, <3>5
  <2> QED
    BY <1>1, <2>1 DEF Listed, Sweeping
<1>8. Known /\ Runs!JanitorSpares /\ Runs!OutcomeTells
  BY <1>1 DEF Known, KnownOf, Clear, Runs!Nothing, Runs!JanitorSpares, Runs!OutcomeTells, Early, Before
<1> QED
  BY <1>2, <1>3, <1>4, <1>5, <1>6, <1>7, <1>8 DEF RunInv, RunTyped

LEMMA RunIsTyped == RunInv => Runs!TypeOK
<1> SUFFICES ASSUME RunInv PROVE Runs!TypeOK
  OBVIOUS
<1>1. sweep \in [Run -> SweepLocals] /\ ObjectsTyped /\ EndTyped
  BY DEF RunInv, RunTyped, SweepTyped
<1> QED
  BY <1>1 DEF SweepLocals, Objects, ObjectsTyped, EndTyped, Runs!TypeOK, Runs!Margin

\* After a sweep that did not stop at its cap nothing is left to be found.
LEMMA Thorough == RunInv => Runs!SweepIsThorough
<1> SUFFICES ASSUME RunInv, NEW i \in Run
             PROVE  /\ sweep[i].bad => sweep[i].fault
                    /\ pc[i] \in {"snapshot", "build"} /\ ~sweep[i].deferred =>
                         \A o \in Old : Expired(o, i) => o \in Net /\ i \notin Build
  BY DEF Runs!SweepIsThorough, Expired, Runs!Grace
<1>1. SweptInOrder(i) /\ AllTaken(i)
  BY DEF RunInv, Sweeping
<1> QED
  BY <1>1 DEF SweptInOrder, AllTaken

-----------------------------------------------------------------------------
(* The invariant of a download *)

Steps  == {"prepare", "popen", "close", "wait", "read", "verify", "tar", "remove"}
JobPlaces == Steps \cup {"kill", "killed", "record", "cleanup", "done"}
Exceptions == {"none", "refused", "infrastructure", "interrupt", "unconfirmed"}
Fits(w) == w.pinned /\ w.size <= MaxFile

JobTyped ==
  /\ pc \in JobPlaces /\ exc \in Exceptions
  /\ worker \in {"none", "alive", "dead"} /\ dir \in {"there", "gone", "retained"}
  /\ record \in BOOLEAN /\ reaped \in BOOLEAN
  /\ fields \in {"none", "quarantine", "retained"}

\* Where the worker may be at work.
WorkerKnown ==
  /\ pc \in {"prepare", "popen"} => worker = "none" /\ ~reaped
  /\ pc \in {"close", "wait", "kill", "record"} => worker # "none" /\ ~reaped
  /\ pc \in {"read", "verify", "tar", "remove", "killed"} => worker # "alive"
  /\ worker = "alive" =>
       pc \in {"close", "wait", "kill", "record"} \/ (pc \in {"cleanup", "done"} /\ exc = "unconfirmed")

\* What the directory and the record say.
DirectoryKnown ==
  /\ dir # "there" => pc = "done"
  /\ pc \in Steps => exc = "none"
  /\ pc \in {"kill", "killed", "record", "cleanup"} => exc # "none"
  /\ exc = "unconfirmed" => pc \in {"cleanup", "done"} /\ (pc = "done" => fields = "quarantine")
  /\ dir = "gone" => worker # "alive"
  /\ record => exc = "unconfirmed"
  /\ pc = "done" /\ dir # "gone" /\ exc # "interrupt" => fields # "none"

\* The tar holds the first wheels, as they were verified.
TarKnown ==
  /\ pc \in {"tar", "remove"} \/ (pc = "done" /\ exc = "none") =>
       /\ IsFiniteSet(tar) /\ Cardinality(tar) \in 0..N
       /\ tar = {<<r, checked[r]>> : r \in 1..Cardinality(tar)}
       /\ \A r \in 1..N : Fits(checked[r])
  /\ pc \in Steps \ {"tar", "remove"} => tar = {}
  /\ pc = "remove" \/ (pc = "done" /\ exc = "none") => Cardinality(tar) = N
  /\ pc = "done" /\ exc = "none" => dir = "gone"

\* What a worker may still load.
UsedKnown == used \in Nat /\ used <= MaxTotal

\* Where the worker is among its requirements, and what it may have left; a kill is
\* entered once, and each attempt in it is counted.
LoadKnown ==
  /\ k \in 1..(N + 1) /\ (wpc = "load" => k <= N)
  /\ file \in [1..N -> Fetch!Wheels \cup {Fetch!NoFile}]
AttemptsKnown ==
  tries \in 0..Attempts /\ (pc \in Steps => tries = 0) /\ (pc = "kill" => tries < Attempts)

JobInv ==
  /\ JobTyped /\ WorkerKnown /\ DirectoryKnown /\ TarKnown /\ UsedKnown
  /\ LoadKnown /\ AttemptsKnown

-----------------------------------------------------------------------------
(* The steps of a download *)

\* The instance counts as FiniteSets does.
LEMMA JobCounts == ASSUME NEW S PROVE Fetch!Cardinality(S) = Cardinality(S)
  BY Zenon DEF Cardinality, Fetch!Cardinality

LEMMA JobStart == Fetch!Init => JobInv
<1> SUFFICES ASSUME Fetch!Init PROVE JobInv
  OBVIOUS
<1>1. JobTyped /\ WorkerKnown /\ DirectoryKnown
  BY DEF Fetch!Init, JobTyped, JobPlaces, Steps, Exceptions, WorkerKnown, DirectoryKnown
<1>2. TarKnown /\ UsedKnown
  BY FetchAssumption DEF Fetch!Init, TarKnown, UsedKnown, Steps
<1>3. LoadKnown /\ AttemptsKnown
  BY FetchAssumption DEF Fetch!Init, Fetch!Req, LoadKnown, AttemptsKnown
<1> QED
  BY <1>1, <1>2, <1>3 DEF JobInv

\* Who may be at work, and what the directory says of it.
ControlKnown == JobTyped /\ WorkerKnown /\ DirectoryKnown

LEMMA ControlStep == ControlKnown /\ Fetch!Next => ControlKnown'
<1> SUFFICES ASSUME ControlKnown, Fetch!Next PROVE ControlKnown'
  OBVIOUS
<1> USE DEF ControlKnown, JobTyped, JobPlaces, Steps, Exceptions, WorkerKnown, DirectoryKnown
<1> USE DEF Fetch!Goto, Fetch!Raise, Fetch!RaiseWithWorker, Fetch!worked, Fetch!parent
<1>1. CASE Fetch!Worker
  <2>1. /\ UNCHANGED <<pc, exc, reaped, dir, record, fields>>
        /\ worker = "alive" /\ worker' \in {"alive", "dead"}
    BY <1>1 DEF Fetch!Worker, Fetch!WorkerExits
  <2> QED
    BY <2>1
<1>2. CASE Fetch!Edit
  BY <1>2 DEF Fetch!Edit
<1>3. CASE Fetch!Prepare \/ Fetch!Popen
  BY <1>3 DEF Fetch!Prepare, Fetch!Popen
<1>4. CASE Fetch!CloseBoth
  BY <1>4 DEF Fetch!CloseBoth
<1>12. CASE Fetch!WaitDeadline
  <2>1. /\ UNCHANGED <<worker, dir, record, fields>> /\ pc = "wait"
        /\ \/ worker = "dead" /\ reaped' = TRUE /\ pc' = "read" /\ exc' = exc
           \/ worker = "dead" /\ reaped' = TRUE /\ pc' = "cleanup" /\ exc' = "infrastructure"
           \/ reaped' = reaped /\ pc' = "kill" /\ exc' = "infrastructure"
    BY <1>12 DEF Fetch!WaitDeadline
  <2>2. JobTyped'
    BY <2>1
  <2>3. WorkerKnown'
    BY <2>1
  <2>4. DirectoryKnown'
    BY <2>1
  <2> QED
    BY <2>2, <2>3, <2>4
<1>5. CASE Fetch!ReadResult \/ Fetch!Killed
  BY <1>5 DEF Fetch!ReadResult, Fetch!Killed
<1>6. CASE Fetch!Quarantine
  BY <1>6 DEF Fetch!Quarantine
<1>7. CASE Fetch!Verify
  <2>1. /\ UNCHANGED <<worker, reaped, dir, record, fields>> /\ pc = "verify"
        /\ \/ pc' = "tar" /\ exc' = exc
           \/ pc' = "cleanup" /\ exc' \in {"refused", "infrastructure"}
    BY <1>7 DEF Fetch!Verify
  <2> QED
    BY <2>1
<1>8. CASE Fetch!AddToTar
  <2>1. /\ UNCHANGED <<worker, reaped, dir, record, fields>> /\ pc = "tar"
        /\ \/ pc' \in {"tar", "remove"} /\ exc' = exc
           \/ pc' = "cleanup" /\ exc' = "infrastructure"
    BY <1>8 DEF Fetch!AddToTar
  <2> QED
    BY <2>1
<1>9. CASE Fetch!CleanUp
  <2>1. /\ UNCHANGED <<worker, reaped, record>> /\ pc \in {"cleanup", "remove"} /\ pc' = "done"
        /\ \/ exc = "unconfirmed" /\ fields' = "quarantine" /\ UNCHANGED <<dir, exc>>
           \/ exc # "unconfirmed" /\ dir' = "gone" /\ UNCHANGED <<fields, exc>>
           \/ /\ exc # "unconfirmed" /\ dir' = "retained" /\ fields' = "retained"
              /\ exc' = exc \/ exc' = "infrastructure"
    BY <1>9 DEF Fetch!CleanUp
  <2>2. worker = "alive" => exc = "unconfirmed"
    BY <2>1
  <2> QED
    BY <2>1, <2>2
<1>10. CASE Fetch!Confirm
  <2>1. /\ UNCHANGED <<exc, dir, record, fields>> /\ pc = "kill"
        /\ \/ worker' = "dead" /\ reaped' = TRUE /\ pc' = "killed"
           \/ worker' \in {worker, "dead"} /\ reaped' = reaped /\ pc' \in {"kill", "record"}
    BY <1>10 DEF Fetch!Confirm
  <2>2. JobTyped'
    BY <2>1
  <2>3. WorkerKnown'
    BY <2>1
  <2>4. DirectoryKnown'
    BY <2>1
  <2> QED
    BY <2>2, <2>3, <2>4
<1>11. CASE Fetch!Interrupt
  BY <1>11 DEF Fetch!Interrupt
<1> QED
  BY <1>1, <1>2, <1>3, <1>4, <1>5, <1>6, <1>7, <1>8, <1>9, <1>10, <1>11, <1>12
     DEF Fetch!Next, Fetch!Parent

\* The n-th entry of the tar is the n-th wheel.
LEMMA AddStep ==
  ASSUME ControlKnown, TarKnown, Fetch!AddToTar
  PROVE  TarKnown'
<1> DEFINE n == Cardinality(tar)
<1>1. /\ pc = "tar" /\ exc = "none" /\ IsFiniteSet(tar) /\ n \in 0..N
      /\ tar = {<<r, checked[r]>> : r \in 1..n}
      /\ \A r \in 1..N : Fits(checked[r])
      /\ checked' = checked
  BY DEF Fetch!AddToTar, TarKnown, ControlKnown, DirectoryKnown, Steps
<1>2. CASE pc' = "remove" /\ tar' = tar /\ exc' = exc /\ n + 1 > N
  <2> HIDE DEF n
  <2>1. n = N
    BY <1>1, <1>2, FetchAssumption
  <2> QED
    BY <1>1, <1>2, <2>1 DEF TarKnown, Fits, Steps, n
<1>3. CASE /\ pc' = pc /\ exc' = exc /\ n + 1 <= N /\ file[n + 1] = checked[n + 1]
           /\ tar' = tar \cup {<<n + 1, file[n + 1]>>}
  <2>1. \A t \in tar : t[1] \in 1..n
    BY <1>1
  <2>2. <<n + 1, file[n + 1]>> \notin tar
    <3> HIDE DEF n
    <3>1. n + 1 \notin 1..n
      BY <1>1
    <3> QED
      BY <2>1, <3>1
  <2>3. IsFiniteSet(tar') /\ Cardinality(tar') = n + 1
    <3> DEFINE t == <<n + 1, file[n + 1]>>
    <3>1. tar' = tar \cup {t} /\ t \notin tar
      BY <1>3, <2>2
    <3> HIDE DEF t
    <3> QED
      BY <1>1, <3>1, FS_AddElement
  <2> HIDE DEF n
  <2>4. tar' = {<<r, checked[r]>> : r \in 1..(n + 1)}
    <3>1. 1..(n + 1) = 1..n \cup {n + 1}
      BY <1>1
    <3> QED
      BY <1>1, <1>3, <3>1
  <2>5. n + 1 \in 0..N
    BY <1>1, <1>3, FetchAssumption
  <2> QED
    BY <1>1, <1>3, <2>3, <2>4, <2>5 DEF TarKnown, Fits, Steps
<1>4. CASE pc' = "cleanup" /\ exc' = "infrastructure"
  BY <1>4 DEF TarKnown, Steps
<1>5. \/ pc' = "remove" /\ tar' = tar /\ exc' = exc /\ n + 1 > N
      \/ /\ pc' = pc /\ exc' = exc /\ n + 1 <= N /\ file[n + 1] = checked[n + 1]
         /\ tar' = tar \cup {<<n + 1, file[n + 1]>>}
      \/ pc' = "cleanup" /\ exc' = "infrastructure"
  <2>1. ~(n + 1 > N) => n + 1 <= N
    BY <1>1, FetchAssumption
  <2> QED
    BY <2>1, JobCounts DEF Fetch!AddToTar, Fetch!Goto, Fetch!Raise, Fetch!Reread
<1> QED
  BY <1>2, <1>3, <1>4, <1>5

\* Whatever else happens leaves the tar as it is, and goes on with it only after
\* everything was verified.
LEMMA TarStep == ControlKnown /\ TarKnown /\ Fetch!Next => TarKnown'
<1> SUFFICES ASSUME ControlKnown, TarKnown, Fetch!Next PROVE TarKnown'
  OBVIOUS
<1>1. CASE Fetch!Verify
  <2>1. pc = "verify" /\ tar' = tar /\ tar = {} /\ dir' = dir /\ exc = "none"
    BY <1>1 DEF Fetch!Verify, TarKnown, ControlKnown, DirectoryKnown, Steps
  <2>2. \/ /\ pc' = "tar" /\ exc' = exc /\ checked' = [r \in 1..N |-> file[r]]
           /\ \A r \in 1..N : Fits(file[r])
        \/ pc' = "cleanup" /\ exc' # "none"
    BY <1>1 DEF Fetch!Verify, Fetch!Goto, Fetch!Raise, Fetch!Req, Fits
  <2>3. IsFiniteSet({}) /\ Cardinality({}) = 0
    BY FS_EmptySet
  <2>4. 1..0 = {} /\ 0 \in 0..N
    BY FetchAssumption
  <2>5. CASE /\ pc' = "tar" /\ exc' = exc /\ checked' = [r \in 1..N |-> file[r]]
             /\ \A r \in 1..N : Fits(file[r])
    <3>1. \A r \in 1..N : checked'[r].pinned /\ checked'[r].size <= MaxFile
      BY <2>5 DEF Fits
    <3>2. tar' = {<<r, checked'[r]>> : r \in 1..Cardinality(tar')}
      BY <2>1, <2>3, <2>4
    <3> QED
      BY <2>1, <2>3, <2>4, <2>5, <3>1, <3>2 DEF TarKnown, Fits, Steps
  <2>6. CASE pc' = "cleanup" /\ exc' # "none"
    BY <2>6 DEF TarKnown, Steps
  <2> QED
    BY <2>2, <2>5, <2>6
<1>2. CASE Fetch!AddToTar
  BY <1>2, AddStep
<1>3. CASE Fetch!CleanUp
  <2>1. /\ pc' = "done" /\ UNCHANGED <<tar, checked>>
        /\ pc \in {"remove", "cleanup"} /\ (pc = "cleanup" => exc # "none")
        /\ exc' = "none" => exc = "none" /\ dir' = "gone"
    BY <1>3 DEF Fetch!CleanUp, Fetch!Goto, ControlKnown, DirectoryKnown
  <2> QED
    BY <2>1 DEF TarKnown, Fits, Steps
<1>4. ASSUME UNCHANGED <<pc, exc, dir, tar, checked>> PROVE TarKnown'
  BY <1>4 DEF TarKnown, Fits, Steps
<1>5. CASE Fetch!Worker \/ Fetch!Edit
  BY <1>4, <1>5 DEF Fetch!Worker, Fetch!Edit, Fetch!parent
<1>6. ASSUME \/ Fetch!Prepare \/ Fetch!Popen \/ Fetch!CloseBoth \/ Fetch!WaitDeadline \/ Fetch!ReadResult
             \/ Fetch!Killed \/ Fetch!Quarantine \/ Fetch!Confirm \/ Fetch!Interrupt
      PROVE  TarKnown'
  <2> USE DEF ControlKnown, DirectoryKnown, Steps, Fetch!Goto, Fetch!Raise, Fetch!RaiseWithWorker
  <2>1. /\ UNCHANGED <<tar, checked>>
        /\ pc' \notin {"tar", "remove"} \/ (pc' = pc /\ exc' = exc)
        /\ pc' = "done" => exc' # "none" \/ (pc = "done" /\ exc = "none" /\ dir' = dir)
        /\ pc' \in Steps \ {"tar", "remove"} => pc \in Steps \ {"tar", "remove"}
    <3>1. CASE Fetch!Prepare \/ Fetch!Popen \/ Fetch!CloseBoth
      BY <3>1 DEF Fetch!Prepare, Fetch!Popen, Fetch!CloseBoth
    <3>2. CASE Fetch!WaitDeadline \/ Fetch!ReadResult
      BY <3>2 DEF Fetch!WaitDeadline, Fetch!ReadResult
    <3>3. CASE Fetch!Killed \/ Fetch!Quarantine \/ Fetch!Confirm
      BY <3>3 DEF Fetch!Killed, Fetch!Quarantine, Fetch!Confirm
    <3>4. CASE Fetch!Interrupt
      BY <3>4 DEF Fetch!Interrupt
    <3> QED
      BY <1>6, <3>1, <3>2, <3>3, <3>4
  <2> QED
    BY <2>1 DEF TarKnown, Fits
<1> QED
  BY <1>1, <1>2, <1>3, <1>5, <1>6 DEF Fetch!Next, Fetch!Parent

\* A worker loads what its caps leave it.
LEMMA UsedStep == UsedKnown /\ Fetch!Next => UsedKnown'
<1> SUFFICES ASSUME UsedKnown, Fetch!Next PROVE UsedKnown'
  OBVIOUS
<1>1. CASE Fetch!Download
  <2>1. used' = used \/ \E w \in Fetch!Wheels :
          w.size <= Fetch!SmallerOf(MaxFile, MaxTotal - used) /\ used' = used + w.size
    BY <1>1 DEF Fetch!Download, Fetch!Answer
  <2>2. \A w \in Fetch!Wheels : w.size \in Nat
    BY FetchAssumption DEF Fetch!Wheels
  <2> QED
    BY <2>1, <2>2, FetchAssumption DEF UsedKnown, Fetch!SmallerOf
<1>2. CASE used' = used
  BY <1>2 DEF UsedKnown
<1>3. Fetch!Download \/ used' = used
  BY DEF Fetch!Next, Fetch!Worker, Fetch!Select, Fetch!Answer, Fetch!WorkerExits, Fetch!Edit, Fetch!Parent,
         Fetch!worked, Fetch!Prepare, Fetch!Popen, Fetch!CloseBoth, Fetch!WaitDeadline,
         Fetch!ReadResult, Fetch!Killed, Fetch!Quarantine, Fetch!Verify, Fetch!AddToTar,
         Fetch!CleanUp, Fetch!Confirm, Fetch!Interrupt
<1> QED
  BY <1>1, <1>2, <1>3

\* A wheel is loaded for the requirement that is next.
LEMMA LoadStep == LoadKnown /\ Fetch!Next => LoadKnown'
<1> SUFFICES ASSUME LoadKnown, Fetch!Next PROVE LoadKnown'
  OBVIOUS
<1>1. CASE Fetch!Select
  BY <1>1, FetchAssumption DEF Fetch!Select, Fetch!Answer, LoadKnown
<1>2. CASE Fetch!Download
  BY <1>2, FetchAssumption DEF Fetch!Download, Fetch!Answer, LoadKnown
<1>3. CASE Fetch!Edit
  BY <1>3 DEF Fetch!Edit, Fetch!Req, LoadKnown
<1>4. CASE UNCHANGED <<k, wpc, file>>
  BY <1>4 DEF LoadKnown
<1>5. Fetch!Select \/ Fetch!Download \/ Fetch!Edit \/ UNCHANGED <<k, wpc, file>>
  BY DEF Fetch!Next, Fetch!Worker, Fetch!WorkerExits, Fetch!Parent,
         Fetch!worked, Fetch!Prepare, Fetch!Popen, Fetch!CloseBoth, Fetch!WaitDeadline,
         Fetch!ReadResult, Fetch!Killed, Fetch!Quarantine, Fetch!Verify, Fetch!AddToTar,
         Fetch!CleanUp, Fetch!Confirm, Fetch!Interrupt
<1> QED
  BY <1>1, <1>2, <1>3, <1>4, <1>5

\* Nobody comes back to a kill.
LEMMA AttemptsStep == JobTyped /\ AttemptsKnown /\ Fetch!Next => AttemptsKnown'
<1> SUFFICES ASSUME JobTyped, AttemptsKnown, Fetch!Next PROVE AttemptsKnown'
  OBVIOUS
<1>1. CASE Fetch!Confirm
  <2>1. /\ pc = "kill" /\ pc' \in {"kill", "killed", "record"}
        /\ \/ tries' = tries /\ pc' # "kill"
           \/ tries' = tries + 1 /\ pc' = IF tries + 1 < Attempts THEN "kill" ELSE "record"
    BY <1>1 DEF Fetch!Confirm, Fetch!Goto
  <2> QED
    BY <2>1, FetchAssumption DEF AttemptsKnown, Steps
<1>2. ASSUME tries' = tries, pc' \in Steps \cup {"kill"} => pc' = pc \/ pc \in Steps PROVE AttemptsKnown'
  BY <1>2, FetchAssumption DEF AttemptsKnown, Steps
<1>3. Fetch!Confirm \/ (tries' = tries /\ (pc' \in Steps \cup {"kill"} => pc' = pc \/ pc \in Steps))
  <2> USE DEF Fetch!Goto, Fetch!Raise, Fetch!RaiseWithWorker, Fetch!parent, Steps
  <2>1. CASE Fetch!Worker \/ Fetch!Edit
    BY <2>1 DEF Fetch!Worker, Fetch!Edit
  <2>2. CASE Fetch!Prepare \/ Fetch!Popen \/ Fetch!CloseBoth
    BY <2>2 DEF Fetch!Prepare, Fetch!Popen, Fetch!CloseBoth
  <2>3. CASE Fetch!WaitDeadline \/ Fetch!ReadResult
    BY <2>3 DEF Fetch!WaitDeadline, Fetch!ReadResult
  <2>4. CASE Fetch!Killed \/ Fetch!Quarantine
    BY <2>4 DEF Fetch!Killed, Fetch!Quarantine
  <2>5. CASE Fetch!Verify \/ Fetch!AddToTar
    BY <2>5 DEF Fetch!Verify, Fetch!AddToTar
  <2>6. CASE Fetch!CleanUp
    BY <2>6 DEF Fetch!CleanUp
  <2>7. CASE Fetch!Interrupt
    BY <2>7 DEF Fetch!Interrupt
  <2> QED
    BY <2>1, <2>2, <2>3, <2>4, <2>5, <2>6, <2>7 DEF Fetch!Next, Fetch!Parent
<1> QED
  BY <1>1, <1>2, <1>3

LEMMA JobStep == JobInv /\ Fetch!Next => JobInv'
  BY ControlStep, TarStep, UsedStep, LoadStep, AttemptsStep DEF JobInv, ControlKnown

LEMMA JobIsTyped == JobInv => Fetch!TypeOK
  BY DEF JobInv, JobTyped, Exceptions, LoadKnown, AttemptsKnown, Fetch!TypeOK, Fetch!Req

\* What was verified is what the tar holds.
LEMMA JobSound == JobInv => Fetch!QuarantineHolds /\ Fetch!TarIsPinned
<1> SUFFICES ASSUME JobInv PROVE Fetch!QuarantineHolds /\ Fetch!TarIsPinned
  OBVIOUS
<1>1. Fetch!QuarantineHolds
  BY DEF JobInv, WorkerKnown, DirectoryKnown, Fetch!QuarantineHolds
<1>2. ASSUME pc = "done", exc = "none"
      PROVE  /\ dir = "gone" /\ Cardinality(tar) = N
             /\ \A t \in tar : t[2].pinned /\ t[2].size <= MaxFile
  <2>1. /\ dir = "gone" /\ Cardinality(tar) = N
        /\ tar = {<<r, checked[r]>> : r \in 1..Cardinality(tar)}
        /\ \A r \in 1..N : Fits(checked[r])
    BY <1>2 DEF JobInv, TarKnown
  <2>2. tar = {<<r, checked[r]>> : r \in 1..N}
    BY <2>1
  <2> QED
    BY <2>1, <2>2 DEF Fits
<1>3. used <= MaxTotal
  BY DEF JobInv, UsedKnown
<1>4. Fetch!TarIsPinned
  BY <1>2, <1>3, JobCounts DEF Fetch!TarIsPinned
<1> QED
  BY <1>1, <1>4

-----------------------------------------------------------------------------
(* The invariant of a query *)

\* The pages of query q that were read.
Seen == {q} \cup visited

Ids(S) == UNION {service[p].ids : p \in S}

QueryTyped ==
  /\ q \in 1..(NQ + 1) /\ visited \subseteq Page
  /\ \A p \in Page : service[p].next \in Page \cup {None}
  /\ DOMAIN results = 1..NQ

\* What was read so far follows from the first page, and what follows from it was
\* read, up to the next token.
PagesRead ==
  osv = "page" =>
    /\ q \in 1..NQ
    /\ Seen \subseteq Osv!Following(q) /\ got = Ids(Seen)
    /\ token \in Osv!Following(q) \cup {None}
    /\ \A p \in Seen : service[p].next \in Seen \cup {token, None}

\* What is left of the budget, and what was read of it.
BudgetKnown ==
  /\ osv \in {"batch", "query", "page", "details", "ok", "error"}
  /\ token \in Page \cup {None} /\ left \in Nat
  /\ \A p \in Page : service[p].ids \subseteq Vuln /\ service[p].size \in Nat
  /\ got \subseteq Vuln /\ details \subseteq Vuln
  /\ \A i \in 1..NQ : results[i] \subseteq Vuln

AnswerKnown ==
  /\ QueryTyped /\ PagesRead
  /\ \A i \in 1..NQ : i < q => results[i] = Ids(Osv!Following(i))
  /\ osv = "query" => q <= NQ
  /\ osv \in {"details", "ok"} => q = NQ + 1
  /\ osv = "ok" => details = Osv!Unique

QueryInv == AnswerKnown /\ BudgetKnown

\* Following is the least closed set.
LEMMA FollowingIs ==
  ASSUME QueryTyped, NEW i \in Page
  PROVE  /\ i \in Osv!Following(i) /\ Osv!Following(i) \subseteq Page
         /\ \A p \in Osv!Following(i) : service[p].next \in Osv!Following(i) \cup {None}
         /\ \A S \in SUBSET Page : i \in S /\ Osv!Closed(S) => Osv!Following(i) \subseteq S
<1>1. i \in Osv!Following(i) /\ Osv!Following(i) \subseteq Page
  BY DEF Osv!Following
<1>2. ASSUME NEW p \in Osv!Following(i), service[p].next # None
      PROVE  service[p].next \in Osv!Following(i)
  <2>1. p \in Page /\ service[p].next \in Page
    BY <1>1, <1>2 DEF QueryTyped
  <2>2. ASSUME NEW S \in SUBSET Page, i \in S, Osv!Closed(S) PROVE service[p].next \in S
    <3>1. p \in S
      BY <2>2 DEF Osv!Following
    <3> QED
      BY <1>2, <2>2, <3>1 DEF Osv!Closed
  <2> QED
    BY <2>1, <2>2 DEF Osv!Following
<1>3. \A S \in SUBSET Page : i \in S /\ Osv!Closed(S) => Osv!Following(i) \subseteq S
  BY DEF Osv!Following
<1> QED
  BY <1>1, <1>2, <1>3

\* When there is no further page, all that follow were read.
LEMMA AllRead ==
  ASSUME QueryTyped, PagesRead, osv = "page", token = None
  PROVE  got = Ids(Osv!Following(q))
<1>1. q \in Page
  BY OsvAssumption DEF PagesRead
<1>2. Seen \in SUBSET Page /\ q \in Seen
  BY <1>1 DEF Seen, QueryTyped
<1>3. Osv!Closed(Seen)
  BY DEF PagesRead, Osv!Closed
<1>4. Osv!Following(q) \subseteq Seen
  BY <1>1, <1>2, <1>3, FollowingIs
<1>5. Osv!Following(q) = Seen
  BY <1>4 DEF PagesRead
<1> QED
  BY <1>5 DEF PagesRead

LEMMA QueryStart == Osv!InitWith(Services, Budgets) => QueryInv
<1> SUFFICES ASSUME Osv!InitWith(Services, Budgets) PROVE QueryInv
  OBVIOUS
<1>1. /\ osv = "batch" /\ q = 1 /\ visited = {} /\ service \in Services
      /\ results = [i \in 1..NQ |-> {}]
  BY DEF Osv!InitWith
<1>2. QueryTyped
  BY <1>1, OsvAssumption DEF QueryTyped
<1>3. BudgetKnown
  BY <1>1, OsvAssumption DEF BudgetKnown, Osv!InitWith
<1> QED
  BY <1>1, <1>2, <1>3, OsvAssumption DEF QueryInv, AnswerKnown, PagesRead

\* An answer leaves what it does not take.
LEMMA Leaves ==
  ASSUME left \in Nat, NEW size \in Nat, NEW cap \in Nat, Osv!Answered(size, cap)
  PROVE  left' \in Nat
  BY DEF Osv!Answered, Osv!Smaller

LEMMA FirstPagesCount == QueryTyped => Osv!FirstPages \in Nat
<1> DEFINE B == Osv!InBatch(q) \X (1..(ResponseCap + 1))
           S == {b \in B : b[2] <= service[b[1]].size}
<1> SUFFICES ASSUME QueryTyped PROVE Osv!FirstPages \in Nat
  OBVIOUS
<1>1. IsFiniteSet(Osv!InBatch(q))
  <2>1. IsFiniteSet(q..NQ)
    BY FS_Interval, OsvAssumption DEF QueryTyped
  <2> QED
    BY <2>1, FS_Subset DEF Osv!InBatch
<1>2. IsFiniteSet(1..(ResponseCap + 1))
  BY FS_Interval, OsvAssumption
<1>3. IsFiniteSet(B)
  BY <1>1, <1>2, FS_Product
<1>4. IsFiniteSet(S)
  BY <1>3, FS_Subset
<1>5. Cardinality(S) \in Nat
  <2> HIDE DEF S
  <2> QED
    BY <1>4, FS_CardinalityType
<1>6. Osv!Cardinality(S) = Cardinality(S)
  BY Zenon DEF Cardinality, Osv!Cardinality
<1> QED
  BY <1>5, <1>6 DEF Osv!FirstPages

\* No step spends more than there is, or makes up an id.
LEMMA BudgetStep == QueryInv /\ Osv!Next => BudgetKnown'
<1> SUFFICES ASSUME QueryInv, Osv!Next PROVE BudgetKnown'
  OBVIOUS
<1>1. CASE Osv!Fails
  BY <1>1 DEF Osv!Fails, Osv!Goto, QueryInv, BudgetKnown
<1>2. CASE Osv!PostBatch
  <2>1. left' \in Nat
    BY <1>2, FirstPagesCount, Leaves, OsvAssumption DEF Osv!PostBatch, QueryInv, AnswerKnown, BudgetKnown
  <2> QED
    BY <1>2, <2>1 DEF Osv!PostBatch, Osv!Goto, QueryInv, BudgetKnown
<1>3. CASE Osv!FirstPage
  <2>1. q \in Page
    BY <1>3, OsvAssumption DEF Osv!FirstPage, QueryInv, AnswerKnown, QueryTyped
  <2> QED
    BY <1>3, <2>1 DEF Osv!FirstPage, Osv!Goto, QueryInv, AnswerKnown, QueryTyped, BudgetKnown
<1>4. CASE Osv!NextPage
  <2>1. token \in Page
    BY <1>4 DEF Osv!NextPage, QueryInv, BudgetKnown
  <2>2. service[token].size \in Nat /\ service[token].next \in Page \cup {None}
    BY <2>1 DEF QueryInv, AnswerKnown, QueryTyped, BudgetKnown
  <2>3. \/ osv' = "error" /\ UNCHANGED <<service, got, token, left, results, details>>
        \/ /\ Osv!Answered(service[token].size, ResponseCap)
           /\ got' = got \cup service[token].ids /\ token' = service[token].next
           /\ UNCHANGED <<osv, service, results, details>>
    BY <1>4 DEF Osv!NextPage, Osv!Goto
  <2>4. left' \in Nat
    BY <2>2, <2>3, Leaves, OsvAssumption DEF QueryInv, BudgetKnown
  <2> QED
    BY <2>1, <2>2, <2>3, <2>4 DEF QueryInv, BudgetKnown
<1>5. CASE Osv!NextQuery
  <2>1. /\ results' = [results EXCEPT ![q] = got] /\ osv' \in {"details", "batch", "query"}
        /\ UNCHANGED <<service, token, got, details, left>>
    BY <1>5 DEF Osv!NextQuery, Osv!Goto
  <2> QED
    BY <2>1 DEF QueryInv, AnswerKnown, QueryTyped, BudgetKnown
<1>6. CASE Osv!Detail
  <2>1. Osv!Unique \subseteq Vuln
    BY DEF Osv!Unique, QueryInv, BudgetKnown
  <2>2. /\ UNCHANGED <<service, token, got, results>> /\ osv' \in {osv, "error", "ok"}
        /\ details' \subseteq details \cup Osv!Unique
        /\ left' = left \/ Osv!Answered(1, 1)
    BY <1>6 DEF Osv!Detail, Osv!Goto
  <2>3. left' \in Nat
    BY <2>2, Leaves DEF QueryInv, BudgetKnown
  <2> QED
    BY <2>1, <2>2, <2>3 DEF QueryInv, BudgetKnown
<1> QED
  BY <1>1, <1>2, <1>3, <1>4, <1>5, <1>6 DEF Osv!Next

LEMMA NextPageStep == AnswerKnown /\ Osv!NextPage => AnswerKnown'
<1> SUFFICES ASSUME AnswerKnown, Osv!NextPage PROVE AnswerKnown'
  OBVIOUS
<1>1. /\ osv = "page" /\ token # None /\ UNCHANGED <<service, q, results, details>>
      /\ \/ osv' = "error" /\ UNCHANGED <<visited, got, token>>
         \/ /\ osv' = osv /\ visited' = visited \cup {token}
            /\ got' = got \cup service[token].ids /\ token' = service[token].next
  BY DEF Osv!NextPage, Osv!Goto
<1>2. /\ q \in 1..NQ /\ Seen \subseteq Osv!Following(q) /\ got = Ids(Seen)
      /\ token \in Osv!Following(q)
      /\ \A p \in Seen : service[p].next \in Seen \cup {token, None}
  BY <1>1 DEF AnswerKnown, PagesRead
<1>3. /\ Osv!Following(q) \subseteq Page /\ service[token].next \in Osv!Following(q) \cup {None}
  <2>1. q \in Page
    BY <1>2, OsvAssumption
  <2> QED
    BY <1>2, <2>1, FollowingIs DEF AnswerKnown
<1>4. Osv!Following(q)' = Osv!Following(q) /\ \A i \in 1..NQ : Osv!Following(i)' = Osv!Following(i)
  BY <1>1 DEF Osv!Following, Osv!Closed
<1>5. QueryTyped'
  BY <1>1, <1>2, <1>3 DEF AnswerKnown, QueryTyped
<1>6. PagesRead'
  <2>1. CASE osv' = "error"
    BY <2>1 DEF PagesRead
  <2>2. CASE /\ osv' = osv /\ visited' = visited \cup {token}
             /\ got' = got \cup service[token].ids /\ token' = service[token].next
    <3>1. Seen' = Seen \cup {token}
      BY <1>1, <2>2 DEF Seen
    <3>2. got' = Ids(Seen)'
      BY <1>1, <1>2, <2>2, <3>1 DEF Ids
    <3>3. Seen' \subseteq Osv!Following(q)
      BY <1>2, <3>1
    <3>4. \A p \in Seen' : service[p].next \in Seen' \cup {token', None}
      BY <1>2, <2>2, <3>1
    <3> QED
      BY <1>1, <1>2, <1>3, <1>4, <2>2, <3>2, <3>3, <3>4 DEF PagesRead
  <2> QED
    BY <1>1, <2>1, <2>2
<1> QED
  BY <1>1, <1>4, <1>5, <1>6 DEF AnswerKnown, Ids

LEMMA NextQueryStep == AnswerKnown /\ Osv!NextQuery => AnswerKnown'
<1> SUFFICES ASSUME AnswerKnown, Osv!NextQuery PROVE AnswerKnown'
  OBVIOUS
<1>1. /\ osv = "page" /\ token = None /\ UNCHANGED <<service, visited, details>>
      /\ results' = [results EXCEPT ![q] = got] /\ q' = q + 1
      /\ osv' = IF q = NQ THEN "details" ELSE IF q % Batch = 0 THEN "batch" ELSE "query"
  BY DEF Osv!NextQuery, Osv!Goto
<1>2. q \in 1..NQ /\ got = Ids(Osv!Following(q))
  BY <1>1, AllRead DEF AnswerKnown, PagesRead
<1>3. QueryTyped'
  BY <1>1, <1>2, OsvAssumption DEF AnswerKnown, QueryTyped
<1>4. \A i \in 1..NQ : Ids(Osv!Following(i))' = Ids(Osv!Following(i))
  BY <1>1 DEF Osv!Following, Osv!Closed, Ids
<1>5. \A i \in 1..NQ : i < q' => results'[i] = Ids(Osv!Following(i))
  <2> SUFFICES ASSUME NEW i \in 1..NQ, i < q + 1 PROVE results'[i] = Ids(Osv!Following(i))
    BY <1>1
  <2>1. CASE i = q
    BY <1>1, <1>2, <2>1 DEF AnswerKnown, QueryTyped
  <2>2. CASE i # q
    <3>1. i < q /\ i \in DOMAIN results
      BY <1>2, <2>2, OsvAssumption DEF AnswerKnown, QueryTyped
    <3> QED
      BY <1>1, <2>2, <3>1 DEF AnswerKnown
  <2> QED
    BY <2>1, <2>2
<1>6. /\ osv' # "page" /\ osv' # "ok" /\ (osv' = "query" => q' <= NQ)
      /\ osv' = "details" => q' = NQ + 1
  BY <1>1, <1>2, OsvAssumption
<1> QED
  BY <1>3, <1>4, <1>5, <1>6 DEF AnswerKnown, PagesRead

LEMMA AnswerStep == AnswerKnown /\ Osv!Next => AnswerKnown'
<1> SUFFICES ASSUME AnswerKnown, Osv!Next PROVE AnswerKnown'
  OBVIOUS
<1>1. ASSUME UNCHANGED <<service, q, results>> PROVE \A i \in 1..NQ : Ids(Osv!Following(i))' = Ids(Osv!Following(i))
  BY <1>1 DEF Osv!Following, Osv!Closed, Ids
<1>2. CASE Osv!Fails \/ Osv!PostBatch
  <2>1. UNCHANGED <<service, q, visited, results>> /\ osv' \in {"error", "query"} /\ (osv' = "query" => q <= NQ)
    BY <1>2 DEF Osv!Fails, Osv!PostBatch, Osv!Goto
  <2> QED
    BY <1>1, <2>1 DEF AnswerKnown, QueryTyped, PagesRead
<1>3. CASE Osv!FirstPage
  <2>1. /\ osv = "query" /\ osv' = "page" /\ visited' = {} /\ got' = service[q].ids
        /\ token' = service[q].next /\ UNCHANGED <<service, q, results>>
    BY <1>3 DEF Osv!FirstPage, Osv!Goto
  <2>2. q \in 1..NQ /\ q \in Page
    BY <2>1, OsvAssumption DEF AnswerKnown, QueryTyped
  <2>3. q \in Osv!Following(q) /\ service[q].next \in Osv!Following(q) \cup {None}
    BY <2>2, FollowingIs DEF AnswerKnown
  <2>4. Osv!Following(q)' = Osv!Following(q)
    BY <2>1 DEF Osv!Following, Osv!Closed
  <2>5. Seen' = {q}
    BY <2>1 DEF Seen
  <2>6. got' = Ids(Seen)'
    BY <2>1, <2>5 DEF Ids
  <2>7. PagesRead'
    BY <2>1, <2>2, <2>3, <2>4, <2>5, <2>6 DEF PagesRead
  <2> QED
    BY <1>1, <2>1, <2>7 DEF AnswerKnown, QueryTyped
<1>4. CASE Osv!Detail
  <2>1. /\ osv = "details" /\ UNCHANGED <<service, q, visited, results>>
        /\ osv' \in {"error", "ok", "details"}
        /\ osv' = "ok" => details' = Osv!Unique
    BY <1>4 DEF Osv!Detail, Osv!Goto
  <2>2. Osv!Unique' = Osv!Unique
    BY <2>1 DEF Osv!Unique
  <2> QED
    BY <1>1, <2>1, <2>2 DEF AnswerKnown, QueryTyped, PagesRead
<1> QED
  BY <1>2, <1>3, <1>4, NextPageStep, NextQueryStep DEF Osv!Next

LEMMA QueryStep == QueryInv /\ Osv!Next => QueryInv'
  BY AnswerStep, BudgetStep DEF QueryInv

LEMMA QueryIsTyped == QueryInv => Osv!TypeOK
  BY DEF QueryInv, AnswerKnown, QueryTyped, BudgetKnown, Osv!TypeOK

LEMMA QuerySound == AnswerKnown => Osv!AnswerIsComplete
<1> SUFFICES ASSUME AnswerKnown, osv = "ok"
             PROVE  /\ \A i \in 1..NQ : results[i] = Ids(Osv!Following(i))
                    /\ details = Osv!Unique
  BY DEF Osv!AnswerIsComplete, Ids
<1> QED
  BY OsvAssumption DEF AnswerKnown

-----------------------------------------------------------------------------
(* The theorems *)

JobsInv ==
  /\ part = "run"   => RunInv
  /\ part = "fetch" => JobInv
  /\ part = "osv"   => QueryInv

LEMMA RunStutters == RunInv /\ UNCHANGED <<pc, exit, runOnly>> => RunInv'
<1> SUFFICES ASSUME RunInv, UNCHANGED <<pc, exit, runOnly>> PROVE RunInv'
  OBVIOUS
<1>1. UNCHANGED <<pc, due, obj, late, sweep, why, note, exit>> /\ now' = now
  BY DEF runOnly
<1>2. now \in 0..MaxNow /\ \A i \in Run : pc[i] \in Runs!Timed => now <= due[i]
  BY DEF RunInv, RunTyped, ObjectsTyped, InTime
<1> QED
  BY <1>1, <1>2, RunAssumption, StillHolds

LEMMA JobStutters == JobInv /\ UNCHANGED <<pc, dir, k, file, fetchOnly>> => JobInv'
<1> SUFFICES ASSUME JobInv, UNCHANGED <<pc, dir, k, file, fetchOnly>> PROVE JobInv'
  OBVIOUS
<1> USE DEF fetchOnly
<1>1. JobTyped' /\ WorkerKnown' /\ DirectoryKnown'
  BY DEF JobInv, JobTyped, WorkerKnown, DirectoryKnown
<1>2. TarKnown' /\ UsedKnown'
  BY DEF JobInv, TarKnown, Fits, UsedKnown
<1>3. LoadKnown' /\ AttemptsKnown'
  BY DEF JobInv, LoadKnown, AttemptsKnown
<1> QED
  BY <1>1, <1>2, <1>3 DEF JobInv

LEMMA QueryStutters == QueryInv /\ UNCHANGED osvOnly => QueryInv'
<1> SUFFICES ASSUME QueryInv, UNCHANGED osvOnly PROVE QueryInv'
  OBVIOUS
<1> USE DEF osvOnly
<1>1. \A i \in 1..NQ : Osv!Following(i)' = Osv!Following(i)
  BY DEF Osv!Following, Osv!Closed
<1>2. Osv!Unique' = Osv!Unique
  BY DEF Osv!Unique
<1>3. PagesRead'
  <2>1. q \in 1..NQ => Osv!Following(q)' = Osv!Following(q)
    BY DEF Osv!Following, Osv!Closed
  <2> QED
    BY <2>1 DEF QueryInv, AnswerKnown, PagesRead, Seen, Ids
<1>4. BudgetKnown'
  BY DEF QueryInv, BudgetKnown
<1> QED
  BY <1>1, <1>2, <1>3, <1>4 DEF QueryInv, AnswerKnown, QueryTyped, Ids

\* A behaviour of another part says nothing of these three.
THEOREM JobsInductive == Spec => []JobsInv
<1>1. Init => JobsInv
  BY RunStart, JobStart, QueryStart DEF Init, JobsInv
<1>2. JobsInv /\ [Next]_vars => JobsInv'
  <2> SUFFICES ASSUME JobsInv, [Next]_vars PROVE JobsInv'
    OBVIOUS
  <2>1. part' = part
    BY DEF Next, vars
  <2>2. CASE part = "run"
    <3>1. Runs!Next \/ UNCHANGED <<pc, exit, runOnly>>
      BY <2>2 DEF Next, vars
    <3> QED
      BY <2>1, <2>2, <3>1, RunStep, RunStutters DEF JobsInv
  <2>3. CASE part = "fetch"
    <3>1. Fetch!Next \/ UNCHANGED <<pc, dir, k, file, fetchOnly>>
      BY <2>3 DEF Next, vars
    <3> QED
      BY <2>1, <2>3, <3>1, JobStep, JobStutters DEF JobsInv
  <2>4. CASE part = "osv"
    <3>1. Osv!Next \/ UNCHANGED osvOnly
      BY <2>4 DEF Next, vars
    <3> QED
      BY <2>1, <2>4, <3>1, QueryStep, QueryStutters DEF JobsInv
  <2> QED
    BY <2>1, <2>2, <2>3, <2>4 DEF JobsInv
<1> QED
  BY <1>1, <1>2, PTL DEF Spec

\* No janitor takes the container of a run that is at work, and a sweep takes all
\* that has expired up to its cap, in an order in which it can be removed, however
\* many runs and builds share the daemon and wherever one of them dies.
THEOREM SweepIsSafe == Spec => []JanitorSpares
<1>1. JobsInv => JanitorSpares
  BY Thorough DEF JobsInv, RunInv, JanitorSpares
<1> QED
  BY <1>1, JobsInductive, PTL

\* The exit of a run, the end of a download and the answer of a query tell what is
\* so, whatever docker, the worker, an interrupt or the service did.
THEOREM OutcomeIsTrue == Spec => []OutcomeTells
<1>1. JobsInv => OutcomeTells
  BY JobSound, QuerySound DEF JobsInv, RunInv, QueryInv, OutcomeTells
<1> QED
  BY <1>1, JobsInductive, PTL
=============================================================================
