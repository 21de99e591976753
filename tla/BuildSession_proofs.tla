------------------------- MODULE BuildSession_proofs --------------------------
(***************************************************************************)
(* Proofs about BuildSession, for any bounds.                              *)
(*                                                                         *)
(* The place of the main thread tells what may exist (ProbeFirst, Booked): *)
(* a create that the daemon still carries out belongs to a run that has    *)
(* left the try block, so a late probe never meets a proxy.  The outcome   *)
(* rests on the lines: what the reader has recorded is what stands in the  *)
(* lines it has read (FirstAlarm), a proxy that left with code 0 announced *)
(* nothing (Served), and from CheckEnd to the decision the run has either  *)
(* an alarm or both of END and that code (Accounted).                      *)
(***************************************************************************)
EXTENDS BuildSession, TLAPS

BeforeProbe == {"network", "networkCheck", "probe"}
Probing     == {"probeRun", "probeRemove"}
Streamed    == {"stream", "inspect", "closeStdin", "wait", "checkEnd"}
Announced   == {"event", "credential", "abort"}

ProtocolTyped == lines \in Seq(Proxy!Kinds) /\ gone \in BOOLEAN /\ code \in {0, 2, 5, 137}

\* Neither a proxy nor a builder, none on its way, and no login given away.
NobodyYet == /\ \A o \in {"proxy", "builder"} : obj[o] = "absent" /\ o \notin late
             /\ ~tokenSent

\* A probe that exists, or still may, does so before or without all the rest.
ProbeFirst ==
  /\ pc \in BeforeProbe \cup Probing => NobodyYet
  /\ obj["probe"] # "absent" => NobodyYet /\ pc \notin Trying \ Probing
  /\ "probe" \in late => NobodyYet /\ pc \notin Trying

\* Whatever exists or may come to exist was registered; what was proved absent
\* is, or has landed since; and cleanup leaves nothing pending.
Booked ==
  /\ \A o \in Objects : obj[o] # "absent" \/ o \in late => o \in registered
  /\ \A o \in removed : obj[o] # "absent" => o \in landed
  /\ pc \in Trying => removed \subseteq {"probe"}
  /\ pc \in BeforeProbe \cup Probing => removed = {}
  /\ pc \in Probing => "probe" \in registered
  /\ pc \in {"connect", "attach"} => "proxy" \in registered
  /\ pc \in {"name", "recheck", "start"} => "builder" \in registered
  /\ pc \in {"finish", "decide", "done"} => Pending = {}

\* Only a builder that has been started can make the proxy announce anything
\* of its own, and while the runner waits for it its name is known.
OnlyOnceStarted ==
  /\ pc \in Trying \ Streamed => ~started
  /\ pc \in {"recheck", "start", "stream"} => named
  /\ \A n \in DOMAIN lines : lines[n] \in {"event", "credential"} => started

\* The alarm is the first announcement among the lines that were read.
FirstAlarm ==
  /\ alarm = "none" => \A n \in 1..read : lines[n] \notin Announced
  /\ alarm = "refresh_attempt" =>
       \E m \in 1..read : lines[m] = "event" /\ \A n \in 1..m : lines[n] # "credential"
  /\ alarm = "credential" => \E m \in 1..read : lines[m] = "credential"
  /\ ended => \E m \in 1..read : lines[m] = "end"

\* Exit code 0 of the proxy stands for lines without an announced abort.
Served ==
  /\ gone /\ code = 0 => \A n \in DOMAIN lines : lines[n] \notin {"credential", "abort"}
  /\ clean => gone /\ code = 0

\* A run that gets past CheckEnd without a failure.
Accounted ==
  /\ pc \in {"stop", "cleanup", "finish", "decide"} /\ failure = "none" =>
       alarm # "none" \/ (clean /\ ended)
  /\ pc \in {"cleanup", "finish", "decide"} => closing
  /\ pc \in {"finish", "decide"} => failure = "none"
  /\ pc = "decide" => alarm # "abort"
  /\ status # "none" \/ wrote = "all" => pc = "done"

IInv ==
  /\ TypeOK /\ ProtocolTyped
  /\ ProbeFirst /\ Booked
  /\ OnlyOnceStarted /\ FirstAlarm /\ Served /\ Accounted
  /\ AlarmStopsBuilder /\ ExitedMeansServed /\ ExposureWithheld
-----------------------------------------------------------------------------
(* The proxy's lines *)

\* A step of the proxy leaves what was written, and appends at most one line.
LEMMA LinesGrow ==
  ASSUME ProtocolTyped, Proxy!LinesNext
  PROVE  /\ ProtocolTyped'
         /\ Len(lines) <= Len(lines') /\ Len(lines') <= Len(lines) + 1
         /\ \A n \in 1..Len(lines) : lines'[n] = lines[n]
         /\ gone => gone' /\ lines' = lines /\ code' = code
<1> USE DEF ProtocolTyped, Proxy!Say, Proxy!Kinds
<1>1. CASE Proxy!Announce BY <1>1 DEF Proxy!Announce
<1>2. CASE Proxy!Report BY <1>2 DEF Proxy!Report
<1>3. CASE Proxy!Abort BY <1>3 DEF Proxy!Abort
<1>4. CASE Proxy!Halt BY <1>4 DEF Proxy!Halt
<1>5. CASE Proxy!GiveUp BY <1>5 DEF Proxy!GiveUp
<1>6. CASE Proxy!End BY <1>6 DEF Proxy!End
<1>7. CASE Proxy!Leave BY <1>7 DEF Proxy!Leave
<1> QED
  BY <1>1, <1>2, <1>3, <1>4, <1>5, <1>6, <1>7 DEF Proxy!LinesNext

-----------------------------------------------------------------------------
(* Types *)

States == {"absent", "created", "running", "exited"}
Places == Trying \cup {"stop", "cleanup", "finish", "decide"} \cup Ended
Reasons == {"none", "infra", "refused", "isolation", "interrupt"}

ControlTyped == pc \in Places /\ failure \in Reasons
DaemonTyped  == obj \in [Objects -> States] /\ late \in SUBSET Objects /\ landed \in SUBSET Objects
BooksTyped   ==
  /\ attempts \in 0..SubnetAttempts
  /\ registered \in SUBSET Objects /\ removed \in SUBSET Objects /\ survivors \in SUBSET Objects
VerdictsTyped ==
  verdict \in {"none", "isolated", "isolation_failed", "isolation_unverified"} /\ tokenSent \in BOOLEAN
SessionTyped ==
  /\ client \in {"none", "open", "lost", "closed"}
  /\ relayed \in 0..Len(lines) /\ read \in 0..Len(lines)
  /\ reader \in {"following", "alarming", "finished"}
  /\ ready \in BOOLEAN /\ ended \in BOOLEAN /\ closing \in BOOLEAN
  /\ alarm \in {"none", "refresh_attempt", "credential", "abort"}
BuildTyped ==
  /\ named \in BOOLEAN /\ killFailed \in BOOLEAN /\ started \in BOOLEAN
  /\ output \in Outputs /\ oom \in BOOLEAN /\ result \in Results \cup {"none"}
  /\ clean \in BOOLEAN
EndingTyped ==
  /\ status \in Statuses /\ wrote \in {"nothing", "log", "text", "all"}
  /\ exit \in {0, 2, 5, 130} /\ interrupts \in 0..MaxInterrupts

LEMMA TypeParts ==
  TypeOK <=> /\ ControlTyped /\ DaemonTyped /\ BooksTyped /\ VerdictsTyped
             /\ SessionTyped /\ BuildTyped /\ EndingTyped
  BY DEF TypeOK, ControlTyped, DaemonTyped, BooksTyped, VerdictsTyped, SessionTyped, BuildTyped,
         EndingTyped, Places, Reasons, States

Frames == <<proxyVars, daemon, books, verdicts, session, build, ending>>

\* The steps that only move the main thread.
Moves == \/ CheckInternal \/ CheckEgress \/ Connect \/ WaitReady \/ CheckAlarm \/ Recheck \/ CheckEnd

LEMMA MovesMove == 
  ASSUME Moves
  PROVE UNCHANGED Frames /\ (ControlTyped => ControlTyped')
<1> USE DEF Goto, Fail, ControlTyped, Places, Trying, Reasons, Frames, ending
<1>1. CASE CheckInternal BY <1>1 DEF CheckInternal
<1>2. CASE CheckEgress BY <1>2 DEF CheckEgress
<1>3. CASE Connect \/ WaitReady BY <1>3 DEF Connect, WaitReady
<1>4. CASE CheckAlarm \/ Recheck \/ CheckEnd BY <1>4 DEF CheckAlarm, Recheck, CheckEnd
<1> QED
  BY <1>1, <1>2, <1>3, <1>4 DEF Moves

LEMMA CreateTyped ==
  ASSUME ControlTyped, DaemonTyped, BooksTyped, NEW o \in Objects, NEW from, NEW to \in Places, Create(o, from, to)
  PROVE  ControlTyped' /\ DaemonTyped' /\ (attempts' \in 0..SubnetAttempts => BooksTyped')
<1>1. ControlTyped'
  BY DEF ControlTyped, Create, Goto, Fail, Places, Reasons
<1>2. DaemonTyped'
  BY DEF DaemonTyped, Create, Becomes, States
<1> QED
  BY <1>1, <1>2 DEF BooksTyped, Create

\* Which steps change what.
LEMMA Disturbs ==
  ASSUME Next
  PROVE  /\ UNCHANGED proxyVars \/ ProxyRuns
         /\ UNCHANGED verdicts \/ RunProbe \/ SendToken
         /\ UNCHANGED session \/ Attach \/ CloseStdin \/ StopProxy \/ Reader \/ ClientLost
         /\ UNCHANGED build \/ NameBuilder \/ StartBuilder \/ StreamReturns \/ Inspect \/ Wait
                            \/ KillBuilder \/ BuilderEnds
         /\ UNCHANGED ending \/ CleanupDone \/ FinishAborted \/ Finish \/ Interrupt
<1> USE DEF Frames
<1>1. CASE Moves BY <1>1, MovesMove
<1>2. CASE CreateInternal BY <1>2 DEF CreateInternal
<1>3. CASE CreateProbe \/ CreateEgress \/ CreateProxy \/ CreateBuilder
  BY <1>3 DEF CreateProbe, CreateEgress, CreateProxy, CreateBuilder
<1>4. CASE RunProbe \/ RemoveProbe BY <1>4 DEF RunProbe, RemoveProbe
<1>5. CASE Attach \/ SendToken BY <1>5 DEF Attach, SendToken, verdicts
<1>6. CASE NameBuilder \/ StartBuilder \/ StreamReturns
  BY <1>6 DEF NameBuilder, StartBuilder, StreamReturns
<1>7. CASE Inspect \/ CloseStdin \/ Wait BY <1>7 DEF Inspect, CloseStdin, Wait
<1>8. CASE StopProxy \/ CleanupOne \/ CleanupDone BY <1>8 DEF StopProxy, CleanupOne, CleanupDone
<1>9. CASE FinishAborted \/ Finish \/ Interrupt BY <1>9 DEF FinishAborted, Finish, Interrupt
<1>10. CASE ReadLine \/ KillBuilder \/ ReadEnd BY <1>10 DEF ReadLine, KillBuilder, ReadEnd, Reader
<1>11. CASE ProxyRuns \/ ClientLost \/ BuilderEnds BY <1>11 DEF ProxyRuns, ClientLost, BuilderEnds
<1>12. ASSUME NEW o \in Objects, Lands(o)
       PROVE  UNCHANGED <<proxyVars, verdicts, session, build, ending>>
  BY <1>12 DEF Lands
<1> QED
  BY <1>1, <1>2, <1>3, <1>4, <1>5, <1>6, <1>7, <1>8, <1>9, <1>10, <1>11, <1>12
  DEF Next, Main, Reader, Moves

\* Which steps change the daemon's objects and the books.
LEMMA DisturbsDocker ==
  ASSUME Next
  PROVE  \/ UNCHANGED <<daemon, books>>
         \/ CreateInternal \/ CreateProbe \/ CreateEgress \/ CreateProxy \/ CreateBuilder
         \/ RunProbe \/ RemoveProbe \/ Attach \/ StartBuilder \/ StreamReturns \/ CleanupOne
         \/ ProxyRuns \/ KillBuilder \/ BuilderEnds \/ \E o \in Objects : Lands(o)
<1> USE DEF Frames
<1>1. CASE Moves BY <1>1, MovesMove
<1>2. CASE SendToken \/ NameBuilder \/ Inspect \/ CloseStdin \/ Wait
  BY <1>2 DEF SendToken, NameBuilder, Inspect, CloseStdin, Wait
<1>3. CASE StopProxy \/ CleanupDone \/ FinishAborted \/ Finish \/ Interrupt
  BY <1>3 DEF StopProxy, CleanupDone, FinishAborted, Finish, Interrupt
<1>4. CASE ReadLine \/ ReadEnd \/ ClientLost BY <1>4 DEF ReadLine, ReadEnd, ClientLost
<1> QED
  BY <1>1, <1>2, <1>3, <1>4 DEF Next, Main, Reader, Moves

LEMMA ControlKept ==
  ASSUME TypeOK, Next
  PROVE  ControlTyped'
<1> USE DEF ControlTyped, Places, Trying, Ended, Reasons, Goto, Fail
<1>0. ControlTyped /\ DaemonTyped /\ BooksTyped
  BY TypeParts
<1>1. CASE Moves BY <1>0, <1>1, MovesMove
<1>2. CASE CreateInternal
  BY <1>0, <1>2 DEF CreateInternal, Create
<1>3. CASE CreateProbe \/ CreateEgress \/ CreateProxy \/ CreateBuilder
  BY <1>0, <1>3 DEF CreateProbe, CreateEgress, CreateProxy, CreateBuilder, Create
<1>4. CASE RunProbe \/ RemoveProbe BY <1>0, <1>4 DEF RunProbe, RemoveProbe
<1>5. CASE Attach \/ SendToken BY <1>0, <1>5 DEF Attach, SendToken
<1>6. CASE NameBuilder \/ StartBuilder BY <1>0, <1>6 DEF NameBuilder, StartBuilder
<1>7. CASE StreamReturns BY <1>0, <1>7 DEF StreamReturns
<1>8. CASE Inspect \/ CloseStdin \/ Wait BY <1>0, <1>8 DEF Inspect, CloseStdin, Wait
<1>9. CASE StopProxy \/ CleanupOne \/ CleanupDone BY <1>0, <1>9 DEF StopProxy, CleanupOne, CleanupDone
<1>10. CASE FinishAborted \/ Finish \/ Interrupt BY <1>0, <1>10 DEF FinishAborted, Finish, Interrupt
<1>11. CASE Reader \/ ProxyRuns \/ ClientLost \/ BuilderEnds
  BY <1>0, <1>11 DEF Reader, ReadLine, KillBuilder, ReadEnd, ProxyRuns, ClientLost, BuilderEnds
<1>12. ASSUME NEW o \in Objects, Lands(o) PROVE ControlTyped'
  BY <1>0, <1>12 DEF Lands
<1> QED
  BY <1>1, <1>2, <1>3, <1>4, <1>5, <1>6, <1>7, <1>8, <1>9, <1>10, <1>11, <1>12 DEF Next, Main, Moves

LEMMA DockerKept ==
  ASSUME TypeOK, Next
  PROVE  DaemonTyped' /\ BooksTyped'
<1> USE DEF Becomes, Objects, Containers, Networks
<1>0. ControlTyped /\ DaemonTyped /\ BooksTyped
  BY TypeParts
<1>1. CASE UNCHANGED <<daemon, books>> BY <1>0, <1>1 DEF DaemonTyped, BooksTyped, daemon, books
<1>2. CASE CreateInternal
  <2>1. attempts' \in 0..SubnetAttempts
    BY <1>0, <1>2, BoundsAssumption DEF CreateInternal, DrawsAgain, BooksTyped, Goto, Fail, books
  <2>2. CASE Create("int", "network", "networkCheck")
    BY <1>0, <2>1, <2>2, CreateTyped DEF Places, Trying
  <2>3. CASE ~Create("int", "network", "networkCheck")
    BY <1>0, <1>2, <2>1, <2>3 DEF CreateInternal, DaemonTyped, BooksTyped, daemon, books
  <2> QED
    BY <2>2, <2>3
<1>3. CASE CreateProbe BY <1>0, <1>3, CreateTyped DEF CreateProbe, Places, Trying, BooksTyped
<1>4. CASE CreateEgress BY <1>0, <1>4, CreateTyped DEF CreateEgress, Places, Trying, BooksTyped
<1>5. CASE CreateProxy BY <1>0, <1>5, CreateTyped DEF CreateProxy, Places, Trying, BooksTyped
<1>6. CASE CreateBuilder BY <1>0, <1>6, CreateTyped DEF CreateBuilder, Places, Trying, BooksTyped
<1>7. CASE RunProbe BY <1>0, <1>7 DEF RunProbe, DaemonTyped, BooksTyped, books, States
<1>8. CASE RemoveProbe
  BY <1>0, <1>8 DEF RemoveProbe, ProvedAbsent, NotProved, DaemonTyped, BooksTyped, States
<1>9. CASE Attach BY <1>0, <1>9 DEF Attach, DaemonTyped, BooksTyped, books, States
<1>10. CASE StartBuilder BY <1>0, <1>10 DEF StartBuilder, DaemonTyped, BooksTyped, books, States
<1>11. CASE StreamReturns BY <1>0, <1>11 DEF StreamReturns, DaemonTyped, BooksTyped, books, States
<1>12. CASE CleanupOne
  BY <1>0, <1>12 DEF CleanupOne, Pending, ProvedAbsent, NotProved, DaemonTyped, BooksTyped, States
<1>13. CASE ProxyRuns BY <1>0, <1>13 DEF ProxyRuns, DaemonTyped, BooksTyped, books, States
<1>14. CASE KillBuilder \/ BuilderEnds
  BY <1>0, <1>14 DEF KillBuilder, BuilderEnds, DaemonTyped, BooksTyped, books, States
<1>15. ASSUME NEW o \in Objects, Lands(o) PROVE DaemonTyped' /\ BooksTyped'
  BY <1>0, <1>15 DEF Lands, DaemonTyped, BooksTyped, books, States
<1> QED
  BY <1>1, <1>2, <1>3, <1>4, <1>5, <1>6, <1>7, <1>8, <1>9, <1>10, <1>11, <1>12, <1>13, <1>14, <1>15,
     DisturbsDocker

LEMMA SessionKept ==
  ASSUME TypeOK, ProtocolTyped, Next
  PROVE  ProtocolTyped' /\ SessionTyped'
<1> USE DEF SessionTyped
<1>0. SessionTyped /\ Len(lines) \in Nat
  BY TypeParts DEF ProtocolTyped
<1>1. CASE ProxyRuns
  <2>1. UNCHANGED session
    BY <1>1 DEF ProxyRuns
  <2>2. Len(lines) <= Len(lines') /\ Len(lines') \in Nat /\ ProtocolTyped'
    BY <1>1, LinesGrow DEF ProxyRuns, ProtocolTyped
  <2> QED
    BY <1>0, <2>1, <2>2 DEF session
<1>2. CASE ~ProxyRuns
  <2>0. UNCHANGED proxyVars
    BY <1>2, Disturbs
  <2>1. ProtocolTyped'
    BY <2>0 DEF proxyVars, ProtocolTyped
  <2> HIDE DEF SessionTyped
  <2>2. CASE UNCHANGED session BY <1>0, <2>0, <2>1, <2>2 DEF session, proxyVars, SessionTyped
  <2>3. CASE Attach BY <1>0, <2>0, <2>1, <2>3 DEF Attach, proxyVars, SessionTyped
  <2>4. CASE CloseStdin BY <1>0, <2>0, <2>1, <2>4 DEF CloseStdin, proxyVars, SessionTyped
  <2>5. CASE StopProxy BY <1>0, <2>0, <2>1, <2>5 DEF StopProxy, CloseClient, proxyVars, SessionTyped
  <2>6. CASE ReadLine BY <1>0, <2>0, <2>1, <2>6 DEF ReadLine, Raise, Heard, proxyVars, SessionTyped
  <2>7. CASE KillBuilder BY <1>0, <2>0, <2>1, <2>7 DEF KillBuilder, proxyVars, SessionTyped
  <2>8. CASE ReadEnd BY <1>0, <2>0, <2>1, <2>8 DEF ReadEnd, Raise, proxyVars, SessionTyped
  <2>9. CASE ClientLost BY <1>0, <2>0, <2>1, <2>9 DEF ClientLost, proxyVars, SessionTyped
  <2> QED
    BY <2>1, <2>2, <2>3, <2>4, <2>5, <2>6, <2>7, <2>8, <2>9, Disturbs DEF Reader
<1> QED
  BY <1>1, <1>2

LEMMA BuildKept ==
  ASSUME TypeOK, Next
  PROVE  BuildTyped'
<1> USE DEF BuildTyped
<1>0. BuildTyped
  BY TypeParts
<1>1. CASE UNCHANGED build BY <1>0, <1>1 DEF build
<1>2. CASE NameBuilder BY <1>0, <1>2 DEF NameBuilder
<1>3. CASE StartBuilder BY <1>0, <1>3 DEF StartBuilder
<1>4. CASE StreamReturns BY <1>0, <1>4 DEF StreamReturns, Outputs
<1>5. CASE Inspect BY <1>0, <1>5 DEF Inspect
<1>6. CASE Wait BY <1>0, <1>6 DEF Wait
<1>7. CASE KillBuilder BY <1>0, <1>7 DEF KillBuilder
<1>8. CASE BuilderEnds BY <1>0, <1>8 DEF BuilderEnds, Outputs
<1> QED
  BY <1>1, <1>2, <1>3, <1>4, <1>5, <1>6, <1>7, <1>8, Disturbs

LEMMA EndingKept ==
  ASSUME TypeOK, Next
  PROVE  VerdictsTyped' /\ EndingTyped'
<1>0. VerdictsTyped /\ EndingTyped /\ ControlTyped /\ BuildTyped
  BY TypeParts
<1>1. VerdictsTyped'
  <2> USE DEF VerdictsTyped
  <2>1. CASE UNCHANGED verdicts BY <1>0, <2>1 DEF verdicts
  <2>2. CASE RunProbe BY <1>0, <2>2 DEF RunProbe, Goto, Fail
  <2>3. CASE SendToken BY <1>0, <2>3 DEF SendToken, Goto, Fail
  <2> QED
    BY <2>1, <2>2, <2>3, Disturbs
<1>2. EndingTyped'
  <2> USE DEF EndingTyped
  <2>1. CASE UNCHANGED ending BY <1>0, <2>1 DEF ending
  <2>2. CASE CleanupDone BY <1>0, <2>2 DEF CleanupDone, Codes, ControlTyped, Reasons
  <2>3. CASE FinishAborted BY <1>0, <2>3 DEF FinishAborted
  <2>4. CASE Finish
    <3>1. \A hit \in BOOLEAN : BuildStatus(hit) \in Statuses /\ Output(BuildStatus(hit)) \in {"log", "text", "all"}
      BY <1>0 DEF BuildTyped, BuildStatus, Output, Statuses, Results
    <3> QED
      BY <1>0, <2>4, <3>1 DEF Finish
  <2>5. CASE Interrupt BY <1>0, <2>5, BoundsAssumption DEF Interrupt
  <2> QED
    BY <2>1, <2>2, <2>3, <2>4, <2>5, Disturbs
<1> QED
  BY <1>1, <1>2

\* Every step keeps the types.
LEMMA TypesKept ==
  ASSUME TypeOK, ProtocolTyped, Next
  PROVE  TypeOK' /\ ProtocolTyped'
<1>1. ControlTyped' /\ DaemonTyped' /\ BooksTyped' /\ VerdictsTyped' /\ SessionTyped' /\ BuildTyped' /\ EndingTyped'
  BY ControlKept, DockerKept, SessionKept, BuildKept, EndingKept
<1> QED
  BY <1>1, SessionKept, TypeParts DEF TypeOK, ControlTyped, DaemonTyped, BooksTyped, VerdictsTyped,
     SessionTyped, BuildTyped, EndingTyped, Places, Reasons, States

-----------------------------------------------------------------------------
(* The probe and the books *)

\* The steps of docker that do not create: what runs ends, what was created is
\* started, what exists is removed.
LEMMA RunningOnly ==
  ASSUME TypeOK, Next, KillBuilder \/ BuilderEnds \/ StreamReturns \/ ProxyRuns
  PROVE  /\ UNCHANGED <<late, landed, books, verdicts>>
         /\ \/ UNCHANGED obj
            \/ \E o \in {"proxy", "builder"} : obj[o] = "running" /\ \E s \in {"running", "exited"} : Becomes(o, s)
<1>1. CASE KillBuilder BY <1>1 DEF KillBuilder
<1>2. CASE BuilderEnds BY <1>2 DEF BuilderEnds
<1>3. CASE StreamReturns BY <1>3 DEF StreamReturns
<1>4. CASE ProxyRuns BY <1>4 DEF ProxyRuns
<1> QED
  BY <1>1, <1>2, <1>3, <1>4

\* The place of the main thread after a step of somebody else.
LEMMA MainStays ==
  ASSUME Reader \/ ProxyRuns \/ ClientLost \/ BuilderEnds \/ \E o \in Objects : Lands(o)
  PROVE  UNCHANGED <<pc, failure, books, verdicts>>
  BY DEF Reader, ReadLine, KillBuilder, ReadEnd, ProxyRuns, ClientLost, BuilderEnds, Lands

\* The main thread goes forward, stops, or is past the try block; the steps by
\* which it does.
LEMMA ProbeFirstKept ==
  ASSUME TypeOK, ProbeFirst, Next
  PROVE  ProbeFirst'
<1> USE DEF ProbeFirst, NobodyYet, BeforeProbe, Probing, Trying, Goto, Fail, Becomes
<1>0. obj \in [Objects -> States] /\ {"probe", "proxy", "builder", "int", "egr"} = Objects
  BY TypeParts DEF DaemonTyped, Objects, Containers, Networks
<1>1. CASE Moves
  BY <1>1, MovesMove DEF Moves, Frames, daemon, verdicts, CheckInternal, CheckEgress, Connect, WaitReady,
     CheckAlarm, Recheck, CheckEnd
<1>2. CASE CreateInternal BY <1>0, <1>2 DEF CreateInternal, Create, daemon, verdicts
<1>3. CASE CreateProbe BY <1>0, <1>3 DEF CreateProbe, Create, verdicts
<1>4. CASE CreateEgress BY <1>0, <1>4 DEF CreateEgress, Create, verdicts
<1>5. CASE CreateProxy BY <1>0, <1>5 DEF CreateProxy, Create, verdicts
<1>6. CASE CreateBuilder BY <1>0, <1>6 DEF CreateBuilder, Create, verdicts
<1>7. CASE RunProbe BY <1>0, <1>7 DEF RunProbe
<1>8. CASE RemoveProbe BY <1>0, <1>8 DEF RemoveProbe, ProvedAbsent, NotProved, verdicts
<1>9. CASE Attach \/ SendToken BY <1>0, <1>9 DEF Attach, SendToken, verdicts, daemon
<1>10. CASE NameBuilder \/ StartBuilder BY <1>0, <1>10 DEF NameBuilder, StartBuilder, verdicts, daemon
<1>11. CASE StreamReturns BY <1>0, <1>11, RunningOnly DEF StreamReturns, verdicts
<1>12. CASE Inspect \/ CloseStdin \/ Wait
  BY <1>12 DEF Inspect, CloseStdin, Wait, verdicts, daemon
<1>13. CASE StopProxy \/ CleanupDone \/ FinishAborted \/ Finish \/ Interrupt
  BY <1>13, ControlKept DEF StopProxy, CleanupDone, FinishAborted, Finish, Interrupt, verdicts, daemon
<1>14. CASE CleanupOne
  BY <1>0, <1>14 DEF CleanupOne, ProvedAbsent, NotProved, verdicts
<1>15. CASE ReadLine \/ ReadEnd \/ ClientLost
  BY <1>15, MainStays DEF ReadLine, ReadEnd, ClientLost, verdicts, daemon
<1>16. CASE KillBuilder \/ BuilderEnds \/ ProxyRuns
  BY <1>0, <1>16, MainStays, RunningOnly DEF verdicts, Reader
<1>17. ASSUME NEW o \in Objects, Lands(o) PROVE ProbeFirst'
  BY <1>0, <1>17, MainStays DEF Lands, verdicts
<1> QED
  BY <1>1, <1>2, <1>3, <1>4, <1>5, <1>6, <1>7, <1>8, <1>9, <1>10, <1>11, <1>12, <1>13, <1>14, <1>15, <1>16,
     <1>17 DEF Next, Main, Reader, Moves

\* What the books say of one object: whatever exists or may come to exist was
\* registered, and what was proved absent is, or has landed since.
Kept(o) == /\ obj[o] # "absent" \/ o \in late => o \in registered
           /\ o \in removed /\ obj[o] # "absent" => o \in landed

\* A create of something that was not removed yet keeps them.
LEMMA CreateBooks ==
  ASSUME TypeOK, NEW o \in Objects, NEW from, NEW to, Create(o, from, to), o \notin removed,
         \A p \in Objects : Kept(p)
  PROVE  (\A p \in Objects : Kept(p)') /\ o \in registered' /\ removed' = removed
  BY TypeParts DEF DaemonTyped, BooksTyped, Create, Becomes, Kept

\* Every step keeps them, and cleanup ends with nothing pending.
LEMMA BookedKept ==
  ASSUME TypeOK, Booked, Next
  PROVE  Booked'
<1> USE DEF BeforeProbe, Probing, Trying, Ended, Goto, Fail, Becomes
<1>0. /\ obj \in [Objects -> States] /\ {"probe", "proxy", "builder", "int", "egr"} = Objects
      /\ registered \subseteq Objects /\ removed \subseteq Objects /\ late \subseteq Objects
      /\ \A o \in Objects : Kept(o)
  BY TypeParts DEF DaemonTyped, BooksTyped, Objects, Containers, Networks, Booked, Kept
<1>a. SUFFICES /\ \A o \in Objects : Kept(o)'
               /\ pc' \in Trying => removed' \subseteq {"probe"}
               /\ pc' \in BeforeProbe \cup Probing => removed' = {}
               /\ pc' \in Probing => "probe" \in registered'
               /\ pc' \in {"connect", "attach"} => "proxy" \in registered'
               /\ pc' \in {"name", "recheck", "start"} => "builder" \in registered'
               /\ pc' \in {"finish", "decide", "done"} => Pending' = {}
  BY DockerKept DEF Booked, Kept, BooksTyped
<1> DEFINE Goal == /\ \A o \in Objects : Kept(o)'
                   /\ pc' \in Trying => removed' \subseteq {"probe"}
                   /\ pc' \in BeforeProbe \cup Probing => removed' = {}
                   /\ pc' \in Probing => "probe" \in registered'
                   /\ pc' \in {"connect", "attach"} => "proxy" \in registered'
                   /\ pc' \in {"name", "recheck", "start"} => "builder" \in registered'
                   /\ pc' \in {"finish", "decide", "done"} => Pending' = {}
<1>1. CASE Moves
  BY <1>0, <1>1, MovesMove DEF Booked, Kept, Moves, Frames, daemon, books, CheckInternal, CheckEgress, Connect,
     WaitReady, CheckAlarm, Recheck, CheckEnd
<1>2. CASE CreateInternal
  <2>1. removed' = removed /\ pc = "network" /\ pc' \in {"network", "networkCheck", "stop"} /\ removed = {}
    BY <1>2 DEF CreateInternal, Create, books, Booked
  <2>2. \A o \in Objects : Kept(o)'
    BY <1>0, <1>2, <2>1, CreateBooks DEF CreateInternal, daemon, books, Kept
  <2> QED
    BY <2>1, <2>2
<1>3. CASE CreateProbe
  <2>1. pc = "probe" /\ pc' \in {"probeRun", "stop"} /\ "probe" \notin removed
    BY <1>3 DEF CreateProbe, Create, Booked
  <2> QED
    BY <1>0, <1>3, <2>1, CreateBooks DEF CreateProbe, Booked
<1>4. CASE CreateEgress
  <2>1. pc = "egress" /\ pc' \in {"egressCheck", "stop"} /\ "egr" \notin removed
    BY <1>4 DEF CreateEgress, Create, Booked
  <2> QED
    BY <1>0, <1>4, <2>1, CreateBooks DEF CreateEgress, Booked
<1>5. CASE CreateProxy
  <2>1. pc = "proxy" /\ pc' \in {"connect", "stop"} /\ "proxy" \notin removed
    BY <1>5 DEF CreateProxy, Create, Booked
  <2> QED
    BY <1>0, <1>5, <2>1, CreateBooks DEF CreateProxy, Booked
<1>6. CASE CreateBuilder
  <2>1. pc = "builder" /\ pc' \in {"name", "stop"} /\ "builder" \notin removed
    BY <1>6 DEF CreateBuilder, Create, Booked
  <2> QED
    BY <1>0, <1>6, <2>1, CreateBooks DEF CreateBuilder, Booked
<1>7. CASE RunProbe BY <1>0, <1>7 DEF RunProbe, books, Booked, Kept
<1>8. CASE RemoveProbe BY <1>0, <1>8 DEF RemoveProbe, ProvedAbsent, NotProved, Booked, Kept
<1>9. CASE Attach BY <1>0, <1>9 DEF Attach, books, Booked, Kept
<1>10. CASE NameBuilder \/ StartBuilder BY <1>0, <1>10 DEF NameBuilder, StartBuilder, books, daemon, Booked, Kept
<1>11. CASE StreamReturns BY <1>0, <1>11, RunningOnly DEF StreamReturns, books, Booked, Kept
<1>12. CASE SendToken \/ Inspect \/ CloseStdin \/ Wait
  BY <1>0, <1>12 DEF SendToken, Inspect, CloseStdin, Wait, books, daemon, Booked, Kept
<1>13. CASE CleanupOne
  BY <1>0, <1>13 DEF CleanupOne, ProvedAbsent, NotProved, Booked, Kept
<1>14. CASE StopProxy \/ CleanupDone \/ FinishAborted \/ Finish
  BY <1>0, <1>14 DEF StopProxy, CleanupDone, FinishAborted, Finish, books, daemon, Booked, Kept, Pending
<1>15. CASE Interrupt BY <1>0, <1>15, ControlKept DEF Interrupt, books, daemon, Booked, Kept, Pending
<1>16. CASE ReadLine \/ ReadEnd \/ ClientLost
  BY <1>0, <1>16, MainStays DEF ReadLine, ReadEnd, ClientLost, books, daemon, Booked, Kept, Pending
<1>17. CASE KillBuilder \/ BuilderEnds \/ ProxyRuns
  BY <1>0, <1>17, MainStays, RunningOnly DEF books, Reader, Booked, Kept, Pending
<1>18. ASSUME NEW o \in Objects, Lands(o) PROVE Goal
  BY <1>0, <1>18, MainStays DEF Lands, books, Booked, Kept, Pending
<1> QED
  BY <1>1, <1>2, <1>3, <1>4, <1>5, <1>6, <1>7, <1>8, <1>9, <1>10, <1>11, <1>12, <1>13, <1>14, <1>15, <1>16,
     <1>17, <1>18 DEF Next, Main, Reader, Moves

-----------------------------------------------------------------------------
(* The alarm and the builder *)

\* How the main thread gets to a place.
LEMMA Flow ==
  ASSUME Next
  PROVE  /\ pc' \in Trying \ Streamed => pc \in Trying \ Streamed
         /\ pc' \in {"recheck", "start", "stream"} => pc \in {"recheck", "start", "stream"} \/ NameBuilder
         /\ pc' = "stream" => pc = "stream" \/ StartBuilder
         /\ pc' = "stop" /\ failure' = "none" => (pc = "stop" /\ failure = "none") \/ CheckEnd
         /\ pc' = "cleanup" => (pc = "cleanup" /\ failure' = failure) \/ StopProxy
         /\ pc' = "finish" => (pc = "finish" /\ failure' = failure) \/ CleanupDone
         /\ pc' = "decide" => (pc = "decide" /\ failure' = failure) \/ FinishAborted
         /\ pc = "done" => pc' = "done"
<1> USE DEF Trying, Streamed, Goto, Fail
<1>1. CASE CheckInternal \/ CheckEgress \/ Connect \/ WaitReady
  BY <1>1 DEF CheckInternal, CheckEgress, Connect, WaitReady
<1>2. CASE CheckAlarm \/ Recheck \/ CheckEnd BY <1>2 DEF CheckAlarm, Recheck, CheckEnd
<1>3. CASE CreateInternal BY <1>3 DEF CreateInternal, Create
<1>4. CASE CreateProbe \/ CreateEgress \/ CreateProxy \/ CreateBuilder
  BY <1>4 DEF CreateProbe, CreateEgress, CreateProxy, CreateBuilder, Create
<1>5. CASE RunProbe \/ RemoveProbe BY <1>5 DEF RunProbe, RemoveProbe
<1>6. CASE Attach \/ SendToken \/ NameBuilder \/ StartBuilder
  BY <1>6 DEF Attach, SendToken, NameBuilder, StartBuilder
<1>7. CASE StreamReturns BY <1>7 DEF StreamReturns
<1>8. CASE Inspect \/ CloseStdin \/ Wait BY <1>8 DEF Inspect, CloseStdin, Wait
<1>9. CASE StopProxy \/ CleanupOne \/ CleanupDone
  BY <1>9 DEF StopProxy, CleanupOne, CleanupDone
<1>10. CASE FinishAborted \/ Finish \/ Interrupt
  BY <1>10 DEF FinishAborted, Finish, Interrupt, Ended
<1>11. CASE Reader \/ ProxyRuns \/ ClientLost \/ BuilderEnds \/ \E o \in Objects : Lands(o)
  BY <1>11, MainStays
<1> QED
  BY <1>1, <1>2, <1>3, <1>4, <1>5, <1>6, <1>7, <1>8, <1>9, <1>10, <1>11 DEF Next, Main

\* Before the start nothing has run, and a line of the builder's making comes
\* from one that has.
LEMMA StartedKept ==
  ASSUME TypeOK, ProtocolTyped, OnlyOnceStarted, Next
  PROVE  OnlyOnceStarted'
<1>1. \/ started' = started
      \/ StartBuilder /\ pc' = "stream" /\ started' = TRUE
  <2>1. CASE UNCHANGED build BY <2>1 DEF build
  <2>2. CASE NameBuilder \/ StreamReturns \/ Inspect \/ Wait \/ KillBuilder \/ BuilderEnds
    BY <2>2 DEF NameBuilder, StreamReturns, Inspect, Wait, KillBuilder, BuilderEnds
  <2>3. CASE StartBuilder BY <2>3 DEF StartBuilder, Goto, Fail
  <2> QED
    BY <2>1, <2>2, <2>3, Disturbs
<1>2. \/ named' = named
      \/ NameBuilder
      \/ StreamReturns /\ pc' = "inspect"
  <2>1. CASE UNCHANGED build BY <2>1 DEF build
  <2>2. CASE StartBuilder \/ Inspect \/ Wait \/ KillBuilder \/ BuilderEnds
    BY <2>2 DEF StartBuilder, Inspect, Wait, KillBuilder, BuilderEnds
  <2>3. CASE StreamReturns BY <2>3 DEF StreamReturns, Goto, Fail
  <2> QED
    BY <2>1, <2>2, <2>3, Disturbs
<1>3. pc' \in Trying \ Streamed => ~started'
  BY <1>1, Flow DEF Streamed, OnlyOnceStarted
<1>4. pc' \in {"recheck", "start", "stream"} => named'
  <2>1. CASE NameBuilder BY <2>1 DEF NameBuilder
  <2> QED
    BY <1>2, <2>1, Flow DEF OnlyOnceStarted
<1>5. \A n \in DOMAIN lines' : lines'[n] \in {"event", "credential"} => started'
  <2>1. CASE ProxyRuns
    BY <2>1, LinesGrow DEF ProxyRuns, ProtocolTyped, build, OnlyOnceStarted
  <2>2. CASE ~ProxyRuns
    <3>1. lines' = lines
      BY <2>2, Disturbs DEF proxyVars
    <3> QED
      BY <1>1, <3>1 DEF OnlyOnceStarted
  <2> QED
    BY <2>1, <2>2
<1> QED
  BY <1>3, <1>4, <1>5 DEF OnlyOnceStarted

\* Nothing but its start makes the builder run.
LEMMA BuilderRuns ==
  ASSUME TypeOK, Next, obj'["builder"] = "running"
  PROVE  obj["builder"] = "running" \/ StartBuilder
<1> USE DEF Becomes
<1>0. obj \in [Objects -> States] /\ {"probe", "proxy", "builder", "int", "egr"} = Objects
  BY TypeParts DEF DaemonTyped, Objects, Containers, Networks
<1>1. CASE UNCHANGED <<daemon, books>> BY <1>1 DEF daemon
<1>2. CASE CreateInternal BY <1>0, <1>2 DEF CreateInternal, Create, daemon
<1>3. CASE CreateProbe \/ CreateEgress \/ CreateProxy \/ CreateBuilder
  BY <1>0, <1>3 DEF CreateProbe, CreateEgress, CreateProxy, CreateBuilder, Create
<1>4. CASE RunProbe \/ RemoveProbe \/ Attach
  BY <1>0, <1>4 DEF RunProbe, RemoveProbe, Attach, ProvedAbsent, NotProved
<1>5. CASE StreamReturns \/ ProxyRuns \/ KillBuilder \/ BuilderEnds
  BY <1>0, <1>5, RunningOnly
<1>6. CASE CleanupOne BY <1>0, <1>6 DEF CleanupOne, ProvedAbsent, NotProved
<1>7. ASSUME NEW o \in Objects, Lands(o) PROVE obj["builder"] = "running"
  BY <1>0, <1>7 DEF Lands
<1> QED
  BY <1>1, <1>2, <1>3, <1>4, <1>5, <1>6, <1>7, DisturbsDocker

\* An alarm of the builder's own making has an announcement behind it.
LEMMA AlarmHasLine ==
  ASSUME TypeOK, ProtocolTyped, FirstAlarm, OnlyOnceStarted, alarm \in {"refresh_attempt", "credential"}
  PROVE  started
<1>1. PICK n \in 1..read : lines[n] \in {"event", "credential"}
  BY DEF FirstAlarm
<1>2. n \in DOMAIN lines
  BY <1>1, TypeParts DEF SessionTyped, ProtocolTyped
<1> QED
  BY <1>1, <1>2 DEF OnlyOnceStarted

LEMMA AlarmStopsKept ==
  ASSUME TypeOK, ProtocolTyped, FirstAlarm, OnlyOnceStarted, AlarmStopsBuilder, Next
  PROVE  AlarmStopsBuilder'
<1> SUFFICES ASSUME pc' = "stream", alarm' \in {"refresh_attempt", "credential"}, reader' # "alarming",
                    ~killFailed', obj'["builder"] = "running"
             PROVE  FALSE
  BY DEF AlarmStopsBuilder
<1>0. obj \in [Objects -> States] /\ "builder" \in Objects /\ killFailed \in BOOLEAN
  BY TypeParts DEF DaemonTyped, BuildTyped, Objects, Containers, Networks
<1>1. CASE StartBuilder
  <2>1. alarm' = alarm /\ pc = "start"
    BY <1>1 DEF StartBuilder, session, Goto, Fail
  <2> QED
    BY <2>1, AlarmHasLine DEF OnlyOnceStarted, Trying, Streamed
<1>2. CASE KillBuilder
  <2>1. pc = "stream"
    BY <1>2 DEF KillBuilder
  <2> QED
    BY <1>0, <1>2, <2>1 DEF KillBuilder, OnlyOnceStarted, Becomes
<1>3. CASE ~StartBuilder /\ ~KillBuilder
  <2>1. obj["builder"] = "running"
    BY <1>3, BuilderRuns
  <2>2. pc = "stream"
    BY <1>3, Flow
  <2>3. killFailed' = killFailed
    <3>1. CASE UNCHANGED build BY <3>1 DEF build
    <3>2. CASE NameBuilder \/ StreamReturns \/ Inspect \/ Wait \/ BuilderEnds
      BY <3>2 DEF NameBuilder, StreamReturns, Inspect, Wait, BuilderEnds
    <3> QED
      BY <1>3, <3>1, <3>2, Disturbs
  <2>4. alarm' = alarm /\ reader # "alarming"
    <3>1. CASE UNCHANGED session BY <3>1 DEF session
    <3>2. CASE Attach \/ CloseStdin \/ StopProxy \/ ClientLost
      BY <3>2 DEF Attach, CloseStdin, StopProxy, ClientLost
    <3>3. CASE ReadLine \/ ReadEnd BY <3>3 DEF ReadLine, ReadEnd, Raise
    <3> QED
      BY <1>3, <3>1, <3>2, <3>3, Disturbs DEF Reader
  <2> QED
    BY <2>1, <2>2, <2>3, <2>4 DEF AlarmStopsBuilder
<1> QED
  BY <1>1, <1>2, <1>3

-----------------------------------------------------------------------------
(* The lines and the outcome *)

\* Only the reader moves on in the lines.
LEMMA Unheard ==
  ASSUME Next, ~ReadLine, ~ReadEnd
  PROVE  UNCHANGED <<alarm, read, ended>>
<1>1. CASE UNCHANGED session BY <1>1 DEF session
<1>2. CASE Attach \/ CloseStdin \/ StopProxy \/ ClientLost \/ KillBuilder
  BY <1>2 DEF Attach, CloseStdin, StopProxy, ClientLost, KillBuilder
<1> QED
  BY <1>1, <1>2, Disturbs DEF Reader

\* What a run has learnt it does not forget.
LEMMA Learnt ==
  ASSUME Next
  PROVE  /\ alarm # "none" => alarm' = alarm
         /\ ended => ended'
         /\ closing => closing'
         /\ Wait \/ clean' = clean
<1>1. alarm # "none" => alarm' = alarm
  BY Unheard DEF ReadLine, ReadEnd, Raise
<1>2. ended => ended'
  BY Unheard DEF ReadLine, ReadEnd
<1>3. closing => closing'
  <2>1. CASE UNCHANGED session BY <2>1 DEF session
  <2>2. CASE Attach \/ CloseStdin \/ StopProxy \/ ClientLost \/ Reader
    BY <2>2 DEF Attach, CloseStdin, StopProxy, ClientLost, Reader, ReadLine, ReadEnd, KillBuilder
  <2> QED
    BY <2>1, <2>2, Disturbs
<1>4. Wait \/ clean' = clean
  <2>1. CASE UNCHANGED build BY <2>1 DEF build
  <2>2. CASE NameBuilder \/ StartBuilder \/ StreamReturns \/ Inspect \/ KillBuilder \/ BuilderEnds
    BY <2>2 DEF NameBuilder, StartBuilder, StreamReturns, Inspect, KillBuilder, BuilderEnds
  <2> QED
    BY <2>1, <2>2, Disturbs
<1> QED
  BY <1>1, <1>2, <1>3, <1>4

\* What was read stays where it was.
LEMMA ReadLines ==
  ASSUME TypeOK, ProtocolTyped, Next
  PROVE  /\ read \in Nat /\ Len(lines) \in Nat /\ read <= Len(lines)
         /\ DOMAIN lines = 1..Len(lines) /\ DOMAIN lines \subseteq DOMAIN lines'
         /\ \A n \in DOMAIN lines : lines'[n] = lines[n]
<1>1. read \in Nat /\ Len(lines) \in Nat /\ read <= Len(lines) /\ DOMAIN lines = 1..Len(lines)
  BY TypeParts DEF SessionTyped, ProtocolTyped
<1>2. CASE ProxyRuns
  <2>1. ProtocolTyped' /\ Len(lines) <= Len(lines') /\ \A n \in 1..Len(lines) : lines'[n] = lines[n]
    BY <1>2, LinesGrow DEF ProxyRuns
  <2>2. DOMAIN lines' = 1..Len(lines') /\ Len(lines') \in Nat
    BY <2>1 DEF ProtocolTyped
  <2> QED
    BY <1>1, <2>1, <2>2
<1>3. CASE ~ProxyRuns
  <2>1. lines' = lines
    BY <1>3, Disturbs DEF proxyVars
  <2> QED
    BY <1>1, <2>1
<1> QED
  BY <1>2, <1>3

\* The reader records the first announcement it meets.
LEMMA FirstAlarmKept ==
  ASSUME TypeOK, ProtocolTyped, FirstAlarm, Next
  PROVE  FirstAlarm'
<1>0. /\ read \in Nat /\ \A n \in 1..read : lines'[n] = lines[n]
  BY ReadLines
<1>1. CASE ~ReadLine /\ ~ReadEnd
  <2>1. UNCHANGED <<alarm, read, ended>>
    BY <1>1, Unheard
  <2> QED
    BY <1>0, <2>1 DEF FirstAlarm
<1>2. CASE ReadEnd
  <2>1. UNCHANGED <<read, ended>> /\ (alarm' = alarm \/ alarm' = "abort")
    BY <1>2 DEF ReadEnd, Raise
  <2> QED
    BY <1>0, <2>1 DEF FirstAlarm
<1>3. CASE ReadLine
  <2>0. /\ read' = read + 1 /\ lines' = lines
        /\ ended' = (ended \/ lines[read'] = "end")
        /\ \/ lines[read'] = "event" /\ Raise("refresh_attempt")
           \/ lines[read'] = "credential" /\ Raise("credential")
           \/ lines[read'] = "abort" /\ Raise("abort")
           \/ lines[read'] \notin Announced /\ alarm' = alarm
    BY <1>3 DEF ReadLine, proxyVars, Announced
  <2>1. \A n \in 1..read' : n \in 1..read \/ n = read'
    BY <1>0, <2>0
  <2>2. read' \in 1..read' /\ 1..read \subseteq 1..read'
    BY <1>0, <2>0
  <2>3. alarm' = "none" => \A n \in 1..read' : lines[n] \notin Announced
    BY <2>0, <2>1 DEF FirstAlarm, Raise, Announced
  <2>4. alarm' = "credential" => \E m \in 1..read' : lines[m] = "credential"
    BY <2>0, <2>2 DEF FirstAlarm, Raise
  <2>5. ended' => \E m \in 1..read' : lines[m] = "end"
    BY <2>0, <2>2 DEF FirstAlarm
  <2>6. ASSUME alarm' = "refresh_attempt"
        PROVE  \E m \in 1..read' : lines[m] = "event" /\ \A n \in 1..m : lines[n] # "credential"
    <3>1. CASE alarm = "refresh_attempt"
      BY <2>2, <3>1 DEF FirstAlarm
    <3>2. CASE alarm # "refresh_attempt"
      <4>1. lines[read'] = "event" /\ alarm = "none"
        BY <2>0, <2>6, <3>2 DEF Raise
      <4>2. \A n \in 1..read' : lines[n] # "credential"
        BY <2>1, <4>1 DEF FirstAlarm, Announced
      <4> QED
        BY <2>2, <4>1, <4>2
    <3> QED
      BY <3>1, <3>2
  <2> QED
    BY <2>0, <2>3, <2>4, <2>5, <2>6 DEF FirstAlarm
<1> QED
  BY <1>1, <1>2, <1>3

\* Nothing is written after the proxy is gone, and code 0 is only for one that
\* announced no abort.
LEMMA ServedKept ==
  ASSUME TypeOK, ProtocolTyped, Served, Next
  PROVE  Served'
<1>1. CASE ProxyRuns
  <2>1. clean' = clean /\ Proxy!LinesNext
    BY <1>1 DEF ProxyRuns, build
  <2>2. gone => gone' /\ lines' = lines /\ code' = code
    BY <2>1, LinesGrow
  <2>3. ~gone /\ gone' => Proxy!Leave
    BY <2>1 DEF Proxy!LinesNext, Proxy!Announce, Proxy!Report, Proxy!Abort, Proxy!Halt, Proxy!GiveUp, Proxy!End
  <2>4. Proxy!Leave /\ code' = 0 => \A n \in DOMAIN lines' : lines'[n] \notin {"credential", "abort"}
    BY DEF Proxy!Leave, Proxy!Said
  <2> QED
    BY <2>1, <2>2, <2>3, <2>4 DEF Served
<1>2. CASE ~ProxyRuns
  <2>1. lines' = lines /\ gone' = gone /\ code' = code
    BY <1>2, Disturbs DEF proxyVars
  <2>2. CASE Wait BY <2>1, <2>2 DEF Wait, Served
  <2>3. CASE ~Wait BY <2>1, <2>3, Learnt DEF Served
  <2> QED
    BY <2>2, <2>3
<1> QED
  BY <1>1, <1>2

\* What a finished run left is not touched again.
LEMMA DoneStays ==
  ASSUME Next, pc = "done"
  PROVE  \E o \in Objects : Lands(o)
<1> USE DEF Goto, Fail
<1>1. ~(CheckInternal \/ CheckEgress \/ Connect \/ WaitReady \/ CheckAlarm \/ Recheck \/ CheckEnd)
  BY DEF CheckInternal, CheckEgress, Connect, WaitReady, CheckAlarm, Recheck, CheckEnd
<1>2. ~(CreateInternal \/ CreateProbe \/ CreateEgress \/ CreateProxy \/ CreateBuilder)
  BY DEF CreateInternal, CreateProbe, CreateEgress, CreateProxy, CreateBuilder, Create
<1>3. ~(RunProbe \/ RemoveProbe \/ Attach \/ SendToken \/ NameBuilder \/ StartBuilder)
  BY DEF RunProbe, RemoveProbe, Attach, SendToken, NameBuilder, StartBuilder
<1>4. ~(StreamReturns \/ Inspect \/ CloseStdin \/ Wait \/ StopProxy \/ CleanupOne)
  BY DEF StreamReturns, Inspect, CloseStdin, Wait, StopProxy, CleanupOne
<1>5. ~(CleanupDone \/ FinishAborted \/ Finish \/ Interrupt)
  BY DEF CleanupDone, FinishAborted, Finish, Interrupt, Ended
<1> QED
  BY <1>1, <1>2, <1>3, <1>4, <1>5 DEF Next, Main, Ended

\* A status and an output come with the end.
LEMMA OnlyAtTheEnd ==
  ASSUME Next
  PROVE  \/ status' = status /\ (wrote' = wrote \/ wrote' = "log")
         \/ Finish /\ pc' = "done"
<1>1. CASE UNCHANGED ending BY <1>1 DEF ending
<1>2. CASE CleanupDone \/ FinishAborted \/ Interrupt
  BY <1>2 DEF CleanupDone, FinishAborted, Interrupt
<1>3. CASE Finish BY <1>3 DEF Finish, Goto
<1> QED
  BY <1>1, <1>2, <1>3, Disturbs

\* A run whose decision is near has read an alarm or has been served.
LEMMA AccountedKept ==
  ASSUME TypeOK, ProtocolTyped, Served, Accounted, Next
  PROVE  Accounted'
<1> DEFINE Good == alarm # "none" \/ (clean /\ ended)
<1>1. ASSUME pc' \in {"stop", "cleanup", "finish", "decide"}, failure' = "none" PROVE Good'
  <2>1. Good
    <3>1. CASE CheckEnd BY <1>1, <3>1 DEF CheckEnd, Goto, Fail
    <3>2. CASE StopProxy BY <1>1, <3>2 DEF StopProxy, Goto, Accounted
    <3>3. CASE CleanupDone BY <1>1, <3>3 DEF CleanupDone, Accounted
    <3>4. CASE FinishAborted BY <1>1, <3>4 DEF FinishAborted, Goto, Accounted
    <3>5. CASE ~CheckEnd /\ ~StopProxy /\ ~CleanupDone /\ ~FinishAborted
      BY <1>1, <3>5, Flow DEF Accounted
    <3> QED
      BY <3>1, <3>2, <3>3, <3>4, <3>5
  <2>2. ~Wait
    BY <1>1 DEF Wait, Goto
  <2> QED
    BY <2>1, <2>2, Learnt
<1>2. pc' \in {"cleanup", "finish", "decide"} => closing'
  <2>1. CASE StopProxy BY <2>1 DEF StopProxy
  <2>2. CASE CleanupDone BY <2>2, Learnt DEF CleanupDone, Accounted
  <2>3. CASE FinishAborted BY <2>3, Learnt DEF FinishAborted, Goto, Accounted
  <2> QED
    BY <2>1, <2>2, <2>3, Flow, Learnt DEF Accounted
<1>3. pc' \in {"finish", "decide"} => failure' = "none"
  <2>1. CASE CleanupDone BY <2>1 DEF CleanupDone
  <2>2. CASE FinishAborted BY <2>2 DEF FinishAborted, Goto, Accounted
  <2> QED
    BY <2>1, <2>2, Flow DEF Accounted
<1>4. ASSUME pc' = "decide" PROVE alarm' # "abort"
  <2>1. CASE FinishAborted BY <1>4, <2>1 DEF FinishAborted, Goto, session
  <2>2. CASE ~FinishAborted
    <3>1. pc = "decide" /\ alarm # "abort" /\ closing
      BY <1>4, <2>2, Flow DEF Accounted
    <3>2. CASE alarm = "none"
      <4>1. \A n \in DOMAIN lines : lines[n] # "abort"
        BY <3>1, <3>2 DEF Accounted, Served
      <4>2. CASE ReadLine
        <5>1. read + 1 \in DOMAIN lines
          BY <4>2, ReadLines, TypeParts DEF ReadLine, Heard, SessionTyped
        <5> QED
          BY <3>2, <4>1, <4>2, <5>1 DEF ReadLine, Raise
      <4>3. CASE ReadEnd BY <3>1, <3>2, <4>3 DEF ReadEnd
      <4> QED
        BY <3>1, <4>2, <4>3, Unheard
    <3> QED
      BY <3>1, <3>2, Learnt
  <2> QED
    BY <2>1, <2>2
<1>5. status' # "none" \/ wrote' = "all" => pc' = "done"
  BY OnlyAtTheEnd, Flow DEF Accounted
<1> QED
  BY <1>1, <1>2, <1>3, <1>4, <1>5 DEF Accounted

\* What the decision rests on: a run without an alarm was served to the end.
LEMMA DecidedServed ==
  ASSUME TypeOK, ProtocolTyped, FirstAlarm, Served, Accounted, pc = "decide", alarm = "none"
  PROVE  /\ \A n \in DOMAIN lines : lines[n] # "credential"
         /\ \A n \in DOMAIN lines : lines[n] = "event" => \E m \in 1..(n - 1) : lines[m] = "end"
<1>1. clean /\ ended
  BY DEF Accounted
<1>2. \A n \in DOMAIN lines : lines[n] # "credential"
  BY <1>1 DEF Served
<1>3. PICK m \in 1..read : lines[m] = "end"
  BY <1>1 DEF FirstAlarm
<1>4. ASSUME NEW n \in DOMAIN lines, lines[n] = "event" PROVE m \in 1..(n - 1)
  <2>1. n \notin 1..read
    BY <1>4 DEF FirstAlarm, Announced
  <2>2. read \in Nat /\ DOMAIN lines = 1..Len(lines) /\ Len(lines) \in Nat
    BY TypeParts DEF SessionTyped, ProtocolTyped
  <2> QED
    BY <1>3, <1>4, <2>1, <2>2
<1> QED
  BY <1>2, <1>3, <1>4

LEMMA ExitedKept ==
  ASSUME TypeOK, ProtocolTyped, FirstAlarm, Served, Accounted, ExitedMeansServed, Next
  PROVE  ExitedMeansServed'
<1> SUFFICES ASSUME status' = "exited"
             PROVE  ExitedMeansServed'
  BY DEF ExitedMeansServed
<1>1. CASE status = "exited"
  <2>1. PICK o \in Objects : Lands(o)
    BY <1>1, DoneStays DEF Accounted
  <2> QED
    BY <1>1, <2>1 DEF Lands, build, proxyVars, ExitedMeansServed
<1>2. CASE status # "exited"
  <2>1. Finish /\ pc = "decide"
    BY <1>2, OnlyAtTheEnd DEF Finish, Goto
  <2>2. PICK hit \in BOOLEAN : BuildStatus(hit) = "exited"
    BY <1>2, <2>1 DEF Finish
  <2>3. alarm \notin {"credential", "refresh_attempt"} /\ ~oom /\ result = "exited"
    BY <2>2 DEF BuildStatus
  <2>4. alarm = "none"
    BY <2>1, <2>3, TypeParts DEF Accounted, SessionTyped
  <2>5. UNCHANGED <<lines, oom, result>>
    BY <2>1 DEF Finish, proxyVars, build
  <2> QED
    BY <2>1, <2>3, <2>4, <2>5, DecidedServed DEF ExitedMeansServed
<1> QED
  BY <1>1, <1>2

LEMMA ExposureKept ==
  ASSUME TypeOK, ProtocolTyped, FirstAlarm, Served, Accounted, ExposureWithheld, Next
  PROVE  ExposureWithheld'
<1> SUFFICES ASSUME wrote' = "all"
             PROVE  ExposureWithheld'
  BY DEF ExposureWithheld
<1>1. CASE wrote = "all"
  <2>1. PICK o \in Objects : Lands(o)
    BY <1>1, DoneStays DEF Accounted
  <2> QED
    BY <1>1, <2>1 DEF Lands, ending, proxyVars, ExposureWithheld
<1>2. CASE wrote # "all"
  <2>1. Finish /\ pc = "decide" /\ lines' = lines
    BY <1>2, OnlyAtTheEnd DEF Finish, Goto, proxyVars
  <2>2. PICK hit \in BOOLEAN : Output(BuildStatus(hit)) = "all"
    BY <1>2, <2>1 DEF Finish
  <2>3. alarm # "credential"
    BY <2>2 DEF BuildStatus, Output
  <2>4. CASE alarm = "none"
    BY <2>1, <2>4, DecidedServed DEF ExposureWithheld
  <2>5. CASE alarm = "refresh_attempt"
    <3>1. PICK m \in 1..read : lines[m] = "event" /\ \A n \in 1..m : lines[n] # "credential"
      BY <2>5 DEF FirstAlarm
    <3>2. read \in Nat /\ DOMAIN lines = 1..Len(lines) /\ Len(lines) \in Nat
      BY TypeParts DEF SessionTyped, ProtocolTyped
    <3>3. \A n \in DOMAIN lines : lines[n] = "credential" => m \in 1..(n - 1)
      BY <3>1, <3>2
    <3> QED
      BY <2>1, <3>1, <3>3 DEF ExposureWithheld
  <2> QED
    BY <2>1, <2>3, <2>4, <2>5, TypeParts DEF Accounted, SessionTyped
<1> QED
  BY <1>1, <1>2

-----------------------------------------------------------------------------
(* The theorems *)

LEMMA Inductive == Spec => []IInv
<1>1. Init => IInv
  <2> SUFFICES ASSUME Init
               PROVE  IInv
    OBVIOUS
  <2> USE DEF Init, Proxy!LinesInit
  <2>1. ProtocolTyped
    <3>1. lines = <<>> /\ code = 0 /\ gone \in BOOLEAN
      OBVIOUS
    <3> QED
      BY <3>1 DEF ProtocolTyped
  <2>2. TypeOK
    <3>1. ControlTyped /\ DaemonTyped /\ BooksTyped
      BY BoundsAssumption DEF ControlTyped, DaemonTyped, BooksTyped, Places, Trying, Reasons, States
    <3>2. VerdictsTyped /\ BuildTyped
      BY DEF VerdictsTyped, BuildTyped, Outputs
    <3>3. SessionTyped
      <4>1. Len(lines) = 0 /\ relayed = 0 /\ read = 0
        OBVIOUS
      <4>2. relayed \in 0..Len(lines) /\ read \in 0..Len(lines)
        BY <4>1
      <4>3. ready \in BOOLEAN /\ ended \in BOOLEAN /\ closing \in BOOLEAN
        OBVIOUS
      <4> QED
        BY <4>2, <4>3 DEF SessionTyped
    <3>4. EndingTyped
      BY BoundsAssumption DEF EndingTyped, Statuses
    <3> QED
      BY <3>1, <3>2, <3>3, <3>4, TypeParts
  <2>3. ProbeFirst BY DEF ProbeFirst, NobodyYet, Objects, Containers, Networks
  <2>4. Booked BY DEF Booked, Pending, Objects, Containers, Networks, BeforeProbe, Probing
  <2>5. OnlyOnceStarted BY DEF OnlyOnceStarted
  <2>6. FirstAlarm /\ Served BY DEF FirstAlarm, Served
  <2>7. Accounted BY DEF Accounted
  <2>8. AlarmStopsBuilder /\ ExitedMeansServed /\ ExposureWithheld
    BY DEF AlarmStopsBuilder, ExitedMeansServed, ExposureWithheld
  <2> QED
    BY <2>1, <2>2, <2>3, <2>4, <2>5, <2>6, <2>7, <2>8 DEF IInv
<1>2. IInv /\ [Next]_vars => IInv'
  <2> SUFFICES ASSUME IInv, [Next]_vars
               PROVE  IInv'
    OBVIOUS
  <2>1. CASE Next
    BY <2>1, TypesKept, ProbeFirstKept, BookedKept, StartedKept, FirstAlarmKept, ServedKept, AccountedKept,
       AlarmStopsKept, ExitedKept, ExposureKept DEF IInv
  <2>2. CASE UNCHANGED vars
    <3> USE <2>2 DEF IInv, vars, proxyVars, daemon, books, verdicts, session, build, ending
    <3>1. TypeOK' /\ ProtocolTyped' BY DEF TypeOK, ProtocolTyped
    <3>2. ProbeFirst' /\ Booked' BY DEF ProbeFirst, NobodyYet, Booked, Pending
    <3>3. OnlyOnceStarted' /\ FirstAlarm' BY DEF OnlyOnceStarted, FirstAlarm
    <3>4. Served' /\ Accounted' BY DEF Served, Accounted
    <3>5. AlarmStopsBuilder' /\ ExitedMeansServed' /\ ExposureWithheld'
      BY DEF AlarmStopsBuilder, ExitedMeansServed, ExposureWithheld
    <3> QED
      BY <3>1, <3>2, <3>3, <3>4, <3>5
  <2> QED
    BY <2>1, <2>2
<1> QED
  BY <1>1, <1>2, PTL DEF Spec

\* The variables keep their types: no step of run(), finish(), the reader, the
\* proxy or docker leaves them.
THEOREM TypeCorrect == Spec => []TypeOK
<1>1. IInv => TypeOK
  BY DEF IInv
<1> QED
  BY <1>1, Inductive, PTL

\* The probe is gone before there is a proxy, a builder or a login in the proxy,
\* also when docker carries its create out after the client gave up.
THEOREM ProbeIsAlone == Spec => []ProbeAlone
<1>1. IInv => ProbeAlone
  BY DEF IInv, ProbeFirst, NobodyYet, ProbeAlone
<1> QED
  BY <1>1, Inductive, PTL

\* cleanup() names every object of a run that ended and whose absence it could
\* not prove.
THEOREM LeftoversAreNamed == Spec => []LeftoversNamed
<1>1. IInv => LeftoversNamed
  BY DEF IInv, Booked, Pending, LeftoversNamed
<1> QED
  BY <1>1, Inductive, PTL

\* _raise_alarm and kill_builder stop a builder that the runner waits for.
THEOREM AlarmStops == Spec => []AlarmStopsBuilder
<1>1. IInv => AlarmStopsBuilder
  BY DEF IInv
<1> QED
  BY <1>1, Inductive, PTL

\* BUILD_STATUS=exited stands for a proxy that served the build to its END, also
\* for the lines that the reader had not read when the status was decided.
THEOREM ExitedIsServed == Spec => []ExitedMeansServed
<1>1. IInv => ExitedMeansServed
  BY DEF IInv
<1> QED
  BY <1>1, Inductive, PTL

\* No change set is written beside a credential that the proxy announced, unless
\* it announced a refresh attempt before.
THEOREM ExposureIsWithheld == Spec => []ExposureWithheld
<1>1. IInv => ExposureWithheld
  BY DEF IInv
<1> QED
  BY <1>1, Inductive, PTL
=============================================================================
