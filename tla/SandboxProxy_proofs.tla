------------------------- MODULE SandboxProxy_proofs --------------------------
(***************************************************************************)
(* Proofs about SandboxProxy, for any number of connections and any caps.  *)
(*                                                                         *)
(* Three facts make the caps and the stop inductive.  A chunk that was     *)
(* charged and not sent yet is paid for twice: the workers at `relay' have *)
(* to be counted with what was sent.  The number of slots in use is the    *)
(* number of workers between admission and record, which is why a way out  *)
(* that frees a slot twice would show.  And once the proxy has stopped no  *)
(* upstream socket is open: stop closes them all and nothing opens one     *)
(* later, so that a charged chunk finds nothing to be sent on.             *)
(***************************************************************************)
EXTENDS SandboxProxy, FiniteSetTheorems, TLAPS

Serving  == {w \in Workers : Served(w)}
Relaying == {w \in Workers : wpc[w] = "relay"}

\* A worker that was charged for a chunk has room to count it.
RelayRoom  == \A w \in Workers : wpc[w] = "relay" => chunks[w] < MaxChunks
CapsKept   == \A k \in DOMAIN counts : counts[k] <= Caps[k]
PaidTwice  == 2 * upstream + 2 * Cardinality(Relaying) <= counts["bytes_up"]
SlotsExact == active = Cardinality(Serving) /\ active <= Caps["concurrent"]
NoUpstream == stopped => \A w \in Workers : <<"up", w>> \notin open

IInv == TypeOK /\ RelayRoom /\ CapsKept /\ PaidTwice /\ SlotsExact /\ NoUpstream

-----------------------------------------------------------------------------
(* Workers *)

\* What one worker's step does to the places of all.
LEMMA WorkerMoves ==
  ASSUME TypeOK, NEW w \in Workers, NEW from, NEW to \in WorkerAt, WorkerGoes(w, from, to)
  PROVE  /\ wpc[w] = from /\ wpc'[w] = to
         /\ wpc' \in [Workers -> WorkerAt]
         /\ \A v \in Workers : v # w => wpc'[v] = wpc[v]
  BY DEF TypeOK, WorkerGoes

\* Both sets of workers are finite, and empty when every worker is done.
LEMMA SetsFinite ==
  /\ IsFiniteSet(Serving) /\ Cardinality(Serving) \in Nat
  /\ IsFiniteSet(Relaying) /\ Cardinality(Relaying) \in Nat
<1>1. Serving \subseteq Workers /\ Relaying \subseteq Workers
  BY DEF Serving, Relaying
<1> QED
  BY <1>1, WorkersAssumption, FS_Subset, FS_CardinalityType

\* A step that neither enters nor leaves what counts as served.
LEMMA ServingStays ==
  ASSUME TypeOK, NEW w \in Workers, NEW from, NEW to \in WorkerAt, WorkerGoes(w, from, to),
         from \in {"free", "accepted", "done"} <=> to \in {"free", "accepted", "done"}
  PROVE  Serving' = Serving
  BY WorkerMoves DEF Serving, Served

\* Admission adds one worker.
LEMMA ServingGrows ==
  ASSUME TypeOK, NEW w \in Workers, WorkerGoes(w, "accepted", "charge")
  PROVE  Cardinality(Serving') = Cardinality(Serving) + 1
<1>1. Serving' = Serving \cup {w} /\ w \notin Serving
  BY WorkerMoves DEF Serving, Served, WorkerAt
<1> QED
  BY <1>1, SetsFinite, FS_AddElement

\* The record is the last step of one that is served.
LEMMA ServingShrinks ==
  ASSUME TypeOK, NEW w \in Workers, WorkerGoes(w, "record", "done")
  PROVE  Cardinality(Serving') = Cardinality(Serving) - 1
<1>1. Serving' = Serving \ {w} /\ w \in Serving
  BY WorkerMoves DEF Serving, Served, WorkerAt
<1> QED
  BY <1>1, SetsFinite, FS_RemoveElement

\* The same for the workers that hold a charged chunk.
LEMMA RelayingStays ==
  ASSUME TypeOK, NEW w \in Workers, NEW from, NEW to \in WorkerAt, WorkerGoes(w, from, to),
         from # "relay", to # "relay"
  PROVE  Relaying' = Relaying
  BY WorkerMoves DEF Relaying

\* A charge of a chunk adds one.
LEMMA RelayingGrows ==
  ASSUME TypeOK, NEW w \in Workers, WorkerGoes(w, "send", "relay")
  PROVE  Cardinality(Relaying') = Cardinality(Relaying) + 1
<1>1. Relaying' = Relaying \cup {w} /\ w \notin Relaying
  BY WorkerMoves DEF Relaying, WorkerAt
<1> QED
  BY <1>1, SetsFinite, FS_AddElement

\* Its sending, or its failure, removes one.
LEMMA RelayingShrinks ==
  ASSUME TypeOK, NEW w \in Workers, NEW to \in WorkerAt, to # "relay", WorkerGoes(w, "relay", to)
  PROVE  Cardinality(Relaying') = Cardinality(Relaying) - 1
<1>1. Relaying' = Relaying \ {w} /\ w \in Relaying
  BY WorkerMoves DEF Relaying
<1> QED
  BY <1>1, SetsFinite, FS_RemoveElement

\* When no worker is left, neither set has a member.
LEMMA NobodyServed ==
  ASSUME wpc' = [w \in Workers |-> "done"]
  PROVE  Cardinality(Serving') = 0 /\ Cardinality(Relaying') = 0
<1>1. Serving' = {} /\ Relaying' = {}
  BY DEF Serving, Relaying, Served
<1> QED
  BY <1>1, FS_EmptySet

-----------------------------------------------------------------------------
(* The kinds of steps *)

Between == WorkerAt \ {"free", "accepted", "done"}

\* The steps of a connection that has its slot and keeps it.
Middle(w) ==
  \/ ChargeConnection(w) \/ ReadConnect(w) \/ EmitEvent(w) \/ HaltOnEvent(w)
  \/ Handshake(w) \/ Classify(w) \/ OpenUpstream(w) \/ ChargeChunk(w) \/ SendChunk(w)
  \/ Respond(w) \/ \E line \in {"credential", "abort"} : Abort(w, line)

\* A step in the middle of a connection keeps its worker among the served.
LEMMA MiddleMoves ==
  ASSUME NEW w \in Workers, Middle(w)
  PROVE  active' = active /\ \E from, to \in Between : WorkerGoes(w, from, to)
<1>1. CASE ChargeConnection(w) BY <1>1 DEF ChargeConnection, Fails, Quiet, Between, WorkerAt
<1>2. CASE ReadConnect(w) BY <1>2 DEF ReadConnect, Fails, Quiet, Between, WorkerAt
<1>3. CASE EmitEvent(w) \/ HaltOnEvent(w)
  BY <1>3 DEF EmitEvent, HaltOnEvent, charges, Between, WorkerAt
<1>4. CASE Handshake(w) BY <1>4 DEF Handshake, Fails, Quiet, Between, WorkerAt
<1>5. CASE Classify(w) \/ OpenUpstream(w)
  BY <1>5 DEF Classify, OpenUpstream, Fails, Quiet, Between, WorkerAt
<1>6. CASE ChargeChunk(w) BY <1>6 DEF ChargeChunk, Fails, Quiet, Between, WorkerAt
<1>7. CASE SendChunk(w) BY <1>7 DEF SendChunk, Fails, Quiet, Between, WorkerAt
<1>8. CASE Respond(w) BY <1>8 DEF Respond, Fails, Quiet, Between, WorkerAt
<1>9. CASE \E line \in {"credential", "abort"} : Abort(w, line)
  BY <1>9 DEF Abort, charges, Between, WorkerAt
<1> QED
  BY <1>1, <1>2, <1>3, <1>4, <1>5, <1>6, <1>7, <1>8, <1>9 DEF Middle

\* A step of the control side: no worker moves and nothing is charged.
ControlStep ==
  \/ \E m \in Messages : Receive(m)
  \/ BootFails \/ Boot \/ Announce \/ Poll \/ SeesStop
  \/ Return \/ FinallyStop \/ Joined \/ End \/ Deadline

\* The control side leaves the workers and the charges alone.
LEMMA ControlLeaves ==
  ASSUME ControlStep
  PROVE  UNCHANGED <<counts, active, wpc, chunks, upstream>>
  BY DEF ControlStep, Receive, BootFails, Boot, Announce, Poll, SeesStop, Return, FinallyStop,
     Joined, End, Deadline, charges

\* Every step is of one of these kinds.
LEMMA StepKinds ==
  ASSUME Next
  PROVE  \/ ControlStep
         \/ Vanish
         \/ \E w \in Workers : Accept(w) \/ Admit(w) \/ Middle(w) \/ Record(w)
  BY DEF Next, Main, Exit, Die, Serve, Middle, ControlStep

-----------------------------------------------------------------------------
(* Slots *)

\* Admission takes a slot, the record gives it back, no other step moves either side.
LEMMA SlotsStep ==
  ASSUME TypeOK, SlotsExact, [Next]_vars
  PROVE  SlotsExact'
<1>0. active \in Nat /\ Cardinality(Serving) = active
  BY DEF SlotsExact, TypeOK
<1>1. CASE UNCHANGED <<wpc, active>>
  BY <1>1 DEF SlotsExact, Serving, Served
<1>2. CASE Vanish
  BY <1>2, NobodyServed, CapsAssumption DEF SlotsExact, Vanish
<1>3. ASSUME NEW w \in Workers, Accept(w) PROVE SlotsExact'
  <2>1. active' = active /\ WorkerGoes(w, "free", "accepted")
    BY <1>3 DEF Accept, charges
  <2> QED
    BY <2>1, ServingStays DEF SlotsExact, WorkerAt
<1>4. ASSUME NEW w \in Workers, Admit(w) PROVE SlotsExact'
  <2>1. CASE WorkerGoes(w, "accepted", "charge") /\ active < Caps["concurrent"] /\ active' = active + 1
    BY <1>0, <2>1, ServingGrows, CapsAssumption DEF SlotsExact
  <2>2. CASE WorkerGoes(w, "accepted", "done") /\ active' = active
    BY <2>2, ServingStays DEF SlotsExact, WorkerAt
  <2> QED
    BY <1>4, <2>1, <2>2 DEF Admit
<1>5. ASSUME NEW w \in Workers, Middle(w) PROVE SlotsExact'
  <2>1. PICK from \in Between, to \in Between : WorkerGoes(w, from, to)
    BY <1>5, MiddleMoves
  <2>2. Serving' = Serving
    BY <2>1, ServingStays DEF Between
  <2> QED
    BY <2>2, <1>5, MiddleMoves DEF SlotsExact
<1>6. ASSUME NEW w \in Workers, Record(w) PROVE SlotsExact'
  <2>1. WorkerGoes(w, "record", "done") /\ active' = active - 1
    BY <1>6 DEF Record
  <2> QED
    BY <1>0, <2>1, ServingShrinks, CapsAssumption DEF SlotsExact
<1> QED
  BY <1>1, <1>2, <1>3, <1>4, <1>5, <1>6, StepKinds, ControlLeaves DEF vars, charges

\* The number of slots in use stays a natural number.
LEMMA ActiveTyped ==
  ASSUME SlotsExact'
  PROVE  active' \in Nat
<1>1. Serving' \subseteq Workers
  BY DEF Serving
<1> QED
  BY <1>1, WorkersAssumption, FS_Subset, FS_CardinalityType DEF SlotsExact

-----------------------------------------------------------------------------
(* Types *)

\* What stop, a charge and a line of output leave behind.
LEMMA StopTyped ==
  ASSUME TypeOK, Stop
  PROVE  stopped' \in BOOLEAN /\ open' \in SUBSET Sockets
  BY DEF TypeOK, Stop

LEMMA ChargeTyped ==
  ASSUME TypeOK, NEW k \in {"requests", "bytes_up", "bytes_down"}, NEW n \in Nat, Charge(k, n)
  PROVE  counts' \in [{"requests", "bytes_up", "bytes_down"} -> Nat]
  BY DEF TypeOK, Charge

LEMMA EmitTyped ==
  ASSUME TypeOK, NEW line \in {"ready", "event", "credential", "abort", "record", "end"}, Emit(line)
  PROVE  out' \in Seq({"ready", "event", "credential", "abort", "record", "end"})
  BY DEF TypeOK, Emit

\* What every variable but the number of slots may become.
Rest ==
  /\ out \in Seq({"ready", "event", "credential", "abort", "record", "end"})
  /\ stopped \in BOOLEAN
  /\ open \in SUBSET Sockets
  /\ counts \in [{"requests", "bytes_up", "bytes_down"} -> Nat]
  /\ token \in BOOLEAN
  /\ exitcode \in {0, 5}
  /\ inbox \in Seq(Messages)
  /\ sent \in 0..MaxMessages
  /\ mpc \in MainAt
  /\ returned \in {0, 2, 5, 137}
  /\ wpc \in [Workers -> WorkerAt]
  /\ chunks \in [Workers -> 0..MaxChunks]
  /\ upstream \in Nat

\* The control side keeps the types.
LEMMA ControlTypes ==
  ASSUME TypeOK, ControlStep
  PROVE  Rest'
<1> USE DEF TypeOK, Rest
<1>0. UNCHANGED <<counts, wpc, chunks, upstream>>
  BY ControlLeaves
<1>1. CASE \E m \in Messages : Receive(m)
  BY <1>0, <1>1, BoundsAssumption DEF Receive, proxy, main
<1>2. CASE BootFails
  BY <1>0, <1>2, EmitTyped DEF BootFails, MainGoes, MainAt, proxy, control
<1>3. CASE Boot \/ SeesStop \/ Joined
  <2>1. mpc' \in MainAt /\ UNCHANGED <<out, proxy, control, returned>>
    BY <1>3 DEF Boot, SeesStop, Joined, MainGoes, MainAt
  <2> QED
    BY <1>0, <2>1 DEF proxy, control
<1>4. CASE Announce \/ End
  <2>1. mpc' \in MainAt /\ UNCHANGED <<proxy, control, returned>>
    BY <1>4 DEF Announce, End, MainGoes, MainAt
  <2>2. out' \in Seq({"ready", "event", "credential", "abort", "record", "end"})
    BY <1>4, EmitTyped DEF Announce, End
  <2> QED
    BY <1>0, <2>1, <2>2 DEF proxy, control
<1>5. CASE Poll
  <2>1. inbox' \in Seq(Messages) /\ sent' = sent
    BY <1>5 DEF Poll
  <2>2. CASE GiveUp
    BY <1>0, <2>1, <2>2, EmitTyped DEF GiveUp, MainAt, proxy
  <2>3. CASE Stop /\ mpc' = "return" /\ UNCHANGED <<out, token, exitcode, returned>>
    BY <1>0, <2>1, <2>3, StopTyped DEF MainAt
  <2>4. CASE token' = TRUE /\ mpc' = "loop" /\ UNCHANGED <<out, proxy, returned>>
    BY <1>0, <2>1, <2>4 DEF MainAt, proxy
  <2> QED
    BY <1>5, <2>2, <2>3, <2>4 DEF Poll, Handle
<1>6. CASE Return
  BY <1>0, <1>6 DEF Return, MainGoes, MainAt, proxy, control
<1>7. CASE FinallyStop
  BY <1>0, <1>7, StopTyped DEF FinallyStop, MainGoes, MainAt, control
<1>8. CASE Deadline
  BY <1>0, <1>8, StopTyped DEF Deadline, main, control
<1> QED
  BY <1>1, <1>2, <1>3, <1>4, <1>5, <1>6, <1>7, <1>8 DEF ControlStep

\* So does a connection that has its slot; RelayRoom bounds what it counts.
LEMMA MiddleTypes ==
  ASSUME TypeOK, RelayRoom, NEW w \in Workers, Middle(w)
  PROVE  Rest'
<1> USE DEF TypeOK, Rest
<1>0. wpc' \in [Workers -> WorkerAt]
  BY MiddleMoves, WorkerMoves DEF Between
<1>1. CASE ChargeConnection(w) \/ Handshake(w) \/ ChargeChunk(w) \/ Respond(w)
  <2>1. Quiet /\ UNCHANGED <<open, chunks, upstream>>
    BY <1>1 DEF ChargeConnection, Handshake, ChargeChunk, Respond, Fails
  <2>2. counts' = counts \/ \E k \in {"requests", "bytes_up", "bytes_down"}, n \in Nat : Charge(k, n)
    BY <1>1 DEF ChargeConnection, Handshake, ChargeChunk, Respond, Fails
  <2>3. counts' \in [{"requests", "bytes_up", "bytes_down"} -> Nat]
    BY <2>2, ChargeTyped
  <2> QED
    BY <1>0, <2>1, <2>3 DEF Quiet, control, main
<1>2. CASE ReadConnect(w) \/ Classify(w)
  <2>1. Quiet /\ UNCHANGED <<open, counts, chunks, upstream>>
    BY <1>2 DEF ReadConnect, Classify, Fails
  <2> QED
    BY <1>0, <2>1 DEF Quiet, control, main
<1>3. CASE EmitEvent(w)
  BY <1>0, <1>3, EmitTyped DEF EmitEvent, proxy, charges, control, main
<1>4. CASE HaltOnEvent(w)
  BY <1>0, <1>4, StopTyped DEF HaltOnEvent, charges, control, main
<1>5. CASE OpenUpstream(w)
  BY <1>0, <1>5 DEF OpenUpstream, Fails, Quiet, control, main, Sockets
<1>6. CASE SendChunk(w)
  <2>1. CASE chunks' = [chunks EXCEPT ![w] = @ + 1] /\ wpc[w] = "relay"
    <3>1. chunks[w] + 1 \in 0..MaxChunks
      BY <2>1, BoundsAssumption DEF RelayRoom
    <3> QED
      BY <1>0, <1>6, <2>1, <3>1 DEF SendChunk, Fails, Quiet, control, main
  <2>2. CASE UNCHANGED <<chunks, upstream>>
    BY <1>0, <1>6, <2>2 DEF SendChunk, Fails, Quiet, control, main
  <2> QED
    BY <1>6, <2>1, <2>2 DEF SendChunk, Fails, WorkerGoes
<1>7. CASE \E line \in {"credential", "abort"} : Abort(w, line)
  <2>1. PICK line \in {"credential", "abort"} : Abort(w, line)
    BY <1>7
  <2>2. stopped' \in BOOLEAN /\ open' \in SUBSET Sockets
    BY <2>1, StopTyped DEF Abort
  <2>3. out' \in Seq({"ready", "event", "credential", "abort", "record", "end"}) /\ exitcode' \in {0, 5}
    BY <2>1, EmitTyped DEF Abort
  <2> QED
    BY <1>0, <2>1, <2>2, <2>3 DEF Abort, charges, control, main
<1> QED
  BY <1>1, <1>2, <1>3, <1>4, <1>5, <1>6, <1>7 DEF Middle

\* So does every step.
LEMMA TypeStep ==
  ASSUME TypeOK, RelayRoom, SlotsExact, [Next]_vars
  PROVE  TypeOK'
<1>0. active' \in Nat
  BY SlotsStep, ActiveTyped
<1> SUFFICES Rest'
  BY <1>0 DEF TypeOK, Rest
<1> USE DEF TypeOK, Rest
<1>1. CASE UNCHANGED vars
  BY <1>1 DEF vars, proxy, charges, control, main
<1>2. CASE ControlStep
  BY <1>2, ControlTypes
<1>3. CASE Vanish /\ (Exit \/ Die)
  BY <1>3, BoundsAssumption DEF Vanish, Exit, Die, MainAt, WorkerAt
<1>4. ASSUME NEW w \in Workers, Accept(w) \/ Admit(w) PROVE Rest'
  <2>1. wpc' \in [Workers -> WorkerAt]
    BY <1>4, WorkerMoves DEF Accept, Admit, WorkerAt
  <2>2. open' \in SUBSET Sockets
    BY <1>4 DEF Accept, Admit, proxy, Sockets
  <2>3. UNCHANGED <<out, stopped, exitcode, counts, control, main, chunks, upstream>>
    BY <1>4 DEF Accept, Admit, proxy, charges
  <2> QED
    BY <2>1, <2>2, <2>3 DEF control, main
<1>5. ASSUME NEW w \in Workers, Middle(w) PROVE Rest'
  BY <1>5, MiddleTypes
<1>6. ASSUME NEW w \in Workers, Record(w) PROVE Rest'
  <2>1. wpc' \in [Workers -> WorkerAt]
    BY <1>6, WorkerMoves DEF Record, WorkerAt
  <2>2. out' \in Seq({"ready", "event", "credential", "abort", "record", "end"})
    BY <1>6, EmitTyped DEF Record
  <2>3. stopped' \in BOOLEAN /\ exitcode' \in {0, 5} /\ open' \in SUBSET Sockets
    BY <1>6 DEF Record
  <2> QED
    BY <1>6, <2>1, <2>2, <2>3 DEF Record, control, main
<1>7. CASE Exit \/ Die
  BY <1>3, <1>7 DEF Exit, Die
<1> QED
  BY <1>1, <1>2, <1>4, <1>5, <1>6, <1>7 DEF Next, Main, Serve, Middle, ControlStep

-----------------------------------------------------------------------------
(* Charges *)

\* A charge that was allowed stays under its cap and leaves the others alone.
LEMMA ChargeKeeps ==
  ASSUME TypeOK, CapsKept, NEW k \in {"requests", "bytes_up", "bytes_down"}, NEW n \in Nat,
         CanCharge(k, n), Charge(k, n)
  PROVE  /\ CapsKept'
         /\ counts'[k] = counts[k] + n
         /\ \A j \in {"requests", "bytes_up", "bytes_down"} : j # k => counts'[j] = counts[j]
  BY CapsAssumption DEF TypeOK, CapsKept, CanCharge, Charge

\* How a step of a connection may move the counters and what was sent.
LEMMA MiddleCharges ==
  ASSUME TypeOK, CapsKept, PaidTwice, RelayRoom, NEW w \in Workers, Middle(w)
  PROVE  CapsKept' /\ PaidTwice' /\ RelayRoom'
<1>0. /\ counts \in [{"requests", "bytes_up", "bytes_down"} -> Nat] /\ upstream \in Nat
      /\ Cardinality(Relaying) \in Nat
  BY SetsFinite DEF TypeOK
<1>1. ASSUME NEW from \in WorkerAt, NEW to \in WorkerAt, WorkerGoes(w, from, to),
             from # "relay", to # "relay", UNCHANGED chunks
      PROVE  RelayRoom' /\ Relaying' = Relaying
  BY <1>1, WorkerMoves, RelayingStays DEF RelayRoom
<1>2. CASE ChargeConnection(w) \/ Handshake(w) \/ Respond(w)
  <2>1. RelayRoom' /\ Relaying' = Relaying
    BY <1>1, <1>2 DEF ChargeConnection, Handshake, Respond, Fails, WorkerAt
  <2>2. CapsKept' /\ counts'["bytes_up"] = counts["bytes_up"] /\ upstream' = upstream
    <3>1. CASE UNCHANGED <<counts, upstream>>
      BY <3>1 DEF CapsKept
    <3>2. CASE CanCharge("requests", 1) /\ Charge("requests", 1) /\ UNCHANGED upstream
      BY <3>2, ChargeKeeps
    <3>3. CASE CanCharge("bytes_down", 1) /\ Charge("bytes_down", 1) /\ UNCHANGED upstream
      BY <3>3, ChargeKeeps
    <3> QED
      BY <1>2, <3>1, <3>2, <3>3 DEF ChargeConnection, Handshake, Respond, Fails
  <2> QED
    BY <2>1, <2>2 DEF PaidTwice
<1>3. CASE ChargeChunk(w)
  <2>1. CASE /\ CanCharge("bytes_up", 2) /\ Charge("bytes_up", 2)
             /\ chunks[w] < MaxChunks /\ WorkerGoes(w, "send", "relay")
             /\ UNCHANGED <<chunks, upstream>>
    <3>1. CapsKept' /\ counts'["bytes_up"] = counts["bytes_up"] + 2
      BY <2>1, ChargeKeeps
    <3>2. Cardinality(Relaying') = Cardinality(Relaying) + 1
      BY <2>1, RelayingGrows
    <3>3. RelayRoom'
      BY <2>1, WorkerMoves DEF RelayRoom, WorkerAt
    <3> QED
      BY <1>0, <2>1, <3>1, <3>2, <3>3 DEF PaidTwice
  <2>2. CASE Fails(w, "send")
    BY <1>1, <2>2 DEF Fails, PaidTwice, CapsKept, WorkerAt
  <2> QED
    BY <1>3, <2>1, <2>2 DEF ChargeChunk
<1>4. CASE SendChunk(w)
  <2>1. PICK to \in WorkerAt \ {"relay"} : WorkerGoes(w, "relay", to)
    BY <1>4 DEF SendChunk, Fails, WorkerAt
  <2>2. Cardinality(Relaying') = Cardinality(Relaying) - 1
    BY <2>1, RelayingShrinks
  <2>3. counts' = counts /\ upstream' \in {upstream, upstream + 1}
    BY <1>4 DEF SendChunk, Fails
  <2>4. \A v \in Workers : v # w => chunks'[v] = chunks[v]
    BY <1>4 DEF SendChunk, Fails, TypeOK
  <2>5. RelayRoom'
    BY <2>1, <2>4, WorkerMoves DEF RelayRoom
  <2> QED
    BY <1>0, <2>2, <2>3, <2>5 DEF PaidTwice, CapsKept
<1>5. CASE \/ ReadConnect(w) \/ EmitEvent(w) \/ HaltOnEvent(w) \/ Classify(w) \/ OpenUpstream(w)
           \/ \E line \in {"credential", "abort"} : Abort(w, line)
  <2>1. UNCHANGED <<counts, chunks, upstream>>
    BY <1>5 DEF ReadConnect, EmitEvent, HaltOnEvent, Classify, OpenUpstream, Abort, Fails, charges
  <2>2. RelayRoom' /\ Relaying' = Relaying
    BY <1>1, <1>5, <2>1
       DEF ReadConnect, EmitEvent, HaltOnEvent, Classify, OpenUpstream, Abort, Fails, WorkerAt
  <2> QED
    BY <2>1, <2>2 DEF PaidTwice, CapsKept
<1> QED
  BY <1>2, <1>3, <1>4, <1>5 DEF Middle

\* Every step keeps the caps, pays for what is sent and leaves room to count it.
LEMMA ChargesStep ==
  ASSUME TypeOK, CapsKept, PaidTwice, RelayRoom, [Next]_vars
  PROVE  CapsKept' /\ PaidTwice' /\ RelayRoom'
<1>0. /\ counts \in [{"requests", "bytes_up", "bytes_down"} -> Nat] /\ upstream \in Nat
      /\ Cardinality(Relaying) \in Nat
  BY SetsFinite DEF TypeOK
<1>1. CASE UNCHANGED <<counts, wpc, chunks, upstream>>
  BY <1>1 DEF CapsKept, PaidTwice, RelayRoom, Relaying
<1>2. CASE Vanish
  <2>1. Cardinality(Relaying') = 0
    BY <1>2, NobodyServed DEF Vanish
  <2> QED
    BY <1>0, <1>2, <2>1 DEF Vanish, CapsKept, PaidTwice, RelayRoom
<1>3. ASSUME NEW w \in Workers, Accept(w) \/ Admit(w) \/ Record(w)
      PROVE  CapsKept' /\ PaidTwice' /\ RelayRoom'
  <2>1. UNCHANGED <<counts, chunks, upstream>>
    BY <1>3 DEF Accept, Admit, Record, charges
  <2>2. PICK from \in WorkerAt \ {"relay"}, to \in WorkerAt \ {"relay"} : WorkerGoes(w, from, to)
    BY <1>3 DEF Accept, Admit, Record, WorkerAt
  <2>3. Relaying' = Relaying
    BY <2>2, RelayingStays
  <2>4. RelayRoom'
    BY <2>1, <2>2, WorkerMoves DEF RelayRoom
  <2> QED
    BY <2>1, <2>3, <2>4 DEF CapsKept, PaidTwice
<1>4. ASSUME NEW w \in Workers, Middle(w) PROVE CapsKept' /\ PaidTwice' /\ RelayRoom'
  BY <1>4, MiddleCharges
<1> QED
  BY <1>1, <1>2, <1>3, <1>4, StepKinds, ControlLeaves DEF vars, charges

-----------------------------------------------------------------------------
(* Stop *)

\* Stop closes every socket, once.
LEMMA StopCloses ==
  ASSUME NoUpstream, Stop
  PROVE  NoUpstream'
  BY DEF NoUpstream, Stop

\* A stopped proxy opens no upstream socket, and a step that stops it closes all.
LEMMA UpstreamStep ==
  ASSUME TypeOK, NoUpstream, [Next]_vars
  PROVE  NoUpstream'
<1>1. CASE UNCHANGED <<stopped, open>>
  BY <1>1 DEF NoUpstream
<1>2. CASE ControlStep
  <2>1. Stop \/ UNCHANGED <<stopped, open>>
    BY <1>2 DEF ControlStep, Receive, BootFails, Boot, Announce, Poll, Handle, GiveUp, SeesStop,
       Return, FinallyStop, Joined, End, Deadline, proxy
  <2> QED
    BY <1>1, <2>1, StopCloses
<1>3. CASE Vanish
  BY <1>3 DEF Vanish, NoUpstream
<1>4. ASSUME NEW w \in Workers, Accept(w) \/ Admit(w) PROVE NoUpstream'
  <2>1. \A v \in Workers : <<"up", v>> # <<"down", w>>
    OBVIOUS
  <2>2. stopped' = stopped /\ open' \subseteq open \cup {<<"down", w>>}
    BY <1>4 DEF Accept, Admit, proxy
  <2> QED
    BY <2>1, <2>2 DEF NoUpstream
<1>5. ASSUME NEW w \in Workers, Middle(w) PROVE NoUpstream'
  <2>1. CASE OpenUpstream(w)
    BY <2>1 DEF OpenUpstream, Fails, Quiet, NoUpstream
  <2>2. CASE HaltOnEvent(w) \/ \E line \in {"credential", "abort"} : Abort(w, line)
    BY <2>2, StopCloses DEF HaltOnEvent, Abort
  <2>3. CASE \/ ChargeConnection(w) \/ ReadConnect(w) \/ EmitEvent(w) \/ Handshake(w)
             \/ Classify(w) \/ ChargeChunk(w) \/ SendChunk(w) \/ Respond(w)
    BY <1>1, <2>3 DEF ChargeConnection, ReadConnect, EmitEvent, Handshake, Classify, ChargeChunk,
       SendChunk, Respond, Fails, Quiet, proxy
  <2> QED
    BY <1>5, <2>1, <2>2, <2>3 DEF Middle
<1>6. ASSUME NEW w \in Workers, Record(w) PROVE NoUpstream'
  BY <1>6 DEF Record, NoUpstream
<1> QED
  BY <1>1, <1>2, <1>3, <1>4, <1>5, <1>6, StepKinds DEF vars, proxy

\* What the endpoint has received grows only through an open upstream socket.
LEMMA SendsUpstream ==
  ASSUME [Next]_vars, upstream' # upstream
  PROVE  \E w \in Workers : <<"up", w>> \in open
<1>1. PICK w \in Workers : Accept(w) \/ Admit(w) \/ Middle(w) \/ Record(w)
  BY StepKinds, ControlLeaves DEF Vanish, vars
<1>2. SendChunk(w)
  BY <1>1 DEF Accept, Admit, Record, Middle, ChargeConnection, ReadConnect, EmitEvent, HaltOnEvent,
     Handshake, Classify, OpenUpstream, ChargeChunk, Respond, Abort, Fails, Quiet
<1> QED
  BY <1>2 DEF SendChunk, Fails

-----------------------------------------------------------------------------
(* The invariant *)

\* It holds at the start,
LEMMA InitInv ==
  ASSUME Init
  PROVE  IInv
<1>1. Serving = {} /\ Relaying = {}
  BY DEF Init, Serving, Relaying, Served
<1>2. Cardinality(Serving) = 0 /\ Cardinality(Relaying) = 0
  BY <1>1, FS_EmptySet
<1>3. TypeOK
  <2>1. /\ out \in Seq({"ready", "event", "credential", "abort", "record", "end"})
        /\ inbox \in Seq(Messages) /\ open \in SUBSET Sockets
    BY DEF Init
  <2>2. /\ counts \in [{"requests", "bytes_up", "bytes_down"} -> Nat]
        /\ wpc \in [Workers -> WorkerAt] /\ chunks \in [Workers -> 0..MaxChunks]
    BY BoundsAssumption DEF Init, WorkerAt
  <2>3. sent \in 0..MaxMessages /\ active \in Nat /\ upstream \in Nat
    BY BoundsAssumption DEF Init
  <2>4. /\ stopped \in BOOLEAN /\ token \in BOOLEAN /\ exitcode \in {0, 5}
        /\ mpc \in MainAt /\ returned \in {0, 2, 5, 137}
    BY DEF Init, MainAt
  <2> QED
    BY <2>1, <2>2, <2>3, <2>4 DEF TypeOK
<1>4. RelayRoom /\ CapsKept /\ NoUpstream
  BY CapsAssumption DEF Init, RelayRoom, CapsKept, NoUpstream
<1>5. PaidTwice /\ SlotsExact
  BY <1>2, CapsAssumption DEF Init, PaidTwice, SlotsExact
<1> QED
  BY <1>3, <1>4, <1>5 DEF IInv

\* every step keeps it,
LEMMA NextInv ==
  ASSUME IInv, [Next]_vars
  PROVE  IInv'
<1>1. TypeOK /\ RelayRoom /\ CapsKept /\ PaidTwice /\ SlotsExact /\ NoUpstream
  BY DEF IInv
<1>2. TypeOK' /\ SlotsExact' /\ NoUpstream'
  BY <1>1, TypeStep, SlotsStep, UpstreamStep
<1>3. CapsKept' /\ PaidTwice' /\ RelayRoom'
  BY <1>1, ChargesStep
<1> QED
  BY <1>2, <1>3 DEF IInv

\* and so it always holds.
LEMMA Invariance == Spec => []IInv
<1>1. Init => IInv
  BY InitInv
<1>2. IInv /\ [Next]_vars => IInv'
  BY NextInv
<1> QED
  BY <1>1, <1>2, PTL DEF Spec

\* Every variable keeps its type, whatever the workers, the runner and the
\* timer do and in whichever order.
THEOREM TypeCorrect == Spec => []TypeOK
<1>1. IInv => TypeOK
  BY DEF IInv
<1> QED
  BY <1>1, Invariance, PTL

\* Every cap holds for any number of connections and any caps: what was charged
\* stays under its cap, what reached the endpoint was charged twice before, and
\* the slots in use are the connections being served (_charge, _handle).
THEOREM CapsAreKept == Spec => []CapsHold
<1>1. ASSUME IInv PROVE CapsHold
  <2>1. /\ counts["bytes_up"] \in Nat /\ upstream \in Nat /\ Cardinality(Relaying) \in Nat
    BY <1>1, SetsFinite DEF IInv, TypeOK
  <2>2. 2 * upstream <= counts["bytes_up"]
    BY <1>1, <2>1 DEF IInv, PaidTwice
  <2> QED
    BY <1>1, <2>2 DEF IInv, CapsKept, SlotsExact, CapsHold, Serving
<1> QED
  BY <1>1, Invariance, PTL

\* Once the proxy has stopped nothing reaches the endpoint any more: not even the
\* chunk of a worker that had charged it before the stop (stop, _forward).
THEOREM StopHolds == Spec => NothingAfterStop
<1>1. ASSUME IInv, [Next]_vars PROVE stopped => upstream' = upstream
  BY <1>1, SendsUpstream DEF IInv, NoUpstream
<1>2. IInv /\ [Next]_vars => [stopped => upstream' = upstream]_vars
  BY <1>1
<1> QED
  BY <1>2, Invariance, PTL DEF Spec, NothingAfterStop

-----------------------------------------------------------------------------
(* The protocol: SandboxProxy implements ProxyLines *)

SilentAt   == WorkerAt \ {"halt", "record", "done"}
Silent     == {w \in Workers : wpc[w] \in SilentAt}
Unrecorded == {w \in Workers : wpc[w] # "done"}

\* The lines the main thread may still write.
MainLeft == CASE mpc \in {"boot", "announce"} -> 3
              [] mpc = "loop" -> 2
              [] mpc \in {"return", "stop", "join", "end"} -> 1
              [] OTHER -> 0

\* Every worker writes two lines at most, one of them its record.
LineRoom ==
  Len(out) + MainLeft + Cardinality(Silent) + Cardinality(Unrecorded) <= 3 + 2 * Cardinality(Workers)

Refusal == Lines!Said("credential") \/ Lines!Said("abort")

\* READY and END come from the main thread, once; serve() returns 0 only when
\* the proxy has stopped without a refusal and END is out.
Ordered ==
  /\ mpc \in {"boot", "announce"} => ~Lines!Said("ready")
  /\ mpc \notin {"exit", "gone"} => ~Lines!Said("end")
  /\ mpc \in {"return", "join", "end"} => stopped
  /\ mpc = "stop" \/ (mpc = "exit" /\ ~stopped) => returned # 0
  /\ mpc = "exit" /\ returned = 0 => Lines!Said("end")
  /\ Refusal /\ mpc \in {"boot", "announce", "loop", "return"} => exitcode = 5
  /\ Refusal /\ mpc \in {"join", "end", "exit"} => returned # 0

\* What a line adds to what was said.
LEMMA Adds ==
  ASSUME TypeOK, NEW line, Emit(line)
  PROVE  /\ Len(out') = Len(out) + 1
         /\ \A k : Lines!Said(k)' <=> Lines!Said(k) \/ k = line
<1>1. out \in Seq({"ready", "event", "credential", "abort", "record", "end"})
  BY DEF TypeOK
<1>2. Len(out') = Len(out) + 1 /\ DOMAIN out' = 1..Len(out) + 1 /\ DOMAIN out = 1..Len(out)
  BY <1>1 DEF Emit
<1>3. out'[Len(out) + 1] = line /\ \A n \in DOMAIN out : out'[n] = out[n]
  BY <1>1, <1>2 DEF Emit
<1>4. Len(out) \in Nat
  BY <1>1
<1> QED
  BY <1>2, <1>3, <1>4 DEF Lines!Said

LEMMA Nothing ==
  ASSUME UNCHANGED out
  PROVE  Len(out') = Len(out) /\ \A k : Lines!Said(k)' <=> Lines!Said(k)
  BY DEF Lines!Said

\* The workers that may still speak are finitely many.
LEMMA SpeakersFinite ==
  /\ IsFiniteSet(Silent) /\ Cardinality(Silent) \in Nat
  /\ IsFiniteSet(Unrecorded) /\ Cardinality(Unrecorded) \in Nat
  /\ Cardinality(Workers) \in Nat
<1>1. Silent \subseteq Workers /\ Unrecorded \subseteq Workers
  BY DEF Silent, Unrecorded
<1> QED
  BY <1>1, WorkersAssumption, FS_Subset, FS_CardinalityType

\* No worker becomes silent again, or unrecorded.
LEMMA SpeakersShrink ==
  ASSUME TypeOK, NEW w \in Workers, NEW from \in WorkerAt, NEW to \in WorkerAt,
         WorkerGoes(w, from, to), from # "done", to \in SilentAt => from \in SilentAt
  PROVE  /\ Cardinality(Silent') <= Cardinality(Silent)
         /\ Cardinality(Unrecorded') <= Cardinality(Unrecorded)
<1>1. Silent' \subseteq Silent /\ Unrecorded' \subseteq Unrecorded
  BY WorkerMoves DEF Silent, Unrecorded
<1> QED
  BY <1>1, SpeakersFinite, FS_Subset

\* One that has written its first line is silent no more.
LEMMA SilentShrinks ==
  ASSUME TypeOK, NEW w \in Workers, NEW from \in SilentAt, NEW to \in {"halt", "record"},
         WorkerGoes(w, from, to)
  PROVE  /\ Cardinality(Silent') = Cardinality(Silent) - 1
         /\ Cardinality(Unrecorded') <= Cardinality(Unrecorded)
<1>1. from \in WorkerAt /\ to \in WorkerAt /\ from # "done" /\ to \notin SilentAt
  BY DEF SilentAt, WorkerAt
<1>2. Silent' = Silent \ {w} /\ w \in Silent
  BY <1>1, WorkerMoves DEF Silent
<1> QED
  BY <1>1, <1>2, SpeakersShrink, SpeakersFinite, FS_RemoveElement

\* The record is the last line of a worker.
LEMMA UnrecordedShrinks ==
  ASSUME TypeOK, NEW w \in Workers, WorkerGoes(w, "record", "done")
  PROVE  /\ Cardinality(Unrecorded') = Cardinality(Unrecorded) - 1
         /\ Cardinality(Silent') <= Cardinality(Silent)
<1>1. Unrecorded' = Unrecorded \ {w} /\ w \in Unrecorded
  BY WorkerMoves DEF Unrecorded, WorkerAt
<1> QED
  BY <1>1, SpeakersShrink, SpeakersFinite, FS_RemoveElement DEF SilentAt, WorkerAt

\* What a connection does to the output and to the control side.
LEMMA MiddleSays ==
  ASSUME TypeOK, NEW w \in Workers, Middle(w)
  PROVE  \/ EmitEvent(w)
         \/ HaltOnEvent(w)
         \/ \E line \in {"credential", "abort"} : Abort(w, line)
         \/ /\ UNCHANGED <<out, stopped, exitcode, main>>
            /\ \E from \in SilentAt, to \in Between : WorkerGoes(w, from, to)
<1>1. CASE ChargeConnection(w) \/ ReadConnect(w) \/ Handshake(w) \/ Classify(w)
  BY <1>1 DEF ChargeConnection, ReadConnect, Handshake, Classify, Fails, Quiet, SilentAt, Between,
     WorkerAt
<1>2. CASE OpenUpstream(w) \/ ChargeChunk(w) \/ SendChunk(w)
  BY <1>2 DEF OpenUpstream, ChargeChunk, SendChunk, Fails, Quiet, SilentAt, Between, WorkerAt
<1>3. CASE Respond(w)
  BY <1>3 DEF Respond, Fails, Quiet, SilentAt, Between, WorkerAt
<1> QED
  BY <1>1, <1>2, <1>3 DEF Middle

\* The output never grows past the lines there is room for.
LEMMA LineRoomStep ==
  ASSUME TypeOK, LineRoom, [Next]_vars
  PROVE  LineRoom'
<1>0. /\ Len(out) \in Nat /\ MainLeft \in Nat /\ Cardinality(Silent) \in Nat
      /\ Cardinality(Unrecorded) \in Nat /\ Cardinality(Workers) \in Nat
      /\ Cardinality(Silent') \in Nat /\ Cardinality(Unrecorded') \in Nat
  <2>1. Silent' \subseteq Workers /\ Unrecorded' \subseteq Workers
    BY DEF Silent, Unrecorded
  <2>2. Cardinality(Silent') \in Nat /\ Cardinality(Unrecorded') \in Nat
    BY <2>1, WorkersAssumption, FS_Subset, FS_CardinalityType
  <2>3. Len(out) \in Nat /\ MainLeft \in Nat
    BY DEF TypeOK, MainLeft, MainAt
  <2> QED
    BY <2>2, <2>3, SpeakersFinite
<1>1. CASE UNCHANGED <<out, mpc, wpc>>
  BY <1>1 DEF LineRoom, MainLeft, Silent, Unrecorded
<1>2. CASE ControlStep
  <2>1. Silent' = Silent /\ Unrecorded' = Unrecorded
    BY <1>2, ControlLeaves DEF Silent, Unrecorded
  <2>2. \/ out' = out /\ MainLeft' <= MainLeft
        \/ (\E line : Emit(line)) /\ MainLeft' < MainLeft
    <3>1. CASE UNCHANGED <<out, mpc>>
      BY <3>1 DEF MainLeft
    <3>2. CASE BootFails \/ Boot \/ Announce
      BY <3>2 DEF BootFails, Boot, Announce, MainGoes, MainLeft
    <3>3. CASE Poll
      BY <3>3 DEF Poll, Handle, GiveUp, MainLeft, proxy
    <3>4. CASE SeesStop \/ Return \/ FinallyStop \/ Joined \/ End
      BY <3>4 DEF SeesStop, Return, FinallyStop, Joined, End, MainGoes, MainLeft
    <3> QED
      BY <1>2, <3>1, <3>2, <3>3, <3>4 DEF ControlStep, Receive, Deadline, main
  <2>3. MainLeft' \in Nat
    BY DEF MainLeft
  <2> QED
    BY SMTT(30), <1>0, <2>1, <2>2, <2>3, Adds DEF LineRoom
<1>3. CASE Vanish
  <2>1. Silent' = {} /\ Unrecorded' = {} /\ out' = out
    BY <1>3 DEF Vanish, Silent, Unrecorded, SilentAt
  <2>2. Cardinality(Silent') = 0 /\ Cardinality(Unrecorded') = 0
    BY <2>1, FS_EmptySet
  <2>3. MainLeft' = 0
    BY <1>3 DEF Vanish, MainLeft
  <2> QED
    BY <1>0, <2>1, <2>2, <2>3 DEF LineRoom
<1>4. ASSUME NEW w \in Workers, Accept(w) \/ Admit(w) PROVE LineRoom'
  <2>1. PICK from \in SilentAt, to \in WorkerAt : WorkerGoes(w, from, to)
    BY <1>4 DEF Accept, Admit, SilentAt, WorkerAt
  <2>2. UNCHANGED <<out, mpc>>
    BY <1>4 DEF Accept, Admit, main
  <2> QED
    BY SMTT(30), <1>0, <2>1, <2>2, SpeakersShrink DEF LineRoom, MainLeft, SilentAt
<1>5. ASSUME NEW w \in Workers, Middle(w) PROVE LineRoom'
  <2>1. mpc' = mpc /\ MainLeft' = MainLeft
    BY <1>5 DEF Middle, ChargeConnection, ReadConnect, EmitEvent, HaltOnEvent, Handshake, Classify,
       OpenUpstream, ChargeChunk, SendChunk, Respond, Abort, Quiet, main, MainLeft
  <2>2. CASE EmitEvent(w)
    <3>1. Len(out') = Len(out) + 1
      BY <2>2, Adds DEF EmitEvent
    <3>2. WorkerGoes(w, "event", "halt")
      BY <2>2 DEF EmitEvent
    <3>3. /\ Cardinality(Silent') = Cardinality(Silent) - 1
          /\ Cardinality(Unrecorded') <= Cardinality(Unrecorded)
      BY <3>2, SilentShrinks DEF SilentAt, WorkerAt
    <3> QED
      BY SMTT(30), <1>0, <2>1, <3>1, <3>3 DEF LineRoom
  <2>3. CASE HaltOnEvent(w)
    <3>1. WorkerGoes(w, "halt", "record") /\ out' = out
      BY <2>3 DEF HaltOnEvent
    <3> QED
      BY <1>0, <2>1, <3>1, SpeakersShrink DEF LineRoom, SilentAt, WorkerAt
  <2>4. CASE \E line \in {"credential", "abort"} : Abort(w, line)
    <3>1. WorkerGoes(w, "abort", "record") /\ Len(out') <= Len(out) + 1
      BY <1>0, <2>4, Adds DEF Abort
    <3>2. /\ Cardinality(Silent') = Cardinality(Silent) - 1
          /\ Cardinality(Unrecorded') <= Cardinality(Unrecorded)
      BY <3>1, SilentShrinks DEF SilentAt, WorkerAt
    <3>3. Len(out') \in Nat
      BY <1>0, <2>4, Adds DEF Abort
    <3> QED
      BY SMTT(30), <1>0, <2>1, <3>1, <3>2, <3>3 DEF LineRoom
  <2>5. CASE /\ UNCHANGED <<out, stopped, exitcode, main>>
             /\ \E from \in SilentAt, to \in Between : WorkerGoes(w, from, to)
    BY SMTT(30), <1>0, <2>1, <2>5, SpeakersShrink DEF LineRoom, SilentAt, Between
  <2> QED
    BY <1>5, <2>2, <2>3, <2>4, <2>5, MiddleSays
<1>6. ASSUME NEW w \in Workers, Record(w) PROVE LineRoom'
  <2>1. WorkerGoes(w, "record", "done") /\ MainLeft' = MainLeft
    BY <1>6 DEF Record, main, MainLeft
  <2>2. Len(out') \in Nat /\ Len(out') <= Len(out) + 1
    BY <1>0, <1>6, Adds DEF Record
  <2> QED
    BY SMTT(30), <1>0, <2>1, <2>2, UnrecordedShrinks DEF LineRoom
<1> QED
  BY <1>1, <1>2, <1>3, <1>4, <1>5, <1>6, StepKinds DEF vars, main

\* What a worker's step does to the protocol: nothing, its line, or a refusal of a
\* proxy that this very step stops.
LEMMA WorkerSays ==
  ASSUME TypeOK, NEW w \in Workers, Accept(w) \/ Admit(w) \/ Middle(w) \/ Record(w)
  PROVE  /\ Alive /\ UNCHANGED main
         /\ \/ UNCHANGED <<out, stopped, exitcode>>
            \/ /\ Emit("event") \/ Emit("record")
               /\ UNCHANGED <<stopped, exitcode>>
            \/ out' = out /\ stopped' = TRUE /\ exitcode' = 5
            \/ /\ Emit("credential") \/ Emit("abort")
               /\ ~stopped /\ stopped' = TRUE /\ exitcode' = 5
<1>0. Alive /\ UNCHANGED main
  BY DEF Accept, Admit, Record, Middle, ChargeConnection, ReadConnect, EmitEvent, HaltOnEvent,
     Handshake, Classify, OpenUpstream, ChargeChunk, SendChunk, Respond, Abort, Fails, Quiet, WorkerGoes
<1>1. CASE Accept(w) \/ Admit(w)
  BY <1>0, <1>1 DEF Accept, Admit, proxy
<1>2. CASE Middle(w)
  <2>1. CASE EmitEvent(w)
    BY <1>0, <2>1 DEF EmitEvent, proxy
  <2>2. CASE HaltOnEvent(w)
    BY <1>0, <2>2 DEF HaltOnEvent, Stop
  <2>3. CASE \E line \in {"credential", "abort"} : Abort(w, line)
    BY <1>0, <2>3 DEF Abort, Stop, TypeOK
  <2> QED
    BY <1>0, <1>2, <2>1, <2>2, <2>3, MiddleSays
<1>3. CASE Record(w)
  BY <1>0, <1>3 DEF Record, TypeOK
<1> QED
  BY <1>1, <1>2, <1>3

\* Every step keeps the order of the lines.
LEMMA OrderedStep ==
  ASSUME TypeOK, Ordered, [Next]_vars
  PROVE  Ordered'
<1>s. ASSUME UNCHANGED out PROVE \A k : Lines!Said(k)' <=> Lines!Said(k)
  BY <1>s, Nothing
<1>1. CASE UNCHANGED <<out, stopped, exitcode, mpc, returned>>
  BY <1>1, <1>s DEF Ordered, Refusal
<1>2. CASE ControlStep
  <2>1. CASE \E m \in Messages : Receive(m)
    BY <1>1, <2>1 DEF Receive, proxy, main
  <2>2. CASE BootFails
    <3>1. Emit("abort") /\ mpc = "boot" /\ mpc' \in {"exit", "stop"} /\ returned' \in {2, 5}
          /\ UNCHANGED <<stopped, exitcode>>
      BY <2>2 DEF BootFails, MainGoes, proxy
    <3>2. \A k : Lines!Said(k)' <=> Lines!Said(k) \/ k = "abort"
      BY <3>1, Adds
    <3> QED
      BY <3>1, <3>2 DEF Ordered, Refusal
  <2>3. CASE Boot
    BY <1>s, <2>3 DEF Boot, MainGoes, proxy, Ordered, Refusal
  <2>4. CASE Announce
    <3>1. \A k : Lines!Said(k)' <=> Lines!Said(k) \/ k = "ready"
      BY <2>4, Adds DEF Announce
    <3> QED
      BY <2>4, <3>1 DEF Announce, MainGoes, proxy, Ordered, Refusal
  <2>5. CASE Poll
    <3>1. mpc = "loop"
      BY <2>5 DEF Poll
    <3>2. CASE GiveUp
      <4>1. \A k : Lines!Said(k)' <=> Lines!Said(k) \/ k = "abort"
        BY <3>2, Adds DEF GiveUp
      <4> QED
        BY <3>1, <3>2, <4>1 DEF GiveUp, proxy, Ordered, Refusal
    <3>3. CASE Stop /\ mpc' = "return" /\ UNCHANGED <<out, token, exitcode, returned>>
      BY <1>s, <3>1, <3>3 DEF Stop, Ordered, Refusal
    <3>4. CASE token' = TRUE /\ mpc' = "loop" /\ UNCHANGED <<out, proxy, returned>>
      BY <1>1, <3>1, <3>4 DEF proxy
    <3> QED
      BY <2>5, <3>2, <3>3, <3>4 DEF Poll, Handle
  <2>6. CASE SeesStop
    BY <1>s, <2>6 DEF SeesStop, MainGoes, proxy, Ordered, Refusal
  <2>7. CASE Return
    BY <1>s, <2>7 DEF Return, MainGoes, proxy, Ordered, Refusal
  <2>8. CASE FinallyStop
    BY <1>s, <2>8 DEF FinallyStop, Stop, MainGoes, Ordered, Refusal
  <2>9. CASE Joined
    BY <1>s, <2>9 DEF Joined, MainGoes, proxy, Ordered, Refusal
  <2>10. CASE End
    <3>1. \A k : Lines!Said(k)' <=> Lines!Said(k) \/ k = "end"
      BY <2>10, Adds DEF End
    <3> QED
      BY <2>10, <3>1 DEF End, MainGoes, proxy, Ordered, Refusal
  <2>11. CASE Deadline
    BY <1>s, <2>11 DEF Deadline, Listening, Stop, main, Ordered, Refusal
  <2> QED
    BY <1>2, <2>1, <2>2, <2>3, <2>4, <2>5, <2>6, <2>7, <2>8, <2>9, <2>10, <2>11 DEF ControlStep
<1>3. CASE Vanish
  BY <1>3 DEF Vanish, Ordered
<1>4. ASSUME NEW w \in Workers, Accept(w) \/ Admit(w) \/ Middle(w) \/ Record(w) PROVE Ordered'
  <2>1. UNCHANGED main
    BY <1>4, WorkerSays
  <2>2. CASE UNCHANGED <<out, stopped, exitcode>>
    BY <1>1, <2>1, <2>2 DEF main
  <2>3. CASE (Emit("event") \/ Emit("record")) /\ UNCHANGED <<stopped, exitcode>>
    <3>1. \A k \in {"ready", "end", "credential", "abort"} : Lines!Said(k)' <=> Lines!Said(k)
      BY <2>3, Adds
    <3> QED
      BY <2>1, <2>3, <3>1 DEF main, Ordered, Refusal
  <2>4. CASE out' = out /\ stopped' = TRUE /\ exitcode' = 5
    BY <1>s, <2>1, <2>4 DEF main, Ordered, Refusal
  <2>5. CASE /\ Emit("credential") \/ Emit("abort")
             /\ ~stopped /\ stopped' = TRUE /\ exitcode' = 5
    <3>1. \A k \in {"ready", "end"} : Lines!Said(k)' <=> Lines!Said(k)
      BY <2>5, Adds
    <3> QED
      BY <2>1, <2>5, <3>1 DEF main, Ordered, Refusal
  <2> QED
    BY <1>4, <2>2, <2>3, <2>4, <2>5, WorkerSays
<1> QED
  BY <1>1, <1>2, <1>3, <1>4, StepKinds DEF vars, proxy, main

\* A line is written while there is room for it and the process is there.
LEMMA SaysLine ==
  ASSUME TypeOK, LineRoom, LineRoom', NEW line, Emit(line), Alive
  PROVE  Lines!Say(line)
<1>0. MainLeft' \in Nat /\ Cardinality(Silent') \in Nat /\ Cardinality(Unrecorded') \in Nat
  <2>1. Silent' \subseteq Workers /\ Unrecorded' \subseteq Workers
    BY DEF Silent, Unrecorded
  <2> QED
    BY <2>1, WorkersAssumption, FS_Subset, FS_CardinalityType DEF MainLeft
<1>1. Len(out) \in Nat /\ Len(out') = Len(out) + 1 /\ Cardinality(Workers) \in Nat
  BY Adds, SpeakersFinite DEF TypeOK
<1>2. Len(out) < 3 + 2 * Cardinality(Workers)
  BY SMTT(30), <1>0, <1>1 DEF LineRoom
<1> QED
  BY <1>2 DEF Lines!Say, Emit, Alive

\* Every step of the proxy is a step of the protocol, or none.
LEMMA ProtocolStep ==
  ASSUME TypeOK, LineRoom, LineRoom', Ordered, [Next]_vars
  PROVE  [Lines!LinesNext]_(Lines!lineVars)
<1> USE DEF Lines!lineVars
<1>1. CASE UNCHANGED <<out, stopped, mpc, returned>>
  BY <1>1
<1>2. ASSUME Stop, UNCHANGED out, mpc # "gone", mpc' # "gone" PROVE [Lines!LinesNext]_(Lines!lineVars)
  BY <1>2 DEF Stop, Lines!LinesNext, Lines!Halt, TypeOK
<1>3. CASE ControlStep
  <2>1. CASE \/ \E m \in Messages : Receive(m)
             \/ Boot \/ SeesStop \/ Return \/ Joined
    BY <2>1 DEF Receive, Boot, SeesStop, Return, Joined, MainGoes, proxy, main
  <2>2. CASE BootFails \/ (Poll /\ GiveUp)
    <3>1. /\ Emit("abort") /\ mpc \in {"boot", "loop"} /\ mpc' # "gone" /\ stopped' = stopped
      BY <2>2 DEF BootFails, Poll, GiveUp, MainGoes, proxy
    <3>2. Lines!Say("abort") /\ ~Lines!Said("end")
      BY <3>1, SaysLine DEF Alive, Ordered
    <3> QED
      BY <3>1, <3>2 DEF Lines!LinesNext, Lines!GiveUp
  <2>3. CASE Announce
    <3>1. Lines!Say("ready") /\ ~Lines!Said("ready")
      BY <2>3, SaysLine DEF Announce, MainGoes, Alive, Ordered
    <3> QED
      BY <2>3, <3>1 DEF Announce, MainGoes, proxy, Lines!LinesNext, Lines!Announce
  <2>4. CASE Poll /\ ~GiveUp
    <3>1. CASE Stop /\ mpc' = "return" /\ UNCHANGED <<out, token, exitcode, returned>>
      BY <1>2, <2>4, <3>1 DEF Poll
    <3>2. CASE mpc' = "loop" /\ UNCHANGED <<out, proxy, returned>>
      BY <2>4, <3>2 DEF Poll, proxy
    <3> QED
      BY <2>4, <3>1, <3>2 DEF Poll, Handle
  <2>5. CASE FinallyStop \/ Deadline
    BY <1>2, <2>5 DEF FinallyStop, Deadline, Listening, MainGoes, main
  <2>6. CASE End
    <3>1. Lines!Say("end") /\ ~Lines!Said("end") /\ stopped
      BY <2>6, SaysLine DEF End, MainGoes, Alive, Ordered
    <3> QED
      BY <2>6, <3>1 DEF End, MainGoes, proxy, Lines!LinesNext, Lines!End
  <2> QED
    BY <1>3, <2>1, <2>2, <2>3, <2>4, <2>5, <2>6 DEF ControlStep
<1>4. CASE Exit \/ Die
  <2>1. mpc # "gone" /\ mpc' = "gone" /\ UNCHANGED <<out, stopped>> /\ returned' \in {0, 2, 5, 137}
    BY <1>4 DEF Exit, Die, Vanish, Alive, TypeOK
  <2>2. returned' = 0 => Lines!Said("end") /\ ~Refusal
    BY <1>4 DEF Exit, Die, Ordered
  <2> QED
    BY <2>1, <2>2 DEF Lines!LinesNext, Lines!Leave, Refusal
<1>5. ASSUME NEW w \in Workers, Accept(w) \/ Admit(w) \/ Middle(w) \/ Record(w)
      PROVE  [Lines!LinesNext]_(Lines!lineVars)
  <2>1. mpc # "gone" /\ mpc' = mpc /\ returned' = returned
    BY <1>5, WorkerSays DEF Alive, main
  <2>2. CASE UNCHANGED <<out, stopped, exitcode>>
    BY <1>1, <2>1, <2>2
  <2>3. CASE (Emit("event") \/ Emit("record")) /\ UNCHANGED <<stopped, exitcode>>
    BY <2>1, <2>3, SaysLine DEF Alive, Lines!LinesNext, Lines!Report
  <2>4. CASE out' = out /\ stopped' = TRUE /\ exitcode' = 5
    BY <2>1, <2>4 DEF Lines!LinesNext, Lines!Halt, TypeOK
  <2>5. CASE /\ Emit("credential") \/ Emit("abort")
             /\ ~stopped /\ stopped' = TRUE /\ exitcode' = 5
    BY <2>1, <2>5, SaysLine DEF Alive, Lines!LinesNext, Lines!Abort
  <2> QED
    BY <1>5, <2>2, <2>3, <2>4, <2>5, WorkerSays
<1> QED
  BY <1>1, <1>3, <1>4, <1>5 DEF Next, Main, Serve, Middle, ControlStep, vars, proxy, main

\* The proxy keeps the protocol the runner relies on, for any number of
\* connections: READY once, an abort only from the step that stops the proxy, END
\* after the stop, and exit code 0 only for a run that ended in order.
THEOREM ProtocolImplemented == Spec => KeepsProtocol
<1>1. Init => Lines!LinesInit /\ LineRoom /\ Ordered
  <2> SUFFICES ASSUME Init PROVE Lines!LinesInit /\ LineRoom /\ Ordered
    OBVIOUS
  <2>1. Lines!LinesInit
    BY DEF Init, Lines!LinesInit
  <2>2. Silent = Workers /\ Unrecorded = Workers
    BY DEF Init, Silent, Unrecorded, SilentAt, WorkerAt
  <2>3. Len(out) = 0 /\ MainLeft = 3
    BY DEF Init, MainLeft
  <2>4. LineRoom
    BY <2>2, <2>3, SpeakersFinite DEF LineRoom
  <2>5. \A k : ~Lines!Said(k)
    BY DEF Init, Lines!Said
  <2> QED
    BY <2>1, <2>4, <2>5 DEF Init, Ordered, Refusal
<1>2. TypeOK /\ LineRoom /\ Ordered /\ [Next]_vars => LineRoom' /\ Ordered'
  BY LineRoomStep, OrderedStep
<1>3. TypeOK /\ LineRoom /\ LineRoom' /\ Ordered /\ [Next]_vars => [Lines!LinesNext]_(Lines!lineVars)
  BY ProtocolStep
<1> QED
  BY <1>1, <1>2, <1>3, TypeCorrect, PTL DEF Spec, KeepsProtocol, Lines!LinesSpec
=============================================================================
