---------------------------- MODULE SandboxProxy -----------------------------
(***************************************************************************)
(* scripts/sandbox_proxy.py, class Proxy and serve(): the per-run proxy    *)
(* that injects the host login into the builder's requests.                *)
(*                                                                         *)
(* One main thread reads the control messages (the spec, then TOKEN, then  *)
(* end of file), a timer stops the proxy at its deadline, an acceptor      *)
(* starts one worker thread per connection.  They share the flag stopped,  *)
(* the counters that are charged against the caps, the set of open sockets *)
(* and the exit code, under one re-entrant lock; a step of this module is  *)
(* what happens under the lock at once, or one system call.                *)
(*                                                                         *)
(* Bytes are counted in chunks: a chunk of the request is charged twice,   *)
(* as it arrives and as it is sent on, a chunk of the response once.       *)
(***************************************************************************)
EXTENDS Naturals, Sequences, FiniteSets, Functions

CONSTANTS
  Workers,      \* connections the builder opens
  Caps,         \* caps: requests, concurrent, bytes_up, bytes_down
  MaxChunks,    \* bound: chunks of one request or response
  MaxMessages   \* bound: messages after the spec on stdin

ASSUME CapsAssumption ==
  Caps \in [{"requests", "concurrent", "bytes_up", "bytes_down"} -> Nat]
ASSUME BoundsAssumption == MaxChunks \in Nat /\ MaxMessages \in Nat
ASSUME WorkersAssumption == IsFiniteSet(Workers)

VARIABLES
  out,        \* lines written to standard output
  stopped,    \* the event `stopped'
  open,       \* sockets that are open: <<"down", w>> and <<"up", w>>
  counts,     \* counts, without "forwarded"
  active,     \* connections being served
  token,      \* has TOKEN been installed?
  exitcode,   \* Proxy.exitcode
  inbox,      \* messages the control thread has parsed
  sent,       \* messages written to stdin so far
  mpc,        \* where the main thread is
  returned,   \* the value serve() returns
  wpc,        \* where each worker is
  chunks,     \* chunks it has passed on
  upstream    \* history: chunks sent to the endpoint with the host login

proxy   == <<stopped, open, exitcode>>
charges == <<counts, active>>
control == <<inbox, sent, token>>
main    == <<mpc, returned>>
vars    == <<out, proxy, charges, control, main, wpc, chunks, upstream>>

Messages == {"token", "bad", "eof"}
Sockets  == {"down", "up"} \X Workers
MainAt   == {"boot", "announce", "loop", "return", "stop", "join", "end", "exit", "gone"}
WorkerAt == {"free", "accepted", "charge", "connect", "event", "halt", "tls", "inner", "open",
             "send", "relay", "respond", "abort", "record", "done"}

TypeOK ==
  /\ out \in Seq({"ready", "event", "credential", "abort", "record", "end"})
  /\ stopped \in BOOLEAN
  /\ open \in SUBSET Sockets
  /\ counts \in [{"requests", "bytes_up", "bytes_down"} -> Nat]
  /\ active \in Nat
  /\ token \in BOOLEAN
  /\ exitcode \in {0, 5}
  /\ inbox \in Seq(Messages)
  /\ sent \in 0..MaxMessages
  /\ mpc \in MainAt
  /\ returned \in {0, 2, 5, 137}
  /\ wpc \in [Workers -> WorkerAt]
  /\ chunks \in [Workers -> 0..MaxChunks]
  /\ upstream \in Nat

Init ==
  /\ out = <<>>
  /\ stopped = FALSE
  /\ open = {}
  /\ counts = [k \in {"requests", "bytes_up", "bytes_down"} |-> 0]
  /\ active = 0
  /\ token = FALSE
  /\ exitcode = 0
  /\ inbox = <<>>
  /\ sent = 0
  /\ mpc = "boot"
  /\ returned = 0
  /\ wpc = [w \in Workers |-> "free"]
  /\ chunks = [w \in Workers |-> 0]
  /\ upstream = 0

Alive == mpc # "gone"
Emit(line) == out' = Append(out, line)
MainGoes(from, to) == mpc = from /\ mpc' = to
WorkerGoes(w, from, to) == Alive /\ wpc[w] = from /\ wpc' = [wpc EXCEPT ![w] = to]

\* Mutant: stop() sets the flag and leaves the sockets alone.
StopLeavesSockets == stopped' = TRUE /\ open' = open

\* Proxy.stop, under the lock: nothing when already stopped, otherwise every
\* open socket is closed and the listener with them.
Stop == stopped' = TRUE /\ open' = IF stopped THEN open ELSE {}

-----------------------------------------------------------------------------
(* Standard input: the runner writes TOKEN once and closes the pipe at the end. *)

Receive(m) ==
  /\ Alive
  /\ sent < MaxMessages
  /\ \A n \in DOMAIN inbox : inbox[n] \notin {"eof", "bad"}
  /\ sent' = sent + 1
  /\ inbox' = Append(inbox, m)
  /\ UNCHANGED <<out, proxy, charges, token, main, wpc, chunks, upstream>>

-----------------------------------------------------------------------------
(* serve() *)

\* A malformed nonce or spec, or a failure of Proxy.start: there is no
\* listener, and in the second case the finally clause has a proxy to stop.
BootFails ==
  /\ \E next \in {"exit", "stop"} : MainGoes("boot", next)
  /\ Emit("abort")
  /\ returned' \in {2, 5}
  /\ UNCHANGED <<proxy, charges, control, wpc, chunks, upstream>>

\* Proxy.start: from here on the acceptor and the deadline timer run.
Boot ==
  /\ MainGoes("boot", "announce")
  /\ UNCHANGED <<out, proxy, charges, control, returned, wpc, chunks, upstream>>

Announce ==
  /\ MainGoes("announce", "loop")
  /\ Emit("ready")
  /\ UNCHANGED <<proxy, charges, control, returned, wpc, chunks, upstream>>

\* SpecError: say so and return 2; the finally clause stops the proxy later.
GiveUp ==
  /\ mpc' = "stop"
  /\ returned' = 2
  /\ Emit("abort")
  /\ UNCHANGED <<token, proxy>>

\* One message of the queue: end of file stops the proxy, a token arms it
\* unless it is armed or stopped already, anything else is a SpecError.
Handle(m) ==
  \/ /\ m = "eof"
     /\ Stop
     /\ mpc' = "return"
     /\ UNCHANGED <<out, token, exitcode, returned>>
  \/ /\ m = "token" /\ ~token /\ ~stopped
     /\ token' = TRUE
     /\ mpc' = "loop"
     /\ UNCHANGED <<out, proxy, returned>>
  \/ /\ m = "token"
     /\ GiveUp
  \/ /\ m = "bad"
     /\ GiveUp

Poll ==
  /\ mpc = "loop"
  /\ inbox # <<>>
  /\ inbox' = Tail(inbox)
  /\ \/ Handle(Head(inbox))
     \/ /\ Head(inbox) = "token"   \* validate_token refuses it
        /\ GiveUp
  /\ UNCHANGED <<sent, charges, wpc, chunks, upstream>>

\* Mutant: the loop waits for the next message without a timeout.
SeesStopWithMessage ==
  /\ stopped /\ inbox # <<>>
  /\ MainGoes("loop", "return")
  /\ UNCHANGED <<out, proxy, charges, control, returned, wpc, chunks, upstream>>

SeesStop ==
  /\ stopped
  /\ MainGoes("loop", "return")
  /\ UNCHANGED <<out, proxy, charges, control, returned, wpc, chunks, upstream>>

\* `return proxy.exitcode', then the finally clause.
Return ==
  /\ MainGoes("return", "join")
  /\ returned' = exitcode
  /\ UNCHANGED <<out, proxy, charges, control, wpc, chunks, upstream>>

FinallyStop ==
  /\ MainGoes("stop", "join")
  /\ Stop
  /\ UNCHANGED <<out, exitcode, charges, control, returned, wpc, chunks, upstream>>

\* The join waits two seconds at most: a slow worker may still be running.
Joined ==
  /\ MainGoes("join", "end")
  /\ UNCHANGED <<out, proxy, charges, control, returned, wpc, chunks, upstream>>

End ==
  /\ MainGoes("end", "exit")
  /\ Emit("end")
  /\ UNCHANGED <<proxy, charges, control, returned, wpc, chunks, upstream>>

\* What ends with the process: its threads, its sockets, what was not read.
Vanish ==
  /\ mpc' = "gone"
  /\ wpc' = [w \in Workers |-> "done"] /\ active' = 0
  /\ open' = {} /\ inbox' = <<>> /\ chunks' = [w \in Workers |-> 0]
  /\ UNCHANGED <<out, stopped, exitcode, counts, sent, token, upstream>>

\* The process ends; the workers are daemon threads and end with it.
Exit == mpc = "exit" /\ Vanish /\ UNCHANGED returned

Main ==
  \/ BootFails \/ Boot \/ Announce \/ Poll \/ SeesStop
  \/ Return \/ FinallyStop \/ Joined \/ End \/ Exit

\* The container is killed, at any point.
Die == Alive /\ Vanish /\ returned' = 137

\* start() has returned and nothing has closed the listener yet.
Listening ==
  /\ ~stopped
  /\ \/ mpc \in {"announce", "loop"}
     \/ mpc = "stop" /\ "ready" \in Range(out)

\* The timer: stop("deadline").
Deadline ==
  /\ Listening
  /\ Stop
  /\ UNCHANGED <<out, exitcode, charges, control, main, wpc, chunks, upstream>>

-----------------------------------------------------------------------------
(* _accept and _handle *)

\* Which name a connection has means nothing.
NextName == CHOOSE w \in Workers : wpc[w] = "free"

\* The acceptor, one thread, checks the flag before it accepts and not again:
\* a stop that comes now does not close the socket.
Accept(w) ==
  /\ Listening
  /\ \A v \in Workers : wpc[v] # "accepted"
  /\ WorkerGoes(w, "free", "accepted") /\ w = NextName
  /\ UNCHANGED <<out, proxy, charges, control, main, chunks, upstream>>

Admit(w) ==
  /\ UNCHANGED <<out, stopped, exitcode, counts, control, main, chunks, upstream>>
  /\ \/ /\ active < Caps["concurrent"]
        /\ WorkerGoes(w, "accepted", "charge")
        /\ active' = active + 1
        /\ open' = open \cup {<<"down", w>>}
     \/ /\ active >= Caps["concurrent"]
        /\ WorkerGoes(w, "accepted", "done")
        /\ UNCHANGED <<active, open>>

\* Mutant: the cap is compared before the amount is added.
CanChargeBefore(k, n) == ~stopped /\ counts[k] <= Caps[k]

\* _charge: all or nothing, and nothing once stopped.
CanCharge(k, n) == ~stopped /\ counts[k] + n <= Caps[k]
Charge(k, n) == counts' = [counts EXCEPT ![k] = @ + n]

\* Every Refusal, OSError and SSLError of a worker leads to its log record.
Fails(w, from) == WorkerGoes(w, from, "record") /\ UNCHANGED <<open, counts, chunks, upstream>>

\* A worker's step that neither ends the run nor touches the control side.
Quiet == UNCHANGED <<out, stopped, exitcode, active, control, main>>

ChargeConnection(w) ==
  /\ Quiet
  /\ \/ /\ CanCharge("requests", 1)
        /\ Charge("requests", 1)
        /\ WorkerGoes(w, "charge", "connect")
        /\ UNCHANGED <<open, chunks, upstream>>
     \/ ~CanCharge("requests", 1) /\ Fails(w, "charge")

\* The CONNECT head: a login host is fatal once its 403 was sent, the
\* endpoint goes on with TLS, everything else is refused.
ReadConnect(w) ==
  /\ Quiet
  /\ \/ /\ <<"down", w>> \in open
        /\ \E next \in {"event", "tls"} : WorkerGoes(w, "connect", next)
        /\ UNCHANGED <<open, counts, chunks, upstream>>
     \/ Fails(w, "connect")

\* The EVENT is written outside the lock ...
EmitEvent(w) ==
  /\ WorkerGoes(w, "event", "halt")
  /\ Emit("event")
  /\ UNCHANGED <<proxy, charges, control, main, chunks, upstream>>

\* ... so the stop may come after another worker's abort, or after the end.
HaltOnEvent(w) ==
  /\ WorkerGoes(w, "halt", "record")
  /\ exitcode' = 5
  /\ Stop
  /\ UNCHANGED <<out, charges, control, main, chunks, upstream>>

\* TLS handshake (_track refuses once stopped), then the inner request.
Handshake(w) ==
  /\ Quiet
  /\ \/ /\ <<"down", w>> \in open
        /\ CanCharge("requests", 1)
        /\ Charge("requests", 1)
        /\ WorkerGoes(w, "tls", "inner")
        /\ UNCHANGED <<open, chunks, upstream>>
     \/ Fails(w, "tls")

\* Before TOKEN the request is drained and refused; a request for another
\* route is answered here.
Classify(w) ==
  /\ Quiet
  /\ \/ /\ token
        /\ WorkerGoes(w, "inner", "open")
        /\ UNCHANGED <<open, counts, chunks, upstream>>
     \/ Fails(w, "inner")

\* Open the upstream socket; _track closes it again once stopped.
OpenUpstream(w) ==
  /\ Quiet
  /\ \/ /\ ~stopped
        /\ open' = open \cup {<<"up", w>>}
        /\ WorkerGoes(w, "open", "send")
        /\ UNCHANGED <<counts, chunks, upstream>>
     \/ Fails(w, "open")

\* Charge first, send afterwards: a stop in between closes the socket.
ChargeChunk(w) ==
  /\ Quiet
  /\ \/ /\ CanCharge("bytes_up", 2)
        /\ Charge("bytes_up", 2)
        /\ chunks[w] < MaxChunks
        /\ WorkerGoes(w, "send", "relay")
        /\ UNCHANGED <<open, chunks, upstream>>
     \/ Fails(w, "send")

SendChunk(w) ==
  /\ Quiet
  /\ \/ /\ <<"up", w>> \in open
        /\ \E next \in {"send", "respond"} : WorkerGoes(w, "relay", next)
        /\ chunks' = [chunks EXCEPT ![w] = @ + 1]
        /\ upstream' = upstream + 1
        /\ UNCHANGED <<open, counts>>
     \/ Fails(w, "relay")

\* A chunk of the response is charged, scanned and passed on.
Respond(w) ==
  /\ Quiet
  /\ \/ /\ <<"up", w>> \in open
        /\ CanCharge("bytes_down", 1)
        /\ Charge("bytes_down", 1)
        /\ \E next \in {"respond", "abort", "record"} : WorkerGoes(w, "respond", next)
        /\ UNCHANGED <<open, chunks, upstream>>
     \/ Fails(w, "respond")

\* Mutant: abort() leaves the exit code alone.
AbortForgetsCode(w, line) ==
  /\ WorkerGoes(w, "abort", "record")
  /\ IF stopped THEN UNCHANGED out ELSE Emit(line)
  /\ Stop
  /\ UNCHANGED <<exitcode, charges, control, main, chunks, upstream>>

\* Proxy.abort, all of it under the lock: only the abort that stops the
\* proxy says so, and the exit code is set before anyone can see the stop.
Abort(w, line) ==
  /\ WorkerGoes(w, "abort", "record")
  /\ IF stopped THEN UNCHANGED <<out, exitcode>> ELSE Emit(line) /\ exitcode' = 5
  /\ Stop
  /\ UNCHANGED <<charges, control, main, chunks, upstream>>

\* Mutant: a slot is given back where the connection fails and once more here.
RecordFreesTwice(w) ==
  /\ WorkerGoes(w, "record", "done")
  /\ open' = open \ {<<"down", w>>, <<"up", w>>}
  /\ Emit("record")
  /\ active' = IF stopped THEN active - 2 ELSE active - 1
  /\ UNCHANGED <<stopped, exitcode, counts, control, main, chunks, upstream>>

\* The finally clause of _handle, under the lock: close the sockets, give the
\* slot back and write the record -- or abort, when it holds the login.
Record(w) ==
  /\ WorkerGoes(w, "record", "done")
  /\ active' = active - 1
  /\ UNCHANGED <<counts, control, main, chunks, upstream>>
  /\ \/ /\ Emit("record")
        /\ open' = open \ {<<"down", w>>, <<"up", w>>}
        /\ UNCHANGED <<stopped, exitcode>>
     \/ /\ token
        /\ IF stopped THEN UNCHANGED <<out, exitcode>> ELSE Emit("credential") /\ exitcode' = 5
        /\ stopped' = TRUE
        /\ open' = IF stopped THEN open \ {<<"down", w>>, <<"up", w>>} ELSE {}

Serve(w) ==
  \/ Admit(w) \/ ChargeConnection(w) \/ ReadConnect(w) \/ EmitEvent(w) \/ HaltOnEvent(w)
  \/ Handshake(w) \/ Classify(w) \/ OpenUpstream(w) \/ ChargeChunk(w) \/ SendChunk(w)
  \/ Respond(w) \/ (\E line \in {"credential", "abort"} : Abort(w, line)) \/ Record(w)

Next ==
  \/ \E m \in Messages : Receive(m)
  \/ Main \/ Die \/ Deadline
  \/ \E w \in Workers : Accept(w) \/ Serve(w)

Spec == Init /\ [][Next]_vars

\* The main thread and the timer are scheduled; nothing is assumed of the
\* workers, which may block for ever in a read, nor of the runner.
FairSpec == Spec /\ WF_vars(Main) /\ WF_vars(Deadline)

-----------------------------------------------------------------------------
(* Properties *)

Served(w) == wpc[w] \notin {"free", "accepted", "done"}

\* Every cap holds however the workers interleave, and what it bounds is what
\* happens: _charge compares and adds under the lock, and a byte that reaches
\* the endpoint was charged twice before, as it arrived and as it was sent on; a
\* connection gives its slot back exactly once on each of _handle's ways out.
CapsHold ==
  /\ \A k \in DOMAIN counts : counts[k] <= Caps[k]
  /\ 2 * upstream <= counts["bytes_up"]
  /\ active = Cardinality({w \in Workers : Served(w)}) /\ active <= Caps["concurrent"]

\* Once the proxy has stopped -- by end of file, deadline, refresh attempt or
\* abort, in whichever thread -- nothing is sent to the endpoint any more, not
\* even by a worker that had already charged its chunk.
NothingAfterStop == [][stopped => upstream' = upstream]_vars

\* The process ends, whatever the builder and the runner do: the deadline is
\* absolute and the join of the workers is bounded.
ProxyEnds == <>(mpc = "gone")

\* SandboxProxy implements the protocol the runner relies on.
Lines == INSTANCE ProxyLines WITH
           MaxLines <- 3 + 2 * Cardinality(Workers), lines <- out, gone <- mpc = "gone",
           code <- IF mpc = "gone" THEN returned ELSE 0

KeepsProtocol == Lines!LinesSpec
=============================================================================
