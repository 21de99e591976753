----------------------------- MODULE ProxyLines ------------------------------
(***************************************************************************)
(* What the token proxy of a build (scripts/sandbox_proxy.py) promises on  *)
(* its standard output, and nothing else about it: the order in which its  *)
(* protocol lines can appear and what its exit code then means.  The       *)
(* runner decides the outcome of a build from exactly this.                *)
(*                                                                         *)
(* SandboxProxy is shown to implement this module; BuildSession uses it    *)
(* for the process at the other end of the pipe.                           *)
(***************************************************************************)
EXTENDS Naturals, Sequences

CONSTANT MaxLines   \* bound: lines the proxy writes

VARIABLES
  lines,     \* the lines written so far, in order
  stopped,   \* Proxy.stopped: no byte is forwarded any more
  gone,      \* the process has ended
  code       \* its exit code, meaningful once it is gone

lineVars == <<lines, stopped, gone, code>>

\* READY, EVENT refresh_attempt, ABORT credential, any other ABORT, the log
\* record of a connection, END.
Kinds == {"ready", "event", "credential", "abort", "record", "end"}

Said(k) == \E n \in DOMAIN lines : lines[n] = k

LinesInit ==
  /\ lines = <<>>
  /\ stopped = FALSE
  /\ gone = FALSE
  /\ code = 0

Say(k) ==
  /\ ~gone
  /\ Len(lines) < MaxLines
  /\ lines' = Append(lines, k)

Announce == Say("ready") /\ ~Said("ready") /\ UNCHANGED <<stopped, gone, code>>

\* A worker writes its line whenever it gets to it: a stop does not wait.
Report == (Say("event") \/ Say("record")) /\ UNCHANGED <<stopped, gone, code>>

\* Proxy.abort: only the one that stops the proxy announces its reason.
Abort ==
  /\ ~stopped
  /\ Say("credential") \/ Say("abort")
  /\ stopped' = TRUE
  /\ UNCHANGED <<gone, code>>

\* Proxy.stop: end of file, the deadline, or after a refresh attempt.
Halt == ~gone /\ ~stopped /\ stopped' = TRUE /\ UNCHANGED <<lines, gone, code>>

\* serve() gives up: a malformed spec or message, or an exception.
GiveUp == Say("abort") /\ ~Said("end") /\ UNCHANGED <<stopped, gone, code>>

End == stopped /\ Say("end") /\ ~Said("end") /\ UNCHANGED <<stopped, gone, code>>

\* Exit code 0 stands for a run that ended in order.
Leave ==
  /\ ~gone
  /\ gone' = TRUE
  /\ code' \in {0, 2, 5, 137}
  /\ code' = 0 => Said("end") /\ ~Said("credential") /\ ~Said("abort")
  /\ UNCHANGED <<lines, stopped>>

LinesNext == Announce \/ Report \/ Abort \/ Halt \/ GiveUp \/ End \/ Leave

LinesSpec == LinesInit /\ [][LinesNext]_lineVars
=============================================================================
