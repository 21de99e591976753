----------------------------- MODULE ProbeRun --------------------------------
(***************************************************************************)
(* The isolation probe: main_probe and its child in sandbox_driver.py, and  *)
(* evaluate_probe of sandbox_build.py on the host.                         *)
(*                                                                         *)
(* A child under the builder's uid tries every target at once and writes a *)
(* line per outcome; the driver reads until the child is gone or the hard  *)
(* deadline, the child's own deadline being a second earlier.  What a      *)
(* target would answer, and when, is the environment's choice: the answer  *)
(* is fixed, its time is not.                                              *)
(***************************************************************************)
EXTENDS Naturals, FiniteSets

CONSTANTS
  Target,      \* what has to be out of reach
  Name         \* the targets that are names to resolve

VARIABLES
  answer,      \* the outcome each attempt has, once it has one
  route,       \* a default route exists: "no", "yes"
  pc,          \* of the driver
  child,       \* of the child
  clock,       \* before the child's deadline, before the hard one, after it
  pending,     \* attempts that have not been reported
  lines,       \* reports in the pipe
  outcomes,    \* reports the driver has read
  killed, garbled, infra,
  status,      \* the driver's status
  rows,        \* the result as the host has it
  verdict      \* the host's

vars == <<answer, route, pc, child, clock, pending, lines, outcomes, killed, garbled, infra, status, rows, verdict>>

Outcomes == {"reached", "blocked", "timeout", "error"}      \* PROBE_OUTCOMES
Statuses == {"none", "isolated", "isolation_failed", "isolation_unverified"}

TypeOK ==
  /\ answer \in [Target -> Outcomes] /\ route \in {"no", "yes"}
  /\ pc \in {"reading", "waiting", "quiesce", "result", "host", "done"}
  /\ child \in {"trying", "gone"} /\ clock \in {"early", "inner", "hard"}
  /\ pending \subseteq Target
  /\ lines \subseteq Target \X Outcomes /\ outcomes \subseteq Target \X Outcomes
  /\ {killed, garbled, infra} \subseteq BOOLEAN
  /\ {status, verdict} \subseteq Statuses
  /\ rows \in [Target -> Outcomes \cup {"unreported", "missing"}]

Init ==
  /\ answer \in [Target -> Outcomes] /\ route \in {"no", "yes"}
  /\ pc = "reading" /\ child = "trying" /\ clock = "early" /\ pending = Target
  /\ lines = {} /\ outcomes = {} /\ killed = FALSE /\ garbled = FALSE /\ infra = FALSE
  /\ status = "none" /\ verdict = "none" /\ rows = [t \in Target |-> "missing"]

-----------------------------------------------------------------------------
(* probe_child *)

Write(t, outcome) ==
  /\ pending' = pending \ {t} /\ lines' = lines \cup {<<t, outcome>>}
  /\ UNCHANGED <<answer, route, pc, child, clock, outcomes, killed, garbled, infra, status, rows, verdict>>

\* A socket is polled up to the child's deadline; a name resolves in a thread
\* that reports for as long as the process is there.
Report(t) ==
  /\ child = "trying" /\ t \in pending /\ (clock = "early" \/ t \in Name)
  /\ Write(t, answer[t])

\* Mutant: what is pending at the deadline counts as blocked.
GiveUpAsBlocked(t) ==
  /\ child = "trying" /\ clock # "early" /\ t \in pending \ Name
  /\ Write(t, "blocked")

GiveUp(t) ==
  /\ child = "trying" /\ clock # "early" /\ t \in pending \ Name
  /\ Write(t, "timeout")

\* The sockets are reported and the threads joined up to the deadline; or the
\* child dies of something else.
ChildExits ==
  /\ child = "trying" /\ child' = "gone"
  /\ UNCHANGED <<answer, route, pc, clock, pending, lines, outcomes, killed, garbled, infra, status, rows, verdict>>

-----------------------------------------------------------------------------
(* main_probe *)

Tick ==
  /\ clock # "hard" /\ pc \in {"reading", "waiting"}
  /\ clock' = (IF clock = "early" THEN "inner" ELSE "hard")
  /\ UNCHANGED <<answer, route, pc, child, pending, lines, outcomes, killed, garbled, infra, status, rows, verdict>>

ReadLines ==
  /\ pc = "reading" /\ clock # "hard" /\ lines # {}
  /\ outcomes' = outcomes \cup lines /\ lines' = {}
  /\ UNCHANGED <<answer, route, pc, child, clock, pending, killed, garbled, infra, status, rows, verdict>>

EndOfReports ==
  /\ pc = "reading" /\ child = "gone" /\ lines = {}
  /\ pc' = "waiting"
  /\ UNCHANGED <<answer, route, child, clock, pending, lines, outcomes, killed, garbled, infra, status, rows, verdict>>

\* The hard deadline: the session is killed, perhaps in the middle of a line.
KillChild ==
  /\ pc = "reading" /\ clock = "hard"
  /\ pc' = "quiesce" /\ child' = "gone" /\ killed' = TRUE
  /\ garbled' \in BOOLEAN
  /\ UNCHANGED <<answer, route, clock, pending, lines, outcomes, infra, status, rows, verdict>>

\* _wait_child: a child that closed the pipe may still have to be killed.
WaitChild ==
  /\ pc = "waiting" /\ pc' = "quiesce"
  /\ killed' \in BOOLEAN
  /\ UNCHANGED <<answer, route, child, clock, pending, lines, outcomes, garbled, infra, status, rows, verdict>>

Outcome(t) ==
  IF \E o \in Outcomes : <<t, o>> \in outcomes THEN CHOOSE o \in Outcomes : <<t, o>> \in outcomes ELSE "unreported"

\* Mutant: a target nobody reported on is no reason to doubt.
ProbeStatusOfReports(found) ==
  IF found \/ \E t \in Target : Outcome(t) = "reached" THEN "isolation_failed"
  ELSE IF killed \/ \E t \in Target : Outcome(t) \notin {"blocked", "unreported"} THEN "isolation_unverified"
  ELSE "isolated"

ProbeStatus(found) ==
  IF found \/ \E t \in Target : Outcome(t) = "reached" THEN "isolation_failed"
  ELSE IF killed \/ \E t \in Target : Outcome(t) # "blocked" THEN "isolation_unverified"
  ELSE "isolated"

\* quiesce may fail, and so may reading the route tables: then no route is known.
Conclude ==
  /\ pc = "quiesce" /\ pc' = "result"
  /\ \E quiet \in BOOLEAN, readable \in BOOLEAN :
       LET found == readable /\ route = "yes"
           bad   == ~quiet \/ ~readable \/ garbled
       IN /\ infra' = bad
          /\ status' = (IF ProbeStatus(found) = "isolated" /\ bad THEN "isolation_unverified" ELSE ProbeStatus(found))
  /\ UNCHANGED <<answer, route, child, clock, pending, lines, outcomes, killed, garbled, rows, verdict>>

\* The result as the host gets it; rows that are missing or do not match their
\* target are no rows.
Emit ==
  /\ pc = "result" /\ pc' = "host"
  /\ \E matched \in {Target} \cup {Target \ {t} : t \in Target} :
       rows' = [t \in Target |-> IF t \in matched THEN Outcome(t) ELSE "missing"]
  /\ UNCHANGED <<answer, route, child, clock, pending, lines, outcomes, killed, garbled, infra, status, verdict>>

-----------------------------------------------------------------------------
(* The host *)

EvaluateProbe ==
  /\ pc = "host" /\ pc' = "done"
  /\ verdict' =
       (IF status = "isolation_failed" \/ \E t \in Target : rows[t] = "reached" THEN "isolation_failed"
        ELSE IF status # "isolated" \/ killed \/ \E t \in Target : rows[t] # "blocked" THEN "isolation_unverified"
        ELSE "isolated")
  /\ UNCHANGED <<answer, route, child, clock, pending, lines, outcomes, killed, garbled, infra, status, rows>>

Driver == ReadLines \/ EndOfReports \/ KillChild \/ WaitChild \/ Conclude \/ Emit \/ EvaluateProbe

Next == Driver \/ ChildExits \/ Tick \/ \E t \in Target : Report(t) \/ GiveUp(t)

-----------------------------------------------------------------------------
(* Properties *)

\* "isolated" is said only where every single target was tried and found
\* blocked in time, nobody was killed and the route tables show no default
\* route, whatever came late, was lost with the child or did not arrive; and a
\* target that was read as reached makes the run fail, never merely doubtful.
IsolationIsProven ==
  pc = "done" =>
    /\ verdict = "isolated" =>
         ~killed /\ route = "no" /\ \A t \in Target : answer[t] = "blocked" /\ <<t, "blocked">> \in outcomes
    /\ (\E t \in Target : <<t, "reached">> \in outcomes) => verdict = "isolation_failed"
=============================================================================
