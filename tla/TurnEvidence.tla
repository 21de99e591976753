----------------------------- MODULE TurnEvidence -----------------------------
(* src/scripts/codex_ro.py: what the event stream and the stderr of a finished *)
(* Codex prove. The stream may hold several turns of a resumed thread and end  *)
(* anywhere; a line is one of Lines, named for what the wrapper tells apart.   *)
EXTENDS Naturals, Sequences, SequencesExt

CONSTANT MaxLines

VARIABLES
  pc,
  lines,    \* what was read so far
  ev,       \* the StreamEvidence
  verdict   \* "none", "accepted" or "blind"

vars == <<pc, lines, ev, verdict>>

Items == {"succeeded", "denied", "ordinary", "odd", "text"}
Lines == {"thread", "turn", "completed", "failed", "bad"} \cup Items

NothingProven ==
  [executed |-> 0, succeeded |-> 0, denied |-> 0, unclassified |-> 0, bad |-> 0,
   thread |-> FALSE, turn |-> FALSE, complete |-> FALSE, failed |-> FALSE,
   closed |-> FALSE, disorder |-> FALSE, oversized |-> FALSE, missing |-> FALSE]

Init == pc = "read" /\ lines = <<>> /\ ev = NothingProven /\ verdict = "none"

-----------------------------------------------------------------------------
\* A command that reported back counts once as executed; one that does not fit
\* is unclassified and never executed. Text, and what is started, counts for nothing.
Count(e, item) ==
  CASE item = "succeeded" -> [e EXCEPT !.executed = @ + 1, !.succeeded = @ + 1]
    [] item = "denied"    -> [e EXCEPT !.executed = @ + 1, !.denied = @ + 1]
    [] item = "ordinary"  -> [e EXCEPT !.executed = @ + 1]
    [] item = "odd"       -> [e EXCEPT !.unclassified = @ + 1]
    [] OTHER              -> e

\* Mutant: a new turn leaves the counts of the last one.
TurnKeepsCounts(e) == [e EXCEPT !.turn = TRUE, !.closed = FALSE, !.complete = FALSE, !.failed = FALSE]

TurnStarted(e) ==
  [e EXCEPT !.turn = TRUE, !.closed = FALSE, !.complete = FALSE, !.failed = FALSE,
            !.executed = 0, !.succeeded = 0, !.denied = 0, !.unclassified = 0]

After(e, line) ==
  CASE line = "thread"    -> [e EXCEPT !.disorder = @ \/ e.turn, !.thread = TRUE]
    [] line = "turn"      -> TurnStarted(e)
    [] line = "completed" -> [e EXCEPT !.disorder = @ \/ ~e.turn, !.closed = TRUE,
                                       !.complete = e.turn /\ ~e.failed]
    [] line = "failed"    -> [e EXCEPT !.failed = TRUE, !.complete = FALSE, !.closed = TRUE]
    [] line = "bad"       -> [e EXCEPT !.bad = @ + 1]
    [] line \in Items     -> IF e.closed THEN [e EXCEPT !.disorder = TRUE]
                             ELSE IF e.turn THEN Count(e, line) ELSE e

ReadLine ==
  /\ pc = "read" /\ Len(lines) < MaxLines
  /\ \E line \in Lines : lines' = Append(lines, line) /\ ev' = After(ev, line)
  /\ UNCHANGED <<pc, verdict>>

\* The stream ends, is cut off at the limit, or cannot be read any further.
StopReading ==
  /\ pc = "read"
  /\ ev' \in {ev, [ev EXCEPT !.oversized = TRUE], [ev EXCEPT !.missing = TRUE]}
  /\ pc' = "judge"
  /\ UNCHANGED <<lines, verdict>>

Usable(e) ==
  /\ ~e.missing /\ ~e.oversized /\ e.bad = 0 /\ ~e.disorder
  /\ e.thread /\ e.turn /\ e.complete

\* stderr: a refusal on any line, a record of the router, and whether it was
\* read whole. Every record of the router that is a refusal is such a line too.
Stderr == [refused : BOOLEAN, record : BOOLEAN, whole : BOOLEAN]

CountRefusals(s)   == s.refused
CountExecErrors(s) == s.record

Blind(e, s) ==
  /\ e.succeeded = 0
  /\ \/ e.executed = 0 /\ CountRefusals(s)
     \/ e.denied > 0
     \/ CountExecErrors(s)
     \/ ~Usable(e) \/ ~s.whole \/ e.unclassified > 0

BlindRun ==
  /\ pc = "judge"
  /\ \E s \in Stderr : verdict' = [blind |-> Blind(ev, s), stderr |-> s]
  /\ pc' = "done"
  /\ UNCHANGED <<lines, ev>>

Next == ReadLine \/ StopReading \/ BlindRun

-----------------------------------------------------------------------------
TypeOK ==
  /\ pc \in {"read", "judge", "done"}
  /\ Len(lines) <= MaxLines /\ ToSet(lines) \subseteq Lines
  /\ ev.succeeded + ev.denied <= ev.executed /\ ev.executed + ev.unclassified <= Len(lines)

\* Positions of the last turn, which ends where it is closed.
LastTurn == LET starts == {i \in 1..Len(lines) : lines[i] = "turn"}
            IN  IF starts = {} THEN {}
                ELSE {i \in 1..Len(lines) : \A j \in starts : j <= i}
Open(i)  == \A j \in LastTurn : lines[j] \in {"completed", "failed"} => i < j
Ran(kinds) == \E i \in LastTurn : Open(i) /\ lines[i] \in kinds

\* A stream in the order Codex writes, to the end of its last turn.
WellFormed ==
  /\ ~ev.oversized /\ ~ev.missing
  /\ ~Contains(lines, "bad") /\ Contains(lines, "thread") /\ LastTurn # {}
  /\ \A i, j \in 1..Len(lines) : i < j =>
       /\ ~(lines[i] = "turn" /\ lines[j] = "thread")
       /\ lines[i] \in {"completed", "failed"} /\ lines[j] \in Items =>
            \E k \in i..j : lines[k] = "turn"
  /\ \A i \in 1..Len(lines) : lines[i] = "completed" => \E j \in 1..i : lines[j] = "turn"
  /\ \E i \in LastTurn : lines[i] = "completed"
  /\ \A i \in LastTurn : lines[i] # "failed"

\* A run counts as a review only on evidence of its last turn: a command that
\* succeeded, or a whole record in which nothing was refused. Neither an earlier
\* turn of a resumed thread nor an item after the end of one is evidence
\* (codex_ro.py:1626, 1646, 1777).
AcceptedHasGround ==
  pc = "done" =>
    LET s == verdict.stderr
        ground == \/ Ran({"succeeded"})
                  \/ /\ WellFormed /\ s.whole /\ ~s.record
                     /\ ~Ran({"denied", "odd"})
                     /\ Ran({"ordinary"}) \/ ~s.refused
    IN  verdict.blind <=> ~ground
=============================================================================
