---------------------------- MODULE RolloutBinding ----------------------------
(* src/scripts/codex_ro.py: the settings Codex applied to the turn of one call, *)
(* found in the rollout of its thread by a marker. Codex may still append while *)
(* the wrapper reads (a child that survived its kill, another call that resumes *)
(* the same thread), and contexts of other turns lie in between.                *)
EXTENDS Naturals, Sequences, SequencesExt

CONSTANTS
  Turn, None,   \* the ids of turns, and none
  MaxRecords    \* how much is appended after the call looked for the first time

VARIABLES
  pc,
  log,        \* what was appended since then
  k,          \* how much of it was read
  contexts,   \* the verdict kept for each turn, or None
  marked,     \* the turns of the marked messages, in their order
  verdict     \* [is, read]: the verdict, and whether it rests on the whole log

vars == <<pc, log, k, contexts, marked, verdict>>

Verdicts == {"confirmed", "unknown", "unsafe"}
Severity == [confirmed |-> 0, unknown |-> 1, unsafe |-> 2]

(* A record is a context, a user message with the marker (whose two turn ids may *)
(* disagree: None), or anything else. The fields of a context, and the entries   *)
(* of its profile, each show "safe", "open", or an unknown shape: "odd".         *)
Parts   == {{"safe"}, {"safe", "odd"}, {"odd", "open"}}
Context == [kind : {"context"}, turn : Turn, fields : Parts, profile : Parts]
Message == [kind : {"marked"}, turn : Turn \cup {None}]
Other   == [kind |-> "other"]
Records == Context \cup Message \cup {Other}

Init ==
  /\ pc = "open" /\ log = <<>> /\ k = 0
  /\ contexts = [t \in Turn |-> None] /\ marked = <<>>
  /\ verdict = [is |-> "none", read |-> FALSE]

-----------------------------------------------------------------------------
\* Codex, for this call or another.
Append1 ==
  /\ Len(log) < MaxRecords
  /\ \E r \in Records : log' = Append(log, r)
  /\ UNCHANGED <<pc, k, contexts, marked, verdict>>

\* One part that is positively open wins over any that is odd, wherever it is.
ProfileState(parts) ==
  IF "open" \in parts THEN "open" ELSE IF "odd" \in parts THEN "odd" ELSE "safe"

JudgeContext(c) ==
  LET shown == c.fields \cup {ProfileState(c.profile)}
  IN  IF "open" \in shown THEN "unsafe"
      ELSE IF shown = {"safe"} THEN "confirmed" ELSE "unknown"

Finish(v, whole) ==
  /\ verdict' = [is |-> v, read |-> whole]
  /\ pc' = "done"
  /\ UNCHANGED <<log, k, contexts, marked>>

\* There is one rollout, a regular file and still the one seen before the run.
OpenRollout ==
  /\ pc = "open"
  /\ \/ pc' = "read" /\ UNCHANGED <<log, k, contexts, marked, verdict>>
     \/ Finish("unbound", FALSE)

\* The worst context of a turn stays.
Keep(t, v) ==
  IF contexts[t] = None \/ Severity[v] >= Severity[contexts[t]] THEN v ELSE contexts[t]

ReadRecord ==
  /\ pc = "read" /\ k < Len(log)
  /\ k' = k + 1
  /\ LET r == log[k + 1]
     IN  /\ contexts' = IF r.kind = "context"
                        THEN [contexts EXCEPT ![r.turn] = Keep(r.turn, JudgeContext(r))]
                        ELSE contexts
         /\ marked' = IF r.kind = "marked" THEN Append(marked, r.turn) ELSE marked
  /\ UNCHANGED <<pc, log, verdict>>

Known       == {marked[i] : i \in DOMAIN marked}
WorstUnsafe == \E t \in Known \ {None} : contexts[t] = "unsafe"

\* A read that fails, or that meets the cap: only "unsafe" stands.
ReadFails == pc = "read" /\ Finish(IF WorstUnsafe THEN "unsafe" ELSE "unbound", FALSE)

Worst(S) == CHOOSE v \in S : \A u \in S : Severity[u] <= Severity[v]

AtEnd ==
  /\ pc = "read" /\ k = Len(log)
  /\ Finish(IF WorstUnsafe THEN "unsafe"
            ELSE IF Known = {} \/ None \in Known \/ \E t \in Known : contexts[t] = None THEN "unbound"
            ELSE Worst({contexts[t] : t \in Known}), TRUE)

Next == Append1 \/ OpenRollout \/ ReadRecord \/ ReadFails \/ AtEnd

-----------------------------------------------------------------------------
TypeOK ==
  /\ pc \in {"open", "read", "done"}
  /\ k <= Len(log) /\ Len(log) <= MaxRecords
  /\ contexts \in [Turn -> Verdicts \cup {None}]
  /\ \A i \in DOMAIN marked : marked[i] \in Turn \cup {None}

\* What was read: the turns of this call, and their contexts.
Seen      == {log[i] : i \in 1..k}
MyTurns   == {r.turn : r \in {s \in Seen : s.kind = "marked"}}
Judged(t) == {JudgeContext(r) : r \in {s \in Seen : s.kind = "context" /\ s.turn = t}}

\* An open context of this call's turn is found whatever was read before or after
\* it, and however reading ended (codex_ro.py:2110). "Confirmed" and "unknown" rest
\* on the whole of the rollout and on every turn that carries the marker.
VerdictIsWorst ==
  pc = "done" =>
    /\ (\E t \in MyTurns \ {None} : "unsafe" \in Judged(t)) <=> verdict.is = "unsafe"
    /\ verdict.is \in {"confirmed", "unknown"} =>
         /\ verdict.read /\ MyTurns # {} /\ None \notin MyTurns
         /\ \A t \in MyTurns : Judged(t) # {}
    /\ verdict.is = "confirmed" => \A t \in MyTurns : Judged(t) = {"confirmed"}
=============================================================================
