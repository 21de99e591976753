-------------------------- MODULE ExclusiveOutputs ---------------------------
(***************************************************************************)
(* What the output locks of a review promise: a run owns all of its output *)
(* files or none of them, from one moment to another, and only the owner   *)
(* of a file changes it.  FallbackReview is shown to implement this.       *)
(***************************************************************************)
EXTENDS Sequences

CONSTANTS
  Runs,      \* the runs of the script
  Files,     \* the output files, verdicts and logs
  NoRun      \* not a run

VARIABLES
  owner,     \* the run that owns a file, or NoRun
  verdict,   \* the content of a file as a verdict: who wrote it
  log        \* the content of a file as a log: the pieces appended to it

Init ==
  /\ owner = [f \in Files |-> NoRun]
  /\ log = [f \in Files |-> <<>>]

Owned(r) == {f \in Files : owner[f] = r}

\* All at once, and only what nobody owns.
Take(r) ==
  \E S \in SUBSET Files :
    /\ S # {} /\ Owned(r) = {}
    /\ \A f \in S : owner[f] = NoRun
    /\ owner' = [f \in Files |-> IF f \in S THEN r ELSE owner[f]]
    /\ UNCHANGED <<verdict, log>>

\* A verdict is removed or replaced as a whole.
Publish(r) ==
  \E f \in Owned(r), v \in {r, NoRun} :
    /\ verdict' = [verdict EXCEPT ![f] = v]
    /\ UNCHANGED <<owner, log>>

\* A log only grows.
Write(r) ==
  \E f \in Owned(r), part \in {"head", "tail"} :
    /\ log' = [log EXCEPT ![f] = Append(@, <<r, part>>)]
    /\ UNCHANGED <<owner, verdict>>

Drop(r) ==
  /\ Owned(r) # {}
  /\ owner' = [f \in Files |-> IF owner[f] = r THEN NoRun ELSE owner[f]]
  /\ UNCHANGED <<verdict, log>>

Next == \E r \in Runs : Take(r) \/ Publish(r) \/ Write(r) \/ Drop(r)

Spec == Init /\ [][Next]_<<owner, verdict, log>>
=============================================================================
