-------------------------- MODULE MCFallbackReview ---------------------------
(* Instances of FallbackReview for TLC. *)
EXTENDS FallbackReview, TLC

CONSTANTS r1, r2, r3, noFile

ThreeRuns == {r1, r2, r3}
TwoRuns   == {r1, r2}

\* All three write one log, two of them to one --out, the third to stdout.
SharedFiles == {1, 2}
SharedOut   == r1 :> 1 @@ r2 :> noFile @@ r3 :> 1
SharedLog   == r1 :> 2 @@ r2 :> 2 @@ r3 :> 2

\* The log of each is the --out of the other.
CrossedFiles == {1, 2}
CrossedOut   == r1 :> 1 @@ r2 :> 2
CrossedLog   == r1 :> 2 @@ r2 :> 1
=============================================================================
