--------------------------- MODULE MCSandboxProxy ----------------------------
(* Instances of SandboxProxy for TLC. *)
EXTENDS SandboxProxy, TLC

CONSTANTS w1, w2, w3

ThreeWorkers == {w1, w2, w3}

\* Three connections, two at a time: the third may find no slot, the last
\* request and the second chunk are one too many.
TightCaps == [requests |-> 3, concurrent |-> 2, bytes_up |-> 2, bytes_down |-> 2]
=============================================================================
