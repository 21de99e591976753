--------------------------- MODULE MCBuildSession ----------------------------
(* Instances of BuildSession for TLC. *)
EXTENDS BuildSession, TLC
=============================================================================
