---------------------------- MODULE MCChangeApply ----------------------------
(* Instances of ChangeApply for TLC: one entry of each kind that matters,    *)
(* an addition below a directory that has to be made first.                  *)
EXTENDS ChangeApply, TLC

CONSTANTS a1, a2

TwoAppliers == {a1, a2}
OneApplier  == {a1}

\* b/new (added, below the new directory b), c (modified), d (deleted)
MCN == 3
MCOp == <<"added", "modified", "deleted">>
MCBaseX == <<FALSE, FALSE, TRUE>>
MCResultX == <<TRUE, FALSE, FALSE>>
MCNeeds == <<{1}, {}, {}>>
MCAbove == <<{}>>
MCMustAccept == {2}

\* a (mode only), b/c/new (added, below two new directories)
NestedN == 2
NestedOp == <<"mode", "added">>
NestedBaseX == <<FALSE, FALSE>>
NestedResultX == <<TRUE, FALSE>>
NestedNeeds == <<{}, {1, 2}>>
NestedAbove == <<{}, {1}>>
NestedMustAccept == {1}

Symmetry == Permutations(Appliers)
=============================================================================
