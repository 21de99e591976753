---------------------------- MODULE MCHost ------------------------------------
(* Host, for TLC. *)
EXTENDS Host, TLC

\* Every way three pages can follow each other, their ids and their sizes.
MCServices ==
  {[i \in Page |-> [next |-> next[i], ids |-> ids[i], size |-> size[i]]] :
     next \in [Page -> Page \cup {None}],
     ids  \in {<<{"v1"}, {}, {"v2"}>>, <<{"v1"}, {"v1"}, {"v1", "v2"}>>},
     size \in {<<1, 1, 1>>, <<1, 1, 3>>}}

\* Up to two ranges, with one that ends after the last line and one that is empty;
\* an answer names up to two places, and the third line of a file does not exist.
LineRanges ==
  {[file |-> f, from |-> b[1], to |-> b[2]] : f \in File, b \in {<<1, 1>>, <<1, 3>>, <<3, 3>>}}

MCRanges == {{r, s} : r, s \in LineRanges}
MCClaims == {{}} \cup {{<<f, 2>>} : f \in File}
                 \cup {{<<f, 1>>, <<g, n>>} : f, g \in File, n \in 1..3}

Symmetry == Permutations(Proc) \cup Permutations(Wrapper)
=============================================================================
