------------------------------ MODULE MCLabels ------------------------------
(***************************************************************************)
(* Instances of Labels: "a", and "a-1" as a name of its own.               *)
(***************************************************************************)
EXTENDS Labels, TLC

CONSTANTS h1, h2, m1, m2, s1, s2

MCHeadings == <<h1, h2>>
MCSymmetry == Permutations(Metadata) \cup Permutations(Spans)
MCNames == {<<0>>, <<0, 1>>}
=============================================================================
