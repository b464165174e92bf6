---------------------------- MODULE MCRankView ----------------------------
(* RankView on small instances.                                            *)
EXTENDS RankView, TLC

\* The views are interchangeable.
Symmetry == Permutations(Views)
=============================================================================
