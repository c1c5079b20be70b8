---------------------------- MODULE MCTabContexts ----------------------------
(* A small browser.                                                         *)
EXTENDS TabContexts, TLC

CONSTANTS a, b, c, w1, w2, w3

MCSymmetry ==
  Permutations(Url) \cup Permutations(Tab \ FirstTab) \cup Permutations(Window \ {FirstWindow})
=============================================================================
