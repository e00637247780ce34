--------------------------- MODULE MCSessionArming --------------------------
(* Model values for SessionArming, and the symmetries that are sound for safety. *)
EXTENDS SessionArming, TLC

Symmetry == Permutations(Tabs) \cup Permutations(Urls) \cup Permutations(Cvs)
=============================================================================
