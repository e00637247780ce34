---------------------------- MODULE MCProfileGate ----------------------------
(* ProfileGate for TLC: tabs and panels are interchangeable.               *)
EXTENDS ProfileGate, TLC

Symmetry == Permutations(Tabs) \cup Permutations(Panels)
=============================================================================
