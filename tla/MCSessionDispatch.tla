------------------------ MODULE MCSessionDispatch ------------------------
(* Instances of SessionDispatch for TLC.                                  *)
EXTENDS SessionDispatch, TLC

\* Messages are interchangeable, and so are runs (no CHOOSE in the model).
Symmetry == Permutations(Items) \cup Permutations(Runs)
==========================================================================
