------------------------- MODULE MCServiceScaling --------------------------
(* Instances of ServiceScaling for TLC. *)
EXTENDS ServiceScaling, TLC

CONSTANTS s1, s2

OneService == {s1}
TwoServices == {s1, s2}
ServiceSymmetry == Permutations(TwoServices)
=============================================================================
