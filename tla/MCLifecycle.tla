---------------------------- MODULE MCLifecycle ------------------------------
(* Lifecycle of one credential of each kind, with two goroutines; which    *)
(* goroutine and which object is which does not matter.                    *)
EXTENDS Lifecycle, TLC

Symmetry == Permutations(Workers) \cup Permutations(Objects)
==============================================================================
