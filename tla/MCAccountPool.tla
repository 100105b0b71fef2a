---------------------------- MODULE MCAccountPool ----------------------------
(* AccountPool with accounts of one plan, which are available or, with more *)
(* of their quota used, not; a ranking may see the one, then the other.    *)
EXTENDS AccountPool, TLC

MCEmails == {1, 2}
MCTier == [e \in MCEmails |-> 10]
MCStates == {[ok |-> TRUE, primary |-> 0, secondary |-> 0],
             [ok |-> FALSE, primary |-> 1, secondary |-> 0]}

Symmetry == Permutations(Handlers) \cup Permutations(Objects)
==============================================================================
