----------------------------- MODULE MCClaudePool ----------------------------
(* ClaudePool with accounts of known, unknown and used-up quota.           *)
EXTENDS ClaudePool, TLC

MCEmails == {1, 2}
MCStates ==
  {[ok |-> TRUE, fresh |-> TRUE, primary |-> 2, secondary |-> 4, load |-> 3],
   [ok |-> TRUE, fresh |-> TRUE, primary |-> 0, secondary |-> Full, load |-> 0],
   [ok |-> FALSE, fresh |-> FALSE, primary |-> 0, secondary |-> 0, load |-> 0]}

Symmetry == Permutations(Handlers) \cup Permutations(Objects)
==============================================================================
