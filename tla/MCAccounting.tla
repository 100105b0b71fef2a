---------------------------- MODULE MCAccounting -----------------------------
(* Accounting of two goroutines that relay streams of each dialect and a   *)
(* document; which goroutine is which does not matter.                     *)
EXTENDS Accounting, TLC

Data(i, o, t) == [given |-> TRUE, done |-> FALSE,
                  usage |-> [input |-> i, output |-> o, total |-> t]]
Bare == [given |-> FALSE, done |-> FALSE, usage |-> NoUsage]
Ends == [Bare EXCEPT !.done = TRUE]
Said(t, d) == [type |-> t, data |-> d]
Answer(k, b, e) == [kind |-> k, body |-> b, events |-> e]

MCStreams == {
  Answer("responses", FALSE, <<Said("created", Bare), Said("completed", Data(1, 1, 0))>>),
  Answer("responses", TRUE, <<Said("completed", Data(1, 0, 0))>>),
  Answer("claude", FALSE, <<Said("start", Data(1, 0, 0)), Said("delta", Data(0, 1, 0)),
                            Said("stop", Bare)>>),
  Answer("chat", FALSE, <<Said("none", Data(1, 1, 3)), Said("none", Ends)>>)}

Symmetry == Permutations(Workers)
==============================================================================
