----------------------------- MODULE WriteBehind -----------------------------
(***************************************************************************)
(* What the asynchronous persistence of proxy-gate promises to its callers *)
(* (control/persist.go seen from outside): a key/value store fed by one    *)
(* list of pending operations.  The store only ever moves by applying a    *)
(* whole prefix of that list, in order and atomically; operations leave    *)
(* the list unapplied only when a commit fails (a prefix is dropped) or    *)
(* when the process dies (everything pending is gone).                     *)
(***************************************************************************)
EXTENDS Sequences, Integers

CONSTANTS
  Keys,     \* the keys of the store, a bucket and a key of the code in one
  Vals,     \* the values written
  Absent    \* the value of a key that is not in the store

Op == [key : Keys, val : Vals \cup {Absent}]   \* val = Absent is a Delete

VARIABLES store, pending

vars == <<store, pending>>

(* The positions of b that write key k. *)
Writes(b, k) == {i \in 1..Len(b) : b[i].key = k}

(* The store st after the operations b, in order: the last write wins. *)
Replay(st, b) ==
  [k \in Keys |->
     IF Writes(b, k) = {} THEN st[k]
     ELSE b[CHOOSE i \in Writes(b, k) : \A j \in Writes(b, k) : j <= i].val]

Rest(b, n) == SubSeq(b, n + 1, Len(b))

Init == /\ store \in [Keys -> Vals \cup {Absent}]
        /\ pending = << >>

Accept(op) == /\ pending' = Append(pending, op)
              /\ UNCHANGED store

(* One transaction applies the n oldest operations. *)
Commit(n) == /\ store' = Replay(store, SubSeq(pending, 1, n))
             /\ pending' = Rest(pending, n)

(* A failed transaction: its operations are gone, the store is untouched. *)
Drop(n) == /\ pending' = Rest(pending, n)
           /\ UNCHANGED store

Crash == /\ pending' = << >>
         /\ UNCHANGED store

Next == \/ \E op \in Op : Accept(op)
        \/ \E n \in 1..Len(pending) : Commit(n) \/ Drop(n)
        \/ Crash

Spec == Init /\ [][Next]_vars
==============================================================================
