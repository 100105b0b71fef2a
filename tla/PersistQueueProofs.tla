-------------------------- MODULE PersistQueueProofs -------------------------
(***************************************************************************)
(* Proofs about PersistQueue for every set of callers and every capacity   *)
(* and batch size: its types, the inductive invariant behind the barrier   *)
(* of Flush, the drain of Close and the batch timer, and the refinement of *)
(* WriteBehind.                                                            *)
(***************************************************************************)
EXTENDS PersistQueue, TLAPS, SequenceTheorems, WellFoundedInduction

-----------------------------------------------------------------------------
(* Lemmas about sequences and Replay.                                      *)

(* A nonempty set of positions has a last one (a least in the order of the *)
(* distance from the end).                                                 *)
LEMMA LastPosition ==
  ASSUME NEW n \in Nat, NEW W, W \subseteq 1..n, W # {}
  PROVE  \E i \in W : \A j \in W : j <= i
<1> DEFINE D == {n - i : i \in W}
<1>1. D \subseteq Nat /\ D # {}
  <2>1. \A i \in W : n - i \in Nat
    OBVIOUS
  <2>2. PICK i \in W : TRUE
    OBVIOUS
  <2>3. n - i \in D
    BY <2>2
  <2> QED BY <2>1, <2>3
<1>2. PICK d \in D : \A e \in D : ~ (<<e, d>> \in OpToRel(<, Nat))
  <2> HIDE DEF D
  <2> QED BY <1>1, NatLessThanWellFounded, WFMin
<1>3. \A e \in D : d <= e
  <2> SUFFICES ASSUME NEW e \in D PROVE d <= e
    OBVIOUS
  <2>1. e \in Nat /\ d \in Nat
    BY <1>1, <1>2
  <2>2. ~ (e < d)
    <3> HIDE DEF D
    <3> QED BY <1>2, <2>1 DEF OpToRel
  <2> QED BY <2>1, <2>2
<1>4. PICK i \in W : d = n - i
  BY <1>2
<1>5. \A j \in W : j <= i
  <2> SUFFICES ASSUME NEW j \in W PROVE j <= i
    OBVIOUS
  <2>1. n - j \in D
    OBVIOUS
  <2> QED BY <1>3, <1>4, <2>1
<1> QED BY <1>5

(* Replaying operations keeps the store a function from keys to values.    *)
LEMMA ReplayType ==
  ASSUME NEW st \in [Keys -> Vals \cup {Absent}], NEW b \in Seq(Op)
  PROVE  WB!Replay(st, b) \in [Keys -> Vals \cup {Absent}]
<1> SUFFICES ASSUME NEW k \in Keys, WB!Writes(b, k) # {}
             PROVE  b[CHOOSE i \in WB!Writes(b, k) :
                        \A j \in WB!Writes(b, k) : j <= i].val
                      \in Vals \cup {Absent}
  BY DEF WB!Replay
<1> DEFINE W == WB!Writes(b, k)
<1>1. W \subseteq 1..Len(b) /\ Len(b) \in Nat
  BY DEF WB!Writes
<1>2. \E i \in W : \A j \in W : j <= i
  <2>1. W # {}
    OBVIOUS
  <2> HIDE DEF W
  <2> QED BY <1>1, <2>1, LastPosition
<1>3. (CHOOSE i \in W : \A j \in W : j <= i) \in 1..Len(b)
  <2> HIDE DEF W
  <2> QED BY <1>1, <1>2
<1>4. \A p \in 1..Len(b) : b[p].val \in Vals \cup {Absent}
  <2> TAKE p \in 1..Len(b)
  <2>1. b[p] \in Op
    OBVIOUS
  <2> QED BY <2>1 DEF Op
<1> QED BY <1>3, <1>4

(* Replaying nothing changes nothing.                                      *)
LEMMA ReplayNothing ==
  ASSUME NEW st \in [Keys -> Vals \cup {Absent}]
  PROVE  WB!Replay(st, << >>) = st
BY DEF WB!Replay, WB!Writes

(* The first Len(b) elements of b \o q are b, the rest is q.               *)
LEMMA ConcatParts ==
  ASSUME NEW b \in Seq(Op), NEW q \in Seq(Op)
  PROVE  /\ SubSeq(b \o q, 1, Len(b)) = b
         /\ WB!Rest(b \o q, Len(b)) = q
<1>1. /\ b \o q \in Seq(Op)
      /\ Len(b \o q) = Len(b) + Len(q)
      /\ Len(b) \in Nat /\ Len(q) \in Nat
  OBVIOUS
<1>2. SubSeq(b \o q, 1, Len(b)) = b
  BY <1>1
<1>3. SubSeq(b \o q, Len(b) + 1, Len(b) + Len(q)) = q
  BY <1>1
<1> QED BY <1>1, <1>2, <1>3 DEF WB!Rest

(* Moving the head of q to the end of b leaves b \o q what it is.          *)
LEMMA ConcatShift ==
  ASSUME NEW b \in Seq(Op), NEW q \in Seq(Op), q # << >>
  PROVE  /\ Append(b, Head(q)) \in Seq(Op)
         /\ Tail(q) \in Seq(Op)
         /\ Len(Tail(q)) = Len(q) - 1
         /\ Append(b, Head(q)) \o Tail(q) = b \o q
OBVIOUS

-----------------------------------------------------------------------------
(* Types.                                                                  *)

(* Empty channels are sequences of length 0.                               *)
LEMMA EmptyChannels ==
  /\ << >> \in Seq(Op) /\ << >> \in Seq(Flushers)
  /\ Len(<< >>) = 0 /\ 0 <= Capacity /\ 0 <= FlushCap
BY QueueAssumption

(* Receiving from a channel leaves a channel of the same capacity.          *)
LEMMA TailFits ==
  ASSUME TypeOK
  PROVE  /\ ops # << >> =>
              /\ Tail(ops) \in Seq(Op) /\ Len(Tail(ops)) <= Capacity
              /\ Append(batch, Head(ops)) \in Seq(Op)
         /\ flushReq # << >> =>
              /\ Head(flushReq) \in Flushers
              /\ Tail(flushReq) \in Seq(Flushers)
              /\ Len(Tail(flushReq)) <= FlushCap
<1>1. /\ ops \in Seq(Op) /\ Len(ops) <= Capacity /\ batch \in Seq(Op)
      /\ flushReq \in Seq(Flushers) /\ Len(flushReq) <= FlushCap
  BY DEF TypeOK
<1>2. Capacity \in Nat /\ FlushCap \in Nat
  BY QueueAssumption
<1> QED BY <1>1, <1>2

(* What a flush of the batch b does to the variables it changes.           *)
LEMMA FlushBatchType ==
  ASSUME TypeOK, NEW b \in Seq(Op), FlushBatch(b)
  PROVE  /\ store' \in [Keys -> Vals \cup {Absent}]
         /\ batch' = << >> /\ batch' \in Seq(Op)
         /\ retired' \in Nat
<1>1. store' \in [Keys -> Vals \cup {Absent}]
  <2>1. WB!Replay(store, b) \in [Keys -> Vals \cup {Absent}]
    BY ReplayType DEF TypeOK
  <2>2. store' = WB!Replay(store, b) \/ store' = store
    BY DEF FlushBatch
  <2> QED BY <2>1, <2>2 DEF TypeOK
<1>2. batch' = << >> /\ batch' \in Seq(Op)
  BY EmptyChannels DEF FlushBatch
<1>3. retired' \in Nat
  BY DEF TypeOK, FlushBatch
<1> QED BY <1>1, <1>2, <1>3

(* The channels stay within their capacities and every variable keeps its  *)
(* type, whatever the callers and the loop interleave (persist.go:46-48).  *)
THEOREM TypeCorrect == Spec => []TypeOK
<1>1. Init => TypeOK
  <2> SUFFICES ASSUME Init PROVE TypeOK
    OBVIOUS
  <2>1. store \in [Keys -> Vals \cup {Absent}]
    BY DEF Init
  <2> QED BY <2>1, EmptyChannels DEF Init, TypeOK
<1>2. TypeOK /\ [Next]_vars => TypeOK'
  <2> SUFFICES ASSUME TypeOK, [Next]_vars PROVE TypeOK'
    OBVIOUS
  <2> USE DEF TypeOK, loopVars, callVars, disk
  <2>1. ASSUME NEW s \in Senders, SendCheck(s) PROVE TypeOK'
    BY <2>1 DEF SendCheck
  <2>2. ASSUME NEW s \in Senders, NEW op \in Op, SendEnqueue(s, op) PROVE TypeOK'
    BY <2>2, QueueAssumption DEF SendEnqueue
  <2>3. ASSUME NEW s \in Senders, SendSeesClose(s) \/ SendPanics(s) PROVE TypeOK'
    BY <2>3 DEF SendSeesClose, SendPanics
  <2>4. ASSUME NEW f \in Flushers, FlushCall(f) \/ FlushSkip(f) PROVE TypeOK'
    BY <2>4 DEF FlushCall, FlushSkip
  <2>5. ASSUME NEW f \in Flushers, FlushRequest(f) PROVE TypeOK'
    BY <2>5, QueueAssumption DEF FlushRequest
  <2>6. CASE Close
    BY <2>6 DEF Close, CloseOps, CloseCloseCh, CloseReturn
  <2>7. CASE LoopReceive
    <3> DEFINE b == Append(batch, Head(ops))
    <3>1. b \in Seq(Op) /\ ops' \in Seq(Op) /\ Len(ops') <= Capacity
      BY <2>7, TailFits DEF LoopReceive
    <3>2. /\ store' \in [Keys -> Vals \cup {Absent}]
          /\ batch' \in Seq(Op) /\ retired' \in Nat /\ timerOn' \in BOOLEAN
      <4> HIDE DEF b
      <4>1. CASE FlushBatch(b) /\ timerOn' = FALSE
        BY <3>1, <4>1, FlushBatchType
      <4>2. CASE batch' = b /\ timerOn' = TRUE /\ UNCHANGED <<store, retired>>
        BY <3>1, <4>2
      <4> QED BY <2>7, <4>1, <4>2 DEF LoopReceive, b
    <3> QED BY <2>7, <3>1, <3>2 DEF LoopReceive
  <2>8. CASE LoopTimer \/ LoopClosed
    <3>1. FlushBatch(batch)
      BY <2>8 DEF LoopTimer, LoopClosed
    <3> QED BY <2>8, <3>1, FlushBatchType DEF LoopTimer, LoopClosed
  <2>9. CASE LoopFlushReq \/ AckRest
    <3>1. /\ Head(flushReq) \in Flushers
          /\ flushReq' \in Seq(Flushers) /\ Len(flushReq') <= FlushCap
      BY <2>9, TailFits DEF LoopFlushReq, AckRest
    <3> QED BY <2>9, <3>1 DEF LoopFlushReq, AckRest
  <2>10. CASE DrainReceive
    <3>1. /\ batch' \in Seq(Op)
          /\ ops' \in Seq(Op) /\ Len(ops') <= Capacity
      BY <2>10, TailFits DEF DrainReceive
    <3> QED BY <2>10, <3>1 DEF DrainReceive
  <2>11. ASSUME NEW f \in Flushers, DrainDone(f) PROVE TypeOK'
    <3>1. FlushBatch(batch)
      BY <2>11 DEF DrainDone
    <3> QED BY <2>11, <3>1, FlushBatchType DEF DrainDone
  <2>12. CASE LoopExit
    BY <2>12 DEF LoopExit
  <2>13. CASE Crash
    <3>1. /\ ops' = << >> /\ flushReq' = << >> /\ batch' = << >>
          /\ retired' \in Nat /\ crashes' \in Nat
      BY <2>13 DEF Crash
    <3>2. /\ spc' \in [Senders -> {"idle", "select", "rejected", "panicked"}]
          /\ fpc' \in [Flushers ->
                {"idle", "calling", "waiting", "served", "acked", "skipped"}]
          /\ mark' \in [Flushers -> Nat]
      BY <2>13 DEF Crash
    <3> QED BY <2>13, <3>1, <3>2, EmptyChannels DEF Crash
  <2>14. CASE UNCHANGED vars
    BY <2>14 DEF vars
  <2> QED
    BY <2>1, <2>2, <2>3, <2>4, <2>5, <2>6, <2>7, <2>8, <2>9, <2>10, <2>11,
       <2>12, <2>13, <2>14 DEF Next, Send, Flush, Loop
<1> QED BY <1>1, <1>2, PTL DEF Spec

-----------------------------------------------------------------------------
(* The inductive invariant.                                                *)

(* Every accepted operation is retired, in the batch or in ops; no flusher *)
(* has counted more than was accepted; a loop past its select has emptied  *)
(* the closed channel and its batch; Close returns after the loop.         *)
Accounting == accepted = retired + Len(batch) + Len(ops)
MarksAccepted == \A f \in Flushers : mark[f] <= accepted
ExitIsEmpty == lpc \in {"ackRest", "exited"} =>
                 opsClosed /\ ops = << >> /\ batch = << >>
CloseAfterExit == closing = "done" => lpc = "exited"

QueueInv == /\ Accounting
            /\ MarksAccepted
            /\ ExitIsEmpty
            /\ CloseAfterExit
            /\ WaitingBatchHasTimer
            /\ FlushBarrier

(* A flush of the whole batch leaves what ops holds, and retires the rest. *)
LEMMA FlushBatchAccounting ==
  ASSUME TypeOK, NEW b \in Seq(Op), FlushBatch(b),
         accepted = retired + Len(b) + Len(ops')
  PROVE  accepted = retired' + Len(batch') + Len(ops') /\ retired <= retired'
<1>1. /\ Len(b) \in Nat /\ retired \in Nat /\ retired' = retired + Len(b)
      /\ batch' = << >>
  BY DEF TypeOK, FlushBatch
<1>2. Len(batch') = 0
  BY <1>1
<1> HIDE DEF FlushBatch
<1> QED BY <1>1, <1>2

(* The queue NewQueue makes satisfies the invariant.                       *)
LEMMA QueueInvInit == Init => QueueInv
BY DEF Init, QueueInv, Accounting, MarksAccepted, ExitIsEmpty, CloseAfterExit,
       WaitingBatchHasTimer, FlushBarrier, opsClosed

(* Every step of the loop, of a caller and of Close keeps the invariant.   *)
LEMMA QueueInvStep == TypeOK /\ QueueInv /\ [Next]_vars => QueueInv'
<1> SUFFICES ASSUME TypeOK, QueueInv, [Next]_vars PROVE QueueInv'
  OBVIOUS
<1> USE DEF QueueInv, Accounting, MarksAccepted, ExitIsEmpty, CloseAfterExit,
            WaitingBatchHasTimer, FlushBarrier, opsClosed, closeChClosed,
            loopVars, callVars, disk
<1>0. /\ accepted \in Nat /\ retired \in Nat /\ mark \in [Flushers -> Nat]
      /\ ops \in Seq(Op) /\ batch \in Seq(Op) /\ flushReq \in Seq(Flushers)
      /\ Len(ops) \in Nat /\ Len(batch) \in Nat
      /\ fpc \in [Flushers ->
                 {"idle", "calling", "waiting", "served", "acked", "skipped"}]
  BY DEF TypeOK
<1>1. ASSUME NEW s \in Senders, SendCheck(s) \/ SendSeesClose(s) \/ SendPanics(s)
      PROVE  QueueInv'
  BY <1>0, <1>1 DEF SendCheck, SendSeesClose, SendPanics
<1>2. ASSUME NEW s \in Senders, NEW op \in Op, SendEnqueue(s, op)
      PROVE  QueueInv'
  <2>1. Len(ops') = Len(ops) + 1 /\ accepted' = accepted + 1
    BY <1>0, <1>2 DEF SendEnqueue
  <2>2. lpc \notin {"ackRest", "exited"}
    BY <1>2 DEF SendEnqueue
  <2> QED BY <1>0, <1>2, <2>1, <2>2 DEF SendEnqueue
<1>3. ASSUME NEW f \in Flushers, Flush(f) PROVE QueueInv'
  <2>1. CASE FlushCall(f)
    <3>1. mark' = [mark EXCEPT ![f] = accepted] /\ fpc' = [fpc EXCEPT ![f] = "calling"]
      BY <2>1 DEF FlushCall
    <3>2. MarksAccepted' /\ FlushBarrier'
      BY <1>0, <2>1, <3>1 DEF FlushCall
    <3> QED BY <2>1, <3>2 DEF FlushCall
  <2>2. CASE FlushRequest(f)
    BY <1>0, <2>2 DEF FlushRequest
  <2>3. CASE FlushSkip(f)
    BY <1>0, <2>3 DEF FlushSkip
  <2> QED BY <1>3, <2>1, <2>2, <2>3 DEF Flush
<1>4. CASE Close
  <2>1. CASE CloseOps
    BY <1>0, <2>1 DEF CloseOps
  <2>2. CASE CloseCloseCh
    BY <1>0, <2>2 DEF CloseCloseCh
  <2>3. CASE CloseReturn
    BY <1>0, <2>3 DEF CloseReturn
  <2> QED BY <1>4, <2>1, <2>2, <2>3 DEF Close
<1>5. CASE LoopReceive
  <2> DEFINE b == Append(batch, Head(ops))
  <2>1. /\ b \in Seq(Op) /\ Len(b) = Len(batch) + 1 /\ Len(ops') = Len(ops) - 1
        /\ Len(ops') \in Nat /\ accepted = retired + Len(b) + Len(ops')
    BY <1>0, <1>5 DEF LoopReceive
  <2> HIDE DEF b
  <2>2. CASE FlushBatch(b) /\ timerOn' = FALSE
    <3>1. accepted = retired' + Len(batch') + Len(ops') /\ retired <= retired'
      BY <2>1, <2>2, FlushBatchAccounting
    <3>2. batch' = << >> /\ retired' \in Nat
      BY <2>1, <2>2, FlushBatchType
    <3> QED BY <1>0, <1>5, <3>1, <3>2 DEF LoopReceive
  <2>3. CASE /\ batch' = b /\ timerOn' = TRUE /\ Len(b) < BatchSize
             /\ UNCHANGED <<store, retired>>
    BY <1>0, <1>5, <2>1, <2>3 DEF LoopReceive
  <2> QED BY <1>5, <2>2, <2>3 DEF LoopReceive, b
<1>6. CASE LoopTimer \/ LoopClosed
  <2>1. FlushBatch(batch) /\ ops' = ops
    BY <1>6 DEF LoopTimer, LoopClosed
  <2>2. accepted = retired' + Len(batch') + Len(ops') /\ retired <= retired'
    BY <1>0, <2>1, FlushBatchAccounting
  <2>3. batch' = << >> /\ retired' \in Nat
    BY <1>0, <2>1, FlushBatchType
  <2> QED BY <1>0, <1>6, <2>2, <2>3 DEF LoopTimer, LoopClosed
<1>7. CASE LoopFlushReq
  BY <1>0, <1>7 DEF LoopFlushReq
<1>8. CASE DrainReceive
  <2>1. /\ Len(batch') = Len(batch) + 1 /\ Len(ops') = Len(ops) - 1
    BY <1>0, <1>8 DEF DrainReceive
  <2> QED BY <1>0, <1>8, <2>1 DEF DrainReceive
<1>9. ASSUME NEW f \in Flushers, DrainDone(f) PROVE QueueInv'
  <2>1. FlushBatch(batch) /\ ops' = ops /\ ops = << >>
    BY <1>9 DEF DrainDone
  <2>2. accepted = retired' + Len(batch') + Len(ops') /\ retired <= retired'
    BY <1>0, <2>1, FlushBatchAccounting
  <2>3. batch' = << >> /\ retired' \in Nat
    BY <1>0, <2>1, FlushBatchType
  <2>4. Len(batch') = 0 /\ Len(ops') = 0
    BY <2>1, <2>3
  <2>5. /\ accepted' = accepted /\ mark' = mark
        /\ lpc' = "select" /\ closing' = closing /\ lpc = "drain"
    BY <1>9 DEF DrainDone
  <2>6. accepted = retired'
    <3>1. accepted = retired + Len(batch) + 0
      BY <2>1
    <3>2. accepted = retired + Len(batch)
      BY <1>0, <3>1
    <3> QED BY <2>1, <3>2 DEF FlushBatch
  <2>7. Accounting' /\ MarksAccepted' /\ FlushBarrier'
    BY <1>0, <2>2, <2>5, <2>6
  <2>8. ExitIsEmpty' /\ CloseAfterExit' /\ WaitingBatchHasTimer'
    BY <2>3, <2>5
  <2> QED BY <2>7, <2>8
<1>10. CASE AckRest
  <2>1. accepted = retired
    BY <1>0, <1>10 DEF AckRest
  <2> QED BY <1>0, <1>10, <2>1 DEF AckRest
<1>11. CASE LoopExit
  BY <1>0, <1>11 DEF LoopExit
<1>12. CASE Crash
  <2>1. Len(ops') = 0 /\ Len(batch') = 0 /\ retired' = accepted
    BY <1>12 DEF Crash
  <2>2. /\ mark' = [f \in Flushers |-> 0] /\ fpc' = [f \in Flushers |-> "idle"]
        /\ lpc' = "select" /\ closing' = "open" /\ batch' = << >>
        /\ accepted' = accepted
    BY <1>12 DEF Crash
  <2>3. MarksAccepted' /\ FlushBarrier'
    BY <1>0, <2>2
  <2>4. Accounting'
    BY <1>0, <2>1, <2>2
  <2>5. ExitIsEmpty' /\ CloseAfterExit' /\ WaitingBatchHasTimer'
    BY <2>2
  <2> QED BY <2>3, <2>4, <2>5
<1>13. CASE UNCHANGED vars
  BY <1>13 DEF vars
<1> QED
  BY <1>1, <1>2, <1>3, <1>4, <1>5, <1>6, <1>7, <1>8, <1>9, <1>10, <1>11, <1>12,
     <1>13 DEF Next, Send, Loop

(* The invariant behind the three properties below holds for ever.         *)
LEMMA QueueInvariant == Spec => []QueueInv
<1>1. Init => QueueInv
  BY QueueInvInit
<1>2. TypeOK /\ QueueInv /\ [Next]_vars => QueueInv'
  BY QueueInvStep
<1> QED BY <1>1, <1>2, TypeCorrect, PTL DEF Spec

(* An acknowledged Flush has seen every operation accepted before it was   *)
(* called retired (persist.go:85-92, 154-173).                             *)
THEOREM FlushIsABarrier == Spec => []FlushBarrier
<1>1. QueueInv => FlushBarrier
  BY DEF QueueInv
<1> QED BY <1>1, QueueInvariant, PTL

(* A loop that waits with operations in its batch has its timer armed      *)
(* (persist.go:141-157).                                                   *)
THEOREM NoBatchWithoutTimer == Spec => []WaitingBatchHasTimer
<1>1. QueueInv => WaitingBatchHasTimer
  BY DEF QueueInv
<1> QED BY <1>1, QueueInvariant, PTL

(* A Close that has returned left no accepted operation behind             *)
(* (persist.go:94-105, 126-139).                                           *)
THEOREM CloseLeavesNothing == Spec => []CloseDrains
<1>1. TypeOK /\ QueueInv => CloseDrains
  <2> SUFFICES ASSUME TypeOK, QueueInv, closing = "done" PROVE retired = accepted
    BY DEF CloseDrains
  <2>1. ops = << >> /\ batch = << >> /\ accepted = retired + Len(batch) + Len(ops)
    BY DEF QueueInv, CloseAfterExit, ExitIsEmpty, Accounting
  <2> QED BY <2>1 DEF TypeOK
<1> QED BY <1>1, TypeCorrect, QueueInvariant, PTL

-----------------------------------------------------------------------------
(* The queue implements WriteBehind, with batch \o ops as what is pending.  *)

(* A flush of the first Len(b) pending operations is a Commit or a Drop of *)
(* that prefix, or changes nothing when b is empty.                        *)
LEMMA FlushBatchRefines ==
  ASSUME TypeOK, NEW b \in Seq(Op), FlushBatch(b), ops' \in Seq(Op),
         batch \o ops = b \o ops'
  PROVE  [WB!Next]_(WB!vars)
<1> DEFINE pend == batch \o ops
<1>1. /\ pend \in Seq(Op) /\ Len(pend) = Len(b) + Len(ops')
      /\ Len(b) \in Nat /\ Len(ops') \in Nat
  BY DEF TypeOK
<1>2. SubSeq(pend, 1, Len(b)) = b /\ WB!Rest(pend, Len(b)) = ops'
  BY ConcatParts
<1>3. (batch \o ops)' = ops'
  BY DEF FlushBatch
<1>4. CASE b = << >>
  <2>1. store' = store
    BY <1>4, ReplayNothing DEF FlushBatch, TypeOK
  <2>2. batch \o ops = ops'
    BY <1>4
  <2> QED BY <1>3, <2>1, <2>2 DEF WB!vars
<1>5. CASE b # << >>
  <2>1. Len(b) \in 1..Len(pend)
    BY <1>1, <1>5
  <2>2. WB!Commit(Len(b)) \/ WB!Drop(Len(b))
    BY <1>2, <1>3 DEF FlushBatch, WB!Commit, WB!Drop
  <2> QED BY <2>1, <2>2 DEF WB!Next
<1> QED BY <1>4, <1>5

(* The store moves only by whole prefixes of what was accepted, in order   *)
(* (persist.go:107-198).                                                   *)
THEOREM QueueRefinesWriteBehind == Spec => WriteBehindSpec
<1>1. Init => WB!Init
  BY EmptyChannels DEF Init, WB!Init
<1>2. TypeOK /\ [Next]_vars => [WB!Next]_(WB!vars)
  <2> SUFFICES ASSUME TypeOK, [Next]_vars PROVE [WB!Next]_(WB!vars)
    OBVIOUS
  <2>0. ops \in Seq(Op) /\ batch \in Seq(Op)
    BY DEF TypeOK
  <2> USE DEF loopVars, callVars, disk
  <2>1. ASSUME NEW s \in Senders, NEW op \in Op, SendEnqueue(s, op)
        PROVE  WB!Accept(op)
    <3>1. batch \o Append(ops, op) = Append(batch \o ops, op)
      BY <2>0
    <3> QED BY <2>1, <3>1 DEF SendEnqueue, WB!Accept
  <2>2. CASE LoopReceive
    <3> DEFINE b == Append(batch, Head(ops))
    <3>1. /\ b \in Seq(Op) /\ ops' \in Seq(Op) /\ b \o ops' = batch \o ops
      BY <2>0, <2>2, ConcatShift DEF LoopReceive
    <3> HIDE DEF b
    <3>2. CASE FlushBatch(b)
      BY <3>1, <3>2, FlushBatchRefines
    <3>3. CASE batch' = b /\ UNCHANGED store
      BY <3>1, <3>3 DEF WB!vars
    <3> QED BY <2>2, <3>2, <3>3 DEF LoopReceive, b
  <2>3. CASE LoopTimer \/ LoopClosed \/ \E f \in Flushers : DrainDone(f)
    <3>1. FlushBatch(batch) /\ ops' = ops
      BY <2>3 DEF LoopTimer, LoopClosed, DrainDone
    <3> QED BY <2>0, <3>1, FlushBatchRefines
  <2>4. CASE DrainReceive
    <3>1. batch' \o ops' = batch \o ops /\ store' = store
      BY <2>0, <2>4, ConcatShift DEF DrainReceive
    <3> QED BY <3>1 DEF WB!vars
  <2>5. CASE Crash
    <3>1. batch' \o ops' = << >> /\ store' = store
      BY <2>5, EmptyChannels DEF Crash
    <3> QED BY <3>1 DEF WB!Next, WB!Crash
  <2>6. CASE UNCHANGED <<store, ops, batch>>
    BY <2>6 DEF WB!vars
  <2>7. ASSUME NEW s \in Senders, SendCheck(s) \/ SendSeesClose(s) \/ SendPanics(s)
        PROVE  UNCHANGED <<store, ops, batch>>
    BY <2>7 DEF SendCheck, SendSeesClose, SendPanics
  <2>8. ASSUME NEW f \in Flushers, Flush(f)
        PROVE  UNCHANGED <<store, ops, batch>>
    BY <2>8 DEF Flush, FlushCall, FlushRequest, FlushSkip
  <2>9. Close \/ LoopFlushReq \/ AckRest \/ LoopExit \/ UNCHANGED vars
          => UNCHANGED <<store, ops, batch>>
    BY DEF Close, CloseOps, CloseCloseCh, CloseReturn, LoopFlushReq, AckRest,
           LoopExit, vars
  <2>10. WB!Op = Op
    BY DEF WB!Op, Op
  <2> QED
    BY <2>1, <2>2, <2>3, <2>4, <2>5, <2>6, <2>7, <2>8, <2>9, <2>10
       DEF Next, Send, Loop, WB!Next
<1> QED BY <1>1, <1>2, TypeCorrect, PTL DEF Spec, WriteBehindSpec, WB!Spec
==============================================================================
