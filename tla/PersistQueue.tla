----------------------------- MODULE PersistQueue ----------------------------
(***************************************************************************)
(* The write-behind queue of control/persist.go: goroutines call Put and   *)
(* Delete (send), one loop goroutine batches the operations and commits    *)
(* them to the bbolt store, Flush waits for an acknowledgement of the      *)
(* loop, Close shuts the queue down.                                       *)
(*                                                                         *)
(* A step of the model is what one goroutine does between two points where *)
(* another can see it: the lock of send is one step and its select another,*)
(* Close closes the two channels in two steps.  The loop's batch and timer *)
(* are its own, so that receiving an operation and committing the batch it *)
(* completes are one step.                                                 *)
(***************************************************************************)
EXTENDS Integers, Sequences

CONSTANTS
  Keys, Vals, Absent,
  Senders,     \* goroutines that call Put or Delete
  Flushers,    \* goroutines that call Flush
  Capacity,    \* of the channel ops (1024 in NewQueue)
  FlushCap,    \* of the channel flushReq (4 in NewQueue)
  BatchSize,   \* operations that complete a batch (64 in NewQueue)
  MaxOps,      \* bound: Puts and Deletes begin while fewer were accepted
  MaxCrashes   \* bound: how often the process may die

ASSUME QueueAssumption ==
  /\ Capacity \in Nat \ {0}
  /\ FlushCap \in Nat \ {0}
  /\ BatchSize \in Nat \ {0}
  /\ MaxOps \in Nat
  /\ MaxCrashes \in Nat
  /\ Absent \notin Vals

VARIABLES
  store,       \* the bbolt file: what a restart finds
  ops,         \* the channel Queue.ops
  flushReq,    \* the channel Queue.flushReq: flushers waiting for their ack
  closing,     \* how far Close is
  spc,         \* per sender: where its send is, or how it ended
  fpc,         \* per flusher: where its Flush is, or how it ended
  lpc,         \* the loop goroutine: its select, a Flush drain, its exit
  batch,       \* the loop's batch
  timerOn,     \* the loop's timerActive
  accepted,    \* history: operations that entered ops
  retired,     \* history: operations disposed of by a commit, its failure or a crash
  mark,        \* history: accepted when the flusher called Flush
  crashes      \* history: how often the process died

loopVars == <<lpc, batch, timerOn>>
callVars == <<spc, fpc, mark, closing>>
disk == <<store, retired, crashes>>
vars == <<store, ops, flushReq, callVars, loopVars, accepted, retired, crashes>>

Op == [key : Keys, val : Vals \cup {Absent}]

WB == INSTANCE WriteBehind WITH pending <- batch \o ops

opsClosed == closing # "open"
closeChClosed == closing \in {"waiting", "done"}

(* NewQueue on a new store: empty channels, nobody calling, the loop at its *)
(* select.                                                                 *)
Init == /\ store = [k \in Keys |-> Absent]
        /\ ops = << >> /\ flushReq = << >> /\ batch = << >>
        /\ closing = "open" /\ lpc = "select" /\ timerOn = FALSE
        /\ spc = [s \in Senders |-> "idle"]
        /\ fpc = [f \in Flushers |-> "idle"]
        /\ mark = [f \in Flushers |-> 0]
        /\ accepted = 0 /\ retired = 0 /\ crashes = 0

-----------------------------------------------------------------------------
(* send: Put and Delete.                                                   *)

(* The check of closed under closeMu, which Close holds while "closing". *)
SendCheck(s) ==
  /\ spc[s] \in {"idle", "rejected"}
  /\ closing # "closing"
  /\ accepted < MaxOps
  /\ spc' = [spc EXCEPT ![s] = IF opsClosed THEN "rejected" ELSE "select"]
  /\ UNCHANGED <<disk, ops, flushReq, closing, fpc, mark, loopVars, accepted>>

(* Mutant: a channel one longer than Capacity. *)
SendEnqueueOverfull(s, op) ==
  /\ spc[s] = "select" /\ ~opsClosed /\ Len(ops) <= Capacity
  /\ ops' = Append(ops, op)
  /\ accepted' = accepted + 1
  /\ spc' = [spc EXCEPT ![s] = "idle"]
  /\ UNCHANGED <<disk, flushReq, closing, fpc, mark, loopVars>>

(* The arm ops <- op of the select: nil is returned. *)
SendEnqueue(s, op) ==
  /\ spc[s] = "select"
  /\ ~opsClosed
  /\ Len(ops) < Capacity
  /\ ops' = Append(ops, op)
  /\ accepted' = accepted + 1
  /\ spc' = [spc EXCEPT ![s] = "idle"]
  /\ UNCHANGED <<disk, flushReq, closing, fpc, mark, loopVars>>

(* The arm <-closeCh: ErrQueueClosed is returned. *)
SendSeesClose(s) ==
  /\ spc[s] = "select"
  /\ closeChClosed
  /\ spc' = [spc EXCEPT ![s] = "rejected"]
  /\ UNCHANGED <<disk, ops, flushReq, closing, fpc, mark, loopVars, accepted>>

(* The arm ops <- op of a select that meets the closed channel: Go panics, *)
(* and may choose this arm though closeCh is closed too.                   *)
SendPanics(s) ==
  /\ spc[s] = "select"
  /\ opsClosed
  /\ spc' = [spc EXCEPT ![s] = "panicked"]
  /\ UNCHANGED <<disk, ops, flushReq, closing, fpc, mark, loopVars, accepted>>

-----------------------------------------------------------------------------
(* Flush and Close.                                                        *)

FlushCall(f) ==
  /\ fpc[f] \in {"idle", "acked", "skipped"}
  /\ fpc' = [fpc EXCEPT ![f] = "calling"]
  /\ mark' = [mark EXCEPT ![f] = accepted]
  /\ UNCHANGED <<disk, ops, flushReq, closing, spc, loopVars, accepted>>

(* The arm flushReq <- ack: also after Close, whose loop may be gone. *)
FlushRequest(f) ==
  /\ fpc[f] = "calling"
  /\ Len(flushReq) < FlushCap
  /\ flushReq' = Append(flushReq, f)
  /\ fpc' = [fpc EXCEPT ![f] = "waiting"]
  /\ UNCHANGED <<disk, ops, closing, spc, mark, loopVars, accepted>>

(* The arm <-closeCh. *)
FlushSkip(f) ==
  /\ fpc[f] = "calling"
  /\ closeChClosed
  /\ fpc' = [fpc EXCEPT ![f] = "skipped"]
  /\ UNCHANGED <<disk, ops, flushReq, closing, spc, mark, loopVars, accepted>>

(* Under closeMu: closed = true and close(ops) ... *)
CloseOps ==
  /\ closing = "open"
  /\ closing' = "closing"
  /\ UNCHANGED <<disk, ops, flushReq, spc, fpc, mark, loopVars, accepted>>

(* ... close(closeCh), and the unlock. *)
CloseCloseCh ==
  /\ closing = "closing"
  /\ closing' = "waiting"
  /\ UNCHANGED <<disk, ops, flushReq, spc, fpc, mark, loopVars, accepted>>

(* wg.Wait returns once the loop has exited. *)
CloseReturn ==
  /\ closing = "waiting"
  /\ lpc = "exited"
  /\ closing' = "done"
  /\ UNCHANGED <<disk, ops, flushReq, spc, fpc, mark, loopVars, accepted>>

-----------------------------------------------------------------------------
(* The loop goroutine.                                                     *)

(* Mutant: batch = batch[:0] is missing. *)
FlushBatchKept(b) ==
  batch' = b /\ retired' = retired + Len(b) /\ store' \in {WB!Replay(store, b), store}

(* flushBatch on the batch b: one bbolt transaction, which applies all of  *)
(* b or, when it fails, none of it (the error is logged); b is gone either *)
(* way.                                                                    *)
FlushBatch(b) ==
  /\ batch' = << >>
  /\ retired' = retired + Len(b)
  /\ store' \in {WB!Replay(store, b), store}

(* Mutant: len(batch) > q.batchSize. *)
LoopReceiveLate ==
  /\ lpc = "select" /\ ops # << >>
  /\ ops' = Tail(ops)
  /\ LET b == Append(batch, Head(ops)) IN
       \/ Len(b) <= BatchSize /\ batch' = b /\ timerOn' = TRUE /\ UNCHANGED <<store, retired>>
       \/ Len(b) > BatchSize /\ FlushBatch(b) /\ timerOn' = FALSE
  /\ UNCHANGED <<flushReq, callVars, lpc, accepted, crashes>>

(* An operation is received; the first one of a batch arms the timer, the  *)
(* one that completes it commits it and stops the timer.                   *)
LoopReceive ==
  /\ lpc = "select"
  /\ ops # << >>
  /\ ops' = Tail(ops)
  /\ LET b == Append(batch, Head(ops)) IN
       \/ /\ Len(b) < BatchSize
          /\ batch' = b
          /\ timerOn' = TRUE
          /\ UNCHANGED <<store, retired>>
       \/ /\ Len(b) >= BatchSize
          /\ FlushBatch(b)
          /\ timerOn' = FALSE
  /\ UNCHANGED <<flushReq, callVars, lpc, accepted, crashes>>

(* Mutant: the timer's arm forgets flushBatch(). *)
LoopTimerIdle ==
  /\ lpc = "select" /\ timerOn
  /\ timerOn' = FALSE
  /\ UNCHANGED <<disk, ops, flushReq, callVars, lpc, batch, accepted>>

(* maxWait after it was armed the timer fires. *)
LoopTimer ==
  /\ lpc = "select"
  /\ timerOn
  /\ timerOn' = FALSE
  /\ FlushBatch(batch)
  /\ UNCHANGED <<ops, flushReq, callVars, lpc, accepted, crashes>>

(* A flush request is received: the loop starts to drain ops. *)
LoopFlushReq ==
  /\ lpc = "select"
  /\ flushReq # << >>
  /\ flushReq' = Tail(flushReq)
  /\ fpc' = [fpc EXCEPT ![Head(flushReq)] = "served"]
  /\ lpc' = "drain"
  /\ UNCHANGED <<disk, ops, closing, spc, mark, batch, timerOn, accepted>>

(* The drain takes what is in ops, past batchSize too. *)
DrainReceive ==
  /\ lpc = "drain"
  /\ ops # << >>
  /\ batch' = Append(batch, Head(ops))
  /\ ops' = Tail(ops)
  /\ UNCHANGED <<disk, flushReq, callVars, lpc, timerOn, accepted>>

(* Mutant: the drain takes what it likes of ops before the ack. *)
DrainDoneEarly(f) ==
  /\ lpc = "drain" /\ fpc[f] = "served"
  /\ FlushBatch(batch)
  /\ timerOn' = FALSE
  /\ fpc' = [fpc EXCEPT ![f] = "acked"]
  /\ lpc' = "select"
  /\ UNCHANGED <<ops, flushReq, closing, spc, mark, accepted, crashes>>

(* ops is empty (or closed and empty): commit, stop the timer, close(ack). *)
DrainDone(f) ==
  /\ lpc = "drain"
  /\ fpc[f] = "served"
  /\ ops = << >>
  /\ FlushBatch(batch)
  /\ timerOn' = FALSE
  /\ fpc' = [fpc EXCEPT ![f] = "acked"]
  /\ lpc' = "select"
  /\ UNCHANGED <<ops, flushReq, closing, spc, mark, accepted, crashes>>

(* Mutant: the loop leaves without its last commit. *)
LoopClosedNoCommit ==
  /\ lpc = "select" /\ opsClosed /\ ops = << >>
  /\ lpc' = "ackRest"
  /\ UNCHANGED <<disk, ops, flushReq, callVars, batch, timerOn, accepted>>

(* ops is closed and empty: the last commit. *)
LoopClosed ==
  /\ lpc = "select"
  /\ opsClosed
  /\ ops = << >>
  /\ FlushBatch(batch)
  /\ timerOn' = FALSE
  /\ lpc' = "ackRest"
  /\ UNCHANGED <<ops, flushReq, callVars, accepted, crashes>>

(* The requests still in flushReq are acknowledged before the loop exits. *)
AckRest ==
  /\ lpc = "ackRest"
  /\ flushReq # << >>
  /\ flushReq' = Tail(flushReq)
  /\ fpc' = [fpc EXCEPT ![Head(flushReq)] = "acked"]
  /\ UNCHANGED <<disk, ops, closing, spc, mark, loopVars, accepted>>

(* Mutant: the loop returns at once, without the inner select. *)
LoopExitNoAck ==
  /\ lpc = "ackRest"
  /\ lpc' = "exited"
  /\ UNCHANGED <<disk, ops, flushReq, callVars, batch, timerOn, accepted>>

LoopExit ==
  /\ lpc = "ackRest"
  /\ flushReq = << >>
  /\ lpc' = "exited"
  /\ UNCHANGED <<disk, ops, flushReq, callVars, batch, timerOn, accepted>>

(* The process dies and is started again: only the store survives. *)
Crash ==
  /\ crashes < MaxCrashes
  /\ crashes' = crashes + 1
  /\ ops' = << >> /\ flushReq' = << >> /\ batch' = << >>
  /\ closing' = "open" /\ lpc' = "select" /\ timerOn' = FALSE
  /\ spc' = [s \in Senders |-> "idle"]
  /\ fpc' = [f \in Flushers |-> "idle"]
  /\ mark' = [f \in Flushers |-> 0]
  /\ retired' = accepted
  /\ UNCHANGED <<store, accepted>>

-----------------------------------------------------------------------------
Send(s) == \/ SendCheck(s) \/ SendSeesClose(s) \/ SendPanics(s)
           \/ \E op \in Op : SendEnqueue(s, op)
Flush(f) == FlushCall(f) \/ FlushRequest(f) \/ FlushSkip(f)
Close == CloseOps \/ CloseCloseCh \/ CloseReturn
Loop == \/ LoopReceive \/ LoopTimer \/ LoopFlushReq \/ DrainReceive
        \/ \E f \in Flushers : DrainDone(f)
        \/ LoopClosed \/ AckRest \/ LoopExit

Next == \/ \E s \in Senders : Send(s)
        \/ \E f \in Flushers : Flush(f)
        \/ Close
        \/ Loop
        \/ Crash

Spec == Init /\ [][Next]_vars

(* The Go runtime keeps running the loop goroutine, and its select, which  *)
(* picks at random among the ready arms, starves neither the timer nor the *)
(* flush requests.  Callers may stop at any point.                         *)
Fairness == /\ WF_vars(Loop)
            /\ SF_vars(LoopReceive)
            /\ SF_vars(LoopTimer)
            /\ SF_vars(LoopFlushReq)

FairSpec == Spec /\ Fairness

-----------------------------------------------------------------------------
(* The variables hold what the Go types allow: the channels keep within    *)
(* their capacities (persist.go:46-48).                                    *)
TypeOK ==
  /\ store \in [Keys -> Vals \cup {Absent}]
  /\ ops \in Seq(Op) /\ Len(ops) <= Capacity
  /\ flushReq \in Seq(Flushers) /\ Len(flushReq) <= FlushCap
  /\ closing \in {"open", "closing", "waiting", "done"}
  /\ spc \in [Senders -> {"idle", "select", "rejected", "panicked"}]
  /\ fpc \in [Flushers ->
                {"idle", "calling", "waiting", "served", "acked", "skipped"}]
  /\ lpc \in {"select", "drain", "ackRest", "exited"}
  /\ batch \in Seq(Op)
  /\ timerOn \in BOOLEAN
  /\ accepted \in Nat /\ retired \in Nat /\ crashes \in Nat
  /\ mark \in [Flushers -> Nat]

(* Whenever the loop waits with a batch in hand the batch is incomplete    *)
(* and its timer is armed: nothing sits in memory with no one left to      *)
(* commit it (persist.go:141-157, three places that set timerActive).      *)
WaitingBatchHasTimer ==
  lpc = "select" /\ batch # << >> => timerOn /\ Len(batch) < BatchSize

(* An acknowledged Flush is a barrier: every operation whose Put returned  *)
(* before Flush was called has been committed (or its commit has failed),  *)
(* also when the acknowledgement comes from the exit of the loop           *)
(* (persist.go:85-92, 132-140, 154-173).                                   *)
FlushBarrier ==
  \A f \in Flushers : fpc[f] = "acked" => mark[f] <= retired

(* When Close has returned nothing accepted is left behind: neither in ops *)
(* nor in the batch (persist.go:94-105, 126-139).                          *)
CloseDrains == closing = "done" => retired = accepted

(* The store moves only by whole prefixes of what was accepted, in order:  *)
(* batching, timers, drains, Close and crashes never reorder, split or     *)
(* repeat an operation (persist.go:107-198).                               *)
WriteBehindSpec == WB!Spec

(* An accepted operation does not stay in memory for ever: with the loop   *)
(* scheduled it is committed, though nobody calls Flush or Close           *)
(* (persist.go:142-153).                                                   *)
EventuallyRetired ==
  \A n \in 1..(MaxOps + 1) : accepted >= n ~> retired >= n

(* A flush request the loop can still see is acknowledged                  *)
(* (persist.go:132-140, 154-173).                                          *)
FlushAcknowledged ==
  \A f \in Flushers :
    (fpc[f] = "waiting" /\ lpc # "exited") ~> fpc[f] # "waiting"

(* A Put or Delete ends with nil or with ErrQueueClosed, never otherwise   *)
(* (persist_test.go:63-64 asks ErrQueueClosed of a Put on a closed queue). *)
PutNeverPanics == \A s \in Senders : spc[s] # "panicked"
==============================================================================
