--------------------------- MODULE LifecycleProofs ---------------------------
(***************************************************************************)
(* The proofs about Lifecycle: its types, and the four promises about one  *)
(* credential: the admin's last wish holds, the file and the pool have the *)
(* newest refresh token, nothing good is marked dead, what was deleted     *)
(* stays deleted.                                                          *)
(*                                                                         *)
(* Each promise speaks of the states between the jobs; its invariant says  *)
(* what carries it through them: the snapshots on their way to the store   *)
(* (Wished), the goroutine that has the newest token in hand (InOrder,     *)
(* Carried), the goroutines about to report a failed refresh (Reasoned),   *)
(* and the steps of a deletion (Deleting).                                 *)
(***************************************************************************)
EXTENDS Lifecycle, TLAPS

-----------------------------------------------------------------------------
(* What a goroutine has in hand at each point of its way.                  *)

Places == {"idle", "call", "call again", "exchange", "update", "save", "failed",
           "persist", "put", "record", "set", "unlink", "remove", "forget"}
Nexts == {"idle", "call again", "failed"}

HandOK(w) ==
  /\ pc[w] \in {"exchange", "update"} <=> sent[w] # None
  /\ pc[w] \notin {"persist", "put"} => after[w] = "idle"
  /\ held[w] = None <=> \/ pc[w] \in {"idle", "record"}
                        \/ pc[w] = "put" /\ after[w] = "idle"
  /\ pc[w] = "put" <=> snap[w] # None

Hands ==
  /\ job \in [Workers -> Jobs \cup {"none"}]
  /\ pc \in [Workers -> Places]
  /\ after \in [Workers -> Nexts]
  /\ held \in [Workers -> Objects \cup {None}]
  /\ sent \in [Workers -> Tokens \cup {None}]
  /\ snap \in [Workers -> Stats \cup {None}]
  /\ \A w \in Workers : HandOK(w)

Data ==
  /\ kind \in Kinds
  /\ upstream \in Tokens /\ file \in Tokens \cup {None}
  /\ token \in [Objects -> Tokens] /\ stats \in [Objects -> Stats]
  /\ entry \in Objects \cup {None} /\ loaded \in Tokens \cup {None}
  /\ changed \in BOOLEAN /\ up \in BOOLEAN
  /\ sound \in BOOLEAN /\ wronged \in BOOLEAN /\ deleted \in BOOLEAN
  /\ stored \in [{Key} -> Stats \cup {None}]
  /\ queued \in Seq(Behind!Op) /\ Len(queued) <= MaxQueue
  /\ events \in 0..MaxEvents
  /\ wish \in {"disabled", "enabled", "any"}

Typed == Data /\ Hands

(* The statistics that will be in the store when the queue is empty.       *)
Accepted == IF queued = << >> THEN stored[Key] ELSE queued[Len(queued)].val

-----------------------------------------------------------------------------
(* The queue.                                                              *)

(* Replaying operations of the one key leaves the value of the last.       *)
LEMMA ReplayLast ==
  ASSUME NEW st \in [{Key} -> Stats \cup {None}], NEW q \in Seq(Behind!Op), q # << >>
  PROVE  /\ Behind!Replay(st, q) \in [{Key} -> Stats \cup {None}]
         /\ Behind!Replay(st, q)[Key] = q[Len(q)].val
<1>1. /\ Len(q) \in Nat /\ Len(q) \in 1..Len(q)
      /\ \A i \in 1..Len(q) : q[i] \in Behind!Op
  OBVIOUS
<1>2. \A i \in 1..Len(q) : q[i].key = Key /\ q[i].val \in Stats \cup {None}
  BY <1>1 DEF Behind!Op
<1>3. Behind!Writes(q, Key) = 1..Len(q)
  BY <1>2 DEF Behind!Writes
<1> DEFINE last == CHOOSE i \in 1..Len(q) : \A j \in 1..Len(q) : j <= i
<1>4. last = Len(q)
  <2>1. \A j \in 1..Len(q) : j <= Len(q)
    BY <1>1
  <2>2. last \in 1..Len(q) /\ \A j \in 1..Len(q) : j <= last
    BY <1>1, <2>1
  <2>3. last \in Nat /\ last <= Len(q) /\ Len(q) <= last
    BY <1>1, <2>2
  <2> HIDE DEF last
  <2> QED BY <1>1, <2>3
<1>5. \A k \in {Key} : Behind!Replay(st, q)[k] = q[Len(q)].val
  BY <1>1, <1>3, <1>4 DEF Behind!Replay
<1>6. Behind!Replay(st, q) = [k \in {Key} |-> Behind!Replay(st, q)[k]]
  BY DEF Behind!Replay
<1> QED BY <1>1, <1>2, <1>5, <1>6

(* A commit moves the statistics on and leaves what was accepted; a failed *)
(* one leaves the store.                                                   *)
LEMMA QueueMoves ==
  ASSUME Data, NEW n \in 1..Len(queued), Behind!Commit(n) \/ Behind!Drop(n)
  PROVE  /\ stored' \in [{Key} -> Stats \cup {None}]
         /\ queued' \in Seq(Behind!Op) /\ Len(queued') <= MaxQueue
         /\ Behind!Commit(n) => Accepted' = Accepted
<1> DEFINE q == SubSeq(queued, 1, n)
           r == SubSeq(queued, n + 1, Len(queued))
<1>1. /\ stored \in [{Key} -> Stats \cup {None}] /\ queued \in Seq(Behind!Op)
      /\ Len(queued) \in Nat /\ Len(queued) <= MaxQueue /\ n \in Nat
      /\ 1 <= n /\ n <= Len(queued) /\ MaxQueue \in Nat
  BY LifecycleAssumption DEF Data
<1>2. /\ q \in Seq(Behind!Op) /\ Len(q) = n /\ q # << >> /\ q[n] = queued[n]
      /\ r \in Seq(Behind!Op) /\ Len(r) = Len(queued) - n
      /\ \A i \in 1..(Len(queued) - n) : r[i] = queued[n + i]
  BY <1>1
<1>3. queued' = r
  BY DEF Behind!Commit, Behind!Drop, Behind!Rest
<1>4. Behind!Commit(n) => stored' = Behind!Replay(stored, q)
  BY DEF Behind!Commit
<1>5. Behind!Drop(n) => stored' = stored
  BY DEF Behind!Drop
<1>6. /\ Behind!Replay(stored, q) \in [{Key} -> Stats \cup {None}]
      /\ Behind!Replay(stored, q)[Key] = queued[n].val
  <2> HIDE DEF q
  <2> QED BY <1>1, <1>2, ReplayLast
<1>7. Len(r) <= MaxQueue
  BY <1>1, <1>2
<1>8. ASSUME Behind!Commit(n) PROVE Accepted' = Accepted
  <2>0. queued # << >> /\ Accepted = queued[Len(queued)].val
    BY <1>1 DEF Accepted
  <2>1. CASE n = Len(queued)
    <3>1. queued' = << >>
      BY <1>2, <1>3, <2>1
    <3>2. Accepted' = stored'[Key]
      BY <3>1 DEF Accepted
    <3> HIDE DEF q, r
    <3> QED BY <1>4, <1>6, <1>8, <2>0, <2>1, <3>2
  <2>2. CASE n # Len(queued)
    <3> HIDE DEF q, r
    <3>1. Len(r) > 0 /\ r[Len(r)] = queued[Len(queued)]
      <4>1. Len(queued) - n \in 1..(Len(queued) - n)
            /\ n + (Len(queued) - n) = Len(queued)
        BY <1>1, <2>2
      <4> QED BY <1>2, <4>1
    <3>2. r # << >>
      BY <3>1
    <3> QED BY <1>3, <2>0, <3>1, <3>2 DEF Accepted
  <2> QED BY <2>1, <2>2
<1> HIDE DEF q, r
<1> QED BY <1>1, <1>2, <1>3, <1>4, <1>5, <1>6, <1>7, <1>8

(* What is queued is what will be in the store.                            *)
LEMMA QueueTakes ==
  ASSUME Data, NEW val \in Stats \cup {None}, Queue(val)
  PROVE  /\ stored' = stored
         /\ queued' \in Seq(Behind!Op) /\ Len(queued') <= MaxQueue
         /\ Accepted' = val
<1> DEFINE op == [key |-> Key, val |-> val]
<1>1. op \in Behind!Op
  BY DEF Behind!Op
<1>2. queued' = Append(queued, op) /\ stored' = stored /\ Len(queued) < MaxQueue
  BY DEF Queue, Write, Behind!Accept
<1>3. queued \in Seq(Behind!Op) /\ MaxQueue \in Nat
  BY LifecycleAssumption DEF Data
<1>4. op.val = val
  OBVIOUS
<1> HIDE DEF op
<1>5. /\ queued' \in Seq(Behind!Op) /\ Len(queued') = Len(queued) + 1
      /\ queued'[Len(queued')] = op /\ queued' # << >>
  BY <1>1, <1>2, <1>3
<1>6. Len(queued') <= MaxQueue
  BY <1>2, <1>3, <1>5
<1>7. Accepted' = val
  BY <1>4, <1>5 DEF Accepted
<1> QED BY <1>2, <1>5, <1>6, <1>7

-----------------------------------------------------------------------------
(* The types.                                                              *)

(* What the constants say.                                                 *)
LEMMA Sentinels ==
  /\ None \notin Objects /\ None \notin Tokens /\ None \notin Stats
  /\ MaxEvents \in Nat /\ MaxQueue \in Nat
  /\ Tokens \subseteq Nat /\ 1 \in Tokens /\ 0 \in 0..MaxEvents
  /\ NewStats \in Stats
BY LifecycleAssumption DEF Tokens, Stats, NewStats, Reasons

(* A goroutine that moves leaves what the others have in hand.             *)
LEMMA HandsKept ==
  ASSUME Hands, NEW w \in Workers,
         job' \in [Workers -> Jobs \cup {"none"}], pc' \in [Workers -> Places],
         after' \in [Workers -> Nexts], held' \in [Workers -> Objects \cup {None}],
         sent' \in [Workers -> Tokens \cup {None}],
         snap' \in [Workers -> Stats \cup {None}],
         \A v \in Workers \ {w} :
           /\ pc'[v] = pc[v] /\ after'[v] = after[v] /\ held'[v] = held[v]
           /\ sent'[v] = sent[v] /\ snap'[v] = snap[v],
         HandOK(w)'
  PROVE  Hands'
<1>1. ASSUME NEW v \in Workers PROVE HandOK(v)'
  <2>1. CASE v = w
    BY <2>1
  <2>2. CASE v # w
    BY <2>2 DEF Hands, HandOK
  <2> QED BY <2>1, <2>2
<1> QED BY <1>1 DEF Hands

(* Objects that nobody refers to are reset.                                *)
LEMMA KeepTyped ==
  ASSUME NEW refs, NEW tok \in [Objects -> Tokens], NEW st \in [Objects -> Stats],
         Keep(refs, tok, st)
  PROVE  token' \in [Objects -> Tokens] /\ stats' \in [Objects -> Stats]
BY Sentinels DEF Keep

(* What a goroutine remembers is a job it may take up again.               *)
LEMMA RememberedJob ==
  ASSUME NEW w
  PROVE  Remembered(w) \in Jobs \cup {"none"}
BY DEF Remembered, Jobs

(* A goroutine that lets its object go is idle or about to record.         *)
LEMMA LeaveTyped ==
  ASSUME Typed, NEW w \in Workers, NEW where \in {"idle", "record"},
         NEW st \in [Objects -> Stats], pc[w] \notin {"persist", "put"},
         Leave(w, where, st)
  PROVE  Hands' /\ token' \in [Objects -> Tokens] /\ stats' \in [Objects -> Stats]
<1>1. token' \in [Objects -> Tokens] /\ stats' \in [Objects -> Stats]
  BY KeepTyped DEF Leave, Typed, Data
<1>2. Hands /\ HandOK(w)
  BY DEF Typed, Hands
<1>3. HandOK(w)'
  BY <1>2 DEF Hands, HandOK, Leave, Goto
<1>4. job' \in [Workers -> Jobs \cup {"none"}]
  <2>1. (IF where = "record" THEN "none" ELSE Remembered(w)) \in Jobs \cup {"none"}
    BY RememberedJob
  <2> QED BY <1>2, <2>1 DEF Hands, Leave
<1>5. Hands'
  BY <1>2, <1>3, <1>4, HandsKept DEF Hands, Leave, Goto, Places
<1> QED BY <1>1, <1>5

(* A goroutine that keeps its object and has no token in hand.             *)
LEMMA StepTyped ==
  ASSUME Typed, NEW w \in Workers, NEW where \in {"save", "failed", "call again", "remove", "forget"},
         pc[w] \notin {"persist", "put", "idle", "record"}, Step(w, where)
  PROVE  Hands' /\ token' \in [Objects -> Tokens] /\ stats' \in [Objects -> Stats]
<1>1. Hands /\ HandOK(w)
  BY DEF Typed, Hands
<1>2. HandOK(w)'
  BY <1>1 DEF Hands, HandOK, Step, Goto
<1>3. Hands'
  BY <1>1, <1>2, HandsKept DEF Hands, Step, Goto, Places
<1> QED BY <1>3 DEF Step, Typed, Data

(* A goroutine whose object is about to be persisted.                      *)
LEMMA PersistThenTyped ==
  ASSUME Typed, NEW w \in Workers, NEW next \in Nexts,
         pc[w] \notin {"persist", "put", "idle", "record"}, PersistThen(w, next)
  PROVE  Hands'
<1>1. Hands /\ HandOK(w)
  BY DEF Typed, Hands
<1>2. job' \in [Workers -> Jobs \cup {"none"}]
  BY <1>1, RememberedJob DEF Hands, PersistThen
<1>3. HandOK(w)'
  BY <1>1 DEF Hands, HandOK, PersistThen, Goto
<1> QED BY <1>1, <1>2, <1>3, HandsKept DEF Hands, PersistThen, Goto, Places

(* A goroutine that is about to send the token of its object.              *)
LEMMA HeldObject ==
  ASSUME Typed, NEW w \in Workers, pc[w] \notin {"idle", "record", "put"}
  PROVE  held[w] \in Objects /\ token[held[w]] \in Tokens /\ stats[held[w]] \in Stats
<1>1. held[w] # None /\ held[w] \in Objects \cup {None}
  BY DEF Typed, Hands, HandOK
<1> QED BY <1>1 DEF Typed, Data

(* A step within the bounds.                                               *)
LEMMA Counts ==
  ASSUME Typed, Budget
  PROVE  upstream + 1 \in Tokens /\ events + 1 \in 0..MaxEvents
BY Sentinels DEF Typed, Data, Budget, Tokens

(* Marking one flag of one object.                                         *)
LEMMA MarkedDead ==
  ASSUME Typed, NEW o \in Objects, NEW reason \in Reasons
  PROVE  /\ Marked(o, "dead", reason) \in [Objects -> Stats]
         /\ Marked(o, "dead", reason)[o].disabled = stats[o].disabled
         /\ Marked(o, "dead", reason)[o].dead = reason
         /\ \A x \in Objects \ {o} : Marked(o, "dead", reason)[x] = stats[x]
BY DEF Typed, Data, Marked, Stats

(* The flag of one object is set, the others are as they were.             *)
LEMMA MarkedDisabled ==
  ASSUME Typed, NEW o \in Objects, NEW v \in BOOLEAN
  PROVE  /\ Marked(o, "disabled", v) \in [Objects -> Stats]
         /\ Marked(o, "disabled", v)[o].disabled = v
         /\ Marked(o, "disabled", v)[o].dead = stats[o].dead
         /\ \A x \in Objects \ {o} : Marked(o, "disabled", v)[x] = stats[x]
BY DEF Typed, Data, Marked, Stats

(* Jobs begin and their calls are answered.                                *)
LEMMA CallsTyped ==
  ASSUME Typed, NEW w \in Workers,
         \/ \E what \in Jobs : Take(w, what)
         \/ CallAnswered(w) \/ CallRefused(w) \/ CallUnauthorized(w)
  PROVE  Typed'
<1>0. /\ Data /\ Hands /\ HandOK(w) /\ None \notin Tokens /\ None \notin Objects
  BY Sentinels DEF Typed, Hands
<1>1. ASSUME NEW what \in Jobs, Take(w, what) PROVE Typed'
  <2>1. entry \in Objects /\ token[entry] \in Tokens
    BY <1>0, <1>1 DEF Take, Data
  <2>2. Data'
    <3>1. deleted' \in BOOLEAN
      BY <1>1 DEF Take
    <3> QED BY <1>0, <1>1, <3>1 DEF Take, Data, object, watch, process
  <2>3. job' \in [Workers -> Jobs \cup {"none"}] /\ held' = [held EXCEPT ![w] = entry]
        /\ after' = after /\ snap' = snap
    BY <1>0, <1>1 DEF Take, Hands
  <2>4. CASE what = "refresh"
    <3>1. sent' = [sent EXCEPT ![w] = token[entry]] /\ pc' = [pc EXCEPT ![w] = "exchange"]
      BY <1>1, <2>4 DEF Take, SendToken, Goto
    <3>2. pc[w] = "idle"
      BY <1>1 DEF Take
    <3>3. HandOK(w)'
      BY <1>0, <2>1, <2>3, <3>1, <3>2 DEF Hands, HandOK
    <3>4. Hands'
      BY <1>0, <2>1, <2>3, <3>1, <3>3, HandsKept DEF Hands, Places
    <3> QED BY <2>2, <3>4 DEF Typed
  <2>5. CASE what # "refresh"
    <3>1. PICK where \in {"set", "unlink", "call"} : pc' = [pc EXCEPT ![w] = where]
      BY <1>1, <2>5 DEF Take, Goto
    <3>2. sent' = sent /\ pc[w] = "idle"
      BY <1>1, <2>5 DEF Take
    <3>3. HandOK(w)'
      BY <1>0, <2>1, <2>3, <3>1, <3>2 DEF Hands, HandOK
    <3>4. Hands'
      BY <1>0, <2>1, <2>3, <3>1, <3>2, <3>3, HandsKept DEF Hands, Places
    <3> QED BY <2>2, <3>4 DEF Typed
  <2> QED BY <2>4, <2>5
<1>2. ASSUME CallAnswered(w) PROVE Typed'
  <2>1. pc[w] \notin {"persist", "put", "idle", "record"} /\ stats \in [Objects -> Stats]
    BY <1>0, <1>2 DEF CallAnswered, Data
  <2>2. Hands' /\ token' \in [Objects -> Tokens] /\ stats' \in [Objects -> Stats]
    <3>1. CASE Leave(w, "record", stats) \/ Finish(w)
      BY <2>1, <3>1, LeaveTyped DEF Finish
    <3>2. CASE PersistThen(w, "idle") /\ UNCHANGED <<token, stats>>
      <4>1. Hands'
        BY <2>1, <3>2, PersistThenTyped DEF Nexts
      <4> QED BY <1>0, <3>2, <4>1 DEF Data
    <3> QED BY <1>2, <3>1, <3>2 DEF CallAnswered
  <2>3. Data'
    BY <1>0, <1>2, <2>2 DEF CallAnswered, Data, watch, process, hist
  <2> QED BY <2>2, <2>3 DEF Typed
<1>4. ASSUME CallRefused(w) PROVE Typed'
  <2>1. /\ pc[w] \in {"call", "call again"}
        /\ Marked(held[w], "dead", "call") \in [Objects -> Stats]
    BY <1>4, HeldObject, MarkedDead DEF CallRefused, Reasons
  <2>2. Hands' /\ token' \in [Objects -> Tokens] /\ stats' \in [Objects -> Stats]
    BY <1>4, <2>1, LeaveTyped DEF CallRefused
  <2>3. Data'
    BY <1>0, <1>4, <2>2 DEF CallRefused, Data, watch, process, hist
  <2> QED BY <2>2, <2>3 DEF Typed
<1>3. ASSUME CallUnauthorized(w) PROVE Typed'
  <2>1. held[w] \in Objects /\ token[held[w]] \in Tokens
    BY <1>3, HeldObject DEF CallUnauthorized
  <2>2. Data'
    BY <1>0, <1>3 DEF CallUnauthorized, Data, object, watch, process, hist
  <2>3. /\ sent' = [sent EXCEPT ![w] = token[held[w]]] /\ pc' = [pc EXCEPT ![w] = "exchange"]
        /\ job' = job /\ held' = held /\ snap' = snap /\ after' = after /\ pc[w] = "call"
    BY <1>3 DEF CallUnauthorized, SendToken, Goto
  <2>4. HandOK(w)'
    BY <1>0, <2>1, <2>3 DEF Hands, HandOK
  <2>5. Hands'
    BY <1>0, <2>1, <2>3, <2>4, HandsKept DEF Hands, Places
  <2> QED BY <2>2, <2>5 DEF Typed
<1> QED BY <1>1, <1>2, <1>3, <1>4

(* A refresh: its exchange, the update of the object, the save.            *)
LEMMA RefreshTyped ==
  ASSUME Typed, NEW w \in Workers,
         \/ Exchange(w) \/ ExchangeFails(w) \/ UpdateTokens(w)
         \/ Save(w) \/ SaveFails(w) \/ RefreshFailed(w)
  PROVE  Typed'
<1>0. /\ Data /\ Hands /\ HandOK(w) /\ None \notin Tokens /\ None \notin Objects
      /\ stats \in [Objects -> Stats] /\ token \in [Objects -> Tokens]
  BY Sentinels DEF Typed, Hands, Data
<1>1. ASSUME ExchangeError(w), pc[w] = "exchange"
      PROVE  Hands' /\ token' \in [Objects -> Tokens] /\ stats' \in [Objects -> Stats]
  <2>1. CASE kind = "claude"
    <3>1. PICK next \in Nexts : PersistThen(w, next)
      BY <1>1, <2>1 DEF ExchangeError, Nexts
    <3>2. Hands'
      BY <1>1, <3>1, PersistThenTyped
    <3> QED BY <1>0, <1>1, <2>1, <3>2 DEF ExchangeError
  <2>2. CASE kind # "claude"
    BY <1>1, <2>2, StepTyped DEF ExchangeError
  <2> QED BY <2>1, <2>2
<1>2. ASSUME Exchange(w) PROVE Typed'
  <2>1. pc[w] = "exchange" /\ upstream' = upstream + 1 /\ upstream + 1 \in Tokens
    BY <1>2, Counts DEF Exchange
  <2>2. CASE /\ sent' = [sent EXCEPT ![w] = upstream + 1] /\ Goto(w, "update")
             /\ UNCHANGED <<job, held, snap, after, token, stats, sound, wronged>>
    <3>1. HandOK(w)'
      BY <1>0, <2>1, <2>2 DEF Hands, HandOK, Goto
    <3>2. Hands'
      BY <1>0, <2>1, <2>2, <3>1, HandsKept DEF Hands, Places, Goto
    <3>3. Data'
      BY <1>0, <1>2, <2>1, <2>2 DEF Exchange, Data, watch, process
    <3> QED BY <3>2, <3>3 DEF Typed
  <2>3. CASE ExchangeError(w) /\ sound' = FALSE /\ wronged' = TRUE
    <3>1. Data'
      BY <1>0, <1>1, <1>2, <2>1, <2>3 DEF Exchange, Data, watch, process
    <3> QED BY <1>1, <2>1, <2>3, <3>1 DEF Typed
  <2> QED BY <1>2, <2>2, <2>3 DEF Exchange
<1>3. ASSUME ExchangeFails(w) PROVE Typed'
  <2>1. pc[w] = "exchange" /\ ExchangeError(w)
    BY <1>3 DEF ExchangeFails
  <2>2. wronged' \in BOOLEAN
    BY <1>3 DEF ExchangeFails
  <2>3. Data'
    BY <1>0, <1>1, <1>3, <2>1, <2>2 DEF ExchangeFails, Data, watch, process
  <2> QED BY <1>1, <2>1, <2>3 DEF Typed
<1>4. ASSUME UpdateTokens(w) PROVE Typed'
  <2>1. held[w] \in Objects /\ sent[w] \in Tokens
    BY <1>0, <1>4, HeldObject DEF UpdateTokens, HandOK, Hands
  <2>2. token' \in [Objects -> Tokens]
    BY <1>0, <1>4, <2>1 DEF UpdateTokens
  <2>3. Data'
    BY <1>0, <1>4, <2>2 DEF UpdateTokens, Data, watch, process, hist
  <2>4. HandOK(w)'
    BY <1>0, <1>4 DEF UpdateTokens, Hands, HandOK, Goto
  <2>5. Hands'
    BY <1>0, <1>4, <2>4, HandsKept DEF UpdateTokens, Hands, Places, Goto
  <2> QED BY <2>3, <2>5 DEF Typed
<1>5. ASSUME Save(w) PROVE Typed'
  <2>1. held[w] \in Objects /\ token[held[w]] \in Tokens /\ pc[w] = "save"
    BY <1>5, HeldObject DEF Save
  <2>2. Hands' /\ token' \in [Objects -> Tokens] /\ stats' \in [Objects -> Stats]
    <3>1. CASE kind = "claude"
      <4>1. PICK next \in Nexts : PersistThen(w, next)
        BY <1>5, <3>1 DEF Save, Nexts
      <4>2. Hands'
        BY <2>1, <4>1, PersistThenTyped
      <4> QED BY <1>0, <1>5, <3>1, <4>2 DEF Save
    <3>2. CASE Step(w, "call again") \/ Finish(w)
      BY <1>0, <2>1, <3>2, StepTyped, LeaveTyped DEF Finish
    <3> QED BY <1>5, <3>1, <3>2 DEF Save
  <2>3. sound' \in BOOLEAN
    BY <1>5 DEF Save
  <2>4. file' \in Tokens \cup {None} /\ changed' \in BOOLEAN
    BY <1>5, <2>1 DEF Save
  <2>5. Data'
    BY <1>0, <1>5, <2>2, <2>3, <2>4 DEF Save, Data, process
  <2> QED BY <2>2, <2>5 DEF Typed
<1>6. ASSUME SaveFails(w) PROVE Typed'
  <2>1. Hands' /\ token' \in [Objects -> Tokens] /\ stats' \in [Objects -> Stats]
    BY <1>6, StepTyped DEF SaveFails
  <2>2. Data'
    BY <1>0, <1>6, <2>1 DEF SaveFails, Data, watch, process
  <2> QED BY <2>1, <2>2 DEF Typed
<1>7. ASSUME RefreshFailed(w) PROVE Typed'
  <2>1. pc[w] = "failed" /\ Marked(held[w], "dead", "refresh") \in [Objects -> Stats]
    BY <1>7, HeldObject, MarkedDead DEF RefreshFailed, Reasons
  <2>2. Hands' /\ token' \in [Objects -> Tokens] /\ stats' \in [Objects -> Stats]
    <3>1. CASE Leave(w, "idle", Marked(held[w], "dead", "refresh")) \/ Finish(w)
      BY <1>0, <2>1, <3>1, LeaveTyped DEF Finish
    <3>2. CASE PersistThen(w, "idle") /\ UNCHANGED <<token, stats>>
      <4>1. Hands'
        BY <2>1, <3>2, PersistThenTyped DEF Nexts
      <4> QED BY <1>0, <3>2, <4>1
    <3> QED BY <1>7, <3>1, <3>2 DEF RefreshFailed
  <2>3. Data'
    BY <1>0, <1>7, <2>2 DEF RefreshFailed, Data, watch, process, hist
  <2> QED BY <2>2, <2>3 DEF Typed
<1> QED BY <1>2, <1>3, <1>4, <1>5, <1>6, <1>7

(* The statistics: a snapshot is taken, and queued.                        *)
LEMMA StatsTyped ==
  ASSUME Typed, NEW w \in Workers, Persist(w) \/ Record(w) \/ Put(w)
  PROVE  Typed'
<1>0. /\ Data /\ Hands /\ HandOK(w) /\ None \notin Tokens /\ None \notin Objects
      /\ stats \in [Objects -> Stats] /\ token \in [Objects -> Tokens]
      /\ None \notin Stats
  BY Sentinels DEF Typed, Hands, Data
<1>1. ASSUME Persist(w) PROVE Typed'
  <2>1. pc[w] = "persist" /\ held[w] \in Objects /\ stats[held[w]] \in Stats
    BY <1>1, HeldObject DEF Persist
  <2>2. /\ snap' = [snap EXCEPT ![w] = stats[held[w]]] /\ pc' = [pc EXCEPT ![w] = "put"]
        /\ job' = job /\ sent' = sent /\ after' = after
    BY <1>1 DEF Persist, Goto
  <2>3. CASE after[w] = "idle"
    <3>1. held' = [held EXCEPT ![w] = None] /\ Keep(ReferredBesides(w), token, stats)
      BY <1>1, <2>3 DEF Persist
    <3>2. token' \in [Objects -> Tokens] /\ stats' \in [Objects -> Stats]
      BY <1>0, <3>1, KeepTyped
    <3>3. HandOK(w)'
      BY <1>0, <2>1, <2>2, <2>3, <3>1 DEF Hands, HandOK
    <3>4. Hands'
      BY <1>0, <2>1, <2>2, <3>1, <3>3, HandsKept DEF Hands, Places
    <3>5. Data'
      BY <1>0, <1>1, <3>2 DEF Persist, Data, watch, process, hist
    <3> QED BY <3>4, <3>5 DEF Typed
  <2>4. CASE after[w] # "idle"
    <3>1. held' = held /\ token' = token /\ stats' = stats
      BY <1>1, <2>4 DEF Persist
    <3>2. HandOK(w)'
      BY <1>0, <2>1, <2>2, <2>4, <3>1 DEF Hands, HandOK
    <3>3. Hands'
      BY <1>0, <2>1, <2>2, <3>1, <3>2, HandsKept DEF Hands, Places
    <3>4. Data'
      BY <1>0, <1>1, <3>1 DEF Persist, Data, watch, process, hist
    <3> QED BY <3>3, <3>4 DEF Typed
  <2> QED BY <2>3, <2>4
<1>2. ASSUME Record(w) PROVE Typed'
  <2>1. Data'
    BY <1>0, <1>2 DEF Record, Data, object, watch, process, hist
  <2>2. pc[w] = "record" /\ job' = job /\ held' = held /\ sent' = sent /\ after' = after
    BY <1>2 DEF Record
  <2>3. CASE entry = None
    <3>1. snap' = snap /\ pc' = [pc EXCEPT ![w] = "idle"]
      BY <1>2, <2>3 DEF Record, Goto
    <3>2. HandOK(w)'
      BY <1>0, <2>2, <3>1 DEF Hands, HandOK
    <3>3. Hands'
      BY <1>0, <2>2, <3>1, <3>2, HandsKept DEF Hands, Places
    <3> QED BY <2>1, <3>3 DEF Typed
  <2>4. CASE entry # None
    <3>1. snap' = [snap EXCEPT ![w] = stats[entry]] /\ pc' = [pc EXCEPT ![w] = "put"]
          /\ stats[entry] \in Stats
      BY <1>0, <1>2, <2>4 DEF Record, Goto, Data
    <3>2. HandOK(w)'
      BY <1>0, <2>2, <3>1 DEF Hands, HandOK
    <3>3. Hands'
      BY <1>0, <2>2, <3>1, <3>2, HandsKept DEF Hands, Places
    <3> QED BY <2>1, <3>3 DEF Typed
  <2> QED BY <2>3, <2>4
<1>3. ASSUME Put(w) PROVE Typed'
  <2>1. pc[w] = "put" /\ snap[w] \in Stats \cup {None}
    BY <1>0, <1>3 DEF Put, Hands
  <2>2. /\ stored' = stored
        /\ queued' \in Seq(Behind!Op) /\ Len(queued') <= MaxQueue
    BY <1>0, <1>3, <2>1, QueueTakes DEF Put
  <2>3. Data'
    BY <1>0, <1>3, <2>2 DEF Put, Data, object, watch, process, hist
  <2>4. /\ snap' = [snap EXCEPT ![w] = None] /\ after' = [after EXCEPT ![w] = "idle"]
        /\ pc' = [pc EXCEPT ![w] = after[w]] /\ after[w] \in Nexts
        /\ job' = job /\ held' = held /\ sent' = sent
    BY <1>0, <1>3 DEF Put, Goto, Hands
  <2>5. HandOK(w)'
    BY <1>0, <2>1, <2>4 DEF Hands, HandOK, Nexts
  <2>6. pc' \in [Workers -> Places] /\ after' \in [Workers -> Nexts]
    BY <1>0, <2>4 DEF Hands, Places, Nexts
  <2>7. Hands'
    BY <1>0, <2>4, <2>5, <2>6, HandsKept DEF Hands
  <2> QED BY <2>3, <2>7 DEF Typed
<1> QED BY <1>1, <1>2, <1>3

(* The admin API: toggles and deletions.                                   *)
LEMMA AdminTyped ==
  ASSUME Typed, NEW w \in Workers,
         SetDisabled(w) \/ Unlink(w) \/ Remove(w) \/ Forget(w)
  PROVE  Typed'
<1>0. /\ Data /\ Hands /\ HandOK(w) /\ None \notin Tokens /\ None \notin Objects
      /\ stats \in [Objects -> Stats] /\ token \in [Objects -> Tokens]
  BY Sentinels DEF Typed, Hands, Data
<1>1. ASSUME SetDisabled(w) PROVE Typed'
  <2>1. pc[w] = "set" /\ held[w] \in Objects /\ (job[w] = "disable") \in BOOLEAN
    BY <1>1, HeldObject DEF SetDisabled
  <2>2. stats' \in [Objects -> Stats]
    BY <1>1, <2>1, MarkedDisabled DEF SetDisabled
  <2>3. events' \in 0..MaxEvents
    BY <1>1, Counts DEF SetDisabled, Event
  <2>4. wish' \in {"disabled", "enabled", "any"}
    BY <1>1 DEF SetDisabled, Wish
  <2>5. Data'
    BY <1>0, <1>1, <2>2, <2>3, <2>4 DEF SetDisabled, Data, watch
  <2>6. Hands'
    BY <1>1, <2>1, PersistThenTyped DEF SetDisabled, Nexts
  <2> QED BY <2>5, <2>6 DEF Typed
<1>2. ASSUME Unlink(w) PROVE Typed'
  <2>1. Hands' /\ token' \in [Objects -> Tokens] /\ stats' \in [Objects -> Stats]
    BY <1>2, StepTyped DEF Unlink
  <2>2. Data'
    BY <1>0, <1>2, <2>1 DEF Unlink, Data, process, hist
  <2> QED BY <2>1, <2>2 DEF Typed
<1>3. ASSUME Remove(w) PROVE Typed'
  <2>1. pc[w] \in {"remove", "unlink"} /\ entry' = None /\ wish' = "any"
    BY <1>3 DEF Remove, Drop
  <2>2. Hands' /\ token' \in [Objects -> Tokens] /\ stats' \in [Objects -> Stats]
    <3>1. CASE kind = "claude"
      BY <1>3, <2>1, <3>1, StepTyped DEF Remove
    <3>2. CASE kind # "claude"
      <4>1. /\ pc' = [pc EXCEPT ![w] = "idle"] /\ job' = [job EXCEPT ![w] = "none"]
            /\ held' = [held EXCEPT ![w] = None] /\ sent' = sent /\ snap' = snap
            /\ after' = after /\ Keep({held[v] : v \in Workers \ {w}}, token, stats)
        BY <1>3, <3>2 DEF Remove, Goto
      <4>2. HandOK(w)'
        BY <1>0, <2>1, <4>1 DEF Hands, HandOK
      <4>3. Hands'
        BY <1>0, <4>1, <4>2, HandsKept DEF Hands, Places
      <4> QED BY <1>0, <4>1, <4>3, KeepTyped
    <3> QED BY <3>1, <3>2
  <2>3. Data'
    BY <1>0, <1>3, <2>1, <2>2 DEF Remove, Data, watch, process
  <2> QED BY <2>2, <2>3 DEF Typed
<1>4. ASSUME Forget(w) PROVE Typed'
  <2>1. Hands' /\ token' \in [Objects -> Tokens] /\ stats' \in [Objects -> Stats]
    BY <1>0, <1>4, LeaveTyped DEF Forget, Finish
  <2>2. /\ stored' = stored
        /\ queued' \in Seq(Behind!Op) /\ Len(queued') <= MaxQueue
    BY <1>0, <1>4, QueueTakes DEF Forget
  <2>3. Data'
    BY <1>0, <1>4, <2>1, <2>2 DEF Forget, Data, watch, process, hist
  <2> QED BY <2>1, <2>3 DEF Typed
<1> QED BY <1>1, <1>2, <1>3, <1>4

(* What an object added by the watcher inherits.                           *)
LEMMA InheritedTyped ==
  ASSUME Typed
  PROVE  Inherited \in Stats
BY Sentinels DEF Typed, Data, Inherited, SameToken

(* The watcher.                                                            *)
LEMMA WatcherTyped ==
  ASSUME Typed, Look \/ Add
  PROVE  Typed'
<1>0. /\ Data /\ Hands /\ stats \in [Objects -> Stats] /\ token \in [Objects -> Tokens]
  BY DEF Typed, Data
<1>1. ASSUME Look PROVE Typed'
  <2>1. Hands'
    BY <1>0, <1>1 DEF Look, worker, Hands, HandOK
  <2>2. CASE file = None
    <3>1. token' \in [Objects -> Tokens] /\ stats' \in [Objects -> Stats]
      BY <1>0, <1>1, <2>2, KeepTyped DEF Look
    <3>2. Data'
      BY <1>0, <1>1, <2>2, <3>1 DEF Look, Drop, Data, process
    <3> QED BY <2>1, <3>2 DEF Typed
  <2>3. CASE file # None
    <3>1. Data'
      BY <1>0, <1>1, <2>3 DEF Look, Data, process, object
    <3> QED BY <2>1, <3>1 DEF Typed
  <2> QED BY <2>2, <2>3
<1>2. ASSUME Add PROVE Typed'
  <2>1. Hands'
    BY <1>0, <1>2 DEF Add, worker, Hands, HandOK
  <2>2. PICK o \in Objects \ Held :
          /\ entry' = o
          /\ Keep(Held \cup {o}, [token EXCEPT ![o] = loaded],
                  [stats EXCEPT ![o] = Inherited])
    BY <1>2 DEF Add
  <2>3. loaded \in Tokens
    BY <1>0, <1>2 DEF Add, Data
  <2>4. [token EXCEPT ![o] = loaded] \in [Objects -> Tokens]
        /\ [stats EXCEPT ![o] = Inherited] \in [Objects -> Stats]
    BY <1>0, <2>3, InheritedTyped
  <2>5. token' \in [Objects -> Tokens] /\ stats' \in [Objects -> Stats]
    BY <2>2, <2>4, KeepTyped
  <2>6. wish' \in {"disabled", "enabled", "any"}
    BY <1>0, <1>2 DEF Add, Data
  <2>7. Data'
    BY <1>0, <1>2, <2>2, <2>5, <2>6 DEF Add, Data, process
  <2> QED BY <2>1, <2>7 DEF Typed
<1> QED BY <1>1, <1>2

(* The process, its surroundings and the queue's transactions.             *)
LEMMA ProcessTyped ==
  ASSUME Typed,
         \/ Start \/ Stop \/ Rewrite \/ Login \/ \E v \in BOOLEAN : Command(v)
         \/ \E n \in 1..Len(queued) : Commit(n) \/ CommitFails(n)
  PROVE  Typed'
<1>0. /\ Data /\ Hands /\ stats \in [Objects -> Stats] /\ token \in [Objects -> Tokens]
      /\ NewStats \in Stats
  BY Sentinels DEF Typed, Data
<1>1. ASSUME Start PROVE Typed'
  <2>1. Hands'
    BY <1>0, <1>1 DEF Start, worker, Hands, HandOK
  <2>2. CASE file = None
    <3>1. Data'
      BY <1>0, <1>1, <2>2 DEF Start, Data, watch, object
    <3> QED BY <2>1, <3>1 DEF Typed
  <2>3. CASE file # None
    <3> DEFINE s == IF stored[Key] = None THEN NewStats ELSE stored[Key]
    <3>1. s \in Stats /\ file \in Tokens /\ entry' \in Objects
      BY <1>0, <1>1, <2>3 DEF Start, Data
    <3>2. token' = [token EXCEPT ![entry'] = file] /\ stats' = [stats EXCEPT ![entry'] = s]
      BY <1>1, <2>3 DEF Start
    <3>3. token' \in [Objects -> Tokens] /\ stats' \in [Objects -> Stats]
      <4> HIDE DEF s
      <4> QED BY <1>0, <3>1, <3>2
    <3>4. wronged' \in BOOLEAN
      BY <1>1, <2>3 DEF Start
    <3>5. Data'
      BY <1>0, <1>1, <3>1, <3>3, <3>4 DEF Start, Data, watch
    <3> QED BY <2>1, <3>5 DEF Typed
  <2> QED BY <2>2, <2>3
<1>2. ASSUME Stop PROVE Typed'
  <2>1. token' \in [Objects -> Tokens] /\ stats' \in [Objects -> Stats]
    BY <1>0, <1>2, KeepTyped DEF Stop
  <2>2. events' \in 0..MaxEvents
    BY <1>2, Counts DEF Stop, Event
  <2>3. queued' = << >> /\ stored' = stored
    BY <1>2 DEF Stop, Behind!Crash
  <2>4. queued' \in Seq(Behind!Op) /\ Len(queued') <= MaxQueue
    BY <2>3, Sentinels
  <2>5. /\ sound' \in BOOLEAN /\ deleted' \in BOOLEAN
        /\ wish' \in {"disabled", "enabled", "any"}
    BY <1>0, <1>2 DEF Stop, Data
  <2>6. Data'
    BY <1>0, <1>2, <2>1, <2>2, <2>3, <2>4, <2>5 DEF Stop, Data
  <2>7. Hands'
    BY <1>2, Sentinels DEF Stop, Hands, HandOK, Places, Nexts
  <2> QED BY <2>6, <2>7 DEF Typed
<1>3. ASSUME Rewrite PROVE Typed'
  <2>1. events' \in 0..MaxEvents
    BY <1>3, Counts DEF Rewrite, Event
  <2>2. Data'
    BY <1>0, <1>3, <2>1 DEF Rewrite, Data, object, hist
  <2>3. Hands'
    BY <1>0, <1>3 DEF Rewrite, worker, Hands, HandOK
  <2> QED BY <2>2, <2>3 DEF Typed
<1>4. ASSUME Login PROVE Typed'
  <2>1. upstream' \in Tokens /\ file' \in Tokens
    BY <1>4, Counts DEF Login
  <2>2. sound' \in BOOLEAN
    BY <1>4 DEF Login
  <2>3. Data'
    BY <1>0, <1>4, <2>1, <2>2 DEF Login, Data, object, process
  <2>4. Hands'
    BY <1>0, <1>4 DEF Login, worker, Hands, HandOK
  <2> QED BY <2>3, <2>4 DEF Typed
<1>5. ASSUME NEW v \in BOOLEAN, Command(v) PROVE Typed'
  <2>1. events' \in 0..MaxEvents
    BY <1>5, Counts DEF Command, Event
  <2>2. [NewStats EXCEPT !.disabled = v] \in Stats
    BY DEF NewStats, Stats, Reasons
  <2>3. stored' \in [{Key} -> Stats \cup {None}] /\ wish' \in {"disabled", "enabled", "any"}
    BY <1>5, <2>2 DEF Command, Wish
  <2>4. Data'
    BY <1>0, <1>5, <2>1, <2>3 DEF Command, Data, object, watch
  <2>5. Hands'
    BY <1>0, <1>5 DEF Command, worker, Hands, HandOK
  <2> QED BY <2>4, <2>5 DEF Typed
<1>6. ASSUME NEW n \in 1..Len(queued), Commit(n) \/ CommitFails(n) PROVE Typed'
  <2>1. /\ stored' \in [{Key} -> Stats \cup {None}]
        /\ queued' \in Seq(Behind!Op) /\ Len(queued') <= MaxQueue
    BY <1>0, <1>6, QueueMoves DEF Commit, CommitFails
  <2>2. events' \in 0..MaxEvents
    BY <1>0, <1>6, Counts DEF Commit, CommitFails, Event, process, Data
  <2>3. Data'
    BY <1>0, <1>6, <2>1, <2>2 DEF Commit, CommitFails, Data, object, watch, process, hist
  <2>4. Hands'
    BY <1>0, <1>6 DEF Commit, CommitFails, worker, Hands, HandOK
  <2> QED BY <2>3, <2>4 DEF Typed
<1> QED BY <1>1, <1>2, <1>3, <1>4, <1>5, <1>6

(* A step that changes nothing keeps the types.                            *)
LEMMA TypedStutters ==
  ASSUME Typed, UNCHANGED vars
  PROVE  Typed'
<1>1. Data'
  BY DEF Typed, Data, vars, object, watch, process, hist
<1>2. Hands'
  BY DEF Typed, Hands, HandOK, vars, worker
<1> QED BY <1>1, <1>2 DEF Typed

(* Every action keeps the types.                                           *)
LEMMA TypedNext ==
  ASSUME Typed, [Next]_vars
  PROVE  Typed'
BY CallsTyped, RefreshTyped, StatsTyped, AdminTyped, WatcherTyped, ProcessTyped,
   TypedStutters DEF Next, Work

(* The credential starts as a file the process has not loaded.             *)
LEMMA TypedInit == Init => Typed
<1> SUFFICES ASSUME Init PROVE Typed
  OBVIOUS
<1>1. Len(queued) <= MaxQueue /\ queued \in Seq(Behind!Op)
  BY Sentinels DEF Init
<1>2. Data
  BY <1>1, Sentinels DEF Init, Data
<1>3. Hands
  BY Sentinels DEF Init, Hands, HandOK, Places, Nexts
<1> QED BY <1>2, <1>3 DEF Typed

(* Every goroutine at work holds an object, and a snapshot is in hand only *)
(* on its way to the queue (recorder.go:391-410, admin.go:959-1040).       *)
THEOREM LifecycleTypeCorrect == Spec => []TypeOK
<1>1. Spec => []Typed
  BY TypedInit, TypedNext, PTL DEF Spec
<1>2. Typed => TypeOK
  <2> SUFFICES ASSUME Typed PROVE TypeOK
    OBVIOUS
  <2>1. {changed, up, sound, wronged, deleted} \subseteq BOOLEAN
    BY DEF Typed, Data
  <2>2. \A w \in Workers : /\ pc[w] \notin {"idle", "record", "put"} => held[w] # None
                           /\ pc[w] = "put" <=> snap[w] # None
    BY DEF Typed, Hands, HandOK
  <2> QED BY <2>1, <2>2 DEF Typed, Data, Hands, Nexts, TypeOK
<1> QED BY <1>1, <1>2, PTL

-----------------------------------------------------------------------------
(* A process that is down.                                                 *)

(* A process that does not run has no account, no events and no goroutine. *)
Down == ~up => /\ entry = None /\ ~changed /\ loaded = None /\ queued = << >>
               /\ \A w \in Workers : pc[w] = "idle"

(* Nothing works while the process is down, and Stop takes everything      *)
(* that worked.                                                            *)
LEMMA DownNext ==
  ASSUME Typed, Down, [Next]_vars
  PROVE  Down'
<1> USE DEF watch, process, worker, object
<1>1. CASE up
  <2>1. ASSUME Stop PROVE Down'
    BY <2>1 DEF Stop, Down, Behind!Crash
  <2>2. ASSUME ~Stop PROVE up' = TRUE
    <3>1. ASSUME NEW w \in Workers, Work(w) PROVE up' = up
      BY <3>1 DEF Work, Take, CallAnswered, CallRefused, CallUnauthorized, Exchange,
                  ExchangeFails, UpdateTokens, Save, SaveFails, RefreshFailed, Persist, Record, Put,
                  SetDisabled, Unlink, Remove, Forget
    <3>2. ASSUME NEW n \in 1..Len(queued), Commit(n) \/ CommitFails(n) PROVE up' = up
      BY <3>2 DEF Commit, CommitFails
    <3>3. Look \/ Add \/ Rewrite \/ Login \/ (\E v \in BOOLEAN : Command(v)) \/ UNCHANGED vars
            => up' = up
      BY DEF Look, Add, Rewrite, Login, Command, vars
    <3>4. Start => up' = TRUE
      BY DEF Start
    <3> QED BY <1>1, <2>2, <3>1, <3>2, <3>3, <3>4 DEF Next
  <2> QED BY <2>1, <2>2 DEF Down
<1>2. CASE ~up
  <2>1. \A w \in Workers : pc[w] = "idle"
    BY <1>2 DEF Down
  <2>2. ASSUME NEW w \in Workers, Work(w) PROVE FALSE
    BY <1>2, <2>1, <2>2
       DEF Work, Take, CallAnswered, CallRefused, CallUnauthorized, Exchange, ExchangeFails,
           UpdateTokens, Save, SaveFails, RefreshFailed, Persist, Record, Put,
           SetDisabled, Unlink, Remove, Forget
  <2>3. ASSUME NEW n \in 1..Len(queued) PROVE FALSE
    <3>1. queued = << >>
      BY <1>2 DEF Down
    <3> QED BY <3>1
  <2>4. ASSUME Start PROVE Down'
    BY <2>4 DEF Start, Down
  <2>5. ASSUME Login PROVE Down'
    BY <1>2, <2>5 DEF Login, Down
  <2>6. ASSUME NEW v \in BOOLEAN, Command(v) PROVE Down'
    BY <1>2, <2>6 DEF Command, Down
  <2>7. ASSUME UNCHANGED vars PROVE Down'
    BY <1>2, <2>7 DEF vars, Down
  <2>8. ~Look /\ ~Add /\ ~Stop /\ ~Rewrite
    BY <1>2 DEF Look, Add, Stop, Rewrite
  <2> QED BY <2>2, <2>3, <2>4, <2>5, <2>6, <2>7, <2>8 DEF Next
<1> QED BY <1>1, <1>2

(* The types, and what holds of a process that is down.                    *)
Alive == Typed /\ Down

(* At the start the process is down.                                       *)
LEMMA AliveInit == Init => Alive
<1>1. Init => Down
  BY DEF Init, Down
<1> QED BY <1>1, TypedInit DEF Alive

(* Both are kept.                                                          *)
LEMMA AliveNext ==
  ASSUME Alive, [Next]_vars
  PROVE  Alive'
BY TypedNext, DownNext DEF Alive

-----------------------------------------------------------------------------
(* Steps that give nobody a new token.                                     *)

(* The objects somebody refers to.                                         *)
Referred == ({entry} \cup Held) \ {None}

OthersKept(w) ==
  \A v \in Workers \ {w} : /\ pc'[v] = pc[v] /\ held'[v] = held[v] /\ sent'[v] = sent[v]
                           /\ after'[v] = after[v] /\ snap'[v] = snap[v]

(* What a goroutine may do that neither exchanges a token nor takes one.   *)
WorksOn(w) ==
  /\ UNCHANGED <<upstream, loaded, up>> /\ OthersKept(w)
  /\ pc'[w] \notin {"update", "save"}
  /\ held'[w] \in {held[w], entry, None}
  /\ pc'[w] = "exchange" => sent'[w] = token'[held'[w]]
  /\ \A o \in Referred' : token'[o] = token[o]
  /\ entry' \in {entry, None}
  /\ \/ file' \in {file, None}
     \/ held[w] # None /\ file' = token[held[w]]

(* The same of any step.                                                   *)
Calm ==
  /\ upstream' = upstream
  /\ Referred' \subseteq Referred /\ \A o \in Referred' : token'[o] = token[o]
  /\ entry' \in {entry, None} /\ loaded' \in {loaded, None, file}
  /\ file' \in {file, None} \/ \E o \in Referred : file' = token[o]
  /\ \A v \in Workers :
       /\ pc'[v] = "update" => pc[v] = "update" /\ held'[v] = held[v] /\ sent'[v] = sent[v]
       /\ pc'[v] = "save" => pc[v] = "save" /\ held'[v] = held[v]
       /\ pc'[v] = "exchange" => \/ sent'[v] = token'[held'[v]]
                                 \/ /\ pc[v] = "exchange" /\ held'[v] = held[v]
                                    /\ sent'[v] = sent[v]

(* Nobody who has a token on its way to the file loses it.                 *)
Steady ==
  sound' => /\ \A v \in Workers : pc[v] \in {"update", "save"} =>
                 pc'[v] = pc[v] /\ held'[v] = held[v]
            /\ file' \in {file, None}
            /\ up' /\ ~changed' => up /\ ~changed /\ loaded' = loaded

(* A goroutine that works is calm.                                         *)
LEMMA WorkIsCalm ==
  ASSUME Typed, NEW w \in Workers, WorksOn(w)
  PROVE  Calm
<1>1. held \in [Workers -> Objects \cup {None}]
  BY DEF Typed, Hands
<1>2. Referred' \subseteq Referred
  <2> SUFFICES ASSUME NEW o \in Referred' PROVE o \in Referred
    OBVIOUS
  <2>1. o # None /\ (o = entry' \/ \E v \in Workers : o = held'[v])
    BY DEF Referred, Held
  <2>2. o = entry \/ \E v \in Workers : o = held[v]
    BY <2>1 DEF WorksOn, OthersKept
  <2> QED BY <2>1, <2>2 DEF Referred, Held
<1>3. file' \in {file, None} \/ \E o \in Referred : file' = token[o]
  BY DEF WorksOn, Referred, Held
<1>4. ASSUME NEW v \in Workers
      PROVE  /\ pc'[v] = "update" => pc[v] = "update" /\ held'[v] = held[v] /\ sent'[v] = sent[v]
             /\ pc'[v] = "save" => pc[v] = "save" /\ held'[v] = held[v]
             /\ pc'[v] = "exchange" => \/ sent'[v] = token'[held'[v]]
                                       \/ /\ pc[v] = "exchange" /\ held'[v] = held[v]
                                          /\ sent'[v] = sent[v]
  BY DEF WorksOn, OthersKept
<1> QED BY <1>2, <1>3, <1>4 DEF Calm, WorksOn

(* What the goroutines left refer to is kept.                              *)
LEMMA LeaveKeeps ==
  ASSUME Typed, NEW w \in Workers, NEW where, NEW st, Leave(w, where, st),
         entry' \in {entry, None}
  PROVE  /\ OthersKept(w) /\ pc'[w] = where /\ held'[w] = None
         /\ after'[w] = after[w] /\ snap'[w] = snap[w]
         /\ \A o \in Referred' : token'[o] = token[o] /\ stats'[o] = st[o]
<1>1. OthersKept(w) /\ pc'[w] = where /\ held'[w] = None
      /\ after'[w] = after[w] /\ snap'[w] = snap[w]
  BY DEF Typed, Hands, Leave, Goto, OthersKept
<1>2. ASSUME NEW o \in Referred' PROVE o \in Objects /\ o \in ReferredBesides(w)
  <2>1. o # None /\ (o = entry' \/ \E v \in Workers : o = held'[v])
    BY DEF Referred, Held
  <2>2. o \in ReferredBesides(w)
    BY <1>1, <2>1 DEF OthersKept, ReferredBesides
  <2>3. o \in Objects
    BY <2>1, <2>2 DEF ReferredBesides, Typed, Data, Hands
  <2> QED BY <2>2, <2>3
<1> QED BY <1>1, <1>2 DEF Leave, Keep

(* A refused call lets the object go; it may be marked dead, but not for a *)
(* failed refresh.                                                         *)
LEMMA RefusedKeeps ==
  ASSUME Typed, NEW w \in Workers, CallRefused(w)
  PROVE  /\ UNCHANGED <<kind, upstream, file, entry, watch, stored, queued, process, hist>>
         /\ OthersKept(w) /\ pc[w] \in {"call", "call again"} /\ pc'[w] = "idle"
         /\ held'[w] = None /\ after'[w] = after[w] /\ snap' = snap
         /\ \A o \in Referred' :
              /\ token'[o] = token[o]
              /\ stats'[o].disabled = stats[o].disabled
              /\ stats'[o].dead = "refresh" => stats[o].dead = "refresh"
<1> DEFINE m == Marked(held[w], "dead", "call")
<1>1. /\ UNCHANGED <<kind, upstream, file, entry, watch, stored, queued, process, hist>>
      /\ pc[w] \in {"call", "call again"} /\ Leave(w, "idle", m)
  BY DEF CallRefused
<1>2. held[w] \in Objects
  BY <1>1, HeldObject
<1>3. /\ m[held[w]].disabled = stats[held[w]].disabled /\ m[held[w]].dead = "call"
      /\ \A x \in Objects \ {held[w]} : m[x] = stats[x]
  BY <1>2, MarkedDead DEF Reasons
<1>4. snap' = snap
  BY <1>1 DEF Leave
<1> HIDE DEF m
<1>5. /\ OthersKept(w) /\ pc'[w] = "idle" /\ held'[w] = None /\ after'[w] = after[w]
      /\ \A o \in Referred' : token'[o] = token[o] /\ stats'[o] = m[o]
  <2>1. entry' \in {entry, None} /\ Leave(w, "idle", m)
    BY <1>1
  <2> QED BY <2>1, LeaveKeeps
<1>6. ASSUME NEW o \in Referred' PROVE o \in Objects
  <2>1. o # None /\ (o = entry' \/ \E v \in Workers : o = held'[v])
    BY DEF Referred, Held
  <2>2. entry' = entry /\ entry \in Objects \cup {None} /\ held \in [Workers -> Objects \cup {None}]
    BY <1>1 DEF Typed, Data, Hands
  <2> QED BY <1>5, <2>1, <2>2 DEF OthersKept
<1>7. ASSUME NEW o \in Referred'
      PROVE  /\ stats'[o].disabled = stats[o].disabled
             /\ stats'[o].dead = "refresh" => stats[o].dead = "refresh"
  <2>1. CASE o = held[w]
    BY <1>3, <1>5, <2>1
  <2>2. CASE o # held[w]
    BY <1>3, <1>5, <1>6, <2>2
  <2> QED BY <2>1, <2>2
<1> QED BY <1>1, <1>4, <1>5, <1>7

(* The steps of a goroutine that keeps its object.                         *)
LEMMA StepKeeps ==
  ASSUME Typed, NEW w \in Workers, NEW where, Step(w, where)
  PROVE  /\ OthersKept(w) /\ pc'[w] = where /\ held' = held
         /\ after' = after /\ snap' = snap /\ token' = token /\ stats' = stats
BY DEF Typed, Hands, Step, Goto, OthersKept

(* The steps of a goroutine that has its object persisted.                 *)
LEMMA PersistThenKeeps ==
  ASSUME Typed, NEW w \in Workers, NEW next, PersistThen(w, next)
  PROVE  /\ OthersKept(w) /\ pc'[w] = "persist" /\ held' = held
         /\ after'[w] = next /\ snap' = snap
BY DEF Typed, Hands, PersistThen, Goto, OthersKept

(* The answers of the upstream that are no new token.                      *)
LEMMA ErrorKeeps ==
  ASSUME Typed, NEW w \in Workers, ExchangeError(w)
  PROVE  /\ OthersKept(w) /\ pc'[w] \in {"persist", "failed"} /\ held' = held
         /\ snap' = snap /\ token' = token /\ stats' = stats
<1>1. CASE kind = "claude"
  <2>1. PICK next : PersistThen(w, next)
    BY <1>1 DEF ExchangeError
  <2>2. token' = token /\ stats' = stats
    BY <1>1 DEF ExchangeError
  <2> QED BY <2>1, <2>2, PersistThenKeeps
<1>2. CASE kind # "claude"
  BY <1>2, StepKeeps DEF ExchangeError
<1> QED BY <1>1, <1>2

(* Everything a goroutine does but the exchange and the update is calm,    *)
(* and steady but for the save.                                            *)
LEMMA WorkKeeps ==
  ASSUME Typed, NEW w \in Workers, Work(w), ~Exchange(w), ~UpdateTokens(w)
  PROVE  /\ WorksOn(w)
         /\ sound' => sound
         /\ Save(w) \/ Steady
<1> USE DEF process, watch, hist, object
<1>0. /\ held \in [Workers -> Objects \cup {None}] /\ pc \in [Workers -> Places]
      /\ sent \in [Workers -> Tokens \cup {None}] /\ after \in [Workers -> Nexts]
      /\ snap \in [Workers -> Stats \cup {None}]
  BY DEF Typed, Hands
<1>1. ASSUME pc[w] \notin {"update", "save"}, WorksOn(w),
             UNCHANGED <<file, changed>> \/ (file' = None /\ changed')
      PROVE  Steady
  BY <1>1 DEF Steady, WorksOn, OthersKept
<1>2. ASSUME UNCHANGED <<upstream, file, entry, loaded, up>>,
             OthersKept(w), pc'[w] \notin {"update", "save", "exchange"},
             held'[w] \in {held[w], None}, \A o \in Referred' : token'[o] = token[o]
      PROVE  WorksOn(w)
  BY <1>2 DEF WorksOn
<1>3. ASSUME NEW what \in Jobs, Take(w, what) PROVE WorksOn(w) /\ (sound' => sound) /\ Steady
  <2>1. /\ held'[w] = entry /\ entry' = entry /\ token' = token /\ OthersKept(w)
        /\ pc'[w] \in {"exchange", "set", "unlink", "call"}
        /\ pc'[w] = "exchange" => sent'[w] = token[entry]
    BY <1>0, <1>3 DEF Take, SendToken, Goto, OthersKept
  <2>2. WorksOn(w)
    BY <1>3, <2>1 DEF WorksOn, Take
  <2> QED BY <1>1, <1>3, <2>2 DEF Take
<1>4. ASSUME CallAnswered(w) PROVE WorksOn(w) /\ (sound' => sound) /\ Steady
  <2>1. /\ OthersKept(w) /\ pc'[w] \notin {"update", "save", "exchange"}
        /\ held'[w] \in {held[w], None} /\ \A o \in Referred' : token'[o] = token[o]
    <3>0. entry' \in {entry, None}
      BY <1>4 DEF CallAnswered
    <3>1. ASSUME NEW where \in {"idle", "record"}, Leave(w, where, stats)
          PROVE  /\ OthersKept(w) /\ pc'[w] \notin {"update", "save", "exchange"}
                 /\ held'[w] \in {held[w], None} /\ \A o \in Referred' : token'[o] = token[o]
      BY <3>0, <3>1, LeaveKeeps
    <3>2. CASE PersistThen(w, "idle") /\ UNCHANGED <<token, stats>>
      BY <3>2, PersistThenKeeps
    <3> QED BY <1>4, <3>1, <3>2 DEF CallAnswered, Finish
  <2>2. WorksOn(w)
    BY <1>2, <1>4, <2>1 DEF CallAnswered
  <2> QED BY <1>1, <1>4, <2>2 DEF CallAnswered
<1>5. ASSUME CallUnauthorized(w) PROVE WorksOn(w) /\ (sound' => sound) /\ Steady
  <2>1. WorksOn(w)
    BY <1>0, <1>5 DEF CallUnauthorized, SendToken, Goto, OthersKept, WorksOn
  <2> QED BY <1>1, <1>5, <2>1 DEF CallUnauthorized
<1>6. ASSUME ExchangeFails(w) PROVE WorksOn(w) /\ (sound' => sound) /\ Steady
  <2>1. WorksOn(w)
    BY <1>2, <1>6, ErrorKeeps DEF ExchangeFails
  <2> QED BY <1>1, <1>6, <2>1 DEF ExchangeFails
<1>7. ASSUME Save(w) PROVE WorksOn(w) /\ (sound' => sound)
  <2>1. /\ OthersKept(w) /\ pc'[w] \notin {"update", "save", "exchange"}
        /\ held'[w] \in {held[w], None} /\ \A o \in Referred' : token'[o] = token[o]
    <3>1. CASE kind = "claude"
      <4>1. PICK next : PersistThen(w, next)
        BY <1>7, <3>1 DEF Save
      <4>2. token' = token
        BY <1>7, <3>1 DEF Save
      <4> QED BY <4>1, <4>2, PersistThenKeeps
    <3>2. CASE Step(w, "call again")
      <4>1. OthersKept(w) /\ pc'[w] = "call again" /\ held' = held /\ token' = token
        BY <3>2, StepKeeps
      <4> QED BY <4>1
    <3>3. CASE Finish(w)
      <4>1. entry' \in {entry, None}
        BY <1>7 DEF Save
      <4> QED BY <3>3, <4>1, LeaveKeeps DEF Finish
    <3> QED BY <1>7, <3>1, <3>2, <3>3 DEF Save
  <2>2. held[w] # None
    BY <1>7, HeldObject, Sentinels DEF Save
  <2> QED BY <1>7, <2>1, <2>2 DEF Save, WorksOn
<1>8. ASSUME SaveFails(w) PROVE WorksOn(w) /\ (sound' => sound) /\ Steady
  <2>1. WorksOn(w)
    BY <1>2, <1>8, StepKeeps DEF SaveFails
  <2> QED BY <1>8, <2>1 DEF SaveFails, Steady
<1>9. ASSUME RefreshFailed(w) PROVE WorksOn(w) /\ (sound' => sound) /\ Steady
  <2>1. /\ OthersKept(w) /\ pc'[w] \notin {"update", "save", "exchange"}
        /\ held'[w] \in {held[w], None} /\ \A o \in Referred' : token'[o] = token[o]
    <3>0. entry' \in {entry, None}
      BY <1>9 DEF RefreshFailed
    <3>1. ASSUME NEW st, Leave(w, "idle", st)
          PROVE  /\ OthersKept(w) /\ pc'[w] \notin {"update", "save", "exchange"}
                 /\ held'[w] \in {held[w], None} /\ \A o \in Referred' : token'[o] = token[o]
      BY <3>0, <3>1, LeaveKeeps
    <3>2. CASE PersistThen(w, "idle") /\ UNCHANGED <<token, stats>>
      BY <3>2, PersistThenKeeps
    <3> QED BY <1>9, <3>1, <3>2 DEF RefreshFailed, Finish
  <2>2. WorksOn(w)
    BY <1>2, <1>9, <2>1 DEF RefreshFailed
  <2> QED BY <1>1, <1>9, <2>2 DEF RefreshFailed
<1>10. ASSUME Persist(w) PROVE WorksOn(w) /\ (sound' => sound) /\ Steady
  <2>1. OthersKept(w) /\ pc'[w] = "put" /\ held'[w] \in {held[w], None}
    BY <1>0, <1>10 DEF Persist, Goto, OthersKept
  <2>2. ASSUME NEW o \in Referred' PROVE token'[o] = token[o]
    <3>1. CASE after[w] = "idle"
      <4>1. held'[w] = None /\ Keep(ReferredBesides(w), token, stats)
        BY <1>0, <1>10, <3>1 DEF Persist
      <4>2. o # None /\ (o = entry \/ \E v \in Workers : o = held'[v])
        BY <1>10 DEF Referred, Held, Persist
      <4>3. o \in ReferredBesides(w)
        BY <2>1, <4>1, <4>2 DEF OthersKept, ReferredBesides
      <4>4. o \in Objects
        BY <4>2, <4>3 DEF ReferredBesides, Typed, Data, Hands
      <4> QED BY <4>1, <4>3, <4>4 DEF Keep
    <3>2. CASE after[w] # "idle"
      BY <1>10, <3>2 DEF Persist
    <3> QED BY <3>1, <3>2
  <2>3. WorksOn(w)
    BY <1>2, <1>10, <2>1, <2>2 DEF Persist
  <2> QED BY <1>1, <1>10, <2>3 DEF Persist
<1>11. ASSUME Record(w) PROVE WorksOn(w) /\ (sound' => sound) /\ Steady
  <2>1. WorksOn(w)
    BY <1>0, <1>2, <1>11 DEF Record, Goto, OthersKept
  <2> QED BY <1>1, <1>11, <2>1 DEF Record
<1>12. ASSUME Put(w) PROVE WorksOn(w) /\ (sound' => sound) /\ Steady
  <2>1. WorksOn(w)
    BY <1>0, <1>2, <1>12 DEF Put, Goto, OthersKept, Nexts
  <2> QED BY <1>1, <1>12, <2>1 DEF Put
<1>13. ASSUME SetDisabled(w) PROVE WorksOn(w) /\ (sound' => sound) /\ Steady
  <2>1. WorksOn(w)
    BY <1>2, <1>13, PersistThenKeeps DEF SetDisabled
  <2> QED BY <1>1, <1>13, <2>1 DEF SetDisabled
<1>14. ASSUME Unlink(w) PROVE WorksOn(w) /\ (sound' => sound) /\ Steady
  <2>1. WorksOn(w)
    BY <1>14, StepKeeps DEF Unlink, WorksOn
  <2> QED BY <1>1, <1>14, <2>1 DEF Unlink
<1>15. ASSUME Remove(w) PROVE WorksOn(w) /\ (sound' => sound) /\ Steady
  <2>1. entry' = None /\ pc[w] \in {"remove", "unlink"}
    BY <1>15 DEF Remove, Drop
  <2>2. CASE kind = "claude"
    <3>1. WorksOn(w)
      BY <1>15, <2>1, <2>2, StepKeeps DEF Remove, WorksOn
    <3> QED BY <1>1, <1>15, <2>1, <3>1 DEF Remove
  <2>3. CASE kind # "claude"
    <3>1. OthersKept(w) /\ pc'[w] = "idle" /\ held'[w] = None
          /\ Keep({held[v] : v \in Workers \ {w}}, token, stats)
      BY <1>0, <1>15, <2>3 DEF Remove, Goto, OthersKept
    <3>2. ASSUME NEW o \in Referred' PROVE token'[o] = token[o]
      <4>1. o \in {held[v] : v \in Workers \ {w}} /\ o # None
        BY <2>1, <3>1 DEF Referred, Held, OthersKept
      <4>2. o \in Objects
        BY <1>0, <4>1
      <4> QED BY <3>1, <4>1, <4>2 DEF Keep
    <3>3. WorksOn(w)
      BY <1>15, <2>1, <3>1, <3>2 DEF Remove, WorksOn
    <3> QED BY <1>1, <1>15, <2>1, <3>3 DEF Remove
  <2> QED BY <2>2, <2>3
<1>16. ASSUME Forget(w) PROVE WorksOn(w) /\ (sound' => sound) /\ Steady
  <2>1. WorksOn(w)
    BY <1>2, <1>16, LeaveKeeps DEF Forget, Finish
  <2> QED BY <1>1, <1>16, <2>1 DEF Forget
<1>17. ASSUME CallRefused(w) PROVE WorksOn(w) /\ (sound' => sound) /\ Steady
  <2>1. WorksOn(w)
    BY <1>2, <1>17, RefusedKeeps
  <2> QED BY <1>1, <1>17, <2>1, RefusedKeeps
<1> QED
  BY <1>3, <1>4, <1>5, <1>6, <1>7, <1>8, <1>9, <1>10, <1>11, <1>12, <1>13, <1>14,
     <1>15, <1>16, <1>17 DEF Work

(* Every other step but those that bring a new token is calm, and steady   *)
(* but for the look of the watcher.                                        *)
LEMMA Steps ==
  ASSUME Alive, [Next]_vars
  PROVE  /\ sound' => sound
         /\ \/ Calm /\ Steady
            \/ Calm /\ Look
            \/ Calm /\ \E w \in Workers : Save(w)
            \/ \E w \in Workers : Exchange(w) \/ UpdateTokens(w)
            \/ Add \/ Start \/ Login
<1> USE DEF process, watch, hist, object
<1>0. Typed /\ Down
  BY DEF Alive
<1>1. ASSUME UNCHANGED <<upstream, file, token, entry, loaded, changed, worker, up>>
      PROVE  Calm /\ Steady
  BY <1>1 DEF Calm, Steady, Referred, Held, worker
<1>2. ASSUME NEW w \in Workers, Work(w), ~Exchange(w), ~UpdateTokens(w)
      PROVE  /\ Calm /\ (sound' => sound)
             /\ Save(w) \/ Steady
  BY <1>0, <1>2, WorkKeeps, WorkIsCalm
<1>3. ASSUME Look PROVE Calm /\ (sound' => sound)
  <2>1. UNCHANGED <<upstream, file, pc, held, sent>> /\ loaded' \in {loaded, file}
    BY <1>3 DEF Look, worker
  <2>2. entry' \in {entry, None}
    BY <1>3 DEF Look, Drop
  <2>3. ASSUME NEW o \in Referred' PROVE token'[o] = token[o]
    <3>1. CASE file = None
      <4>1. entry' = None /\ Keep(Held, token, stats)
        BY <1>3, <3>1 DEF Look, Drop
      <4>2. o \in Held /\ o # None
        BY <2>1, <4>1 DEF Referred, Held
      <4>3. o \in Objects
        BY <1>0, <4>2 DEF Held, Typed, Hands
      <4> QED BY <4>1, <4>2, <4>3 DEF Keep
    <3>2. CASE file # None
      BY <1>3, <3>2 DEF Look
    <3> QED BY <3>1, <3>2
  <2>4. Referred' \subseteq Referred
    BY <2>1, <2>2 DEF Referred, Held
  <2>5. sound' => sound
    BY <1>3 DEF Look
  <2> QED BY <2>1, <2>2, <2>3, <2>4, <2>5 DEF Calm
<1>4. ASSUME Stop PROVE Calm /\ Steady /\ (sound' => sound)
  <2>1. \A w \in Workers : held'[w] = None /\ pc'[w] = "idle"
    BY <1>4 DEF Stop
  <2>2. entry' = None /\ loaded' = None /\ up' = FALSE /\ UNCHANGED <<upstream, file>>
    BY <1>4 DEF Stop
  <2>3. Referred' = {}
    BY <2>1, <2>2 DEF Referred, Held
  <2>4. Calm
    BY <2>1, <2>2, <2>3 DEF Calm
  <2>5. sound' => sound /\ \A w \in Workers : pc[w] \notin {"update", "save"}
    BY <1>4 DEF Stop
  <2>6. Steady
    BY <2>2, <2>5 DEF Steady
  <2> QED BY <2>4, <2>5, <2>6
<1>5. ASSUME NEW v \in BOOLEAN, Command(v) PROVE Calm /\ Steady /\ (sound' => sound)
  BY <1>1, <1>5 DEF Command
<1>6. ASSUME NEW n \in 1..Len(queued), Commit(n) \/ CommitFails(n)
      PROVE  Calm /\ Steady /\ (sound' => sound)
  BY <1>1, <1>6 DEF Commit, CommitFails
<1>7. ASSUME Rewrite PROVE Calm /\ Steady /\ (sound' => sound)
  BY <1>7 DEF Rewrite, Calm, Steady, Referred, Held, worker
<1>8. ASSUME UNCHANGED vars PROVE Calm /\ Steady /\ (sound' => sound)
  BY <1>1, <1>8 DEF vars
<1>9. ASSUME NEW w \in Workers, Exchange(w) \/ UpdateTokens(w) PROVE sound' => sound
  BY <1>9 DEF Exchange, UpdateTokens
<1>10. ASSUME Add \/ Start \/ Login PROVE sound' => sound
  BY <1>10 DEF Add, Start, Login
<1>11. CASE \E w \in Workers : Work(w)
  <2>1. PICK w \in Workers : Work(w)
    BY <1>11
  <2>2. CASE Exchange(w) \/ UpdateTokens(w)
    BY <1>9, <2>2
  <2>3. CASE ~Exchange(w) /\ ~UpdateTokens(w)
    BY <1>2, <2>1, <2>3
  <2> QED BY <2>2, <2>3
<1> QED
  BY <1>3, <1>4, <1>5, <1>6, <1>7, <1>8, <1>10, <1>11 DEF Next

-----------------------------------------------------------------------------
(* The newest token.                                                       *)

(* Nothing is newer than what the upstream gave out last.                  *)
NotNewer ==
  /\ \A o \in Referred : token[o] <= upstream
  /\ file # None => file <= upstream
  /\ loaded # None => loaded <= upstream
  /\ \A w \in Workers : sent[w] # None => sent[w] <= upstream

(* A goroutine that sends the newest token has it from its object, and one *)
(* that received a token is alone with it and its object.                  *)
OwnToken ==
  \A w \in Workers :
    /\ pc[w] = "exchange" /\ sent[w] = upstream => token[held[w]] = upstream
    /\ pc[w] = "update" =>
         /\ token[held[w]] < sent[w]
         /\ \A v \in Workers : pc[v] = "update" /\ held[v] = held[w] => v = w

Issued == Alive /\ NotNewer /\ OwnToken

(* The object a goroutine holds is referred to.                            *)
LEMMA HeldReferred ==
  ASSUME Typed, NEW w \in Workers, pc[w] \notin {"idle", "record", "put"}
  PROVE  held[w] \in Referred /\ held[w] \in Objects /\ token[held[w]] \in Nat
<1>1. held[w] \in Objects /\ token[held[w]] \in Tokens
  BY HeldObject
<1> QED BY <1>1, Sentinels DEF Referred, Held

(* Tokens and the like are numbers.                                        *)
LEMMA Numbers ==
  ASSUME Typed
  PROVE  /\ upstream \in Nat /\ file \in Nat \cup {None} /\ loaded \in Nat \cup {None}
         /\ \A o \in Referred : o \in Objects /\ token[o] \in Nat
         /\ \A w \in Workers : sent[w] \in Nat \cup {None}
         /\ None \notin Tokens
<1>1. \A o \in Referred : o \in Objects
  BY DEF Referred, Held, Typed, Data, Hands
<1> QED BY <1>1, Sentinels DEF Typed, Data, Hands

(* What an exchange that succeeds does.                                    *)
LEMMA ExchangeKeeps ==
  ASSUME Typed, NEW w \in Workers, Exchange(w)
  PROVE  /\ upstream' = upstream + 1 /\ OthersKept(w) /\ held' = held /\ token' = token
         /\ stats' = stats /\ Referred' = Referred
         /\ UNCHANGED <<file, entry, loaded, changed, up>>
         /\ \/ pc'[w] = "update" /\ sent'[w] = upstream' /\ sound' = sound
            \/ pc'[w] \in {"persist", "failed"} /\ sound' = FALSE /\ wronged' = TRUE
<1> USE DEF process, watch
<1>1. UNCHANGED <<file, entry, loaded, changed, up>> /\ upstream' = upstream + 1
  BY DEF Exchange
<1>2. CASE /\ sent' = [sent EXCEPT ![w] = upstream + 1] /\ Goto(w, "update")
           /\ UNCHANGED <<job, held, snap, after, token, stats, sound, wronged>>
  <2>1. OthersKept(w) /\ pc'[w] = "update" /\ sent'[w] = upstream'
    BY <1>1, <1>2 DEF Goto, OthersKept, Typed, Hands
  <2> QED BY <1>1, <1>2, <2>1 DEF Referred, Held
<1>3. CASE ExchangeError(w) /\ sound' = FALSE /\ wronged' = TRUE
  BY <1>1, <1>3, ErrorKeeps DEF Referred, Held
<1> QED BY <1>2, <1>3 DEF Exchange

(* What the object gets that a refresh received.                           *)
LEMMA UpdateKeeps ==
  ASSUME Typed, NEW w \in Workers, UpdateTokens(w)
  PROVE  /\ OthersKept(w) /\ held' = held /\ pc'[w] = "save" /\ sent'[w] = None
         /\ token'[held[w]] = sent[w]
         /\ \A o \in Objects \ {held[w]} : token'[o] = token[o]
         /\ UNCHANGED <<upstream, file, entry, loaded, changed, up, stats, sound, wronged>>
         /\ Referred' = Referred /\ after' = after /\ snap' = snap
<1> USE DEF process, watch, hist
<1>1. held[w] \in Objects
  BY HeldObject DEF UpdateTokens
<1> QED BY <1>1 DEF UpdateTokens, Goto, OthersKept, Typed, Data, Hands, Referred, Held

(* What the watcher and the start of the process add.                      *)
LEMMA AddKeeps ==
  ASSUME Typed, Add
  PROVE  /\ entry' \in Objects \ Held /\ token'[entry'] = loaded /\ stats'[entry'] = Inherited
         /\ \A o \in Held \cap Objects : token'[o] = token[o] /\ stats'[o] = stats[o]
         /\ Held' = Held /\ Referred' = {entry'} \cup (Held \ {None})
         /\ loaded # None /\ loaded' = None
         /\ UNCHANGED <<upstream, file, changed, up, worker, sound, wronged>>
<1> USE DEF process
<1>1. PICK o \in Objects \ Held :
        /\ entry' = o
        /\ Keep(Held \cup {o}, [token EXCEPT ![o] = loaded], [stats EXCEPT ![o] = Inherited])
  BY DEF Add
<1>2. token \in [Objects -> Tokens] /\ stats \in [Objects -> Stats] /\ None \notin Objects
  BY Sentinels DEF Typed, Data
<1>3. token'[o] = loaded /\ stats'[o] = Inherited
  BY <1>1, <1>2 DEF Keep
<1>4. \A x \in Held \cap Objects : token'[x] = token[x] /\ stats'[x] = stats[x]
  BY <1>1, <1>2 DEF Keep
<1>5. /\ loaded # None /\ loaded' = None
      /\ UNCHANGED <<upstream, file, changed, up, worker, sound, wronged>>
  BY DEF Add
<1>6. Held' = Held /\ Referred' = {entry'} \cup (Held \ {None})
  BY <1>1, <1>2, <1>5 DEF Held, Referred, worker
<1> QED BY <1>1, <1>3, <1>4, <1>5, <1>6

(* The process starts with nobody at work, and what the file has.          *)
LEMMA StartKeeps ==
  ASSUME Alive, Start
  PROVE  /\ ~up /\ up' /\ ~changed /\ loaded = None
         /\ \A w \in Workers : pc'[w] = "idle" /\ pc[w] = "idle"
         /\ UNCHANGED <<upstream, file, watch, worker, sound, stored, queued>>
         /\ \/ file = None /\ entry' = None /\ wronged' = wronged /\ UNCHANGED <<token, stats>>
            \/ /\ file # None /\ entry' \in Objects /\ token'[entry'] = file
               /\ stats'[entry'] = (IF stored[Key] = None THEN NewStats ELSE stored[Key])
               /\ wronged' = (wronged \/ (stored[Key] # None /\ stored[Key].dead = "refresh"))
         /\ Held \ {None} = {} /\ Referred' = {entry'} \ {None}
<1> USE DEF object
<1>1. Typed /\ ~up /\ up' /\ entry = None /\ ~changed /\ loaded = None
      /\ \A w \in Workers : pc[w] = "idle"
  BY DEF Start, Alive, Down
<1>2. UNCHANGED <<upstream, file, watch, worker, sound, stored, queued>>
  BY DEF Start, watch
<1>3. \A w \in Workers : pc'[w] = "idle" /\ held[w] = None /\ held'[w] = None
  BY <1>1, <1>2 DEF worker, Typed, Hands, HandOK
<1>4. Held \ {None} = {} /\ Referred' = {entry'} \ {None}
  BY <1>3 DEF Held, Referred
<1>5. CASE file = None
  BY <1>1, <1>2, <1>3, <1>4, <1>5 DEF Start
<1>6. CASE file # None
  <2>1. token'[entry'] = file
        /\ stats'[entry'] = (IF stored[Key] = None THEN NewStats ELSE stored[Key])
    BY <1>1, <1>6 DEF Start, Typed, Data
  <2> QED BY <1>1, <1>2, <1>3, <1>4, <1>6, <2>1 DEF Start
<1> QED BY <1>5, <1>6

(* A login is a new token in the file that was gone.                       *)
LEMMA LoginKeeps ==
  ASSUME Typed, Login
  PROVE  /\ upstream' = upstream + 1 /\ file = None /\ file' = upstream'
         /\ changed' = up /\ Referred' = Referred
         /\ sound' => \A w \in Workers : pc[w] \notin {"update", "save"}
         /\ UNCHANGED <<object, loaded, stored, queued, up, worker, wish, wronged>>
<1>1. UNCHANGED <<object, loaded, stored, queued, up, worker, wish, wronged>>
  BY DEF Login, process
<1> QED BY <1>1 DEF Login, Referred, Held, object, worker

(* The object of a goroutine at work is referred to after the step too.    *)
LEMMA HeldStays ==
  ASSUME Typed', NEW w \in Workers, pc'[w] \in {"exchange", "update", "save"}
  PROVE  held'[w] \in Referred' /\ held'[w] \in Objects
BY Sentinels DEF Typed, Hands, HandOK, Referred, Held

(* A calm step brings nothing newer.                                       *)
LEMMA IssuedCalm ==
  ASSUME Issued, Typed', Calm
  PROVE  NotNewer' /\ OwnToken'
<1>0. Typed /\ NotNewer /\ OwnToken
  BY DEF Issued, Alive
<1>1. ASSUME NEW v \in Workers, pc'[v] \in {"exchange", "update"}
      PROVE  held'[v] \in Referred' /\ token'[held'[v]] = token[held'[v]]
             /\ token[held'[v]] <= upstream
  BY <1>0, <1>1, HeldStays DEF Calm, NotNewer
<1>2. ASSUME NEW v \in Workers, sent'[v] # None PROVE sent'[v] <= upstream
  <2>1. pc'[v] \in {"exchange", "update"}
    BY <1>2 DEF Typed, Hands, HandOK
  <2> QED BY <1>0, <1>1, <1>2, <2>1 DEF Calm, NotNewer
<1>3. \A o \in Referred' : token'[o] <= upstream
  BY <1>0 DEF Calm, NotNewer
<1>4. (file' # None => file' <= upstream) /\ (loaded' # None => loaded' <= upstream)
  BY <1>0 DEF Calm, NotNewer
<1>5. ASSUME NEW v \in Workers, pc'[v] = "exchange", sent'[v] = upstream
      PROVE  token'[held'[v]] = upstream
  BY <1>0, <1>1, <1>5 DEF Calm, OwnToken
<1>6. ASSUME NEW v \in Workers, pc'[v] = "update"
      PROVE  /\ token'[held'[v]] < sent'[v]
             /\ \A x \in Workers : pc'[x] = "update" /\ held'[x] = held'[v] => x = v
  BY <1>0, <1>1, <1>6 DEF Calm, OwnToken
<1>7. upstream' = upstream
  BY DEF Calm
<1> QED BY <1>2, <1>3, <1>4, <1>5, <1>6, <1>7 DEF NotNewer, OwnToken

(* The goroutine that exchanges the newest token is the only one with that *)
(* object to do so.                                                        *)
LEMMA IssuedExchange ==
  ASSUME Issued, Typed', NEW w \in Workers, Exchange(w)
  PROVE  NotNewer' /\ OwnToken'
<1>0. Typed /\ NotNewer /\ OwnToken
  BY DEF Issued, Alive
<1>1. /\ upstream' = upstream + 1 /\ OthersKept(w) /\ held' = held /\ token' = token
      /\ Referred' = Referred /\ UNCHANGED <<file, loaded>>
      /\ \/ pc'[w] = "update" /\ sent'[w] = upstream'
         \/ pc'[w] \in {"persist", "failed"}
  BY <1>0, ExchangeKeeps
<1>2. /\ upstream \in Nat /\ file \in Nat \cup {None} /\ loaded \in Nat \cup {None}
      /\ \A o \in Referred : token[o] \in Nat
      /\ \A v \in Workers : sent[v] \in Nat \cup {None}
  BY <1>0, Numbers
<1>3. pc[w] = "exchange" /\ sent[w] = upstream
  BY DEF Exchange
<1>4. held[w] \in Referred /\ token[held[w]] = upstream
  BY <1>0, <1>3, HeldReferred DEF OwnToken
<1>5. ASSUME NEW v \in Workers, sent'[v] # None PROVE sent'[v] <= upstream'
  <2>1. CASE v = w
    BY <1>1, <1>2, <1>5, <2>1 DEF Typed, Hands, HandOK
  <2>2. CASE v # w
    BY <1>0, <1>1, <1>2, <1>5, <2>2 DEF OthersKept, NotNewer
  <2> QED BY <2>1, <2>2
<1>6. NotNewer'
  <2>1. \A o \in Referred' : token'[o] <= upstream'
    BY <1>0, <1>1, <1>2 DEF NotNewer
  <2>2. (file' # None => file' <= upstream') /\ (loaded' # None => loaded' <= upstream')
    BY <1>0, <1>1, <1>2 DEF NotNewer
  <2> QED BY <1>5, <2>1, <2>2 DEF NotNewer
<1>7. ASSUME NEW v \in Workers, v # w, pc[v] = "update" PROVE held[v] # held[w]
  <2>1. token[held[v]] < sent[v] /\ sent[v] # None
    BY <1>0, <1>7 DEF OwnToken, Typed, Hands, HandOK
  <2>2. sent[v] <= upstream /\ sent[v] \in Nat
    BY <1>0, <1>2, <2>1 DEF NotNewer
  <2> QED BY <1>2, <1>4, <2>1, <2>2
<1>8. ASSUME NEW v \in Workers
      PROVE  /\ pc'[v] = "exchange" => sent'[v] # upstream'
             /\ pc'[v] = "update" =>
                  /\ token'[held'[v]] < sent'[v]
                  /\ \A x \in Workers : pc'[x] = "update" /\ held'[x] = held'[v] => x = v
  <2>1. CASE v = w
    <3>1. pc'[w] # "exchange"
      BY <1>1
    <3>2. pc'[w] = "update" => token'[held'[w]] < sent'[w]
      BY <1>1, <1>2, <1>4
    <3>3. \A x \in Workers : pc'[x] = "update" /\ held'[x] = held'[w] => x = w
      BY <1>1, <1>7 DEF OthersKept
    <3> QED BY <2>1, <3>1, <3>2, <3>3
  <2>2. CASE v # w
    <3>1. pc'[v] = pc[v] /\ sent'[v] = sent[v] /\ held'[v] = held[v]
      BY <1>1, <2>2 DEF OthersKept
    <3>2. pc'[v] = "exchange" => sent'[v] # upstream'
      <4> SUFFICES ASSUME pc[v] = "exchange", sent[v] = upstream + 1 PROVE FALSE
        BY <1>1, <3>1
      <4>1. sent[v] # None
        BY <1>0 DEF Typed, Hands, HandOK
      <4>2. sent[v] <= upstream
        BY <1>0, <4>1 DEF NotNewer
      <4> QED BY <1>2, <4>2
    <3>3. pc'[v] = "update" => token'[held'[v]] < sent'[v]
      BY <1>0, <1>1, <3>1 DEF OwnToken
    <3>4. pc'[v] = "update" =>
            \A x \in Workers : pc'[x] = "update" /\ held'[x] = held'[v] => x = v
      <4> SUFFICES ASSUME pc[v] = "update", NEW x \in Workers, pc'[x] = "update",
                          held'[x] = held'[v]
                   PROVE  x = v
        BY <3>1
      <4>1. CASE x = w
        BY <1>1, <1>7, <2>2, <4>1
      <4>2. CASE x # w
        BY <1>0, <1>1, <4>2 DEF OthersKept, OwnToken
      <4> QED BY <4>1, <4>2
    <3> QED BY <3>2, <3>3, <3>4
  <2> QED BY <2>1, <2>2
<1> QED BY <1>6, <1>8 DEF OwnToken

(* What a refresh received goes to its object alone.                       *)
LEMMA IssuedUpdate ==
  ASSUME Issued, NEW w \in Workers, UpdateTokens(w)
  PROVE  NotNewer' /\ OwnToken'
<1>0. Typed /\ NotNewer /\ OwnToken
  BY DEF Issued, Alive
<1>1. /\ OthersKept(w) /\ held' = held /\ pc'[w] = "save" /\ sent'[w] = None
      /\ token'[held[w]] = sent[w]
      /\ \A o \in Objects \ {held[w]} : token'[o] = token[o]
      /\ UNCHANGED <<upstream, file, loaded>> /\ Referred' = Referred
  BY <1>0, UpdateKeeps
<1>2. /\ upstream \in Nat
      /\ \A o \in Referred : o \in Objects /\ token[o] \in Nat
      /\ \A v \in Workers : sent[v] \in Nat \cup {None}
  BY <1>0, Numbers
<1>3. pc[w] = "update"
  BY DEF UpdateTokens
<1>4. /\ held[w] \in Referred /\ sent[w] # None /\ sent[w] <= upstream
      /\ token[held[w]] < sent[w]
  BY <1>0, <1>3, HeldReferred DEF OwnToken, NotNewer, Typed, Hands, HandOK
<1>5. NotNewer'
  <2>1. \A o \in Referred' : token'[o] <= upstream'
    BY <1>0, <1>1, <1>2, <1>4 DEF NotNewer
  <2>2. \A v \in Workers : sent'[v] # None => sent'[v] <= upstream'
    BY <1>0, <1>1 DEF NotNewer, OthersKept
  <2> QED BY <1>0, <1>1, <2>1, <2>2 DEF NotNewer
<1>6. ASSUME NEW v \in Workers, v # w, \/ pc[v] = "exchange" /\ sent[v] = upstream
                                       \/ pc[v] = "update"
      PROVE  token'[held[v]] = token[held[v]]
  <2>1. held[v] \in Objects
    BY <1>0, <1>6, HeldReferred
  <2>2. held[v] # held[w]
    <3>1. CASE pc[v] = "update"
      BY <1>0, <1>3, <1>6, <3>1 DEF OwnToken
    <3>2. CASE pc[v] = "exchange" /\ sent[v] = upstream
      <4>1. token[held[v]] = upstream
        BY <1>0, <3>2 DEF OwnToken
      <4> QED BY <1>2, <1>4, <4>1
    <3> QED BY <1>6, <3>1, <3>2
  <2> QED BY <1>1, <2>1, <2>2
<1>7. OwnToken'
  BY <1>0, <1>1, <1>6 DEF OwnToken, OthersKept
<1> QED BY <1>5, <1>7

(* What the watcher adds, the start loads and a login brings is no newer.  *)
LEMMA IssuedFile ==
  ASSUME Issued, Typed', Add \/ Start \/ Login
  PROVE  NotNewer' /\ OwnToken'
<1>0. Alive /\ Typed /\ NotNewer /\ OwnToken
  BY DEF Issued, Alive
<1>1. ASSUME Add PROVE NotNewer' /\ OwnToken'
  <2>1. /\ entry' \in Objects \ Held /\ token'[entry'] = loaded
        /\ \A o \in Held \cap Objects : token'[o] = token[o]
        /\ Held' = Held /\ Referred' = {entry'} \cup (Held \ {None})
        /\ loaded # None /\ loaded' = None
        /\ UNCHANGED <<upstream, file, worker>>
    BY <1>0, <1>1, AddKeeps
  <2>2. /\ \A o \in Held \ {None} : o \in Objects /\ o \in Referred
    BY <1>0 DEF Held, Referred, Typed, Hands
  <2>3. NotNewer'
    BY <1>0, <2>1, <2>2 DEF NotNewer, worker
  <2>4. ASSUME NEW v \in Workers, pc[v] \in {"exchange", "update"}
        PROVE  token'[held[v]] = token[held[v]]
    <3>1. held[v] \in Objects /\ held[v] \in Held
      BY <1>0, <2>4, HeldReferred DEF Held
    <3> QED BY <2>1, <3>1
  <2>5. OwnToken'
    BY <1>0, <2>1, <2>4 DEF OwnToken, worker
  <2> QED BY <2>3, <2>5
<1>2. ASSUME Start PROVE NotNewer' /\ OwnToken'
  <2>1. /\ \A w \in Workers : pc'[w] = "idle"
        /\ UNCHANGED <<upstream, file, watch, worker>>
        /\ \/ entry' = None
           \/ file # None /\ token'[entry'] = file
        /\ Referred' = {entry'} \ {None}
    BY <1>0, <1>2, StartKeeps
  <2>2. \A o \in Referred' : token'[o] <= upstream'
    BY <1>0, <2>1 DEF NotNewer
  <2>3. NotNewer'
    BY <1>0, <2>1, <2>2 DEF NotNewer, watch, worker
  <2> QED BY <2>1, <2>3 DEF OwnToken
<1>3. ASSUME Login PROVE NotNewer' /\ OwnToken'
  <2>1. /\ upstream' = upstream + 1 /\ file' = upstream' /\ Referred' = Referred
        /\ UNCHANGED <<object, loaded, worker>>
    BY <1>0, <1>3, LoginKeeps
  <2>2. /\ upstream \in Nat /\ loaded \in Nat \cup {None}
        /\ \A o \in Referred : token[o] \in Nat
        /\ \A v \in Workers : sent[v] \in Nat \cup {None}
    BY <1>0, Numbers
  <2>3. NotNewer'
    BY <1>0, <2>1, <2>2 DEF NotNewer, object, worker
  <2>4. ASSUME NEW v \in Workers, pc[v] = "exchange" PROVE sent[v] # upstream'
    <3>1. sent[v] # None
      BY <1>0, <2>4 DEF Typed, Hands, HandOK
    <3>2. sent[v] <= upstream
      BY <1>0, <3>1 DEF NotNewer
    <3> QED BY <2>1, <2>2, <3>1, <3>2
  <2>5. OwnToken'
    BY <1>0, <2>1, <2>4 DEF OwnToken, object, worker
  <2> QED BY <2>3, <2>5
<1> QED BY <1>1, <1>2, <1>3

(* Every action keeps who has the newest token.                            *)
LEMMA IssuedNext ==
  ASSUME Issued, [Next]_vars
  PROVE  Issued'
<1>1. Alive /\ Alive' /\ Typed'
  BY AliveNext DEF Issued, Alive
<1>2. NotNewer' /\ OwnToken'
  BY <1>1, Steps, IssuedCalm, IssuedExchange, IssuedUpdate, IssuedFile
<1> QED BY <1>1, <1>2 DEF Issued

(* At the start there is one token.                                        *)
LEMMA IssuedInit == Init => Issued
<1> SUFFICES ASSUME Init PROVE Issued
  OBVIOUS
<1>1. Alive
  BY AliveInit
<1>2. \A o \in Referred : token[o] = 1
  BY DEF Init, Referred, Held
<1>3. NotNewer
  BY <1>2 DEF Init, NotNewer
<1>4. OwnToken
  BY DEF Init, OwnToken
<1> QED BY <1>1, <1>3, <1>4 DEF Issued

-----------------------------------------------------------------------------
(* The way of a token to the file and to the pool.                         *)

(* Who received the newest token, and has not stored it, is alone: nothing *)
(* else has it.                                                            *)
InOrder ==
  \A w \in Workers : pc[w] = "update" =>
    /\ sent[w] = upstream /\ file # upstream /\ loaded # upstream
    /\ \A o \in Referred : token[o] # upstream
    /\ \A v \in Workers : pc[v] = "update" => v = w

(* Who is about to save the pool's object will save the newest token, or   *)
(* another refresh of that object will do it again.                        *)
SavesEntry ==
  \A v \in Workers : pc[v] = "save" /\ held[v] = entry =>
    /\ \A o \in Referred \ {entry} : token[o] # upstream
    /\ token[entry] = upstream \/ \E w \in Workers : pc[w] = "update" /\ held[w] = entry

(* Somebody is about to save the newest token.                             *)
Carried ==
  \E w \in Workers : pc[w] = "update" \/ (pc[w] = "save" /\ token[held[w]] = upstream)

FileFresh == file \in {None, upstream} \/ Carried

PoolFresh ==
  up /\ ~changed =>
    /\ entry # None /\ loaded = None => token[entry] = upstream \/ Carried
    /\ loaded \in {None, upstream} \/ Carried

Fresh == sound => InOrder /\ SavesEntry /\ FileFresh /\ PoolFresh

(* Those with a token to store go on, and the rest is calm.                *)
CarriersStay ==
  \A v \in Workers : pc[v] \in {"update", "save"} => pc'[v] = pc[v] /\ held'[v] = held[v]

(* Then the token is on its way as before.                                 *)
LEMMA CarriedOn ==
  ASSUME Typed, Typed', Calm, CarriersStay, file' \in {file, None},
         InOrder, SavesEntry, FileFresh
  PROVE  InOrder' /\ SavesEntry' /\ FileFresh' /\ (Carried => Carried')
<1>1. ASSUME NEW v \in Workers, pc'[v] \in {"update", "save"}
      PROVE  /\ pc'[v] = pc[v] /\ held'[v] = held[v] /\ held'[v] \in Referred'
             /\ token'[held'[v]] = token[held[v]]
  BY <1>1, HeldStays DEF Calm
<1>2. upstream' = upstream /\ upstream # None
  BY Sentinels DEF Calm, Typed, Data
<1>3. InOrder'
  <2> SUFFICES ASSUME NEW w \in Workers, pc'[w] = "update"
               PROVE  /\ sent'[w] = upstream /\ file' # upstream /\ loaded' # upstream
                      /\ \A o \in Referred' : token'[o] # upstream
                      /\ \A v \in Workers : pc'[v] = "update" => v = w
    BY <1>2 DEF InOrder
  <2>1. pc[w] = "update" /\ sent'[w] = sent[w]
    BY DEF Calm
  <2>2. /\ sent[w] = upstream /\ file # upstream /\ loaded # upstream
        /\ \A o \in Referred : token[o] # upstream
        /\ \A v \in Workers : pc[v] = "update" => v = w
    BY <2>1 DEF InOrder
  <2>3. \A v \in Workers : pc'[v] = "update" => v = w
    BY <1>1, <2>2
  <2>4. file' # upstream /\ loaded' # upstream /\ \A o \in Referred' : token'[o] # upstream
    BY <1>2, <2>2 DEF Calm
  <2> QED BY <2>1, <2>2, <2>3, <2>4
<1>4. SavesEntry'
  <2> SUFFICES ASSUME NEW v \in Workers, pc'[v] = "save", held'[v] = entry'
               PROVE  /\ \A o \in Referred' \ {entry'} : token'[o] # upstream
                      /\ \/ token'[entry'] = upstream
                         \/ \E w \in Workers : pc'[w] = "update" /\ held'[w] = entry'
    BY <1>2 DEF SavesEntry
  <2>1. pc[v] = "save" /\ held[v] = entry' /\ entry' # None
        /\ entry' \in Referred' /\ token'[entry'] = token[entry']
    BY <1>1 DEF Referred
  <2>2. entry' = entry
    BY <2>1 DEF Calm
  <2>3. /\ \A o \in Referred \ {entry} : token[o] # upstream
        /\ token[entry] = upstream \/ \E w \in Workers : pc[w] = "update" /\ held[w] = entry
    BY <2>1, <2>2 DEF SavesEntry
  <2>4. \A o \in Referred' \ {entry'} : token'[o] # upstream
    BY <2>2, <2>3 DEF Calm
  <2> QED BY <2>1, <2>2, <2>3, <2>4 DEF CarriersStay
<1>5. Carried => Carried'
  <2> SUFFICES ASSUME NEW w \in Workers,
                      pc[w] = "update" \/ (pc[w] = "save" /\ token[held[w]] = upstream)
               PROVE  Carried'
    BY DEF Carried
  <2>1. pc'[w] = pc[w]
    BY DEF CarriersStay
  <2> QED BY <1>1, <1>2, <2>1 DEF Carried
<1>6. FileFresh'
  BY <1>2, <1>5 DEF FileFresh
<1> QED BY <1>3, <1>4, <1>5, <1>6

(* A calm and steady step, and a look of the watcher.                      *)
LEMMA FreshCalm ==
  ASSUME Typed, Typed', Calm, Steady \/ Look, sound' => sound, Fresh
  PROVE  Fresh'
<1> SUFFICES ASSUME sound' PROVE InOrder' /\ SavesEntry' /\ FileFresh' /\ PoolFresh'
  BY DEF Fresh
<1>1. InOrder /\ SavesEntry /\ FileFresh /\ PoolFresh
  BY DEF Fresh
<1>2. CarriersStay /\ file' \in {file, None}
  <2>1. CASE Steady
    BY <2>1 DEF Steady, CarriersStay
  <2>2. CASE Look
    BY <2>2 DEF Look, worker, CarriersStay
  <2> QED BY <2>1, <2>2
<1>3. InOrder' /\ SavesEntry' /\ FileFresh' /\ (Carried => Carried')
  BY <1>1, <1>2, CarriedOn
<1>4. /\ upstream' = upstream /\ entry' \in {entry, None}
      /\ entry' # None => entry' \in Referred' /\ token'[entry'] = token[entry']
  BY DEF Calm, Referred
<1>5. PoolFresh'
  <2>1. CASE Steady
    BY <1>1, <1>3, <1>4, <2>1 DEF Steady, PoolFresh
  <2>2. CASE Look
    <3>1. CASE file = None
      <4>1. entry' = None /\ loaded' = None
        BY <2>2, <3>1 DEF Look, Drop
      <4> QED BY <4>1 DEF PoolFresh
    <3>2. CASE file # None
      <4>1. loaded' = file
        BY <2>2, <3>2 DEF Look
      <4>2. file = upstream \/ Carried
        BY <1>1, <3>2 DEF FileFresh
      <4> QED BY <1>3, <1>4, <3>2, <4>1, <4>2 DEF PoolFresh
    <3> QED BY <3>1, <3>2
  <2> QED BY <2>1, <2>2
<1> QED BY <1>3, <1>5

(* A save of the pool's object, or of the newest token.                    *)
LEMMA FreshSave ==
  ASSUME Typed, Typed', NEW w \in Workers, Save(w), Fresh
  PROVE  Fresh'
<1> SUFFICES ASSUME sound' PROVE InOrder' /\ SavesEntry' /\ FileFresh' /\ PoolFresh'
  BY DEF Fresh
<1>1. /\ sound /\ file' = token[held[w]] /\ changed' /\ pc[w] = "save" /\ entry' = entry
      /\ held[w] = entry \/ token[held[w]] = upstream
      /\ UNCHANGED <<upstream, loaded>>
  BY DEF Save
<1>2. InOrder /\ SavesEntry
  BY <1>1 DEF Fresh
<1>3. ~Exchange(w) /\ ~UpdateTokens(w) /\ Work(w)
  BY <1>1 DEF Exchange, UpdateTokens, Work
<1>4. WorksOn(w) /\ Calm
  BY <1>3, WorkKeeps, WorkIsCalm
<1>5. held[w] \in Referred
  BY <1>1, HeldReferred
<1>6. ASSUME NEW v \in Workers, pc'[v] \in {"update", "save"}
      PROVE  v # w /\ pc[v] = pc'[v] /\ held'[v] = held[v] /\ sent'[v] = sent[v]
  BY <1>4, <1>6 DEF WorksOn, OthersKept
<1>7. ASSUME NEW v \in Workers, pc[v] = "update"
      PROVE  pc'[v] = "update" /\ held'[v] = held[v]
  <2>1. v # w
    BY <1>1, <1>7
  <2> QED BY <1>4, <1>7, <2>1 DEF WorksOn, OthersKept
<1>8. InOrder'
  <2> SUFFICES ASSUME NEW v \in Workers, pc'[v] = "update"
               PROVE  /\ sent'[v] = upstream /\ file' # upstream /\ loaded' # upstream
                      /\ \A o \in Referred' : token'[o] # upstream
                      /\ \A x \in Workers : pc'[x] = "update" => x = v
    BY <1>1 DEF InOrder
  <2>1. /\ sent[v] = upstream /\ loaded # upstream
        /\ \A o \in Referred : token[o] # upstream
        /\ \A x \in Workers : pc[x] = "update" => x = v
    BY <1>2, <1>6 DEF InOrder
  <2>2. file' # upstream
    BY <1>1, <1>5, <2>1
  <2>3. \A o \in Referred' : token'[o] # upstream
    BY <1>4, <2>1 DEF Calm
  <2> QED BY <1>1, <1>6, <2>1, <2>2, <2>3
<1>9. SavesEntry'
  <2> SUFFICES ASSUME NEW v \in Workers, pc'[v] = "save", held'[v] = entry
               PROVE  /\ \A o \in Referred' \ {entry} : token'[o] # upstream
                      /\ \/ token'[entry] = upstream
                         \/ \E x \in Workers : pc'[x] = "update" /\ held'[x] = entry
    BY <1>1 DEF SavesEntry
  <2>1. pc[v] = "save" /\ held[v] = entry
    BY <1>6
  <2>2. /\ \A o \in Referred \ {entry} : token[o] # upstream
        /\ token[entry] = upstream \/ \E x \in Workers : pc[x] = "update" /\ held[x] = entry
    BY <1>2, <2>1 DEF SavesEntry
  <2>3. entry \in Referred'
    BY <1>6, HeldStays
  <2> QED BY <1>4, <1>7, <2>2, <2>3 DEF Calm
<1>10. FileFresh'
  <2>1. CASE token[held[w]] = upstream
    BY <1>1, <2>1 DEF FileFresh
  <2>2. CASE token[held[w]] # upstream
    <3>1. \E x \in Workers : pc[x] = "update"
      BY <1>1, <1>2, <2>2 DEF SavesEntry
    <3>2. Carried'
      BY <1>7, <3>1 DEF Carried
    <3> QED BY <3>2 DEF FileFresh
  <2> QED BY <2>1, <2>2
<1> QED BY <1>1, <1>8, <1>9, <1>10 DEF PoolFresh

(* The goroutine whose exchange succeeds has the newest token in hand.     *)
LEMMA FreshExchange ==
  ASSUME Issued, NEW w \in Workers, Exchange(w), Fresh
  PROVE  Fresh'
<1> SUFFICES ASSUME sound' PROVE InOrder' /\ SavesEntry' /\ FileFresh' /\ PoolFresh'
  BY DEF Fresh
<1>0. Typed /\ NotNewer /\ OwnToken
  BY DEF Issued, Alive
<1>1. /\ upstream' = upstream + 1 /\ OthersKept(w) /\ held' = held /\ token' = token
      /\ Referred' = Referred /\ UNCHANGED <<file, entry, loaded>>
      /\ pc'[w] = "update" /\ sent'[w] = upstream' /\ sound
  BY <1>0, ExchangeKeeps
<1>2. /\ upstream \in Nat /\ file \in Nat \cup {None} /\ loaded \in Nat \cup {None}
      /\ \A o \in Referred : token[o] \in Nat
      /\ upstream + 1 # None
  <2>1. upstream' \in Tokens
    BY <1>0, Counts DEF Exchange
  <2> QED BY <1>0, <1>1, <2>1, Numbers
<1>3. InOrder /\ SavesEntry
  BY <1>1 DEF Fresh
<1>4. held[w] \in Referred /\ token[held[w]] = upstream
  BY <1>0, HeldReferred DEF OwnToken, Exchange
<1>5. /\ file # upstream' /\ loaded # upstream'
      /\ \A o \in Referred : token[o] # upstream'
  <2>1. \A o \in Referred : token[o] # upstream'
    BY <1>0, <1>1, <1>2 DEF NotNewer
  <2>2. file # upstream' /\ loaded # upstream'
    BY <1>0, <1>1, <1>2 DEF NotNewer
  <2> QED BY <2>1, <2>2
<1>6. \A v \in Workers : pc'[v] = "update" => v = w
  BY <1>1, <1>3, <1>4 DEF InOrder, OthersKept
<1>7. InOrder'
  BY <1>1, <1>5, <1>6 DEF InOrder
<1>8. SavesEntry'
  <2> SUFFICES ASSUME NEW v \in Workers, pc'[v] = "save", held[v] = entry
               PROVE  held[w] = entry
    BY <1>1, <1>5 DEF SavesEntry
  <2>1. pc[v] = "save"
    BY <1>1 DEF OthersKept
  <2> QED BY <1>3, <1>4, <2>1 DEF SavesEntry
<1>9. Carried'
  BY <1>1 DEF Carried
<1> QED BY <1>7, <1>8, <1>9 DEF FileFresh, PoolFresh

(* Then its object has it, and it is about to save it.                     *)
LEMMA FreshUpdate ==
  ASSUME Typed, NEW w \in Workers, UpdateTokens(w), Fresh
  PROVE  Fresh'
<1> SUFFICES ASSUME sound' PROVE InOrder' /\ SavesEntry' /\ FileFresh' /\ PoolFresh'
  BY DEF Fresh
<1>1. /\ OthersKept(w) /\ held' = held /\ pc'[w] = "save"
      /\ token'[held[w]] = sent[w]
      /\ \A o \in Objects \ {held[w]} : token'[o] = token[o]
      /\ UNCHANGED <<upstream, entry, sound>> /\ Referred' = Referred
  BY UpdateKeeps
<1>2. InOrder /\ SavesEntry /\ pc[w] = "update"
  BY <1>1 DEF Fresh, UpdateTokens
<1>3. /\ sent[w] = upstream /\ \A o \in Referred : token[o] # upstream
      /\ \A v \in Workers : pc[v] = "update" => v = w
  BY <1>2 DEF InOrder
<1>4. \A v \in Workers : pc'[v] # "update"
  BY <1>1, <1>3 DEF OthersKept
<1>5. \A o \in Referred \ {held[w]} : token'[o] # upstream
  BY <1>1, <1>3, Numbers
<1>6. SavesEntry'
  <2> SUFFICES ASSUME NEW v \in Workers, pc'[v] = "save", held[v] = entry
               PROVE  held[w] = entry
    BY <1>1, <1>3, <1>5 DEF SavesEntry
  <2>1. CASE v = w
    BY <2>1
  <2>2. CASE v # w
    <3>1. pc[v] = "save" /\ entry \in Referred
      <4>1. pc[v] = "save"
        BY <1>1, <2>2 DEF OthersKept
      <4> QED BY <4>1, HeldReferred
    <3> QED BY <1>2, <1>3, <3>1 DEF SavesEntry
  <2> QED BY <2>1, <2>2
<1>7. Carried'
  BY <1>1, <1>3 DEF Carried
<1> QED BY <1>4, <1>6, <1>7 DEF InOrder, FileFresh, PoolFresh

(* What the watcher adds, the start loads and a login brings is the newest *)
(* token, or somebody has that.                                            *)
LEMMA FreshFile ==
  ASSUME Alive, Add \/ Start \/ Login, Fresh
  PROVE  Fresh'
<1> SUFFICES ASSUME sound' PROVE InOrder' /\ SavesEntry' /\ FileFresh' /\ PoolFresh'
  BY DEF Fresh
<1>0. Typed
  BY DEF Alive
<1>1. sound
  BY DEF Add, Start, Login
<1>2. InOrder /\ SavesEntry /\ FileFresh /\ PoolFresh
  BY <1>1 DEF Fresh
<1>3. ASSUME Add PROVE InOrder' /\ SavesEntry' /\ FileFresh' /\ PoolFresh'
  <2>1. /\ entry' \in Objects \ Held /\ token'[entry'] = loaded
        /\ \A o \in Held \cap Objects : token'[o] = token[o]
        /\ Referred' = {entry'} \cup (Held \ {None})
        /\ loaded # None /\ loaded' = None
        /\ UNCHANGED <<upstream, file, changed, up, pc, held, sent>>
    BY <1>0, <1>3, AddKeeps DEF worker
  <2>2. \A o \in Held \ {None} : o \in Objects /\ o \in Referred /\ token'[o] = token[o]
    BY <1>0, <2>1 DEF Held, Referred, Typed, Hands
  <2>3. InOrder'
    <3>1. upstream # None
      BY <1>0, Sentinels DEF Typed, Data
    <3> QED BY <1>2, <2>1, <2>2, <3>1 DEF InOrder
  <2>4. SavesEntry'
    BY <2>1 DEF SavesEntry, Held
  <2>5. Carried => Carried'
    <3>1. ASSUME NEW w \in Workers, pc[w] = "save" PROVE token'[held[w]] = token[held[w]]
      <4>1. held[w] \in Held \cap Objects
        BY <1>0, <3>1, HeldReferred DEF Held
      <4> QED BY <2>1, <4>1
    <3> QED BY <2>1, <3>1 DEF Carried
  <2>6. FileFresh' /\ PoolFresh'
    BY <1>2, <2>1, <2>5 DEF FileFresh, PoolFresh
  <2> QED BY <2>3, <2>4, <2>6
<1>4. ASSUME Start PROVE InOrder' /\ SavesEntry' /\ FileFresh' /\ PoolFresh'
  <2>1. /\ \A w \in Workers : pc'[w] = "idle" /\ pc[w] = "idle"
        /\ UNCHANGED <<upstream, file, watch>> /\ loaded = None
        /\ \/ entry' = None
           \/ file # None /\ token'[entry'] = file
    BY <1>4, StartKeeps
  <2>2. file \in {None, upstream}
    BY <1>2, <2>1 DEF FileFresh, Carried
  <2>3. InOrder' /\ SavesEntry'
    BY <2>1 DEF InOrder, SavesEntry
  <2>4. FileFresh' /\ PoolFresh'
    BY <2>1, <2>2 DEF FileFresh, PoolFresh, watch
  <2> QED BY <2>3, <2>4
<1>5. ASSUME Login PROVE InOrder' /\ SavesEntry' /\ FileFresh' /\ PoolFresh'
  <2>1. /\ file' = upstream' /\ changed' = up /\ UNCHANGED <<up, worker>>
        /\ \A w \in Workers : pc[w] \notin {"update", "save"}
    BY <1>0, <1>5, LoginKeeps
  <2>2. InOrder' /\ SavesEntry'
    BY <2>1 DEF InOrder, SavesEntry, worker
  <2> QED BY <2>1, <2>2 DEF FileFresh, PoolFresh
<1> QED BY <1>3, <1>4, <1>5

(* Every action keeps the newest token on its way.                         *)
LEMMA FreshNext ==
  ASSUME Issued, Fresh, [Next]_vars
  PROVE  Fresh'
<1>1. Alive /\ Typed /\ Typed'
  BY IssuedNext DEF Issued, Alive
<1> QED BY <1>1, Steps, FreshCalm, FreshSave, FreshExchange, FreshUpdate, FreshFile

(* Between refreshes the file has the newest refresh token, and so has the *)
(* pool when its watcher has caught up: every token the upstream gave out  *)
(* reached them, unless an answer, a save or the process was lost in       *)
(* between (recorder.go:391-410, claude_refresh.go:18-37, watch.go:68-83). *)
THEOREM LifecycleTokensInStep == Spec => []TokensInStep
<1>1. Init => Issued /\ Fresh
  <2> SUFFICES ASSUME Init PROVE Fresh
    BY IssuedInit
  <2>1. InOrder /\ SavesEntry /\ FileFresh /\ PoolFresh
    BY DEF Init, InOrder, SavesEntry, FileFresh, PoolFresh
  <2> QED BY <2>1 DEF Fresh
<1>2. Issued /\ Fresh /\ [Next]_vars => (Issued /\ Fresh)'
  BY IssuedNext, FreshNext
<1>3. Issued /\ Fresh => TokensInStep
  BY DEF Fresh, FileFresh, PoolFresh, Carried, TokensInStep
<1> QED BY <1>1, <1>2, <1>3, PTL DEF Spec

-----------------------------------------------------------------------------
(* The flags of the objects.                                               *)

(* A goroutine changes no object's flag but by a toggle, and marks only its *)
(* own dead for a failed refresh.                                          *)
FlagsKept(w) ==
  \A o \in Referred' :
    /\ SetDisabled(w) \/ stats'[o].disabled = stats[o].disabled
    /\ stats'[o].dead = "refresh" =>
         stats[o].dead = "refresh" \/ (RefreshFailed(w) /\ o = held[w])

(* What a goroutine does to the flags.                                     *)
LEMMA WorkFlags ==
  ASSUME Typed, NEW w \in Workers, Work(w)
  PROVE  /\ OthersKept(w) /\ entry' \in {entry, None} /\ Referred' \subseteq Referred
         /\ held'[w] \in {held[w], entry, None}
         /\ FlagsKept(w)
<1> USE DEF object, hist
<1>0. /\ held \in [Workers -> Objects \cup {None}]
      /\ \A o \in Referred : o \in Objects
  BY Numbers DEF Typed, Hands
<1>1. /\ OthersKept(w) /\ entry' \in {entry, None} /\ Referred' \subseteq Referred
      /\ held'[w] \in {held[w], entry, None}
  <2>1. CASE Exchange(w)
    BY <2>1, ExchangeKeeps
  <2>2. CASE UpdateTokens(w)
    BY <2>2, UpdateKeeps
  <2>3. CASE ~Exchange(w) /\ ~UpdateTokens(w)
    BY <2>3, WorkKeeps, WorkIsCalm DEF WorksOn, Calm
  <2> QED BY <2>1, <2>2, <2>3
<1> SUFFICES FlagsKept(w)
  BY <1>1
<1>2. ASSUME \A o \in Referred' : stats'[o] = stats[o] PROVE FlagsKept(w)
  BY <1>2 DEF FlagsKept
<1>3. ASSUME NEW where, Leave(w, where, stats) PROVE FlagsKept(w)
  BY <1>1, <1>2, <1>3, LeaveKeeps
<1>4. CASE \E what \in Jobs : Take(w, what)
  BY <1>2, <1>4 DEF Take
<1>5. CASE CallAnswered(w)
  BY <1>2, <1>3, <1>5 DEF CallAnswered, Finish
<1>6. CASE CallUnauthorized(w) \/ Record(w) \/ Put(w)
  BY <1>2, <1>6 DEF CallUnauthorized, Record, Put
<1>7. CASE Exchange(w)
  BY <1>2, <1>7, ExchangeKeeps
<1>8. CASE ExchangeFails(w)
  BY <1>2, <1>8, ErrorKeeps DEF ExchangeFails
<1>9. CASE UpdateTokens(w)
  BY <1>2, <1>9, UpdateKeeps
<1>10. CASE Save(w)
  <2>1. CASE kind = "claude"
    BY <1>2, <1>10, <2>1 DEF Save
  <2>2. CASE Step(w, "call again")
    BY <1>2, <2>2, StepKeeps
  <2>3. CASE Finish(w)
    BY <1>3, <2>3 DEF Finish
  <2> QED BY <1>10, <2>1, <2>2, <2>3 DEF Save
<1>11. CASE SaveFails(w)
  BY <1>2, <1>11, StepKeeps DEF SaveFails
<1>12. CASE RefreshFailed(w)
  <2>1. CASE Leave(w, "idle", Marked(held[w], "dead", "refresh"))
    <3> DEFINE m == Marked(held[w], "dead", "refresh")
    <3>1. held[w] \in Objects
      BY <1>12, HeldObject DEF RefreshFailed
    <3>2. /\ m[held[w]].disabled = stats[held[w]].disabled
          /\ \A x \in Objects \ {held[w]} : m[x] = stats[x]
      BY <3>1, MarkedDead DEF Reasons
    <3> HIDE DEF m
    <3>3. \A o \in Referred' : o \in Objects /\ stats'[o] = m[o]
      <4>1. \A o \in Referred' : stats'[o] = m[o]
        <5>1. Leave(w, "idle", m)
          BY <2>1 DEF m
        <5> QED BY <1>1, <5>1, LeaveKeeps
      <4> QED BY <1>0, <1>1, <4>1
    <3>4. ASSUME NEW o \in Referred'
          PROVE  /\ stats'[o].disabled = stats[o].disabled
                 /\ stats'[o].dead = "refresh" => stats[o].dead = "refresh" \/ o = held[w]
      <4>1. CASE o = held[w]
        BY <3>2, <3>3, <4>1
      <4>2. CASE o # held[w]
        BY <3>2, <3>3, <4>2
      <4> QED BY <4>1, <4>2
    <3> QED BY <1>12, <3>4 DEF FlagsKept
  <2>2. CASE PersistThen(w, "idle") /\ UNCHANGED <<token, stats>>
    BY <1>2, <2>2
  <2>3. CASE Finish(w)
    BY <1>3, <2>3 DEF Finish
  <2> QED BY <1>12, <2>1, <2>2, <2>3 DEF RefreshFailed
<1>13. CASE Persist(w)
  <2>1. CASE after[w] = "idle"
    <3>1. held'[w] = None /\ Keep(ReferredBesides(w), token, stats) /\ entry' = entry
      BY <1>0, <1>13, <2>1 DEF Persist
    <3>2. ASSUME NEW o \in Referred' PROVE stats'[o] = stats[o]
      <4>1. o # None /\ (o = entry \/ \E v \in Workers : o = held'[v])
        BY <3>1 DEF Referred, Held
      <4>2. o \in ReferredBesides(w)
        BY <1>1, <3>1, <4>1 DEF OthersKept, ReferredBesides
      <4> QED BY <1>0, <1>1, <3>1, <4>2 DEF Keep
    <3> QED BY <1>2, <3>2
  <2>2. CASE after[w] # "idle"
    BY <1>2, <1>13, <2>2 DEF Persist
  <2> QED BY <2>1, <2>2
<1>14. CASE SetDisabled(w)
  <2>1. held[w] \in Objects /\ (job[w] = "disable") \in BOOLEAN
    BY <1>14, HeldObject DEF SetDisabled
  <2>2. stats' = Marked(held[w], "disabled", job[w] = "disable")
    BY <1>14 DEF SetDisabled
  <2>3. \A o \in Objects : stats'[o].dead = stats[o].dead
    <3> DEFINE x == held[w]
               v == (job[w] = "disable")
               m == Marked(x, "disabled", v)
    <3>1. m[x].dead = stats[x].dead /\ \A o \in Objects \ {x} : m[o] = stats[o]
      BY <2>1, MarkedDisabled
    <3>2. stats' = m
      BY <2>2
    <3> HIDE DEF m, x
    <3> QED BY <3>1, <3>2
  <2> QED BY <1>0, <1>1, <1>14, <2>3 DEF FlagsKept
<1>15. CASE Unlink(w)
  BY <1>2, <1>15, StepKeeps DEF Unlink
<1>16. CASE Remove(w)
  <2>1. CASE Step(w, "forget")
    BY <1>2, <2>1, StepKeeps
  <2>2. CASE Keep({held[v] : v \in Workers \ {w}}, token, stats) /\ kind # "claude"
    <3>1. entry' = None /\ held'[w] = None
      BY <1>0, <1>16, <2>2 DEF Remove, Drop
    <3>2. ASSUME NEW o \in Referred' PROVE stats'[o] = stats[o]
      <4>1. o \in {held[v] : v \in Workers \ {w}}
        BY <1>1, <3>1 DEF Referred, Held, OthersKept
      <4> QED BY <1>0, <1>1, <2>2, <4>1 DEF Keep
    <3> QED BY <1>2, <3>2
  <2> QED BY <1>16, <2>1, <2>2 DEF Remove
<1>17. CASE Forget(w)
  BY <1>3, <1>17 DEF Forget, Finish
<1>18. CASE CallRefused(w)
  BY <1>18, RefusedKeeps DEF FlagsKept
<1> QED
  BY <1>4, <1>5, <1>6, <1>7, <1>8, <1>9, <1>10, <1>11, <1>12, <1>13, <1>14, <1>15,
     <1>16, <1>17, <1>18 DEF Work

-----------------------------------------------------------------------------
(* The reasons of a failed refresh.                                        *)

(* On the way from a failed exchange to its report.                        *)
Failing(w) == pc[w] = "failed" \/ (pc[w] \in {"persist", "put"} /\ after[w] = "failed")

(* Its token is not the newest, and nobody is about to give it one.        *)
UsedUp(o) == token[o] # upstream /\ \A v \in Workers : pc[v] = "update" => held[v] # o

(* A refresh fails, and an account is dead for it, for the token's fault.  *)
Reasoned ==
  ~wronged => /\ \A w \in Workers : Failing(w) => UsedUp(held[w])
              /\ entry # None /\ stats[entry].dead = "refresh" => UsedUp(entry)

(* A refresh that fails for the token's fault, or else has failed before.  *)
FailsFrom(w) == held'[w] = held[w] /\ (Failing(w) \/ ExchangeFails(w))

(* Only a failed exchange, or a save that failed, leads to such a report.  *)
LEMMA WorkFailing ==
  ASSUME Typed, NEW w \in Workers, Work(w), ~wronged'
  PROVE  ~wronged /\ (Failing(w)' => FailsFrom(w))
<1> USE DEF hist
<1>0. /\ pc \in [Workers -> Places] /\ after \in [Workers -> Nexts]
      /\ held \in [Workers -> Objects \cup {None}]
      /\ pc[w] \notin {"persist", "put"} => after[w] = "idle"
  BY DEF Typed, Hands, HandOK
<1> SUFFICES ~wronged /\ ((pc'[w] = "failed" \/ after'[w] = "failed") => FailsFrom(w))
  BY DEF Failing
<1>1. ASSUME NEW where, Leave(w, where, stats) PROVE pc'[w] = where /\ after'[w] = after[w]
  BY <1>0, <1>1 DEF Leave, Goto
<1>2. CASE \E what \in Jobs : Take(w, what)
  <2>1. PICK what \in Jobs : Take(w, what)
    BY <1>2
  <2>2. pc'[w] \in {"exchange", "set", "unlink", "call"} /\ after'[w] = after[w] /\ ~wronged
    BY <1>0, <2>1 DEF Take, SendToken, Goto
  <2>3. pc[w] = "idle"
    BY <2>1 DEF Take
  <2> QED BY <1>0, <2>2, <2>3
<1>3. CASE CallAnswered(w)
  <2>1. pc[w] \in {"call", "call again"} /\ ~wronged
    BY <1>3 DEF CallAnswered
  <2>2. pc'[w] \in {"idle", "record", "persist"} /\ after'[w] = "idle"
    <3>1. CASE Leave(w, "record", stats) \/ Finish(w)
      BY <1>0, <2>1, <3>1 DEF Leave, Finish, Goto
    <3>2. CASE PersistThen(w, "idle")
      BY <3>2, PersistThenKeeps
    <3> QED BY <1>3, <3>1, <3>2 DEF CallAnswered
  <2> QED BY <2>1, <2>2
<1>4. CASE CallUnauthorized(w)
  BY <1>0, <1>4 DEF CallUnauthorized, SendToken, Goto
<1>5. CASE Exchange(w)
  <2>1. wronged' = wronged
    BY <1>5 DEF Exchange
  <2>2. pc'[w] = "update" /\ after' = after /\ pc[w] = "exchange"
    BY <1>0, <1>5 DEF Exchange, Goto
  <2> QED BY <1>0, <2>1, <2>2
<1>6. CASE ExchangeFails(w)
  <2>1. held' = held /\ ~wronged
    BY <1>6, ErrorKeeps DEF ExchangeFails
  <2> QED BY <1>6, <2>1 DEF FailsFrom
<1>7. CASE UpdateTokens(w)
  BY <1>0, <1>7, UpdateKeeps DEF UpdateTokens
<1>8. CASE Save(w)
  <2>1. pc[w] = "save" /\ ~wronged
    BY <1>8 DEF Save
  <2>2. pc'[w] # "failed" /\ after'[w] # "failed"
    <3>1. CASE kind = "claude"
      <4> DEFINE next == IF job[w] = "poll" THEN "call again" ELSE "idle"
      <4>1. PersistThen(w, next)
        BY <1>8, <3>1 DEF Save
      <4>2. next # "failed"
        OBVIOUS
      <4> HIDE DEF next
      <4> QED BY <4>1, <4>2, PersistThenKeeps
    <3>2. CASE Step(w, "call again")
      <4>1. pc'[w] = "call again" /\ after' = after
        BY <3>2, StepKeeps
      <4> QED BY <1>0, <2>1, <4>1
    <3>3. CASE Finish(w)
      BY <1>0, <1>1, <2>1, <3>3 DEF Finish
    <3> QED BY <1>8, <3>1, <3>2, <3>3 DEF Save
  <2> QED BY <2>1, <2>2
<1>9. CASE SaveFails(w)
  BY <1>9 DEF SaveFails
<1>10. CASE RefreshFailed(w)
  <2>1. pc[w] = "failed" /\ ~wronged
    BY <1>10 DEF RefreshFailed
  <2>2. pc'[w] # "failed" /\ after'[w] # "failed"
    <3>1. ASSUME NEW st, Leave(w, "idle", st) PROVE pc'[w] = "idle" /\ after'[w] = after[w]
      BY <1>0, <3>1 DEF Leave, Goto
    <3>2. CASE PersistThen(w, "idle")
      BY <3>2, PersistThenKeeps
    <3>3. CASE Leave(w, "idle", Marked(held[w], "dead", "refresh")) \/ Finish(w)
      BY <1>0, <2>1, <3>1, <3>3 DEF Finish
    <3> QED BY <1>10, <3>2, <3>3 DEF RefreshFailed
  <2> QED BY <2>1, <2>2
<1>11. CASE Persist(w)
  <2>1. pc[w] = "persist" /\ pc'[w] = "put" /\ after' = after /\ ~wronged
    BY <1>0, <1>11 DEF Persist, Goto
  <2>2. after[w] # "idle" => held' = held
    BY <1>11 DEF Persist
  <2> QED BY <2>1, <2>2 DEF FailsFrom, Failing
<1>12. CASE Record(w)
  <2>1. pc[w] = "record" /\ pc'[w] \in {"idle", "put"} /\ after' = after /\ ~wronged
    BY <1>0, <1>12 DEF Record, Goto
  <2> QED BY <1>0, <2>1
<1>13. CASE Put(w)
  <2>1. /\ pc[w] = "put" /\ pc'[w] = after[w] /\ after'[w] = "idle" /\ held' = held
        /\ ~wronged
    BY <1>0, <1>13 DEF Put, Goto
  <2> QED BY <2>1 DEF FailsFrom, Failing
<1>14. CASE SetDisabled(w)
  BY <1>14, PersistThenKeeps DEF SetDisabled
<1>15. CASE Unlink(w)
  BY <1>0, <1>15, StepKeeps DEF Unlink
<1>16. CASE Remove(w)
  <2>1. pc[w] \in {"remove", "unlink"} /\ ~wronged
    BY <1>16 DEF Remove
  <2>2. pc'[w] \in {"forget", "idle"} /\ after' = after
    BY <1>0, <1>16, StepKeeps DEF Remove, Goto
  <2> QED BY <1>0, <2>1, <2>2
<1>17. CASE Forget(w)
  <2>1. pc[w] = "forget" /\ ~wronged
    BY <1>17 DEF Forget
  <2>2. pc'[w] = "idle" /\ after'[w] = after[w]
    BY <1>1, <1>17 DEF Forget, Finish
  <2> QED BY <1>0, <2>1, <2>2
<1>18. CASE CallRefused(w)
  BY <1>0, <1>18, RefusedKeeps
<1> QED
  BY <1>2, <1>3, <1>4, <1>5, <1>6, <1>7, <1>8, <1>9, <1>10, <1>11, <1>12, <1>13, <1>14,
     <1>15, <1>16, <1>17, <1>18 DEF Work

(* A refresh that fails for the token's fault used an old one.             *)
LEMMA FailsForReason ==
  ASSUME Issued, NEW w \in Workers, ExchangeFails(w), ~wronged'
  PROVE  UsedUp(held[w])
<1>1. pc[w] = "exchange" /\ token[held[w]] # upstream
  BY DEF ExchangeFails
<1>2. ASSUME NEW v \in Workers, pc[v] = "update", held[v] = held[w] PROVE FALSE
  <2>1. v \in Others(w)
    BY <1>1, <1>2 DEF Others
  <2> QED BY <1>2, <2>1 DEF ExchangeFails
<1> QED BY <1>1, <1>2 DEF UsedUp

(* A used token stays used, but for what the watcher adds and the start    *)
(* loads.                                                                  *)
LEMMA UsedUpKept ==
  ASSUME Issued, Issued', [Next]_vars, ~Add, ~Start,
         NEW o \in Referred, o \in Referred', UsedUp(o)
  PROVE  UsedUp(o)'
<1>0. Alive /\ Typed /\ NotNewer /\ OwnToken
  BY DEF Issued, Alive
<1>1. CASE Calm
  BY <1>1 DEF Calm, UsedUp
<1>2. upstream \in Nat /\ token[o] \in Nat /\ o \in Objects /\ token[o] <= upstream
  BY <1>0, Numbers DEF NotNewer
<1>3. ASSUME NEW w \in Workers, Exchange(w) PROVE UsedUp(o)'
  <2>1. /\ upstream' = upstream + 1 /\ OthersKept(w) /\ held' = held /\ token' = token
    BY <1>0, <1>3, ExchangeKeeps
  <2>2. held[w] # o
    BY <1>0, <1>3 DEF Exchange, OwnToken, UsedUp
  <2>3. token'[o] # upstream'
    BY <1>2, <2>1
  <2> QED BY <2>1, <2>2, <2>3 DEF UsedUp, OthersKept
<1>4. ASSUME NEW w \in Workers, UpdateTokens(w) PROVE UsedUp(o)'
  <2>1. /\ OthersKept(w) /\ held' = held /\ pc'[w] = "save" /\ upstream' = upstream
        /\ \A x \in Objects \ {held[w]} : token'[x] = token[x]
    BY <1>0, <1>4, UpdateKeeps
  <2>2. held[w] # o
    BY <1>4 DEF UpdateTokens, UsedUp
  <2> QED BY <1>2, <2>1, <2>2 DEF UsedUp, OthersKept
<1>5. CASE Login
  <2>1. upstream' = upstream + 1 /\ UNCHANGED <<object, worker>>
    BY <1>0, <1>5, LoginKeeps
  <2>2. token'[o] # upstream'
    BY <1>2, <2>1 DEF object
  <2> QED BY <2>1, <2>2 DEF UsedUp, worker
<1> QED BY <1>0, <1>1, <1>3, <1>4, <1>5, Steps

(* Where the failures of the next state come from.                         *)
LEMMA ReasonsFrom ==
  ASSUME Issued, Reasoned, [Next]_vars, ~Add, ~Start, ~wronged'
  PROVE  /\ \A v \in Workers : Failing(v)' => held'[v] = held[v] /\ UsedUp(held[v])
         /\ entry' # None /\ stats'[entry'].dead = "refresh" => entry' = entry /\ UsedUp(entry)
<1>0. Typed
  BY DEF Issued, Alive
<1>1. ASSUME NEW w \in Workers, Work(w)
      PROVE  /\ \A v \in Workers : Failing(v)' => held'[v] = held[v] /\ UsedUp(held[v])
             /\ entry' # None /\ stats'[entry'].dead = "refresh" => entry' = entry /\ UsedUp(entry)
  <2>1. ~wronged /\ (Failing(w)' => FailsFrom(w))
    BY <1>0, <1>1, WorkFailing
  <2>2. OthersKept(w) /\ entry' \in {entry, None} /\ FlagsKept(w)
    BY <1>0, <1>1, WorkFlags
  <2>3. /\ \A v \in Workers : Failing(v) => UsedUp(held[v])
        /\ entry # None /\ stats[entry].dead = "refresh" => UsedUp(entry)
    BY <2>1 DEF Reasoned
  <2>4. Failing(w)' => held'[w] = held[w] /\ UsedUp(held[w])
    BY <2>1, <2>3, FailsForReason DEF FailsFrom
  <2>5. ASSUME NEW v \in Workers, v # w, Failing(v)'
        PROVE  held'[v] = held[v] /\ UsedUp(held[v])
    <3>1. Failing(v) /\ held'[v] = held[v]
      BY <2>2, <2>5 DEF OthersKept, Failing
    <3> QED BY <2>3, <3>1
  <2>6. ASSUME entry' # None, stats'[entry'].dead = "refresh" PROVE entry' = entry /\ UsedUp(entry)
    <3>1. entry' = entry /\ entry' \in Referred'
      BY <2>2, <2>6 DEF Referred
    <3>2. stats[entry].dead = "refresh" \/ (RefreshFailed(w) /\ entry = held[w])
      BY <2>2, <2>6, <3>1 DEF FlagsKept
    <3>3. RefreshFailed(w) => Failing(w)
      BY DEF RefreshFailed, Failing
    <3> QED BY <2>3, <2>6, <3>1, <3>2, <3>3
  <2> QED BY <2>4, <2>5, <2>6
<1>2. ASSUME wronged' = wronged, pc' = pc, after' = after, held' = held,
             entry' = None \/ UNCHANGED <<entry, stats>>
      PROVE  /\ \A v \in Workers : Failing(v)' => held'[v] = held[v] /\ UsedUp(held[v])
             /\ entry' # None /\ stats'[entry'].dead = "refresh" => entry' = entry /\ UsedUp(entry)
  BY <1>2 DEF Reasoned, Failing
<1>3. CASE Look
  BY <1>2, <1>3 DEF Look, Drop, worker, object
<1>4. CASE Stop
  BY <1>4 DEF Stop, Failing
<1>5. CASE Rewrite \/ Login \/ UNCHANGED vars
  BY <1>2, <1>5 DEF Rewrite, Login, vars, worker, object, hist
<1>6. ASSUME NEW n \in 1..Len(queued), Commit(n) \/ CommitFails(n)
      PROVE  wronged' = wronged /\ UNCHANGED <<worker, object>>
  BY <1>6 DEF Commit, CommitFails, hist
<1>7. ASSUME NEW v \in BOOLEAN, Command(v)
      PROVE  wronged' = wronged /\ UNCHANGED <<worker, object>>
  BY <1>7 DEF Command
<1>8. CASE wronged' = wronged /\ UNCHANGED <<worker, object>>
  BY <1>2, <1>8 DEF worker, object
<1> QED BY <1>1, <1>3, <1>4, <1>5, <1>6, <1>7, <1>8 DEF Next

(* Every action keeps the reasons.                                         *)
LEMMA ReasonedNext ==
  ASSUME Issued, Reasoned, [Next]_vars
  PROVE  Reasoned'
<1> SUFFICES ASSUME ~wronged'
             PROVE  /\ \A w \in Workers : Failing(w)' => UsedUp(held[w])'
                    /\ entry' # None /\ stats'[entry'].dead = "refresh" => UsedUp(entry)'
  BY DEF Reasoned
<1>0. Issued' /\ Alive /\ Typed /\ Typed'
  BY IssuedNext DEF Issued, Alive
<1>1. CASE Add
  <2>1. /\ entry' \in Objects \ Held /\ token'[entry'] = loaded /\ stats'[entry'] = Inherited
        /\ \A o \in Held \cap Objects : token'[o] = token[o]
        /\ UNCHANGED <<upstream, pc, after, held, wronged>>
    BY <1>0, <1>1, AddKeeps DEF worker
  <2>2. ASSUME NEW w \in Workers, Failing(w)' PROVE UsedUp(held[w])'
    <3>1. Failing(w)
      BY <2>1, <2>2 DEF Failing
    <3>2. held[w] \in Held \cap Objects
      <4>1. held[w] # None
        BY <1>0, <3>1 DEF Failing, Typed, Hands, HandOK
      <4> QED BY <1>0, <4>1 DEF Held, Typed, Hands
    <3>3. UsedUp(held[w])
      BY <2>1, <3>1 DEF Reasoned
    <3> QED BY <2>1, <3>2, <3>3 DEF UsedUp
  <2>3. ASSUME stats'[entry'].dead = "refresh" PROVE UsedUp(entry)'
    <3>1. SameToken /\ stats[entry].dead = "refresh"
      BY <2>1, <2>3 DEF Inherited, NewStats
    <3>2. token'[entry'] # upstream
      BY <2>1, <3>1 DEF SameToken, Reasoned, UsedUp
    <3> QED BY <2>1, <3>2 DEF UsedUp, Held
  <2> QED BY <2>2, <2>3
<1>2. CASE Start
  <2>1. /\ \A w \in Workers : pc'[w] = "idle"
        /\ \/ entry' = None
           \/ /\ stats'[entry'] = (IF stored[Key] = None THEN NewStats ELSE stored[Key])
              /\ wronged' = (wronged \/ (stored[Key] # None /\ stored[Key].dead = "refresh"))
    BY <1>0, <1>2, StartKeeps
  <2>2. ASSUME entry' # None PROVE stats'[entry'].dead # "refresh"
    <3>1. ~(stored[Key] # None /\ stored[Key].dead = "refresh")
      BY <2>1, <2>2, Zenon
    <3>2. NewStats.dead # "refresh"
      BY DEF NewStats
    <3>3. stats'[entry'] = (IF stored[Key] = None THEN NewStats ELSE stored[Key])
      BY <2>1, <2>2
    <3> QED BY <3>1, <3>2, <3>3
  <2> QED BY <2>1, <2>2 DEF Failing
<1>3. CASE ~Add /\ ~Start
  <2>1. /\ \A v \in Workers : Failing(v)' => held'[v] = held[v] /\ UsedUp(held[v])
        /\ entry' # None /\ stats'[entry'].dead = "refresh" => entry' = entry /\ UsedUp(entry)
    BY <1>3, ReasonsFrom
  <2>2. ASSUME NEW o, o \in Referred, o \in Referred', UsedUp(o) PROVE UsedUp(o)'
    BY <1>0, <1>3, <2>2, UsedUpKept
  <2>3. ASSUME NEW w \in Workers, Failing(w)' PROVE UsedUp(held[w])'
    <3>1. held'[w] = held[w] /\ UsedUp(held[w]) /\ held'[w] # None
      BY <1>0, <2>1, <2>3 DEF Failing, Typed, Hands, HandOK
    <3> SUFFICES ASSUME NEW o, o = held[w] PROVE UsedUp(o)'
      BY <3>1 DEF UsedUp
    <3>2. o \in Referred /\ o \in Referred'
      BY <3>1 DEF Referred, Held
    <3> QED BY <2>2, <3>1, <3>2
  <2>4. ASSUME entry' # None, stats'[entry'].dead = "refresh" PROVE UsedUp(entry)'
    <3>1. entry' = entry /\ UsedUp(entry)
      BY <2>1, <2>4
    <3> SUFFICES ASSUME NEW o, o = entry PROVE UsedUp(o)'
      BY <3>1 DEF UsedUp
    <3>2. o \in Referred /\ o \in Referred'
      BY <2>4, <3>1 DEF Referred
    <3> QED BY <2>2, <3>1, <3>2
  <2> QED BY <2>3, <2>4
<1> QED BY <1>1, <1>2, <1>3

(* An account that is dead because its refresh failed has a token that is  *)
(* used up, unless a refresh failed for want of an answer, or because two  *)
(* shared one token, or the mark is one of an earlier process              *)
(* (responses.go:400-404, messages.go:179-187).                            *)
THEOREM LifecycleDeadHasReason == Spec => []DeadHasReason
<1>1. Init => Issued /\ Reasoned
  <2> SUFFICES ASSUME Init PROVE Reasoned
    BY IssuedInit
  <2> QED BY DEF Init, Reasoned, Failing
<1>2. Issued /\ Reasoned /\ [Next]_vars => (Issued /\ Reasoned)'
  BY IssuedNext, ReasonedNext
<1>3. Reasoned => DeadHasReason
  BY DEF Reasoned, UsedUp, DeadHasReason
<1> QED BY <1>1, <1>2, <1>3, PTL DEF Spec

-----------------------------------------------------------------------------
(* The admin's last wish.                                                  *)

Says(val) == wish = Wish(val # None /\ val.disabled)

Persisting(w) == pc[w] \in {"persist", "put"}

(* Every object and every snapshot has what was asked for; so has what is  *)
(* queued, or else a snapshot is on its way.                               *)
Wished ==
  wish # "any" =>
    /\ \A o \in Referred : wish = Wish(stats[o].disabled)
    /\ \A w \in Workers : snap[w] # None => wish = Wish(snap[w].disabled)
    /\ Says(Accepted) \/ \E w \in Workers : Persisting(w)

(* The statistics are taken back only once nothing is promised.            *)
Forgetting == \A w \in Workers : pc[w] = "forget" => wish = "any" /\ held[w] # entry

(* What a goroutine does that neither toggles, nor removes, nor persists.  *)
LEMMA PlainWork ==
  ASSUME Typed, NEW w \in Workers, Work(w),
         ~SetDisabled(w), ~Remove(w), ~Persist(w), ~Record(w), ~Put(w), ~Forget(w)
  PROVE  /\ UNCHANGED <<snap, wish, stored, queued>>
         /\ ~Persisting(w) /\ pc'[w] # "forget"
<1> USE DEF hist
<1>0. /\ pc \in [Workers -> Places]
      /\ ~Persisting(w) <=> pc[w] \notin {"persist", "put"}
  BY DEF Typed, Hands, Persisting
<1>1. ASSUME NEW where, NEW st, Leave(w, where, st) PROVE snap' = snap /\ pc'[w] = where
  BY <1>0, <1>1 DEF Leave, Goto
<1>2. CASE \E what \in Jobs : Take(w, what)
  <2>1. PICK what \in Jobs : Take(w, what)
    BY <1>2
  <2>2. /\ UNCHANGED <<snap, wish, stored, queued>> /\ pc[w] = "idle"
        /\ pc'[w] \in {"exchange", "set", "unlink", "call"}
    BY <1>0, <2>1 DEF Take, SendToken, Goto
  <2> QED BY <1>0, <2>2
<1>3. CASE CallAnswered(w)
  <2>1. UNCHANGED <<wish, stored, queued>> /\ pc[w] \in {"call", "call again"}
    BY <1>3 DEF CallAnswered
  <2>2. snap' = snap /\ pc'[w] \in {"record", "persist", "idle"}
    BY <1>1, <1>3, PersistThenKeeps DEF CallAnswered, Finish
  <2> QED BY <1>0, <2>1, <2>2
<1>4. CASE CallUnauthorized(w)
  BY <1>0, <1>4 DEF CallUnauthorized, SendToken, Goto
<1>5. CASE Exchange(w)
  <2>1. UNCHANGED <<wish, stored, queued>> /\ pc[w] = "exchange"
    BY <1>5 DEF Exchange
  <2>2. snap' = snap /\ pc'[w] \in {"update", "persist", "failed"}
    BY <1>0, <1>5, ErrorKeeps DEF Exchange, Goto
  <2> QED BY <1>0, <2>1, <2>2
<1>6. CASE ExchangeFails(w)
  <2>1. UNCHANGED <<wish, stored, queued>> /\ pc[w] = "exchange"
    BY <1>6 DEF ExchangeFails
  <2>2. snap' = snap /\ pc'[w] \in {"persist", "failed"}
    BY <1>6, ErrorKeeps DEF ExchangeFails
  <2> QED BY <1>0, <2>1, <2>2
<1>7. CASE UpdateTokens(w)
  <2>1. UNCHANGED <<wish, stored, queued>> /\ pc[w] = "update"
    BY <1>7 DEF UpdateTokens
  <2> QED BY <1>0, <1>7, <2>1, UpdateKeeps
<1>8. CASE Save(w)
  <2>1. UNCHANGED <<wish, stored, queued>> /\ pc[w] = "save"
    BY <1>8 DEF Save
  <2>2. snap' = snap /\ pc'[w] \in {"persist", "call again", "idle"}
    <3>1. CASE kind = "claude"
      <4>1. PICK next : PersistThen(w, next)
        BY <1>8, <3>1 DEF Save
      <4> QED BY <4>1, PersistThenKeeps
    <3>2. CASE Step(w, "call again")
      BY <3>2, StepKeeps
    <3>3. CASE Finish(w)
      BY <1>1, <3>3 DEF Finish
    <3> QED BY <1>8, <3>1, <3>2, <3>3 DEF Save
  <2> QED BY <1>0, <2>1, <2>2
<1>9. CASE SaveFails(w)
  <2>1. UNCHANGED <<wish, stored, queued>> /\ pc[w] = "save"
    BY <1>9 DEF SaveFails
  <2>2. snap' = snap /\ pc'[w] = "failed"
    BY <1>9, StepKeeps DEF SaveFails
  <2> QED BY <1>0, <2>1, <2>2
<1>10. CASE RefreshFailed(w)
  <2>1. UNCHANGED <<wish, stored, queued>> /\ pc[w] = "failed"
    BY <1>10 DEF RefreshFailed
  <2>2. snap' = snap /\ pc'[w] \in {"persist", "idle"}
    BY <1>1, <1>10, PersistThenKeeps DEF RefreshFailed, Finish
  <2> QED BY <1>0, <2>1, <2>2
<1>11. CASE Unlink(w)
  <2>1. UNCHANGED <<wish, stored, queued>> /\ pc[w] = "unlink"
    BY <1>11 DEF Unlink
  <2>2. snap' = snap /\ pc'[w] = "remove"
    BY <1>11, StepKeeps DEF Unlink
  <2> QED BY <1>0, <2>1, <2>2
<1>12. CASE CallRefused(w)
  BY <1>0, <1>12, RefusedKeeps
<1> QED
  BY <1>2, <1>3, <1>4, <1>5, <1>6, <1>7, <1>8, <1>9, <1>10, <1>11, <1>12 DEF Work

(* What a toggle does: nobody else has an object but the pool's, and       *)
(* nobody a snapshot, or nothing is promised.                              *)
LEMMA ToggleWished ==
  ASSUME Typed, NEW w \in Workers, SetDisabled(w)
  PROVE  Wished'
<1> SUFFICES ASSUME wish' # "any"
             PROVE  /\ \A o \in Referred' : wish' = Wish(stats'[o].disabled)
                    /\ \A v \in Workers : snap'[v] # None => wish' = Wish(snap'[v].disabled)
                    /\ \E v \in Workers : Persisting(v)'
  BY DEF Wished
<1>1. /\ held[w] = entry /\ ~Overtaken(w) /\ wish' = Wish(job[w] = "disable")
      /\ stats' = Marked(held[w], "disabled", job[w] = "disable")
      /\ PersistThen(w, "idle") /\ entry' = entry /\ pc[w] = "set"
  BY DEF SetDisabled
<1>2. held[w] \in Objects /\ (job[w] = "disable") \in BOOLEAN
  BY <1>1, HeldObject
<1>3. stats'[entry].disabled = (job[w] = "disable")
  BY <1>1, <1>2, MarkedDisabled
<1>4. held' = held /\ snap' = snap /\ pc'[w] = "persist"
  BY <1>1, PersistThenKeeps
<1>5. ASSUME NEW v \in Workers PROVE held[v] \in {entry, None} /\ snap[v] = None
  <2>1. HandOK(v)
    BY DEF Typed, Hands
  <2>2. CASE v = w
    BY <1>1, <2>1, <2>2 DEF HandOK
  <2>3. CASE v # w /\ pc[v] = "idle"
    BY <2>1, <2>3 DEF HandOK
  <2>4. CASE v # w /\ pc[v] # "idle"
    <3>1. v \in Others(w)
      BY <2>4 DEF Others
    <3>2. pc[v] # "put" /\ held[v] \in {entry, None}
      BY <1>1, <3>1 DEF Overtaken
    <3> QED BY <2>1, <3>2 DEF HandOK
  <2> QED BY <2>2, <2>3, <2>4
<1>6. Referred' \subseteq {entry}
  BY <1>1, <1>4, <1>5 DEF Referred, Held
<1>7. \A o \in Referred' : wish' = Wish(stats'[o].disabled)
  BY <1>1, <1>3, <1>6
<1> QED BY <1>4, <1>5, <1>7 DEF Persisting

(* Every other step of a goroutine hands on what it has.                   *)
LEMMA WorkWished ==
  ASSUME Typed, NEW w \in Workers, Work(w), Wished, Forgetting
  PROVE  Wished'
<1>1. CASE SetDisabled(w)
  BY <1>1, ToggleWished
<1>2. CASE Remove(w)
  BY <1>2 DEF Remove, Drop, Wished
<1>3. CASE Forget(w)
  BY <1>3 DEF Forget, hist, Wished, Forgetting
<1>4. ASSUME ~SetDisabled(w), ~Remove(w), ~Forget(w), wish' = wish, wish # "any"
      PROVE  Wished'
  <2>1. /\ OthersKept(w) /\ Referred' \subseteq Referred
        /\ \A o \in Referred' : stats'[o].disabled = stats[o].disabled
    BY <1>4, WorkFlags DEF FlagsKept
  <2>2. /\ \A o \in Referred : wish = Wish(stats[o].disabled)
        /\ \A v \in Workers : snap[v] # None => wish = Wish(snap[v].disabled)
        /\ Says(Accepted) \/ \E v \in Workers : Persisting(v)
    BY <1>4 DEF Wished
  <2>3. \A o \in Referred' : wish = Wish(stats'[o].disabled)
    BY <2>1, <2>2
  <2>4. ASSUME snap'[w] # None => wish = Wish(snap'[w].disabled)
        PROVE  \A v \in Workers : snap'[v] # None => wish = Wish(snap'[v].disabled)
    BY <2>1, <2>2, <2>4 DEF OthersKept
  <2>5. ASSUME Accepted' = Accepted, Persisting(w) => Persisting(w)'
        PROVE  Says(Accepted)' \/ \E v \in Workers : Persisting(v)'
    <3>1. CASE Says(Accepted)
      BY <1>4, <2>5, <3>1 DEF Says
    <3>2. CASE \E v \in Workers : Persisting(v)
      BY <2>1, <2>5, <3>2 DEF OthersKept, Persisting
    <3> QED BY <2>2, <3>1, <3>2
  <2>6. CASE Persist(w)
    <3>1. /\ snap'[w] = stats[held[w]] /\ pc'[w] = "put" /\ UNCHANGED <<stored, queued>>
      BY <2>6 DEF Persist, Goto, Typed, Hands
    <3>2. held[w] \in Referred
      BY <2>6, HeldReferred DEF Persist
    <3>3. \A v \in Workers : snap'[v] # None => wish = Wish(snap'[v].disabled)
      BY <2>2, <2>4, <3>1, <3>2
    <3>4. \E v \in Workers : Persisting(v)'
      BY <3>1 DEF Persisting
    <3> QED BY <1>4, <2>3, <3>3, <3>4 DEF Wished
  <2>7. CASE Record(w)
    <3>1. /\ snap'[w] = snap[w] \/ (entry # None /\ snap'[w] = stats[entry])
          /\ UNCHANGED <<stored, queued>> /\ pc[w] = "record"
      BY <2>7 DEF Record, Typed, Hands
    <3>2. entry # None => entry \in Referred
      BY DEF Referred
    <3>3. \A v \in Workers : snap'[v] # None => wish = Wish(snap'[v].disabled)
      BY <2>2, <2>4, <3>1, <3>2
    <3>4. Says(Accepted)' \/ \E v \in Workers : Persisting(v)'
      BY <2>5, <3>1 DEF Accepted, Persisting
    <3> QED BY <1>4, <2>3, <3>3, <3>4 DEF Wished
  <2>8. CASE Put(w)
    <3>1. /\ snap'[w] = None /\ pc[w] = "put" /\ Queue(snap[w])
      BY <2>8 DEF Put, Typed, Hands
    <3>2. snap[w] # None /\ snap[w] \in Stats \cup {None} /\ Data
      BY <3>1 DEF Typed, Hands, HandOK
    <3>3. Accepted' = snap[w]
      BY <3>1, <3>2, QueueTakes
    <3>4. Says(Accepted)'
      <4>1. wish = Wish(snap[w].disabled)
        BY <2>2, <3>2
      <4>2. snap[w].disabled = (snap[w] # None /\ snap[w].disabled)
        BY <3>2 DEF Stats
      <4> QED BY <1>4, <3>3, <4>1, <4>2 DEF Says
    <3>5. \A v \in Workers : snap'[v] # None => wish = Wish(snap'[v].disabled)
      BY <2>4, <3>1
    <3> QED BY <1>4, <2>3, <3>4, <3>5 DEF Wished
  <2>9. CASE ~Persist(w) /\ ~Record(w) /\ ~Put(w)
    <3>1. UNCHANGED <<snap, stored, queued>> /\ ~Persisting(w)
      BY <1>4, <2>9, PlainWork
    <3>2. \A v \in Workers : snap'[v] # None => wish = Wish(snap'[v].disabled)
      BY <2>2, <3>1
    <3>3. Says(Accepted)' \/ \E v \in Workers : Persisting(v)'
      BY <2>5, <3>1 DEF Accepted
    <3> QED BY <1>4, <2>3, <3>2, <3>3 DEF Wished
  <2> QED BY <2>6, <2>7, <2>8, <2>9
<1>5. ~SetDisabled(w) /\ ~Remove(w) /\ ~Forget(w) => wish' = wish
  BY PlainWork DEF Persist, Record, Put, hist
<1>6. wish' = wish /\ wish = "any" => Wished'
  BY DEF Wished
<1> QED BY <1>1, <1>2, <1>3, <1>4, <1>5, <1>6

(* Nobody takes the statistics back while something is promised.           *)
LEMMA ForgettingNext ==
  ASSUME Alive, Typed', Forgetting, [Next]_vars
  PROVE  Forgetting'
<1> USE DEF hist, process
<1>0. Typed /\ \A v \in Workers : pc'[v] = "forget" => held'[v] # None
  BY DEF Alive, Typed, Hands, HandOK
<1>1. ASSUME wish' \in {wish, "any"}, UNCHANGED <<pc, held>>,
             \A v \in Workers : pc[v] = "forget" => entry' \in {entry, None} \/ entry' # held[v]
      PROVE  Forgetting'
  BY <1>0, <1>1 DEF Forgetting
<1>2. ASSUME NEW w \in Workers, Work(w) PROVE Forgetting'
  <2>1. OthersKept(w) /\ entry' \in {entry, None}
    BY <1>0, <1>2, WorkFlags
  <2>2. CASE SetDisabled(w)
    <3>1. pc'[w] = "persist" /\ entry' = entry
      BY <1>0, <2>2, PersistThenKeeps DEF SetDisabled
    <3>2. ASSUME NEW v \in Workers, pc'[v] = "forget"
          PROVE  wish' = "any" /\ held'[v] # entry'
      <4>1. v # w /\ pc[v] = "forget" /\ held'[v] = held[v]
        BY <2>1, <3>1, <3>2 DEF OthersKept
      <4>2. held[v] # entry /\ held[v] # None
        BY <1>0, <3>2, <4>1 DEF Forgetting
      <4>3. v \in Others(w)
        BY <4>1 DEF Others
      <4>4. Overtaken(w)
        BY <4>2, <4>3 DEF Overtaken
      <4> QED BY <2>2, <3>1, <4>1, <4>2, <4>4 DEF SetDisabled
    <3> QED BY <3>2 DEF Forgetting
  <2>3. CASE Remove(w)
    BY <1>0, <2>3 DEF Remove, Drop, Forgetting
  <2>4. CASE ~SetDisabled(w) /\ ~Remove(w)
    <3>1. wish' = wish /\ pc'[w] # "forget"
      <4>1. CASE Persist(w)
        BY <1>0, <4>1 DEF Persist, Goto, Typed, Hands
      <4>2. CASE Record(w)
        BY <1>0, <4>2 DEF Record, Goto, Typed, Hands
      <4>3. CASE Put(w)
        BY <1>0, <4>3 DEF Put, Goto, Typed, Hands, Nexts
      <4>4. CASE Forget(w)
        BY <1>0, <4>4 DEF Forget, Finish, Leave, Goto, Typed, Hands
      <4>5. CASE ~Persist(w) /\ ~Record(w) /\ ~Put(w) /\ ~Forget(w)
        BY <1>0, <1>2, <2>4, <4>5, PlainWork
      <4> QED BY <4>1, <4>2, <4>3, <4>4, <4>5
    <3> QED BY <1>0, <2>1, <3>1 DEF OthersKept, Forgetting
  <2> QED BY <2>2, <2>3, <2>4
<1>3. CASE Look
  BY <1>1, <1>3 DEF Look, Drop, worker, object
<1>4. CASE Add
  <2>1. entry' \in Objects \ Held /\ UNCHANGED worker
    BY <1>0, <1>4, AddKeeps
  <2>2. \A v \in Workers : entry' # held[v]
    BY <2>1 DEF Held
  <2>3. wish' \in {wish, "any"}
    BY <1>4 DEF Add
  <2> QED BY <1>1, <2>1, <2>2, <2>3 DEF worker
<1>5. CASE Start
  BY <1>5, StartKeeps DEF Forgetting
<1>6. CASE Stop
  BY <1>6 DEF Stop, Forgetting
<1>7. ASSUME NEW v \in BOOLEAN, Command(v) PROVE Forgetting'
  BY <1>7 DEF Command, worker, Alive, Down, Forgetting
<1>8. CASE Rewrite \/ Login \/ UNCHANGED vars
  BY <1>1, <1>8 DEF Rewrite, Login, vars, worker, object
<1>9. ASSUME NEW n \in 1..Len(queued), Commit(n) \/ CommitFails(n) PROVE Forgetting'
  BY <1>1, <1>9 DEF Commit, CommitFails, worker, object
<1> QED BY <1>2, <1>3, <1>4, <1>5, <1>6, <1>7, <1>8, <1>9 DEF Next

(* The queue, the watcher and the process hand on what was asked for.      *)
LEMMA WishedNext ==
  ASSUME Alive, Typed', Wished, Forgetting, [Next]_vars
  PROVE  Wished'
<1> USE DEF hist, process
<1>0. Typed /\ Data
  BY DEF Alive, Typed
<1>1. ASSUME NEW w \in Workers, Work(w) PROVE Wished'
  BY <1>0, <1>1, WorkWished
<1> SUFFICES ASSUME wish' # "any" PROVE Wished'
  BY DEF Wished
<1>2. ASSUME wish' = wish, UNCHANGED <<pc, snap, stored, queued>>,
             \A o \in Referred' : wish = Wish(stats'[o].disabled)
      PROVE  Wished'
  BY <1>2 DEF Wished, Says, Accepted, Persisting
<1>3. CASE Look
  <2>1. file # None /\ wish' = wish /\ UNCHANGED <<object, worker, stored, queued>>
    BY <1>3 DEF Look, Drop
  <2> QED BY <1>2, <2>1 DEF Wished, Referred, Held, object, worker
<1>4. CASE Add
  <2>1. /\ entry' \in Objects \ Held /\ stats'[entry'] = Inherited
        /\ \A o \in Held \cap Objects : stats'[o] = stats[o]
        /\ Referred' = {entry'} \cup (Held \ {None}) /\ UNCHANGED worker
    BY <1>0, <1>4, AddKeeps
  <2>2. wish' = wish /\ kind = "claude" /\ SameToken /\ UNCHANGED <<stored, queued>>
    BY <1>4 DEF Add
  <2>3. stats'[entry'] = stats[entry] /\ entry \in Referred
    BY <2>1, <2>2 DEF Inherited, SameToken, Referred
  <2>4. \A o \in Held \ {None} : o \in Objects /\ o \in Referred
    BY <1>0 DEF Held, Referred, Typed, Hands
  <2>5. \A o \in Referred' : wish = Wish(stats'[o].disabled)
    BY <2>1, <2>2, <2>3, <2>4 DEF Wished
  <2> QED BY <1>2, <2>1, <2>2, <2>5 DEF worker
<1>5. CASE Start
  <2>1. /\ \A w \in Workers : pc[w] = "idle"
        /\ UNCHANGED <<worker, stored, queued>>
        /\ Referred' = {entry'} \ {None} /\ queued = << >>
        /\ \/ entry' = None
           \/ stats'[entry'] = (IF stored[Key] = None THEN NewStats ELSE stored[Key])
    BY <1>5, StartKeeps DEF Alive, Down
  <2>2. wish' = wish
    BY <1>5 DEF Start
  <2>3. Says(stored[Key])
    BY <2>1, <2>2 DEF Wished, Persisting, Accepted
  <2>4. entry' # None => wish = Wish(stats'[entry'].disabled)
    <3>1. CASE stored[Key] = None
      BY <2>1, <2>3, <3>1 DEF Says, NewStats, Wish
    <3>2. CASE stored[Key] # None
      <4>1. stored[Key].disabled \in BOOLEAN
        BY <1>0, <3>2 DEF Data, Stats
      <4>2. wish = Wish(stored[Key].disabled)
        BY <2>3, <3>2, <4>1 DEF Says, Wish
      <4> QED BY <2>1, <3>2, <4>2
    <3> QED BY <3>1, <3>2
  <2> QED BY <1>2, <2>1, <2>2, <2>4 DEF worker
<1>6. CASE Stop
  <2>1. /\ queued = << >> /\ wish' = wish
        /\ \A w \in Workers : ~Persisting(w)
    BY <1>6 DEF Stop, Persisting
  <2>2. /\ entry' = None /\ \A w \in Workers : held'[w] = None /\ snap'[w] = None
        /\ queued' = << >> /\ stored' = stored
    BY <1>6 DEF Stop, Behind!Crash
  <2>3. Referred' = {}
    BY <2>2 DEF Referred, Held
  <2>4. Says(Accepted)'
    BY <2>1, <2>2 DEF Wished, Says, Accepted
  <2> QED BY <2>2, <2>3, <2>4 DEF Wished
<1>7. ASSUME NEW v \in BOOLEAN, Command(v) PROVE Wished'
  <2>1. /\ entry = None /\ queued = << >> /\ \A w \in Workers : pc[w] = "idle"
        /\ UNCHANGED <<object, worker, queued>>
    BY <1>7 DEF Command, Alive, Down
  <2>2. \A w \in Workers : held'[w] = None /\ snap'[w] = None
    BY <1>0, <2>1 DEF worker, Typed, Hands, HandOK
  <2>3. Referred' = {}
    BY <2>1, <2>2 DEF Referred, Held, object
  <2>4. /\ stored'[Key] = [NewStats EXCEPT !.disabled = v] /\ wish' = Wish(v)
        /\ Accepted' = stored'[Key]
    BY <1>7, <2>1 DEF Command, Accepted
  <2>5. stored'[Key] # None /\ stored'[Key].disabled = v
    <3>1. [NewStats EXCEPT !.disabled = v] \in Stats
      BY DEF NewStats, Stats, Reasons
    <3>2. [NewStats EXCEPT !.disabled = v].disabled = v
      BY DEF NewStats
    <3> QED BY <2>4, <3>1, <3>2, Sentinels
  <2>6. Says(Accepted)'
    BY <2>4, <2>5 DEF Says
  <2> QED BY <2>2, <2>3, <2>6 DEF Wished
<1>8. CASE Rewrite \/ Login \/ UNCHANGED vars
  BY <1>2, <1>8 DEF Rewrite, Login, vars, worker, object, Wished, Referred, Held
<1>9. ASSUME NEW n \in 1..Len(queued), Commit(n) \/ CommitFails(n) PROVE Wished'
  <2>1. Behind!Commit(n) /\ wish' = wish /\ UNCHANGED <<object, worker>>
    BY <1>9 DEF Commit, CommitFails
  <2>2. Accepted' = Accepted
    BY <1>0, <2>1, QueueMoves
  <2> QED BY <2>1, <2>2 DEF Wished, Says, Persisting, Referred, Held, object, worker
<1> QED BY <1>1, <1>3, <1>4, <1>5, <1>6, <1>7, <1>8, <1>9 DEF Next

(* What an admin asked last, in the dashboard or on the command line, is   *)
(* what the pool goes by, through requests, polls and refreshes of others, *)
(* reloads of the same token, and restarts; unless the code lost it: see   *)
(* wish (admin.go:959-1040, claude_account.go:312-333, main.go:838-878).   *)
THEOREM LifecycleToggleHolds == Spec => []ToggleHolds
<1> DEFINE I == Alive /\ Wished /\ Forgetting
<1>1. Init => I
  <2> SUFFICES ASSUME Init PROVE Wished /\ Forgetting
    BY AliveInit
  <2>1. \A o \in Referred : o \in Objects /\ stats[o] = NewStats
    BY DEF Init, Referred, Held
  <2>2. Says(Accepted)
    BY DEF Init, Says, Accepted, Wish
  <2>3. Wished
    BY <2>1, <2>2 DEF Init, Wished, NewStats, Wish
  <2> QED BY <2>3 DEF Init, Forgetting
<1>2. I /\ [Next]_vars => I'
  <2> SUFFICES ASSUME Alive, Wished, Forgetting, [Next]_vars PROVE I'
    OBVIOUS
  <2>1. Alive' /\ Typed'
    BY AliveNext DEF Alive
  <2> QED BY <2>1, ForgettingNext, WishedNext
<1>3. I => ToggleHolds
  BY DEF Wished, Referred, ToggleHolds
<1> HIDE DEF I
<1> QED BY <1>1, <1>2, <1>3, PTL DEF Spec

-----------------------------------------------------------------------------
(* A deletion.                                                             *)

(* One goroutine at most is at work, and it deletes: once the file is      *)
(* gone, the pool has let go of the account or will be told to, and once   *)
(* the goroutine is done so has the store.                                 *)
Deleting ==
  deleted =>
    /\ kind = "claude"
    /\ \A w \in Workers : pc[w] \in {"idle", "unlink", "remove", "forget"}
    /\ \A v, w \in Workers : pc[v] # "idle" /\ pc[w] # "idle" => v = w
    /\ (\A w \in Workers : pc[w] # "unlink") =>
         file = None /\ (changed \/ (loaded = None /\ entry = None))
    /\ (\A w \in Workers : pc[w] = "idle") => Accepted = None

(* A deletion of an account nobody else works on goes on to its end.       *)
LEMMA WorkDeleting ==
  ASSUME Typed, NEW w \in Workers, Work(w), Deleting
  PROVE  Deleting'
<1> SUFFICES ASSUME deleted' PROVE Deleting'
  BY DEF Deleting
<1> USE DEF hist, process, watch
<1>0. /\ OthersKept(w) /\ pc \in [Workers -> Places]
  BY WorkFlags DEF Typed, Hands
<1>1. CASE \E what \in Jobs : Take(w, what)
  <2>1. PICK what \in Jobs : Take(w, what)
    BY <1>1
  <2>2. what = "delete" /\ kind = "claude" /\ Others(w) = {}
    BY <2>1 DEF Take
  <2>3. kind' = "claude" /\ pc'[w] = "unlink"
    BY <1>0, <2>1, <2>2 DEF Take, Goto
  <2>4. \A v \in Workers \ {w} : pc'[v] = "idle"
    BY <1>0, <2>2 DEF OthersKept, Others
  <2> QED BY <2>3, <2>4 DEF Deleting
<1>2. ASSUME deleted' = deleted PROVE Deleting'
  <2>1. /\ kind = "claude"
        /\ \A v \in Workers : pc[v] \in {"idle", "unlink", "remove", "forget"}
        /\ \A x, v \in Workers : pc[x] # "idle" /\ pc[v] # "idle" => x = v
        /\ (\A v \in Workers : pc[v] # "unlink") =>
             file = None /\ (changed \/ (loaded = None /\ entry = None))
    BY <1>2 DEF Deleting
  <2>2. ASSUME pc[w] \in {"unlink", "remove", "forget"}
        PROVE  \A v \in Workers \ {w} : pc'[v] = "idle" /\ pc[v] = "idle"
    BY <1>0, <2>1, <2>2 DEF OthersKept
  <2>3. CASE Unlink(w)
    <3>1. pc'[w] = "remove"
      BY <2>3, StepKeeps DEF Unlink
    <3>2. kind' = kind /\ file' = None /\ changed' = TRUE
      BY <2>3 DEF Unlink
    <3>3. \A v \in Workers \ {w} : pc'[v] = "idle"
      BY <2>2, <2>3 DEF Unlink
    <3> QED BY <2>1, <3>1, <3>2, <3>3 DEF Deleting
  <2>4. CASE Remove(w)
    <3>1. pc[w] = "remove" /\ Step(w, "forget")
      BY <2>1, <2>4 DEF Remove
    <3>2. pc'[w] = "forget"
      BY <3>1, StepKeeps
    <3>3. \A v \in Workers \ {w} : pc'[v] = "idle" /\ pc[v] = "idle"
      BY <2>2, <3>1
    <3>4. UNCHANGED <<kind, file, watch>> /\ entry' = None
      BY <2>4 DEF Remove, Drop
    <3>5. file = None /\ (changed \/ loaded = None)
      BY <2>1, <3>1, <3>3
    <3> QED BY <2>1, <3>2, <3>3, <3>4, <3>5 DEF Deleting
  <2>5. CASE Forget(w)
    <3>1. pc[w] = "forget" /\ UNCHANGED <<kind, file, entry, watch>> /\ Queue(None)
      BY <2>5 DEF Forget
    <3>2. pc'[w] = "idle"
      BY <1>0, <2>5 DEF Forget, Finish, Leave, Goto
    <3>3. \A v \in Workers \ {w} : pc'[v] = "idle" /\ pc[v] = "idle"
      BY <2>2, <3>1
    <3>4. file = None /\ (changed \/ (loaded = None /\ entry = None))
      BY <2>1, <3>1, <3>3
    <3>5. Accepted' = None
      BY <3>1, QueueTakes DEF Typed
    <3> QED BY <2>1, <3>1, <3>2, <3>3, <3>4, <3>5 DEF Deleting
  <2>6. CASE \E what \in Jobs : Take(w, what)
    BY <1>1, <2>6
  <2>7. Unlink(w) \/ Remove(w) \/ Forget(w) \/ \E what \in Jobs : Take(w, what)
    BY <2>1
       DEF Work, CallAnswered, CallRefused, CallUnauthorized, Exchange, ExchangeFails, UpdateTokens,
           Save, SaveFails, RefreshFailed, Persist, Record, Put, SetDisabled
  <2> QED BY <2>3, <2>4, <2>5, <2>6, <2>7
<1>3. (\E what \in Jobs : Take(w, what)) \/ deleted' = deleted
  BY DEF Work, CallAnswered, CallRefused, CallUnauthorized, Exchange, ExchangeFails, UpdateTokens,
         Save, SaveFails, RefreshFailed, Persist, Record, Put, SetDisabled, Unlink,
         Remove, Forget
<1> QED BY <1>1, <1>2, <1>3

(* Nothing else brings the account back.                                   *)
LEMMA DeletingNext ==
  ASSUME Alive, Deleting, [Next]_vars
  PROVE  Deleting'
<1> USE DEF hist, process, watch, object
<1>0. Typed /\ Data
  BY DEF Alive, Typed
<1>1. ASSUME NEW w \in Workers, Work(w) PROVE Deleting'
  BY <1>0, <1>1, WorkDeleting
<1> SUFFICES ASSUME deleted' PROVE Deleting'
  BY DEF Deleting
<1>2. ASSUME deleted, UNCHANGED <<kind, pc>>, Accepted' = Accepted,
             (\A w \in Workers : pc[w] # "unlink") =>
               file' = None /\ (changed' \/ (loaded' = None /\ entry' = None))
      PROVE  Deleting'
  BY <1>2 DEF Deleting
<1>3. ASSUME deleted, \A w \in Workers : pc[w] # "unlink"
      PROVE  file = None /\ (changed \/ (loaded = None /\ entry = None))
  BY <1>3 DEF Deleting
<1>4. CASE Look
  <2>1. deleted /\ UNCHANGED <<kind, pc, file, stored, queued>> /\ loaded = None
    BY <1>4 DEF Look, worker
  <2>2. file = None => entry' = None /\ loaded' = loaded
    BY <1>4 DEF Look, Drop
  <2>3. Accepted' = Accepted
    BY <2>1 DEF Accepted
  <2> QED BY <1>2, <1>3, <2>1, <2>2, <2>3
<1>5. CASE Add
  <2>1. deleted /\ UNCHANGED <<kind, pc, file, changed, stored, queued>> /\ loaded # None
    BY <1>5 DEF Add, worker
  <2>2. Accepted' = Accepted
    BY <2>1 DEF Accepted
  <2> QED BY <1>2, <1>3, <2>1, <2>2
<1>6. CASE Start
  <2>1. deleted /\ UNCHANGED <<kind, pc, file, watch, stored, queued>>
    BY <1>6 DEF Start, worker
  <2>2. file = None => entry' = entry
    BY <1>6 DEF Start
  <2>3. Accepted' = Accepted
    BY <2>1 DEF Accepted
  <2> QED BY <1>2, <1>3, <2>1, <2>2, <2>3
<1>7. CASE Stop
  <2>1. /\ deleted /\ queued = << >> /\ kind' = kind /\ file' = file
        /\ \A w \in Workers : pc[w] = "idle" /\ pc'[w] = "idle"
        /\ entry' = None /\ loaded' = None
        /\ queued' = << >> /\ stored' = stored
    BY <1>7 DEF Stop, Behind!Crash
  <2>2. Accepted' = Accepted
    BY <2>1 DEF Accepted
  <2> QED BY <2>1, <2>2 DEF Deleting
<1>8. ASSUME NEW v \in BOOLEAN, Command(v) PROVE FALSE
  <2>1. deleted /\ file # None /\ \A w \in Workers : pc[w] = "idle"
    BY <1>8 DEF Command, Alive, Down
  <2> QED BY <1>3, <2>1
<1>9. CASE Rewrite
  <2>1. /\ deleted /\ file # None /\ UNCHANGED <<kind, pc, stored, queued>>
    BY <1>9 DEF Rewrite, worker
  <2>2. Accepted' = Accepted
    BY <2>1 DEF Accepted
  <2> QED BY <1>2, <1>3, <2>1, <2>2
<1>10. CASE UNCHANGED vars
  <2>1. deleted /\ UNCHANGED <<kind, pc, file, entry, watch, stored, queued>>
    BY <1>10 DEF vars, worker
  <2>2. Accepted' = Accepted
    BY <2>1 DEF Accepted
  <2> QED BY <1>2, <1>3, <2>1, <2>2
<1>11. ASSUME NEW n \in 1..Len(queued), Commit(n) \/ CommitFails(n) PROVE Deleting'
  <2>1. Behind!Commit(n) /\ deleted /\ UNCHANGED <<kind, pc, file, entry, watch>>
    BY <1>11 DEF Commit, CommitFails, worker
  <2>2. Accepted' = Accepted
    BY <1>0, <2>1, QueueMoves
  <2> QED BY <1>2, <1>3, <2>1, <2>2
<1>12. ~Login
  BY DEF Login
<1> QED BY <1>1, <1>4, <1>5, <1>6, <1>7, <1>8, <1>9, <1>10, <1>11, <1>12 DEF Next

(* A Claude account that was deleted while nobody else worked on it is     *)
(* gone: no file, restart or late look of the watcher brings it back to    *)
(* the pool, and it leaves no statistics to a later account of that email  *)
(* (admin.go:486-505, claude_account.go:634-647).                          *)
THEOREM LifecycleDeletedIsGone == Spec => []DeletedIsGone
<1>1. Init => Alive /\ Deleting
  BY AliveInit DEF Init, Deleting
<1>2. Alive /\ Deleting /\ [Next]_vars => (Alive /\ Deleting)'
  BY AliveNext, DeletingNext
<1>3. Deleting => DeletedIsGone
  BY DEF Deleting, Accepted, DeletedIsGone
<1> QED BY <1>1, <1>2, <1>3, PTL DEF Spec

-----------------------------------------------------------------------------
(* The store behind the queue.                                             *)

(* Two steps of WriteBehind at once, while nothing is queued and no server *)
(* runs: op is accepted and committed.                                     *)
PutAlone(op) ==
  /\ ~up /\ queued = << >> /\ queued' = << >>
  /\ stored' = Behind!Replay(stored, <<op>>)

(* What a goroutine does, it does to the queue alone, if to either.        *)
LEMMA WorkBehind ==
  ASSUME Typed, NEW w \in Workers, Work(w)
  PROVE  Behind!Next \/ UNCHANGED <<stored, queued>>
<1>1. ASSUME NEW val \in Stats \cup {None}, Queue(val) PROVE Behind!Next
  <2>1. [key |-> Key, val |-> val] \in Behind!Op
    BY DEF Behind!Op
  <2>2. Behind!Accept([key |-> Key, val |-> val])
    BY <1>1 DEF Queue, Write
  <2> QED BY <2>1, <2>2 DEF Behind!Next
<1>2. CASE Put(w)
  <2>1. snap[w] \in Stats \cup {None} /\ Queue(snap[w])
    BY <1>2 DEF Put, Typed, Hands
  <2> QED BY <1>1, <2>1
<1>3. CASE Forget(w)
  BY <1>1, <1>3 DEF Forget
<1>4. CASE \E what \in Jobs : Take(w, what)
  BY <1>4 DEF Take
<1>5. CASE CallAnswered(w) \/ CallRefused(w) \/ CallUnauthorized(w)
  BY <1>5 DEF CallAnswered, CallRefused, CallUnauthorized
<1>6. CASE Exchange(w) \/ ExchangeFails(w) \/ UpdateTokens(w)
  BY <1>6 DEF Exchange, ExchangeFails, UpdateTokens
<1>7. CASE Save(w) \/ SaveFails(w) \/ RefreshFailed(w)
  BY <1>7 DEF Save, SaveFails, RefreshFailed
<1>8. CASE Persist(w) \/ Record(w)
  BY <1>8 DEF Persist, Record
<1>9. CASE SetDisabled(w) \/ Unlink(w) \/ Remove(w)
  BY <1>9 DEF SetDisabled, Unlink, Remove
<1> QED BY <1>2, <1>3, <1>4, <1>5, <1>6, <1>7, <1>8, <1>9 DEF Work

(* Whatever requests, pollers, the admin API and the watcher do to a       *)
(* credential, its statistics move as WriteBehind says, which PersistQueue *)
(* implements; only a command writes them beside the queue, and it finds   *)
(* neither a server nor anything queued (recorder.go:391-410,              *)
(* admin.go:959-1040, main.go:838-878).                                    *)
THEOREM LifecycleIsWriteBehind ==
  Spec => /\ Behind!Init
          /\ [][Behind!Next \/ \E op \in Behind!Op : PutAlone(op)]_<<stored, queued>>
<1>1. Init => Behind!Init
  <2> SUFFICES ASSUME Init PROVE Behind!Init
    OBVIOUS
  <2>1. stored = [k \in {Key} |-> None] /\ queued = << >>
    BY DEF Init
  <2> QED BY <2>1 DEF Behind!Init
<1>2. Alive /\ [Next]_vars =>
        [Behind!Next \/ \E op \in Behind!Op : PutAlone(op)]_<<stored, queued>>
  <2> SUFFICES ASSUME Alive, [Next]_vars
               PROVE  \/ Behind!Next \/ \E op \in Behind!Op : PutAlone(op)
                      \/ UNCHANGED <<stored, queued>>
    OBVIOUS
  <2>1. CASE \E w \in Workers : Work(w)
    BY <2>1, WorkBehind DEF Alive
  <2>2. ASSUME NEW n \in 1..Len(queued), Commit(n) \/ CommitFails(n) PROVE Behind!Next
    BY <2>2 DEF Commit, CommitFails, Behind!Next
  <2>3. CASE Stop
    BY <2>3 DEF Stop, Behind!Next
  <2>4. CASE Look \/ Add \/ Start \/ Rewrite \/ Login \/ UNCHANGED vars
    BY <2>4 DEF Look, Add, Start, Rewrite, Login, vars
  <2>5. ASSUME NEW v \in BOOLEAN, Command(v) PROVE \E op \in Behind!Op : PutAlone(op)
    <3> DEFINE st == [NewStats EXCEPT !.disabled = v]
               op == [key |-> Key, val |-> st]
    <3>1. ~up /\ stored' = [k \in {Key} |-> st] /\ queued' = queued
      BY <2>5 DEF Command
    <3>2. queued = << >>
      BY <3>1 DEF Alive, Down
    <3>3. op \in Behind!Op /\ op.val = st
      BY DEF Behind!Op, NewStats, Stats, Reasons
    <3> HIDE DEF op, st
    <3>4. stored \in [{Key} -> Stats \cup {None}]
      BY DEF Alive, Typed, Data
    <3>5. <<op>> \in Seq(Behind!Op) /\ Len(<<op>>) = 1 /\ <<op>>[1] = op /\ <<op>> # << >>
      BY <3>3
    <3>6. /\ Behind!Replay(stored, <<op>>) \in [{Key} -> Stats \cup {None}]
          /\ Behind!Replay(stored, <<op>>)[Key] = st
      BY <3>3, <3>4, <3>5, ReplayLast
    <3>7. stored' = Behind!Replay(stored, <<op>>)
      BY <3>1, <3>6
    <3> QED BY <3>1, <3>2, <3>3, <3>7 DEF PutAlone
  <2> QED BY <2>1, <2>2, <2>3, <2>4, <2>5 DEF Next
<1> QED BY <1>1, <1>2, AliveInit, AliveNext, PTL DEF Spec
==============================================================================
