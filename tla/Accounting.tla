----------------------------- MODULE Accounting ------------------------------
(***************************************************************************)
(* What an answered request leaves behind: the usage read out of its       *)
(* stream (Relay), the totals of the day, of its account or key and of     *)
(* its model (control/recorder.go), and the pin of its conversation        *)
(* (control/pinstore.go).  Totals are bumped in memory under a mutex; the  *)
(* snapshots taken there are queued after it, one by one, behind those of  *)
(* other requests, and reach the store as WriteBehind says.  A restart     *)
(* begins with what the store has.                                         *)
(***************************************************************************)
EXTENDS Relay, FiniteSets, Functions

CONSTANTS
  Workers,      \* goroutines that serve requests
  Streams,      \* the answers of the upstream: kind, body and events
  MaxLines,     \* bound: lines of the answers in all
  MaxQueue,     \* bound: operations waiting in the persist queue
  MaxTime,      \* bound: the clock; a pin expires in the tick after it was put
  MaxEvents,    \* bound: ends of the process and failed commits
  None

Kinds == {"responses", "claude", "chat"}
Totals == [requests : Nat, errors : Nat, tokens : Nat]
Nothing == [requests |-> 0, errors |-> 0, tokens |-> 0]

(* The keys of the store: the day's total, one for the account or the key  *)
(* behind each kind of request, one for that and its model, and the pin.   *)
Day == <<"day">>
Part(kind) == <<"part", kind>>
Bill(kind) == <<"bill", kind>>
Pin == <<"pin">>
Sums == {Day} \cup {Part(k) : k \in Kinds} \cup {Bill(k) : k \in Kinds}

ASSUME AccountingAssumption ==
  /\ IsFiniteSet(Workers)
  /\ MaxLines \in Nat /\ MaxQueue \in Nat \ {0}
  /\ MaxTime \in Nat /\ MaxEvents \in Nat
  /\ Streams \subseteq [kind : Kinds, body : BOOLEAN, events : Seq(Events)]
  /\ \A s \in Streams : s.body => Len(s.events) = 1
  /\ None \notin Totals \cup Streams \cup 0..MaxTime

VARIABLES
  now, begun, events,
  mem,          \* the recorder's maps: the totals that are in use, or None
  stored, queued,
  pc,
  stream,       \* the answer a goroutine relays, or None
  arrived,      \* how many of its lines have arrived
  scanner,      \* what the extractor made of them
  success,      \* UsageRecord.Success
  puts,         \* what a goroutine has still to queue
  counted,      \* history: what was recorded
  pinned,       \* history: the pin put last, or None
  overtaken,    \* history: a snapshot was queued after a later one
  lost,         \* history: the process ended with something not committed
  dropped,      \* history: a commit failed
  raced         \* history: an expired pin was deleted after a fresh one was put

clock == <<now, begun, events>>
relay == <<stream, arrived, scanner, success>>
disk == <<stored, queued>>
hist == <<counted, pinned, overtaken, lost, dropped, raced>>
vars == <<clock, mem, disk, pc, relay, puts, hist>>

Behind == INSTANCE WriteBehind WITH
  Keys <- Sums \cup {Pin}, Vals <- Totals \cup 0..MaxTime, Absent <- None,
  store <- stored, pending <- queued

Init == /\ now = 0 /\ begun = 0 /\ events = 0
        /\ mem = [k \in Sums |-> None]
        /\ stored = [k \in Sums \cup {Pin} |-> None]
        /\ queued = << >>
        /\ pc = [w \in Workers |-> "idle"]
        /\ stream = [w \in Workers |-> None]
        /\ arrived = [w \in Workers |-> 0]
        /\ scanner = [w \in Workers |-> Scanner]
        /\ success = [w \in Workers |-> TRUE]
        /\ puts = [w \in Workers |-> << >>]
        /\ counted = [k \in Sums |-> Nothing]
        /\ pinned = None
        /\ overtaken = FALSE /\ lost = FALSE /\ dropped = FALSE /\ raced = FALSE

Goto(w, where) == pc' = [pc EXCEPT ![w] = where]
Kind(w) == stream[w].kind
Lines(w) == Wire(Kind(w), stream[w].events)

(* The value a key will have when everything accepted is committed.        *)
Accepted(k) == Behind!Replay(stored, queued)[k]

(* Mutant: nobody waits for room in the queue. *)
WriteUnbounded(k, v) == Behind!Accept([key |-> k, val |-> v])

Write(k, v) == Len(queued) < MaxQueue /\ Behind!Accept([key |-> k, val |-> v])

-----------------------------------------------------------------------------
(* The pin of the conversation is looked up before the answer, in the      *)
(* store alone; one that has expired is deleted by way of the queue.       *)

(* Mutant: a pin is good until its expiry, not through it. *)
ExpiredEarly == stored[Pin] # None /\ stored[Pin] <= now

Expired == stored[Pin] # None /\ stored[Pin] < now

(* A request of the account pool asks for its pin, the others have none.   *)
(* It is answered by a stream or a document, or fails and is recorded so.  *)
Begin(w, s) ==
  /\ pc[w] = "idle" /\ begun + Len(Wire(s.kind, s.events)) <= MaxLines
  /\ begun' = begun + Len(Wire(s.kind, s.events))
  /\ stream' = [stream EXCEPT ![w] = s]
  /\ Goto(w, IF s.kind = "responses" /\ Expired THEN "unpin" ELSE "relay")
  /\ UNCHANGED <<now, events, mem, disk, arrived, scanner, success, puts, hist>>

Unpin(w) ==
  /\ pc[w] = "unpin"
  /\ Write(Pin, None)
  /\ raced' = (raced \/ Accepted(Pin) # stored[Pin] \/ ~Expired)
  /\ Goto(w, "relay")
  /\ UNCHANGED <<clock, mem, relay, puts, counted, pinned, overtaken, lost, dropped>>

-----------------------------------------------------------------------------
(* The answer is passed on.                                                *)

(* The end of the answer: a success of the account pool pins its           *)
(* conversation; every answer is recorded.                                 *)
Close(w, s, ok) ==
  /\ scanner' = [scanner EXCEPT ![w] = [buf |-> << >>, usage |-> s]]
  /\ success' = [success EXCEPT ![w] = ok]
  /\ IF Kind(w) = "responses" /\ ok
     THEN /\ Goto(w, "pin")
          /\ puts' = [puts EXCEPT ![w] = <<[key |-> Pin, val |-> now]>>]
     ELSE Goto(w, "record") /\ UNCHANGED puts

(* What the scanner may hold when nothing comes after the first a lines:   *)
(* these alone, or with them the part of a data line.                      *)
Endings(w, s, a) ==
  {s} \cup {[s EXCEPT !.buf = Append(@, DataLine(c))] :
             c \in IF a < Len(Lines(w)) /\ Lines(w)[a + 1].line = "data"
                   THEN Torn(Lines(w)[a + 1].of) ELSE {}}

(* RelaySSE and its two copies: a chunk is scanned, then written; a write  *)
(* that fails ends the relay, be the chunk cut in a line or not.           *)
Chunk(w) ==
  /\ pc[w] = "relay" /\ ~stream[w].body
  /\ \E last \in (arrived[w] + 1)..Len(Lines(w)) :
       LET s == Feed(Kind(w), scanner[w], SubSeq(Lines(w), arrived[w] + 1, last))
       IN /\ arrived' = [arrived EXCEPT ![w] = last]
          /\ \/ /\ scanner' = [scanner EXCEPT ![w] = s]
                /\ UNCHANGED <<pc, success, puts>>
             \/ \E t \in Endings(w, s, last) : Close(w, Done(Kind(w), t), FALSE)
  /\ UNCHANGED <<clock, mem, disk, stream, hist>>

(* EOF, or an error of the upstream.                                       *)
StreamEnds(w) ==
  /\ pc[w] = "relay" /\ ~stream[w].body
  /\ \E ok \in BOOLEAN :
       /\ ok => arrived[w] = Len(Lines(w))
       /\ \E t \in Endings(w, scanner[w], arrived[w]) :
            Close(w, Done(Kind(w), t), ok)
  /\ UNCHANGED <<clock, mem, disk, stream, arrived, hist>>

(* A document is read to its end, whatever becomes of the write.           *)
ReadDocument(w) ==
  /\ pc[w] = "relay" /\ stream[w].body
  /\ \E ok \in BOOLEAN :
       /\ arrived' = [arrived EXCEPT ![w] = IF ok THEN Len(Lines(w)) ELSE 0]
       /\ Close(w, ReadBody(stream[w].events[1].data, ok), ok)
  /\ UNCHANGED <<clock, mem, disk, stream, hist>>

-----------------------------------------------------------------------------
(* RecordRequest.                                                          *)

(* loadDay, loadBillingDay: the first use of a day loads what is stored.   *)
Loaded(k) == IF stored[k] = None THEN Nothing ELSE stored[k]

(* Mutant: the store is asked every time. *)
InUseStored(k) == Loaded(k)

InUse(k) == IF mem[k] = None THEN Loaded(k) ELSE mem[k]

Bump(w, t) == [requests |-> t.requests + 1,
               errors |-> t.errors + IF success[w] THEN 0 ELSE 1,
               tokens |-> t.tokens + scanner[w].usage.total]

(* Mutant: the total of the day comes last. *)
TouchedDayLast(w) == <<Part(Kind(w)), Bill(Kind(w)), Day>>

Touched(w) == <<Day, Part(Kind(w)), Bill(Kind(w))>>

Record(w) ==
  /\ pc[w] = "record"
  /\ mem' = [k \in Sums |-> IF k \in Range(Touched(w)) THEN Bump(w, InUse(k)) ELSE mem[k]]
  /\ puts' = [puts EXCEPT ![w] = [i \in 1..3 |-> [key |-> Touched(w)[i],
                                                  val |-> Bump(w, InUse(Touched(w)[i]))]]]
  /\ counted' = [k \in Sums |-> IF k \in Range(Touched(w)) THEN Bump(w, counted[k])
                                ELSE counted[k]]
  /\ Goto(w, "put")
  /\ stream' = [stream EXCEPT ![w] = None]
  /\ arrived' = [arrived EXCEPT ![w] = 0]
  /\ scanner' = [scanner EXCEPT ![w] = Scanner]
  /\ success' = [success EXCEPT ![w] = TRUE]
  /\ UNCHANGED <<clock, disk, pinned, overtaken, lost, dropped, raced>>

(* A later snapshot of the same total was queued before.                   *)
Later(op) == /\ op.key # Pin /\ Accepted(op.key) # None
             /\ Accepted(op.key).requests > op.val.requests

Put(w) ==
  /\ pc[w] \in {"pin", "put"}
  /\ Write(Head(puts[w]).key, Head(puts[w]).val)
  /\ puts' = [puts EXCEPT ![w] = Tail(@)]
  /\ overtaken' = (overtaken \/ Later(Head(puts[w])))
  /\ IF pc[w] = "pin" THEN pinned' = Head(puts[w]).val /\ raced' = FALSE
                      ELSE UNCHANGED <<pinned, raced>>
  /\ Goto(w, IF pc[w] = "pin" THEN "record"
             ELSE IF Len(puts[w]) = 1 THEN "idle" ELSE "put")
  /\ UNCHANGED <<clock, mem, relay, counted, lost, dropped>>

(* Today, for the dashboard, loads the total into memory.                  *)
Today ==
  /\ mem[Day] = None
  /\ mem' = [mem EXCEPT ![Day] = Loaded(Day)]
  /\ UNCHANGED <<clock, disk, pc, relay, puts, hist>>

(* TodayByAccount and the like, and Today: what is in memory, and for the  *)
(* others what is stored.                                                  *)
Shown(k) == InUse(k)

-----------------------------------------------------------------------------
(* The queue's transactions, the clock, the end of the process.            *)

Commit(n) ==
  /\ Behind!Commit(n)
  /\ UNCHANGED <<clock, mem, pc, relay, puts, hist>>

Event == events < MaxEvents /\ events' = events + 1

CommitFails(n) ==
  /\ Behind!Drop(n) /\ Event
  /\ dropped' = TRUE
  /\ UNCHANGED <<now, begun, mem, pc, relay, puts, counted, pinned, overtaken, lost,
                 raced>>

Tick == /\ now < MaxTime
        /\ now' = now + 1
        /\ UNCHANGED <<begun, events, mem, disk, pc, relay, puts, hist>>

Restart ==
  /\ Event
  /\ Behind!Crash
  /\ lost' = (lost \/ queued # << >> \/ \E w \in Workers : puts[w] # << >>)
  /\ mem' = [k \in Sums |-> None]
  /\ pc' = [w \in Workers |-> "idle"]
  /\ stream' = [w \in Workers |-> None]
  /\ arrived' = [w \in Workers |-> 0]
  /\ scanner' = [w \in Workers |-> Scanner]
  /\ success' = [w \in Workers |-> TRUE]
  /\ puts' = [w \in Workers |-> << >>]
  /\ UNCHANGED <<now, begun, counted, pinned, overtaken, dropped, raced>>

Next == \/ \E w \in Workers :
             \/ \E s \in Streams : Begin(w, s)
             \/ Unpin(w)
             \/ Chunk(w) \/ StreamEnds(w) \/ ReadDocument(w)
             \/ Record(w) \/ Put(w)
        \/ Today \/ Tick \/ Restart
        \/ \E n \in 1..Len(queued) : Commit(n) \/ CommitFails(n)

Spec == Init /\ [][Next]_vars

-----------------------------------------------------------------------------
(* Types; what a goroutine has in hand agrees with where it is.            *)
TypeOK ==
  /\ now \in 0..MaxTime /\ begun \in 0..MaxLines /\ events \in 0..MaxEvents
  /\ mem \in [Sums -> Totals \cup {None}] /\ counted \in [Sums -> Totals]
  /\ \A k \in Sums : stored[k] \in Totals \cup {None}
  /\ {stored[Pin], pinned} \subseteq 0..MaxTime \cup {None}
  /\ Len(queued) <= MaxQueue
  /\ \A i \in DOMAIN queued :
       queued[i].key = Pin \/ (queued[i].key \in Sums /\ queued[i].val \in Totals)
  /\ {overtaken, lost, dropped, raced} \subseteq BOOLEAN
  /\ \A w \in Workers :
       /\ pc[w] \in {"idle", "unpin", "relay", "pin", "record", "put"}
       /\ stream[w] \in Streams \cup {None}
       /\ stream[w] = None <=> pc[w] \in {"idle", "put"}
       /\ scanner[w].usage \in Usage /\ success[w] \in BOOLEAN
       /\ puts[w] # << >> <=> pc[w] \in {"pin", "put"}

(* The events of a stream whose data has arrived.                          *)
Came(w) ==
  LET data == {i \in 1..arrived[w] : Lines(w)[i].line = "data"}
  IN SubSeq(stream[w].events, 1, Cardinality(data))

(* The events as they were read: those whose data arrived, and one more,   *)
(* of which a part did, if the stream broke off before or in its data.     *)
Readings(w) ==
  {Came(w)} \cup
  {Append(Came(w), [stream[w].events[Len(Came(w)) + 1] EXCEPT !.data = c]) :
     c \in IF arrived[w] < Len(Lines(w)) /\ Lines(w)[arrived[w] + 1].line = "data"
           THEN Torn(stream[w].events[Len(Came(w)) + 1].data) ELSE {}}

(* However an answer was cut into chunks, and whether it came to its end,  *)
(* was broken off or lost its client, the usage recorded of it is what the *)
(* events that came say: none is lost in the buffer, merged with the next  *)
(* or counted twice.  Of an answer that came to its end, or broke off      *)
(* elsewhere, these are the events whose data arrived; if it broke off     *)
(* inside the data of an event, its part is read as an event too, with     *)
(* counts that are cut short or missing (relay/usage.go:31-51,             *)
(* relay/anthropic.go:20-38, relay/chat.go:18-36, relay/stream.go:35-71).  *)
UsageOfStream ==
  \A w \in Workers :
    pc[w] \in {"pin", "record"} /\ ~stream[w].body =>
      \E read \in Readings(w) : scanner[w].usage = Told(Kind(w), read)

(* The totals shown, over any number of restarts, never exceed what was    *)
(* recorded; and they are exactly that unless a commit failed, the process *)
(* ended before everything was committed, or a snapshot was overtaken in   *)
(* the queue (recorder.go:67-176, 340-366).                                *)
CountsExact ==
  \A k \in Sums :
    /\ Shown(k).requests <= counted[k].requests
    /\ ~lost /\ ~dropped /\ ~overtaken => Shown(k) = counted[k]

(* The parts never come to more than the whole: a process that ends        *)
(* between the snapshots of a request has stored its total of the day, if  *)
(* any, before that of its account, and that before the one of its model   *)
(* (recorder.go:103-126); snapshots that were overtaken aside.             *)
PartsWithinWhole ==
  ~overtaken /\ ~dropped =>
    /\ Loaded(Day).requests >= Loaded(Part("responses")).requests
         + Loaded(Part("claude")).requests + Loaded(Part("chat")).requests
    /\ \A k \in Kinds : Loaded(Part(k)).requests >= Loaded(Bill(k)).requests

(* A pin that was put last, and that no lookup of an expired one deleted   *)
(* from behind, is in the store when the queue is empty and is found until *)
(* it expires (pinstore.go:25-53, pool.go:139-144).                        *)
PinKept ==
  pinned # None /\ pinned >= now /\ ~raced /\ ~lost /\ ~dropped /\ queued = << >> =>
    stored[Pin] = pinned /\ ~Expired
==============================================================================
