---------------------------- MODULE MessagesProofs ----------------------------
(***************************************************************************)
(* Proofs about Messages for every set of requests, accounts and keys,     *)
(* every policy, every order of the sources and every maxAttempts: its     *)
(* types, that leases are balanced, that no request is answered twice, how *)
(* often a source is tried, and in which order the sources are left.       *)
(*                                                                         *)
(* A step of a request changes nothing of the other requests (Frame), so   *)
(* that every invariant is proved for the request that makes the step.     *)
(***************************************************************************)
EXTENDS Messages, FiniteSetTheorems, TLAPS

Places == {"start", "order", "lease", "exhausted", "wait", "forward", "refresh",
           "backoff", "match", "send", "exhausted all", "done"}
Answers == {"2xx", "4xx", "400", "401", "429", "502",
            "503 chat", "503 fallback", "503 keys"}

Holding(r) == pc[r] \in {"forward", "refresh", "backoff"}
AtSource(r) == pc[r] \notin {"start", "order", "exhausted all", "done"}
AtVertex(r) == Source(r) = "vertex"

(* The orders a request may have been given.                               *)
Chat == <<"openai">>
Fallback == <<"claude", "vertex">>
Plain == {<<"anthropic", "claude">>, <<"claude", "anthropic">>}
Plans(r) == IF r \in chats THEN {Chat} ELSE {Fallback} \cup Plain

(* A request has no order before it begins with its sources, and then one  *)
(* whose current source fits the place in its loop.                        *)
Planned(r) ==
  IF plan[r] = << >>
  THEN pc[r] \in {"start", "order", "done"} /\ source[r] = 1 /\ attempt[r] = 0
  ELSE /\ plan[r] \in Plans(r) /\ source[r] \in 1..Len(plan[r])
       /\ pc[r] \notin {"start", "order"}
       /\ pc[r] \in {"match", "send"} => AtVertex(r)
       /\ pc[r] = "lease" => ~AtVertex(r)
       /\ pc[r] \in {"exhausted", "refresh"} => Source(r) = "claude"
       /\ pc[r] = "wait" => Source(r) \in {"claude", "vertex"}
       /\ pc[r] \in {"exhausted", "wait"} /\ ~AtVertex(r) => Source(r) \in refused[r]
       /\ pc[r] \in {"wait", "backoff"} /\ AtVertex(r) => attempt[r] + 1 < MaxAttempts

(* A request that goes on has not been answered.                           *)
Unanswered(r) ==
  IF pc[r] = "done" THEN Len(replies[r]) <= 1 /\ (replies[r] = << >> => canceled[r])
  ELSE replies[r] = << >>

(* The rounds of a request at its source: those a forward was begun in, at *)
(* least, and those that no refresh has given back, at most.               *)
Begun(r) == attempt[r] + (IF Holding(r) THEN 1 ELSE 0)
Counted(r) ==
  attempt[r] + (IF \/ pc[r] \in {"forward", "backoff"}
                   \/ pc[r] = "wait" /\ AtVertex(r) THEN 1 ELSE 0)
Extra(r, s) == IF s = "claude" THEN Cardinality(refreshed[r]) ELSE 0

Within(r) == tried[r][Source(r)] <= Counted(r) + Extra(r, Source(r))

(* Forwards are begun for sources of the order only, up to the current     *)
(* one, and no more of them than there were rounds.                        *)
Limited(r) ==
  /\ IsFiniteSet(refreshed[r])
  /\ \A s \in SourceKinds :
       /\ tried[r][s] <= MaxAttempts + Extra(r, s)
       /\ \/ tried[r][s] = 0
          \/ \E i \in 1..source[r] : i \in DOMAIN plan[r] /\ plan[r][i] = s
  /\ AtSource(r) => Within(r)

(* The sources left behind are used up; a pool has refused the request or  *)
(* every round of it began a forward.                                      *)
InOrder(r) ==
  /\ \A i \in 1..source[r] - 1 : UsedUp(r, plan[r][i])
  /\ pc[r] = "exhausted all" => source[r] = Len(plan[r]) /\ UsedUp(r, Source(r))
  /\ AtSource(r) => \/ AtVertex(r) \/ Source(r) \in refused[r]
                    \/ tried[r][Source(r)] >= Begun(r)

(* The order of a request under way is that of the policy, if the policy   *)
(* did not change under it.                                                *)
PlanOfPolicy(r) ==
  moved[r] \/ plan[r] = << >> \/ pc[r] = "done" \/ r \in chats
    \/ IF policy.enabled THEN plan[r] = Fallback ELSE plan[r] \in Plain

Worded(r) ==
  pc[r] = "done" /\ replies[r] # << >> /\ ~moved[r] =>
    /\ replies[r][1] = "503 keys" => UsedUp(r, "claude") /\ UsedUp(r, "anthropic")
    /\ replies[r][1] = "503 fallback" => UsedUp(r, "claude") /\ UsedUp(r, "vertex")
    /\ replies[r][1] = "503 chat" => UsedUp(r, "openai")

-----------------------------------------------------------------------------
(* The orders.                                                             *)

(* What is known of each order.                                            *)
LEMMA OrderFacts ==
  ASSUME NEW p \in {Chat, Fallback} \cup Plain
  PROVE  /\ p \in Seq(SourceKinds) /\ p # << >>
         /\ Len(p) \in {1, 2} /\ DOMAIN p = 1..Len(p)
         /\ p[1] \in SourceKinds \ {"vertex"}
         /\ Len(p) = 2 => p[2] \in SourceKinds /\ p[2] # p[1]
         /\ \A i, j \in 1..Len(p) : ~(p[i] = "vertex" /\ p[j] = "anthropic")
<1>1. CASE p = Chat
  BY <1>1 DEF Chat, SourceKinds
<1>2. CASE p = Fallback
  BY <1>2 DEF Fallback, SourceKinds
<1>3. CASE p = <<"anthropic", "claude">>
  BY <1>3 DEF SourceKinds
<1>4. CASE p = <<"claude", "anthropic">>
  BY <1>4 DEF SourceKinds
<1> QED BY <1>1, <1>2, <1>3, <1>4 DEF Plain

(* The current source of a request that has an order.                      *)
LEMMA SourceFacts ==
  ASSUME TypeOK, NEW r \in Requests, Planned(r), plan[r] # << >>
  PROVE  /\ plan[r] \in {Chat, Fallback} \cup Plain
         /\ source[r] \in 1..Len(plan[r]) /\ source[r] \in {1, 2}
         /\ Source(r) \in SourceKinds /\ DOMAIN plan[r] = 1..Len(plan[r])
         /\ Len(plan[r]) \in {1, 2}
<1>1. plan[r] \in {Chat, Fallback} \cup Plain /\ source[r] \in 1..Len(plan[r])
  BY DEF Planned, Plans
<1>2. /\ Len(plan[r]) \in {1, 2} /\ DOMAIN plan[r] = 1..Len(plan[r])
      /\ plan[r][1] \in SourceKinds
      /\ Len(plan[r]) = 2 => plan[r][2] \in SourceKinds
  BY <1>1, OrderFacts
<1>3. source[r] \in {1, 2}
  <2>1. CASE Len(plan[r]) = 1
    BY <1>1, <2>1
  <2>2. CASE Len(plan[r]) = 2
    BY <1>1, <2>2
  <2> QED BY <1>2, <2>1, <2>2
<1> QED BY <1>1, <1>2, <1>3 DEF Source

-----------------------------------------------------------------------------
(* One request at a time.                                                  *)

(* What a step of r changes of the requests, it changes of r.              *)
AloneHere(r) ==
  /\ pc' = [pc EXCEPT ![r] = pc'[r]]
  /\ source' = [source EXCEPT ![r] = source'[r]]
  /\ attempt' = [attempt EXCEPT ![r] = attempt'[r]]
  /\ plan' = [plan EXCEPT ![r] = plan'[r]]
Alone(r) ==
  /\ AloneHere(r)
  /\ lease' = [lease EXCEPT ![r] = lease'[r]]
  /\ refreshed' = [refreshed EXCEPT ![r] = refreshed'[r]]
  /\ replies' = [replies EXCEPT ![r] = replies'[r]]
  /\ refused' = [refused EXCEPT ![r] = refused'[r]]
  /\ tried' = [tried EXCEPT ![r] = tried'[r]]
  /\ UNCHANGED <<policy, anthropic, chats, ask, canceled, moved>>

(* A function of the requests of which one value or none was replaced.     *)
LEMMA Replaced ==
  ASSUME NEW S, NEW r \in S, NEW f, NEW g, f = [x \in S |-> f[x]],
         g = f \/ \E v : g = [f EXCEPT ![r] = v]
  PROVE  g = [f EXCEPT ![r] = g[r]]
<1>1. CASE g = f
  <2>1. [f EXCEPT ![r] = g[r]] = [x \in S |-> f[x]]
    BY <1>1
  <2> QED BY <1>1, <2>1
<1>2. ASSUME NEW v, g = [f EXCEPT ![r] = v] PROVE g = [f EXCEPT ![r] = g[r]]
  BY <1>2
<1> QED BY <1>1, <1>2

(* The variables of the requests are functions.                            *)
LEMMA Functions ==
  ASSUME TypeOK
  PROVE  /\ pc = [q \in Requests |-> pc[q]] /\ source = [q \in Requests |-> source[q]]
         /\ attempt = [q \in Requests |-> attempt[q]] /\ plan = [q \in Requests |-> plan[q]]
         /\ lease = [q \in Requests |-> lease[q]]
         /\ refreshed = [q \in Requests |-> refreshed[q]]
         /\ replies = [q \in Requests |-> replies[q]]
         /\ refused = [q \in Requests |-> refused[q]]
         /\ tried = [q \in Requests |-> tried[q]]
BY DEF TypeOK

(* Wherever it goes on.                                                    *)
LEMMA AloneOnItsWay ==
  ASSUME TypeOK, NEW r \in Requests,
         \/ NextAttempt(r) \/ LeaveSource(r)
         \/ UNCHANGED plan /\ \E where : Goto(r, where)
  PROVE  AloneHere(r)
<1>1. /\ plan' = plan
      /\ \E v : pc' = [pc EXCEPT ![r] = v]
      /\ source' = source \/ \E v : source' = [source EXCEPT ![r] = v]
      /\ attempt' = attempt \/ \E v : attempt' = [attempt EXCEPT ![r] = v]
  BY DEF NextAttempt, LeaveSource, Goto
<1>2. plan' = [plan EXCEPT ![r] = plan'[r]]
  BY <1>1, Functions, Replaced
<1>3. pc' = [pc EXCEPT ![r] = pc'[r]]
  BY <1>1, Functions, Replaced
<1>4. source' = [source EXCEPT ![r] = source'[r]]
  BY <1>1, Functions, Replaced
<1>5. attempt' = [attempt EXCEPT ![r] = attempt'[r]]
  BY <1>1, Functions, Replaced
<1> QED BY <1>2, <1>3, <1>4, <1>5 DEF AloneHere

(* A step that goes on in one of the ways above, and replaces the values   *)
(* of r in the other variables.                                            *)
LEMMA AloneElsewhere ==
  ASSUME TypeOK, NEW r \in Requests, AloneHere(r),
         lease' = lease \/ \E v : lease' = [lease EXCEPT ![r] = v],
         refreshed' = refreshed \/ \E v : refreshed' = [refreshed EXCEPT ![r] = v],
         replies' = replies \/ \E v : replies' = [replies EXCEPT ![r] = v],
         refused' = refused \/ \E v : refused' = [refused EXCEPT ![r] = v],
         tried' = tried \/ \E v : tried' = [tried EXCEPT ![r] = v],
         UNCHANGED <<policy, anthropic, chats, ask, canceled, moved>>
  PROVE  Alone(r)
<1>1. lease' = [lease EXCEPT ![r] = lease'[r]]
  BY Functions, Replaced
<1>2. refreshed' = [refreshed EXCEPT ![r] = refreshed'[r]]
  BY Functions, Replaced
<1>3. replies' = [replies EXCEPT ![r] = replies'[r]]
  BY Functions, Replaced
<1>4. refused' = [refused EXCEPT ![r] = refused'[r]]
  BY Functions, Replaced
<1>5. tried' = [tried EXCEPT ![r] = tried'[r]]
  BY Functions, Replaced
<1> QED BY <1>1, <1>2, <1>3, <1>4, <1>5 DEF Alone

(* The lease is given back or not.                                         *)
LEMMA ReleaseFrame ==
  ASSUME NEW r \in Requests, Release(r) \/ UNCHANGED held \/ Return(r)
  PROVE  lease' = lease \/ \E v : lease' = [lease EXCEPT ![r] = v]
BY DEF Release, Return, held

(* Something is said or not.                                               *)
LEMMA ReplyFrame ==
  ASSUME NEW r \in Requests, UNCHANGED replies \/ \E what : Reply(r, what)
  PROVE  replies' = replies \/ \E v : replies' = [replies EXCEPT ![r] = v]
BY DEF Reply

(* The forwards of the loops over a pool.                                  *)
LEMMA ForwardFrame ==
  ASSUME TypeOK, NEW r \in Requests,
         \/ ForwardFails(r) \/ ForwardRejected(r) \/ ForwardLimited(r)
         \/ ForwardBreaks(r) \/ ForwardAnswered(r)
         \/ BackoffEnds(r) \/ RefreshFails(r) \/ RefreshSucceeds(r)
  PROVE  Alone(r)
<1> DEFINE Way == \/ NextAttempt(r) \/ LeaveSource(r)
                  \/ UNCHANGED plan /\ \E where : Goto(r, where)
           Lent == Release(r) \/ UNCHANGED held \/ Return(r)
           Said == UNCHANGED replies \/ \E what : Reply(r, what)
           Learnt == refreshed' = refreshed
                       \/ \E v : refreshed' = [refreshed EXCEPT ![r] = v]
<1>1. UNCHANGED <<policy, asked, canceled, seen>>
  BY DEF ForwardFails, ForwardRejected, ForwardLimited, ForwardBreaks,
     ForwardAnswered, BackoffEnds, RefreshFails, RefreshSucceeds, Forward
<1>2. /\ Retry(r) => Way /\ Lent /\ Said
      /\ GiveUp(r) => Way /\ Lent /\ Said
      /\ \A what : Answer(r, what) => Way /\ Lent /\ Said
  BY DEF Retry, GiveUp, Answer, Return
<1>3. Way /\ Lent /\ Said /\ Learnt
  <2>1. CASE ForwardFails(r) \/ ForwardLimited(r) \/ BackoffEnds(r) \/ RefreshFails(r)
    BY <1>2, <2>1 DEF ForwardFails, ForwardLimited, BackoffEnds, RefreshFails
  <2>2. CASE ForwardRejected(r)
    BY <1>2, <2>2 DEF ForwardRejected
  <2>3. CASE ForwardBreaks(r) \/ RefreshSucceeds(r)
    BY <2>3 DEF ForwardBreaks, RefreshSucceeds
  <2>4. CASE ForwardAnswered(r)
    BY <1>2, <2>4 DEF ForwardAnswered
  <2> QED BY <2>1, <2>2, <2>3, <2>4
<1>4. AloneHere(r)
  BY <1>3, AloneOnItsWay
<1>5. lease' = lease \/ \E v : lease' = [lease EXCEPT ![r] = v]
  BY <1>3, ReleaseFrame
<1>6. replies' = replies \/ \E v : replies' = [replies EXCEPT ![r] = v]
  BY <1>3, ReplyFrame
<1> HIDE DEF Way, Lent, Said
<1> QED BY <1>1, <1>3, <1>4, <1>5, <1>6, AloneElsewhere DEF seen, asked

(* The beginning, the end, and what a pool refuses or lends.               *)
LEMMA PoolFrame ==
  ASSUME TypeOK, NEW r \in Requests,
         \/ Start(r) \/ Order(r) \/ Exhausted(r)
         \/ \E c \in Credentials : Lease(r, c)
         \/ LeaseRefused(r) \/ WaitForCooldown(r) \/ WaitEnds(r)
  PROVE  Alone(r)
<1> DEFINE Way == \/ NextAttempt(r) \/ LeaveSource(r)
                  \/ UNCHANGED plan /\ \E where : Goto(r, where)
           Said == UNCHANGED replies \/ \E what : Reply(r, what)
           Turned == refused' = refused \/ \E v : refused' = [refused EXCEPT ![r] = v]
           Counts == tried' = tried \/ \E v : tried' = [tried EXCEPT ![r] = v]
           Lent == lease' = lease \/ \E v : lease' = [lease EXCEPT ![r] = v]
           Rest == UNCHANGED <<policy, anthropic, chats, ask, canceled, moved, refreshed>>
<1>1. CASE Start(r) \/ Exhausted(r)
  <2>1. Way /\ Said /\ Turned /\ Counts /\ Lent /\ Rest
    BY <1>1 DEF Start, Exhausted, held, asked, seen
  <2>2. AloneHere(r)
    BY <2>1, AloneOnItsWay
  <2>3. replies' = replies \/ \E v : replies' = [replies EXCEPT ![r] = v]
    BY <2>1, ReplyFrame
  <2> QED BY <2>1, <2>2, <2>3, AloneElsewhere
<1>2. CASE Order(r)
  <2>1. /\ \E v : pc' = [pc EXCEPT ![r] = v]
        /\ source' = source /\ attempt' = attempt
        /\ \E v : plan' = [plan EXCEPT ![r] = v]
        /\ replies' = replies /\ Turned /\ Counts /\ Lent /\ Rest
    BY <1>2 DEF Order, Goto, held, asked, seen
  <2>2. pc' = [pc EXCEPT ![r] = pc'[r]] /\ plan' = [plan EXCEPT ![r] = plan'[r]]
    BY <2>1, Functions, Replaced
  <2>3. source' = [source EXCEPT ![r] = source'[r]]
    BY <2>1, Functions, Replaced
  <2>4. attempt' = [attempt EXCEPT ![r] = attempt'[r]]
    BY <2>1, Functions, Replaced
  <2>5. AloneHere(r)
    BY <2>2, <2>3, <2>4 DEF AloneHere
  <2> QED BY <2>1, <2>5, AloneElsewhere
<1>3. CASE \E c \in Credentials : Lease(r, c)
  <2>1. Way /\ replies' = replies /\ Turned /\ Counts /\ Lent /\ Rest
    BY <1>3 DEF Lease, asked
  <2>2. AloneHere(r)
    BY <2>1, AloneOnItsWay
  <2> QED BY <2>1, <2>2, AloneElsewhere
<1>4. CASE LeaseRefused(r) \/ WaitForCooldown(r) \/ WaitEnds(r)
  <2>1. Way /\ replies' = replies /\ Turned /\ Counts /\ Lent /\ Rest
    <3>1. CASE LeaseRefused(r)
      BY <3>1 DEF LeaseRefused, asked, held
    <3>2. CASE WaitForCooldown(r)
      BY <3>2 DEF WaitForCooldown, asked, held, seen
    <3>3. CASE WaitEnds(r)
      BY <3>3 DEF WaitEnds, asked, held, seen
    <3> QED BY <1>4, <3>1, <3>2, <3>3
  <2>2. AloneHere(r)
    BY <2>1, AloneOnItsWay
  <2> QED BY <2>1, <2>2, AloneElsewhere
<1> QED BY <1>1, <1>2, <1>3, <1>4

(* Vertex.                                                                 *)
LEMMA VertexFrame ==
  ASSUME TypeOK, NEW r \in Requests,
         \/ VertexMatch(r) \/ VertexSend(r) \/ VertexPauseEnds(r) \/ VertexAnswered(r)
         \/ \E what \in {"no answer", "429", "5xx"} : VertexFails(r, what)
  PROVE  Alone(r)
<1> DEFINE Way == \/ NextAttempt(r) \/ LeaveSource(r)
                  \/ UNCHANGED plan /\ \E where : Goto(r, where)
           Lent == Release(r) \/ UNCHANGED held \/ Return(r)
           Said == UNCHANGED replies \/ \E what : Reply(r, what)
           Turned == refused' = refused \/ \E v : refused' = [refused EXCEPT ![r] = v]
           Counts == tried' = tried \/ \E v : tried' = [tried EXCEPT ![r] = v]
           Rest == UNCHANGED <<policy, anthropic, chats, ask, canceled, moved, refreshed>>
           Pauses == /\ \E v : pc' = [pc EXCEPT ![r] = v]
                     /\ \E v : attempt' = [attempt EXCEPT ![r] = v]
                     /\ source' = source /\ plan' = plan
<1>1. /\ GiveUp(r) => Way /\ Lent /\ Said
      /\ \A what : Answer(r, what) => Way /\ Lent /\ Said
  BY DEF GiveUp, Answer, Return
<1>2. (Way \/ Pauses) /\ Lent /\ Said /\ Turned /\ Counts /\ Rest
  <2>1. CASE VertexMatch(r)
    BY <1>1, <2>1 DEF VertexMatch, asked, held
  <2>2. CASE VertexSend(r)
    BY <2>2 DEF VertexSend, asked, held
  <2>3. CASE VertexPauseEnds(r)
    BY <1>1, <2>3 DEF VertexPauseEnds, asked, seen
  <2>4. CASE VertexAnswered(r)
    BY <1>1, <2>4 DEF VertexAnswered, asked, seen
  <2>5. ASSUME NEW what \in {"no answer", "429", "5xx"}, VertexFails(r, what)
        PROVE  (Way \/ Pauses) /\ Lent /\ Said /\ Turned /\ Counts /\ Rest
    BY <1>1, <2>5 DEF VertexFails, asked, seen
  <2> QED BY <2>1, <2>2, <2>3, <2>4, <2>5
<1>3. AloneHere(r)
  <2>1. CASE Way
    BY <2>1, AloneOnItsWay
  <2>2. CASE Pauses
    <3>1. pc' = [pc EXCEPT ![r] = pc'[r]] /\ attempt' = [attempt EXCEPT ![r] = attempt'[r]]
      BY <2>2, Functions, Replaced
    <3>2. source' = [source EXCEPT ![r] = source'[r]]
      BY <2>2, Functions, Replaced
    <3>3. plan' = [plan EXCEPT ![r] = plan'[r]]
      BY <2>2, Functions, Replaced
    <3> QED BY <3>1, <3>2, <3>3 DEF AloneHere
  <2> QED BY <1>2, <2>1, <2>2
<1>4. lease' = lease \/ \E v : lease' = [lease EXCEPT ![r] = v]
  BY <1>2, ReleaseFrame
<1>5. replies' = replies \/ \E v : replies' = [replies EXCEPT ![r] = v]
  BY <1>2, ReplyFrame
<1> HIDE DEF Way, Lent, Said, Pauses
<1> QED BY <1>2, <1>3, <1>4, <1>5, AloneElsewhere

(* A step of a request leaves the others, the policy and what was asked as *)
(* they are.                                                               *)
LEMMA Frame ==
  ASSUME TypeOK, NEW r \in Requests, Request(r)
  PROVE  Alone(r)
BY ForwardFrame, PoolFrame, VertexFrame DEF Request

-----------------------------------------------------------------------------
(* What a step does to the request that makes it.                          *)

Stays(r) == source'[r] = source[r] /\ attempt'[r] = attempt[r] /\ plan'[r] = plan[r]
GoesTo(r, where) == pc'[r] = where /\ Stays(r)
Silent(r) == replies'[r] = replies[r]
Says(r, what) == replies'[r] = Append(replies[r], what)
SameLease(r) == lease'[r] = lease[r]
SameSeen(r) == refreshed'[r] = refreshed[r] /\ refused'[r] = refused[r] /\ tried'[r] = tried[r]
Begins(r, s) == /\ tried'[r] = [tried[r] EXCEPT ![s] = @ + 1]
                /\ refreshed'[r] = refreshed[r] /\ refused'[r] = refused[r]
TurnedAway(r) == /\ refused'[r] = refused[r] \cup {Source(r)}
                 /\ refreshed'[r] = refreshed[r] /\ tried'[r] = tried[r]

(* The next round, the next source, or the end of the order.               *)
Again(r) ==
  /\ attempt[r] + 1 < MaxAttempts
  /\ pc'[r] = "lease" /\ attempt'[r] = attempt[r] + 1
  /\ source'[r] = source[r] /\ plan'[r] = plan[r]
Second(r) ==
  /\ source[r] = 1 /\ Len(plan[r]) = 2
  /\ pc'[r] = Entry(plan[r][2])
  /\ source'[r] = 2 /\ attempt'[r] = 0 /\ plan'[r] = plan[r]
Over(r) == source[r] = Len(plan[r]) /\ GoesTo(r, "exhausted all")

(* The wording of the 503.                                                 *)
Exhaustion(r) == IF r \in chats THEN "503 chat"
                 ELSE IF policy.enabled THEN "503 fallback" ELSE "503 keys"

(* Before and after the sources.                                           *)
Outside(r) ==
  /\ SameLease(r) /\ SameSeen(r)
  /\ \/ pc[r] = "start" /\ GoesTo(r, "order") /\ Silent(r)
     \/ pc[r] = "start" /\ GoesTo(r, "done") /\ Says(r, "401")
     \/ /\ pc[r] = "order" /\ Silent(r)
        /\ plan'[r] = SourceOrder(r) /\ pc'[r] = Entry(plan'[r][1])
        /\ source'[r] = source[r] /\ attempt'[r] = attempt[r]
     \/ pc[r] = "exhausted all" /\ GoesTo(r, "done") /\ Says(r, Exhaustion(r))

(* A lease or none; the forward begins, fails, or ends the request.        *)
Takes(r) == /\ pc[r] = "lease" /\ GoesTo(r, "forward") /\ Silent(r)
            /\ lease'[r] \in Pool(Source(r)) /\ Begins(r, Source(r))
GetsNothing(r) ==
  /\ pc[r] \in {"lease", "exhausted", "wait"} /\ ~AtVertex(r)
  /\ SameLease(r) /\ Silent(r) /\ TurnedAway(r)
  /\ \/ Source(r) = "claude" /\ \E where \in {"exhausted", "wait"} : GoesTo(r, where)
     \/ Again(r) \/ Second(r) \/ Over(r)
Retries(r) ==
  /\ Holding(r) /\ ~AtVertex(r)
  /\ lease'[r] = None /\ Silent(r) /\ SameSeen(r)
  /\ Again(r) \/ (attempt[r] + 1 = MaxAttempts /\ (Second(r) \/ Over(r)))
Returns(r) ==
  /\ pc[r] \in {"forward", "backoff", "wait", "match"}
  /\ GoesTo(r, "done") /\ lease'[r] = None /\ SameSeen(r)
  /\ \/ canceled[r] /\ Silent(r)
     \/ \E what \in {"2xx", "4xx", "400", "429", "502"} : Says(r, what)
Refreshes(r) ==
  /\ pc[r] = "forward" /\ Source(r) = "claude" /\ lease[r] \notin refreshed[r]
  /\ GoesTo(r, "refresh") /\ SameLease(r) /\ Silent(r)
  /\ refreshed'[r] = refreshed[r] \cup {lease[r]}
  /\ refused'[r] = refused[r] /\ tried'[r] = tried[r]
BacksOff(r) == /\ pc[r] = "forward" /\ ~AtVertex(r)
               /\ GoesTo(r, "backoff") /\ SameLease(r) /\ Silent(r) /\ SameSeen(r)
Repeats(r) == /\ pc[r] = "refresh" /\ GoesTo(r, "lease")
              /\ lease'[r] = None /\ Silent(r) /\ SameSeen(r)

(* Vertex.                                                                 *)
AsksVertex(r) ==
  /\ AtVertex(r) /\ SameLease(r) /\ Silent(r)
  /\ \/ pc[r] = "match" /\ TurnedAway(r) /\ Over(r)
     \/ pc[r] = "match" /\ GoesTo(r, "send") /\ SameSeen(r)
     \/ pc[r] = "send" /\ GoesTo(r, "forward") /\ Begins(r, "vertex")
     \/ /\ pc[r] = "forward" /\ attempt[r] + 1 < MaxAttempts /\ SameSeen(r)
        /\ \E where \in {"wait", "backoff"} : GoesTo(r, where)
     \/ /\ pc[r] \in {"wait", "backoff"} /\ SameSeen(r)
        /\ pc'[r] = "send" /\ attempt'[r] = attempt[r] + 1
        /\ source'[r] = source[r] /\ plan'[r] = plan[r]

OwnStep(r) ==
  \/ Outside(r) \/ Takes(r) \/ GetsNothing(r) \/ Retries(r) \/ Returns(r)
  \/ Refreshes(r) \/ BacksOff(r) \/ Repeats(r) \/ AsksVertex(r)

(* A source is left for the second one or for none; a round that failed is *)
(* the last one when maxAttempts is reached.                               *)
LEMMA WaysOn ==
  ASSUME TypeOK, NEW r \in Requests, Planned(r), plan[r] # << >>
  PROVE  /\ LeaveSource(r) => Second(r) \/ Over(r)
         /\ NextAttempt(r) => Again(r) \/ (/\ attempt[r] + 1 = MaxAttempts
                                           /\ Second(r) \/ Over(r))
<1>1. /\ source[r] \in 1..Len(plan[r]) /\ source[r] \in {1, 2}
      /\ Len(plan[r]) \in {1, 2}
  BY SourceFacts
<1>2. ASSUME LeaveSource(r) PROVE Second(r) \/ Over(r)
  <2>1. CASE source[r] = 1 /\ Len(plan[r]) = 2
    <3>1. source[r] < Len(plan[r]) /\ source[r] + 1 = 2
      BY <2>1
    <3>2. /\ pc' = [pc EXCEPT ![r] = Entry(plan[r][source[r] + 1])]
          /\ source' = [source EXCEPT ![r] = source[r] + 1]
          /\ attempt' = [attempt EXCEPT ![r] = 0]
          /\ UNCHANGED plan
      BY <1>2, <3>1 DEF LeaveSource
    <3>3. /\ pc' = [pc EXCEPT ![r] = Entry(plan[r][2])]
          /\ source' = [source EXCEPT ![r] = 2]
      BY <3>1, <3>2, Zenon
    <3> QED BY <2>1, <3>2, <3>3, Functions DEF Second
  <2>2. CASE source[r] = Len(plan[r])
    <3>1. ~(source[r] < Len(plan[r]))
      BY <1>1, <2>2
    <3> QED BY <1>2, <2>2, <3>1, Functions DEF LeaveSource, Over, Goto, GoesTo, Stays
  <2>3. \/ source[r] = 1 /\ Len(plan[r]) = 2
        \/ source[r] = Len(plan[r])
    <3>1. CASE Len(plan[r]) = 1
      BY <1>1, <3>1
    <3>2. CASE Len(plan[r]) = 2
      BY <1>1, <3>2
    <3> QED BY <1>1, <3>1, <3>2
  <2> QED BY <2>1, <2>2, <2>3
<1>3. attempt[r] \in 0..MaxAttempts - 1 /\ MaxAttempts \in Nat
  BY MessagesAssumption DEF TypeOK
<1>4. ~(attempt[r] + 1 < MaxAttempts) => attempt[r] + 1 = MaxAttempts
  BY <1>3
<1>5. NextAttempt(r) /\ attempt[r] + 1 < MaxAttempts => Again(r)
  BY Functions DEF NextAttempt, Again
<1> QED BY <1>2, <1>4, <1>5 DEF NextAttempt

(* The steps the actions are built from, as seen by the request.           *)
LEMMA Parts ==
  ASSUME TypeOK, NEW r \in Requests
  PROVE  /\ \A where : Goto(r, where) /\ UNCHANGED plan => GoesTo(r, where)
         /\ \A what : Reply(r, what) => Says(r, what)
         /\ UNCHANGED replies => Silent(r)
         /\ Release(r) => lease'[r] = None
         /\ UNCHANGED held => SameLease(r)
         /\ Return(r) => lease'[r] = None /\ GoesTo(r, "done")
         /\ UNCHANGED <<refreshed, seen>> => SameSeen(r)
<1>1. /\ \A where : Goto(r, where) /\ UNCHANGED plan => GoesTo(r, where)
      /\ \A what : Reply(r, what) => Says(r, what)
      /\ UNCHANGED replies => Silent(r)
      /\ Release(r) => lease'[r] = None
      /\ UNCHANGED held => SameLease(r)
      /\ UNCHANGED <<refreshed, seen>> => SameSeen(r)
  BY Functions DEF Goto, GoesTo, Stays, Reply, Says, Silent, Release, SameLease, held,
     SameSeen, seen
<1>2. Return(r) => lease'[r] = None /\ GoesTo(r, "done")
  BY <1>1 DEF Return, SameLease
<1> QED BY <1>1, <1>2

(* A request at a source has an order.                                     *)
LEMMA HasPlan ==
  ASSUME NEW r \in Requests, Planned(r), pc[r] \notin {"start", "order", "done"}
  PROVE  plan[r] # << >>
BY DEF Planned

(* What the loops over a pool do with a request that holds a lease.        *)
LEMMA OwnForward ==
  ASSUME TypeOK, NEW r \in Requests, Planned(r),
         \/ ForwardFails(r) \/ ForwardRejected(r) \/ ForwardLimited(r)
         \/ ForwardBreaks(r) \/ ForwardAnswered(r)
         \/ BackoffEnds(r) \/ RefreshFails(r) \/ RefreshSucceeds(r)
  PROVE  OwnStep(r)
<1>1. Holding(r) /\ ~AtVertex(r) /\ plan[r] # << >>
  <2>1. pc[r] \in {"forward", "backoff", "refresh"} /\ (pc[r] = "refresh" \/ ~AtVertex(r))
    BY DEF ForwardFails, ForwardRejected, ForwardLimited, ForwardBreaks, ForwardAnswered,
       BackoffEnds, RefreshFails, RefreshSucceeds, Forward, AtVertex
  <2>2. plan[r] # << >>
    BY <2>1, HasPlan
  <2>3. pc[r] = "refresh" => ~AtVertex(r)
    BY <2>2 DEF Planned, AtVertex
  <2> QED BY <2>1, <2>2, <2>3 DEF Holding
<1>2. ASSUME Retry(r), UNCHANGED <<refreshed, seen>> PROVE Retries(r)
  <2>1. NextAttempt(r) /\ lease'[r] = None /\ Silent(r) /\ SameSeen(r)
    BY <1>2, Parts DEF Retry
  <2> QED BY <1>1, <2>1, WaysOn DEF Retries
<1>3. ASSUME pc[r] # "refresh", UNCHANGED <<refreshed, seen>>,
             \/ canceled[r] /\ GiveUp(r)
             \/ \E what \in {"2xx", "4xx"} : Answer(r, what)
      PROVE  Returns(r)
  <2>1. SameSeen(r) /\ lease'[r] = None /\ GoesTo(r, "done")
    BY <1>3, Parts DEF GiveUp, Answer
  <2>2. \/ canceled[r] /\ Silent(r)
        \/ \E what \in {"2xx", "4xx", "400", "429", "502"} : Says(r, what)
    BY <1>3, Parts DEF GiveUp, Answer
  <2>3. pc[r] \in {"forward", "backoff", "wait", "match"}
    BY <1>1, <1>3 DEF Holding
  <2> QED BY <2>1, <2>2, <2>3 DEF Returns
<1>4. CASE ForwardFails(r) \/ ForwardLimited(r) \/ ForwardAnswered(r)
  BY <1>2, <1>3, <1>4 DEF ForwardFails, ForwardLimited, ForwardAnswered, Forward, OwnStep
<1>5. CASE ForwardRejected(r)
  <2>1. CASE Retry(r) /\ UNCHANGED refreshed
    BY <1>2, <1>5, <2>1 DEF ForwardRejected, Forward, OwnStep
  <2>2. CASE ~(Retry(r) /\ UNCHANGED refreshed)
    <3>1. /\ pc[r] = "forward" /\ Source(r) = "claude" /\ lease[r] \notin refreshed[r]
          /\ refreshed' = [refreshed EXCEPT ![r] = @ \cup {lease[r]}]
          /\ Goto(r, "refresh") /\ UNCHANGED <<held, plan, replies, seen>>
      BY <1>5, <2>2 DEF ForwardRejected, Forward
    <3>2. GoesTo(r, "refresh") /\ SameLease(r) /\ Silent(r)
      BY <3>1, Parts
    <3>3. /\ refreshed'[r] = refreshed[r] \cup {lease[r]}
          /\ refused'[r] = refused[r] /\ tried'[r] = tried[r]
      BY <3>1, Functions DEF seen
    <3> QED BY <3>1, <3>2, <3>3 DEF Refreshes, OwnStep
  <2> QED BY <2>1, <2>2
<1>6. CASE ForwardBreaks(r)
  BY <1>1, <1>6, Parts DEF ForwardBreaks, Forward, BacksOff, OwnStep
<1>7. CASE BackoffEnds(r)
  BY <1>2, <1>3, <1>7 DEF BackoffEnds, OwnStep
<1>8. CASE RefreshFails(r)
  BY <1>2, <1>8 DEF RefreshFails, OwnStep
<1>9. CASE RefreshSucceeds(r)
  BY <1>9, Parts DEF RefreshSucceeds, Repeats, OwnStep
<1> QED BY <1>4, <1>5, <1>6, <1>7, <1>8, <1>9

(* Before and after the sources, and what a pool lends or refuses.         *)
LEMMA OwnPool ==
  ASSUME TypeOK, NEW r \in Requests, Planned(r),
         \/ Start(r) \/ Order(r) \/ Exhausted(r)
         \/ \E c \in Credentials : Lease(r, c)
         \/ LeaseRefused(r) \/ WaitForCooldown(r) \/ WaitEnds(r)
  PROVE  OwnStep(r)
<1>1. CASE Start(r)
  BY <1>1, Parts DEF Start, Outside, OwnStep
<1>2. CASE Order(r)
  <2>1. SameLease(r) /\ Silent(r) /\ SameSeen(r)
    BY <1>2, Parts DEF Order
  <2>2. /\ plan'[r] = SourceOrder(r) /\ pc'[r] = Entry(SourceOrder(r)[1])
        /\ source'[r] = source[r] /\ attempt'[r] = attempt[r] /\ pc[r] = "order"
    BY <1>2, Functions DEF Order, Goto
  <2>3. pc'[r] = Entry(plan'[r][1])
    BY <2>2
  <2> QED BY <2>1, <2>2, <2>3 DEF Outside, OwnStep
<1>3. CASE Exhausted(r)
  <2>1. Says(r, Exhaustion(r))
    BY <1>3, Parts DEF Exhausted, Exhaustion
  <2> QED BY <1>3, <2>1, Parts DEF Exhausted, Outside, OwnStep
<1>4. ASSUME NEW c \in Credentials, Lease(r, c) PROVE OwnStep(r)
  <2>1. /\ pc[r] = "lease" /\ GoesTo(r, "forward") /\ Silent(r)
        /\ c \in Pool(Source(r))
    BY <1>4, Parts DEF Lease, Available
  <2>2. /\ lease'[r] = c /\ Begins(r, Source(r))
    BY <1>4, Functions DEF Lease, Begins
  <2> QED BY <2>1, <2>2 DEF Takes, OwnStep
<1>5. ASSUME pc[r] \in {"lease", "exhausted", "wait"}, ~AtVertex(r),
             UNCHANGED <<held, replies, refreshed, tried>>,
             refused'[r] = refused[r] \cup {Source(r)},
             \/ Source(r) = "claude" /\ \E where \in {"exhausted", "wait"} : Goto(r, where)
                /\ UNCHANGED plan
             \/ NextAttempt(r) \/ LeaveSource(r)
      PROVE  OwnStep(r)
  <2>1. SameLease(r) /\ Silent(r) /\ TurnedAway(r)
    BY <1>5, Parts DEF TurnedAway
  <2>2. plan[r] # << >>
    BY <1>5, HasPlan
  <2>3. \/ Source(r) = "claude" /\ \E where \in {"exhausted", "wait"} : GoesTo(r, where)
        \/ Again(r) \/ Second(r) \/ Over(r)
    BY <1>5, <2>2, WaysOn, Parts
  <2> QED BY <1>5, <2>1, <2>3 DEF GetsNothing, OwnStep
<1>6. CASE LeaseRefused(r)
  <2>1. plan[r] # << >> /\ ~AtVertex(r)
    BY <1>6, HasPlan DEF LeaseRefused, Planned
  <2>2. refused'[r] = refused[r] \cup {Source(r)}
    BY <1>6, Functions DEF LeaseRefused
  <2> QED BY <1>5, <1>6, <2>1, <2>2 DEF LeaseRefused
<1>7. CASE WaitForCooldown(r) \/ WaitEnds(r)
  <2>1. pc[r] \in {"exhausted", "wait"} /\ (pc[r] = "exhausted" \/ Source(r) = "claude")
    BY <1>7 DEF WaitForCooldown, WaitEnds
  <2>2. Source(r) = "claude" /\ plan[r] # << >>
    BY <2>1, HasPlan DEF Planned
  <2>3. ~AtVertex(r) /\ Source(r) \in refused[r]
    BY <2>1, <2>2 DEF Planned, AtVertex
  <2>4. refused'[r] = refused[r] \cup {Source(r)}
    BY <1>7, <2>3 DEF WaitForCooldown, WaitEnds, seen
  <2> QED BY <1>5, <1>7, <2>1, <2>2, <2>3, <2>4 DEF WaitForCooldown, WaitEnds, seen
<1> QED BY <1>1, <1>2, <1>3, <1>4, <1>6, <1>7

(* Vertex.                                                                 *)
LEMMA OwnVertex ==
  ASSUME TypeOK, NEW r \in Requests, Planned(r),
         \/ VertexMatch(r) \/ VertexSend(r) \/ VertexPauseEnds(r) \/ VertexAnswered(r)
         \/ \E what \in {"no answer", "429", "5xx"} : VertexFails(r, what)
  PROVE  OwnStep(r)
<1>1. AtVertex(r) /\ plan[r] # << >> /\ lease[r] = None
  <2>1. /\ pc[r] \in {"match", "send", "wait", "backoff", "forward"}
        /\ pc[r] \in {"match", "send"} \/ AtVertex(r)
    BY DEF VertexMatch, VertexSend, VertexPauseEnds, VertexAnswered, VertexFails, AtVertex
  <2>2. AtVertex(r) /\ plan[r] # << >>
    BY <2>1, HasPlan DEF Planned
  <2> QED BY <2>1, <2>2 DEF TypeOK, AtVertex
<1>2. ASSUME pc[r] \in {"forward", "backoff", "wait", "match"},
             UNCHANGED <<refreshed, seen>>,
             \/ canceled[r] /\ GiveUp(r)
             \/ \E what \in {"2xx", "4xx", "400", "429", "502"} : Answer(r, what)
      PROVE  OwnStep(r)
  <2>1. SameSeen(r) /\ lease'[r] = None /\ GoesTo(r, "done")
    BY <1>2, Parts DEF GiveUp, Answer
  <2>2. \/ canceled[r] /\ Silent(r)
        \/ \E what \in {"2xx", "4xx", "400", "429", "502"} : Says(r, what)
    BY <1>2, Parts DEF GiveUp, Answer
  <2> QED BY <1>2, <2>1, <2>2 DEF Returns, OwnStep
<1>3. CASE VertexMatch(r)
  <2>1. CASE /\ refused' = [refused EXCEPT ![r] = @ \cup {"vertex"}]
             /\ LeaveSource(r) /\ UNCHANGED <<replies, held>>
    <3>1. SameLease(r) /\ Silent(r) /\ pc[r] = "match"
      BY <1>3, <2>1, Parts DEF VertexMatch
    <3>2. TurnedAway(r)
      BY <1>1, <1>3, <2>1, Functions DEF VertexMatch, TurnedAway, AtVertex
    <3>3. ~Second(r)
      <4>1. source[r] = 1 => Source(r) # "vertex"
        BY <1>1, SourceFacts, OrderFacts DEF Source
      <4> QED BY <1>1, <4>1 DEF Second, AtVertex
    <3>4. Over(r)
      BY <1>1, <2>1, <3>3, WaysOn
    <3> QED BY <1>1, <3>1, <3>2, <3>4 DEF AsksVertex, OwnStep
  <2>2. CASE Answer(r, "400") /\ UNCHANGED refused
    BY <1>2, <1>3, <2>2 DEF VertexMatch, seen
  <2>3. CASE Goto(r, "send") /\ UNCHANGED <<plan, replies, held, refused>>
    <3>1. SameLease(r) /\ Silent(r) /\ GoesTo(r, "send") /\ SameSeen(r)
      BY <1>3, <2>3, Parts DEF VertexMatch, seen
    <3> QED BY <1>1, <1>3, <3>1 DEF VertexMatch, AsksVertex, OwnStep
  <2> QED BY <1>3, <2>1, <2>2, <2>3 DEF VertexMatch
<1>4. CASE VertexSend(r)
  <2>1. SameLease(r) /\ Silent(r) /\ GoesTo(r, "forward") /\ pc[r] = "send"
    BY <1>4, Parts DEF VertexSend
  <2>2. Begins(r, "vertex")
    BY <1>4, Functions DEF VertexSend, Begins
  <2> QED BY <1>1, <2>1, <2>2 DEF AsksVertex, OwnStep
<1>5. CASE VertexPauseEnds(r)
  <2>1. CASE \E what \in {"429", "502"} : canceled[r] /\ Answer(r, what)
    BY <1>2, <1>5, <2>1 DEF VertexPauseEnds
  <2>2. CASE /\ pc' = [pc EXCEPT ![r] = "send"]
             /\ attempt' = [attempt EXCEPT ![r] = @ + 1]
             /\ UNCHANGED <<source, plan, replies, held>>
    <3>1. SameLease(r) /\ Silent(r) /\ SameSeen(r)
      BY <1>5, <2>2, Parts DEF VertexPauseEnds
    <3>2. /\ pc'[r] = "send" /\ attempt'[r] = attempt[r] + 1
          /\ source'[r] = source[r] /\ plan'[r] = plan[r]
      BY <2>2, Functions
    <3> QED BY <1>1, <1>5, <3>1, <3>2 DEF VertexPauseEnds, AsksVertex, OwnStep
  <2> QED BY <1>5, <2>1, <2>2 DEF VertexPauseEnds
<1>6. CASE VertexAnswered(r)
  BY <1>2, <1>6 DEF VertexAnswered
<1>7. ASSUME NEW what \in {"no answer", "429", "5xx"}, VertexFails(r, what)
      PROVE  OwnStep(r)
  <2>1. CASE canceled[r] /\ GiveUp(r)
    BY <1>2, <1>7, <2>1 DEF VertexFails
  <2>2. CASE \E said \in {"429", "502"} : Answer(r, said)
    BY <1>2, <1>7, <2>2 DEF VertexFails
  <2>3. CASE /\ attempt[r] + 1 < MaxAttempts
             /\ \E where \in {"wait", "backoff"} : Goto(r, where)
             /\ UNCHANGED <<held, plan, replies>>
    <3>1. SameLease(r) /\ Silent(r) /\ SameSeen(r) /\ pc[r] = "forward"
          /\ \E where \in {"wait", "backoff"} : GoesTo(r, where)
      BY <1>7, <2>3, Parts DEF VertexFails
    <3> QED BY <1>1, <2>3, <3>1 DEF AsksVertex, OwnStep
  <2> QED BY <1>7, <2>1, <2>2, <2>3 DEF VertexFails
<1> QED BY <1>3, <1>4, <1>5, <1>6, <1>7

(* Every step of a request is one of the above.                            *)
LEMMA OwnSteps ==
  ASSUME TypeOK, NEW r \in Requests, Planned(r), Request(r)
  PROVE  OwnStep(r)
BY OwnForward, OwnPool, OwnVertex DEF Request

-----------------------------------------------------------------------------
(* Types.                                                                  *)

(* The types of what belongs to a request.                                 *)
OwnTypes(r) ==
  /\ pc[r] \in Places /\ attempt[r] \in 0..MaxAttempts - 1
  /\ refreshed[r] \in SUBSET Claudes /\ replies[r] \in Seq(Answers)
  /\ refused[r] \in SUBSET SourceKinds /\ tried[r] \in [SourceKinds -> Nat]
  /\ IF Holding(r) /\ ~AtVertex(r) THEN lease[r] \in Pool(Source(r))
                                   ELSE lease[r] = None

(* They are part of TypeOK.                                                *)
LEMMA OwnTypesHere ==
  ASSUME TypeOK, NEW r \in Requests
  PROVE  OwnTypes(r)
BY DEF TypeOK, OwnTypes, Places, Answers, Holding, AtVertex

(* Only credentials are lent, and to the Claude loop only Claude accounts. *)
LEMMA Pools ==
  ASSUME TypeOK, NEW s \in SourceKinds
  PROVE  /\ Pool(s) \subseteq Credentials
         /\ s = "claude" => Pool(s) = Claudes
         /\ s = "vertex" => Pool(s) = {}
BY DEF TypeOK, Pool, SourceKinds, Credentials

(* What a step leaves of its request's place is a place.                   *)
LEMMA PlanKept ==
  ASSUME TypeOK, NEW r \in Requests, Planned(r), OwnStep(r), UNCHANGED chats
  PROVE  Planned(r)' /\ pc'[r] \in Places /\ attempt'[r] \in 0..MaxAttempts - 1
<1>1. /\ attempt[r] \in 0..MaxAttempts - 1 /\ MaxAttempts \in Nat
      /\ 0 \in 0..MaxAttempts - 1
  <2>1. MaxAttempts \in Nat /\ MaxAttempts > 0
    BY MessagesAssumption
  <2>2. attempt[r] \in 0..MaxAttempts - 1
    BY DEF TypeOK
  <2> QED BY <2>1, <2>2
<1>2. ASSUME attempt[r] + 1 < MaxAttempts PROVE attempt[r] + 1 \in 0..MaxAttempts - 1
  BY <1>1, <1>2
<1>3. Plans(r)' = Plans(r)
  BY DEF Plans
<1>4. CASE Outside(r)
  <2>1. CASE pc[r] = "order"
    <3>1. /\ plan'[r] = SourceOrder(r) /\ pc'[r] = Entry(plan'[r][1])
          /\ source'[r] = source[r] /\ attempt'[r] = attempt[r]
      BY <1>4, <2>1 DEF Outside
    <3>2. source'[r] = 1 /\ attempt'[r] = 0
      BY <2>1, <3>1 DEF Planned
    <3>3. plan'[r] \in Plans(r)
      BY <3>1 DEF SourceOrder, Plans, Plain, Chat, Fallback
    <3>4. plan'[r] \in {Chat, Fallback} \cup Plain
      BY <3>3 DEF Plans
    <3>5. /\ plan'[r] # << >> /\ 1 \in 1..Len(plan'[r])
          /\ plan'[r][1] # "vertex"
      BY <3>4, OrderFacts
    <3>6. pc'[r] = "lease" /\ Source(r)' # "vertex"
      BY <3>1, <3>2, <3>5 DEF Entry, Source
    <3> QED BY <1>1, <1>3, <3>2, <3>3, <3>5, <3>6 DEF Planned, AtVertex, Places
  <2>2. CASE pc[r] = "start"
    BY <1>1, <1>4, <2>2 DEF Outside, GoesTo, Stays, Planned, Places
  <2>3. CASE pc[r] = "exhausted all"
    BY <1>1, <1>3, <1>4, <2>3 DEF Outside, GoesTo, Stays, Planned, Places, Source, AtVertex
  <2> QED BY <1>4, <2>1, <2>2, <2>3 DEF Outside
<1>5. ASSUME pc[r] \notin {"start", "order", "done"}
      PROVE  /\ plan[r] # << >> /\ plan[r] \in Plans(r) /\ source[r] \in 1..Len(plan[r])
             /\ Source(r) \in SourceKinds
  BY <1>5, SourceFacts DEF Planned
<1>6. ASSUME pc[r] \notin {"start", "order", "done"}, Again(r), ~AtVertex(r)
      PROVE  Planned(r)' /\ pc'[r] \in Places /\ attempt'[r] \in 0..MaxAttempts - 1
  BY <1>2, <1>3, <1>5, <1>6 DEF Again, Planned, Places, Source, AtVertex
<1>7. ASSUME pc[r] \notin {"start", "order", "done"}, Second(r)
      PROVE  Planned(r)' /\ pc'[r] \in Places /\ attempt'[r] \in 0..MaxAttempts - 1
  <2>1. 2 \in 1..Len(plan[r])
    BY <1>7 DEF Second
  <2>2. Source(r)' = plan[r][2]
    BY <1>7 DEF Second, Source
  <2>3. IF AtVertex(r)' THEN pc'[r] = "match" ELSE pc'[r] = "lease"
    BY <1>7, <2>2 DEF Second, Entry, AtVertex
  <2> QED BY <1>1, <1>3, <1>5, <1>7, <2>1, <2>3 DEF Second, Planned, Places
<1>8. ASSUME pc[r] \notin {"start", "order", "done"}, Over(r)
      PROVE  Planned(r)' /\ pc'[r] \in Places /\ attempt'[r] \in 0..MaxAttempts - 1
  BY <1>1, <1>3, <1>5, <1>8 DEF Over, GoesTo, Stays, Planned, Places, Source, AtVertex
<1>9. ASSUME pc[r] \notin {"start", "order", "done"}, Stays(r)
      PROVE  /\ Source(r)' = Source(r) /\ AtVertex(r)' = AtVertex(r)
             /\ plan'[r] # << >> /\ plan'[r] \in Plans(r)'
             /\ source'[r] \in 1..Len(plan'[r])
             /\ attempt'[r] \in 0..MaxAttempts - 1
  BY <1>1, <1>3, <1>5, <1>9 DEF Stays, Source, AtVertex
<1>10. CASE Takes(r)
  <2>1. ~AtVertex(r)
    BY <1>5, <1>10 DEF Takes, Planned
  <2> QED BY <1>9, <1>10, <2>1 DEF Takes, GoesTo, Planned, Places
<1>11. CASE GetsNothing(r)
  <2>1. CASE Source(r) = "claude" /\ \E where \in {"exhausted", "wait"} : GoesTo(r, where)
    <3>1. Source(r) \in refused'[r]
      BY <1>11 DEF GetsNothing, TurnedAway
    <3> QED BY <1>9, <1>11, <2>1, <3>1 DEF GetsNothing, GoesTo, Planned, Places
  <2> QED BY <1>6, <1>7, <1>8, <1>11, <2>1 DEF GetsNothing
<1>12. CASE Retries(r)
  BY <1>6, <1>7, <1>8, <1>12 DEF Retries, Holding
<1>13. CASE Returns(r)
  BY <1>9, <1>13 DEF Returns, GoesTo, Planned, Places
<1>14. CASE Refreshes(r)
  BY <1>9, <1>14 DEF Refreshes, GoesTo, Planned, Places
<1>15. CASE BacksOff(r)
  BY <1>9, <1>15 DEF BacksOff, GoesTo, Planned, Places
<1>16. CASE Repeats(r)
  <2>1. ~AtVertex(r)
    BY <1>5, <1>16 DEF Repeats, Planned, AtVertex
  <2> QED BY <1>9, <1>16, <2>1 DEF Repeats, GoesTo, Planned, Places
<1>17. CASE AsksVertex(r)
  <2>1. CASE pc[r] \in {"wait", "backoff"}
    <3>1. attempt[r] + 1 < MaxAttempts
      BY <1>5, <1>17, <2>1 DEF AsksVertex, Planned
    <3>2. /\ pc'[r] = "send" /\ attempt'[r] = attempt[r] + 1
          /\ source'[r] = source[r] /\ plan'[r] = plan[r]
      BY <1>17, <2>1 DEF AsksVertex
    <3> QED BY <1>2, <1>3, <1>5, <1>17, <2>1, <3>1, <3>2
            DEF AsksVertex, Planned, Places, Source, AtVertex
  <2>2. CASE pc[r] = "match"
    BY <1>8, <1>9, <1>17, <2>2 DEF AsksVertex, GoesTo, Planned, Places
  <2>3. CASE pc[r] = "send"
    BY <1>9, <1>17, <2>3 DEF AsksVertex, GoesTo, Planned, Places
  <2>4. CASE pc[r] = "forward"
    <3>1. attempt'[r] = attempt[r]
      BY <1>17, <2>4 DEF AsksVertex, GoesTo, Stays
    <3> QED BY <1>9, <1>17, <2>4, <3>1 DEF AsksVertex, GoesTo, Planned, Places, AtVertex
  <2> QED BY <1>17, <2>1, <2>2, <2>3, <2>4 DEF AsksVertex
<1> QED BY <1>4, <1>10, <1>11, <1>12, <1>13, <1>14, <1>15, <1>16, <1>17 DEF OwnStep

(* One answer more is still a sequence of answers.                         *)
LEMMA SaysTyped ==
  ASSUME NEW said \in Seq(Answers), NEW what \in Answers
  PROVE  Append(said, what) \in Seq(Answers)
OBVIOUS

(* A step leaves its request with values of their types.                   *)
LEMMA OwnTyped ==
  ASSUME TypeOK, NEW r \in Requests, Planned(r), OwnStep(r),
         UNCHANGED <<anthropic, chats>>
  PROVE  OwnTypes(r)'
<1>1. OwnTypes(r)
  BY OwnTypesHere
<1>2. Planned(r)' /\ pc'[r] \in Places /\ attempt'[r] \in 0..MaxAttempts - 1
  BY PlanKept
<1>3. ASSUME pc[r] \notin {"start", "order", "done"}
      PROVE  Source(r) \in SourceKinds /\ plan[r] # << >>
  BY <1>3, SourceFacts, HasPlan
<1>4. \A s : Pool(s)' = Pool(s)
  BY DEF Pool
<1>5. replies'[r] \in Seq(Answers)
  <2>1. CASE Silent(r)
    BY <1>1, <2>1 DEF OwnTypes, Silent
  <2>2. ASSUME NEW what \in Answers, Says(r, what) PROVE replies'[r] \in Seq(Answers)
    BY <1>1, <2>2, SaysTyped DEF OwnTypes, Says
  <2>3. Exhaustion(r) \in Answers
    BY DEF Exhaustion, Answers
  <2>4. {"401", "2xx", "4xx", "400", "429", "502"} \subseteq Answers
    BY DEF Answers
  <2>5. CASE Outside(r)
    BY <2>1, <2>2, <2>3, <2>4, <2>5 DEF Outside
  <2>6. CASE Returns(r)
    BY <2>1, <2>2, <2>4, <2>6 DEF Returns
  <2>7. CASE ~Outside(r) /\ ~Returns(r)
    BY <2>1, <2>7 DEF OwnStep, Takes, GetsNothing, Retries, Refreshes, BacksOff,
       Repeats, AsksVertex
  <2> QED BY <2>5, <2>6, <2>7
<1>6. /\ refused'[r] \in SUBSET SourceKinds /\ refreshed'[r] \in SUBSET Claudes
      /\ tried'[r] \in [SourceKinds -> Nat]
  <2>1. CASE SameSeen(r)
    BY <1>1, <2>1 DEF SameSeen, OwnTypes
  <2>2. CASE TurnedAway(r) /\ pc[r] \notin {"start", "order", "done"}
    BY <1>1, <1>3, <2>2 DEF TurnedAway, OwnTypes
  <2>3. ASSUME NEW s \in SourceKinds, Begins(r, s)
        PROVE  tried'[r] \in [SourceKinds -> Nat]
    BY <1>1, <2>3 DEF Begins, OwnTypes
  <2>4. CASE Takes(r)
    BY <1>1, <1>3, <2>3, <2>4 DEF Takes, Begins, OwnTypes
  <2>5. CASE Refreshes(r)
    <3>1. Holding(r) /\ ~AtVertex(r) /\ Source(r) = "claude"
      BY <2>5 DEF Refreshes, Holding, AtVertex
    <3>2. lease[r] \in Claudes
      BY <1>1, <3>1, Pools DEF OwnTypes, SourceKinds
    <3> QED BY <1>1, <2>5, <3>2 DEF Refreshes, OwnTypes
  <2>6. CASE AsksVertex(r)
    <3>1. "vertex" \in SourceKinds
      BY DEF SourceKinds
    <3>2. ASSUME Begins(r, "vertex")
          PROVE  /\ refused'[r] \in SUBSET SourceKinds /\ refreshed'[r] \in SUBSET Claudes
                 /\ tried'[r] \in [SourceKinds -> Nat]
      BY <1>1, <2>3, <3>1, <3>2 DEF Begins, OwnTypes
    <3> QED BY <2>1, <2>2, <2>6, <3>2 DEF AsksVertex
  <2>7. CASE Outside(r) \/ GetsNothing(r) \/ Retries(r) \/ Returns(r) \/ BacksOff(r) \/ Repeats(r)
    BY <2>1, <2>2, <2>7 DEF Outside, GetsNothing, Retries, Returns, BacksOff, Repeats
  <2> QED BY <2>4, <2>5, <2>6, <2>7 DEF OwnStep
<1>7. IF Holding(r)' /\ ~AtVertex(r)' THEN lease'[r] \in Pool(Source(r)') ELSE lease'[r] = None
  <2>1. ASSUME Stays(r)
        PROVE  AtVertex(r)' = AtVertex(r) /\ Source(r)' = Source(r)
    BY <2>1 DEF Stays, AtVertex, Source
  <2>2. ~Holding(r) \/ AtVertex(r) => lease[r] = None
    BY <1>1 DEF OwnTypes
  <2>3. CASE lease'[r] = None /\ pc'[r] \notin {"forward", "refresh", "backoff"}
    BY <2>3 DEF Holding
  <2>4. \A s : Entry(s) \notin {"forward", "refresh", "backoff"}
    BY DEF Entry
  <2>5. Again(r) \/ Second(r) \/ Over(r) => pc'[r] \notin {"forward", "refresh", "backoff"}
    BY <2>4 DEF Again, Second, Over, GoesTo
  <2>6. CASE Outside(r)
    <3>1. lease'[r] = None
      BY <2>2, <2>6 DEF Outside, SameLease, Holding
    <3>2. pc'[r] \notin {"forward", "refresh", "backoff"}
      BY <2>4, <2>6 DEF Outside, GoesTo
    <3> QED BY <2>3, <3>1, <3>2
  <2>7. CASE Takes(r)
    <3>1. lease'[r] \in Pool(Source(r)) /\ Source(r)' = Source(r) /\ AtVertex(r)' = AtVertex(r)
      BY <2>1, <2>7 DEF Takes, GoesTo
    <3>2. Holding(r)' /\ ~AtVertex(r)
      BY <1>3, <2>7 DEF Takes, GoesTo, Holding, Planned
    <3> QED BY <3>1, <3>2
  <2>8. CASE GetsNothing(r)
    <3>1. lease'[r] = None /\ pc'[r] \notin {"forward", "refresh", "backoff"}
      BY <2>2, <2>5, <2>8 DEF GetsNothing, SameLease, GoesTo, Holding
    <3> QED BY <2>3, <3>1
  <2>9. CASE Retries(r) \/ Returns(r) \/ Repeats(r)
    BY <2>3, <2>5, <2>9 DEF Retries, Returns, Repeats, GoesTo
  <2>10. CASE Refreshes(r) \/ BacksOff(r)
    <3>1. lease'[r] = lease[r] /\ pc[r] = "forward" /\ ~AtVertex(r) /\ Stays(r)
      BY <2>10 DEF Refreshes, BacksOff, SameLease, GoesTo, AtVertex
    <3>2. lease[r] \in Pool(Source(r))
      BY <1>1, <3>1 DEF OwnTypes, Holding
    <3>3. Holding(r)' /\ ~AtVertex(r)'
      BY <2>1, <2>10, <3>1 DEF Refreshes, BacksOff, GoesTo, Holding
    <3> QED BY <2>1, <3>1, <3>2, <3>3
  <2>11. CASE AsksVertex(r)
    <3>1. lease'[r] = None
      BY <2>2, <2>11 DEF AsksVertex, SameLease
    <3>2. AtVertex(r)' \/ ~Holding(r)'
      BY <2>1, <2>5, <2>11 DEF AsksVertex, GoesTo, Holding
    <3> QED BY <3>1, <3>2
  <2> QED BY <2>6, <2>7, <2>8, <2>9, <2>10, <2>11 DEF OwnStep
<1> QED BY <1>2, <1>4, <1>5, <1>6, <1>7 DEF OwnTypes

(* What a step does to the leases and to the counts of the pools.          *)
LEMMA LeaseEffects ==
  ASSUME TypeOK, NEW r \in Requests, Planned(r), Request(r)
  PROVE  \/ UNCHANGED <<lease, inflight>>
         \/ \E c \in Credentials : /\ lease[r] = None
                                   /\ lease' = [lease EXCEPT ![r] = c]
                                   /\ inflight' = [inflight EXCEPT ![c] = @ + 1]
         \/ /\ lease[r] \in Credentials
            /\ lease' = [lease EXCEPT ![r] = None]
            /\ inflight' = [inflight EXCEPT ![lease[r]] = @ - 1]
<1>1. OwnTypes(r)
  BY OwnTypesHere
<1>2. lease[r] = None \/ lease[r] \in Credentials
  BY DEF TypeOK
<1>3. /\ UNCHANGED held => UNCHANGED <<lease, inflight>>
      /\ Return(r) => UNCHANGED <<lease, inflight>> \/ (lease[r] # None /\ Release(r))
  BY DEF held, Return
<1>4. ASSUME UNCHANGED held \/ Return(r) \/ (lease[r] # None /\ Release(r))
      PROVE  \/ UNCHANGED <<lease, inflight>>
             \/ /\ lease[r] \in Credentials
                /\ lease' = [lease EXCEPT ![r] = None]
                /\ inflight' = [inflight EXCEPT ![lease[r]] = @ - 1]
  BY <1>2, <1>3, <1>4 DEF Release
<1>5. ASSUME Holding(r), ~AtVertex(r) PROVE lease[r] # None
  <2>1. plan[r] # << >>
    BY <1>5, HasPlan DEF Holding
  <2>2. lease[r] \in Credentials
    BY <1>1, <1>5, <2>1, SourceFacts, Pools DEF OwnTypes
  <2> QED BY <2>2, MessagesAssumption
<1>6. CASE \E c \in Credentials : Lease(r, c)
  <2>1. lease[r] = None
    BY <1>1, <1>6 DEF Lease, OwnTypes, Holding
  <2> QED BY <1>6, <2>1 DEF Lease
<1>7. CASE \/ Start(r) \/ Order(r) \/ Exhausted(r)
           \/ LeaseRefused(r) \/ WaitForCooldown(r) \/ WaitEnds(r)
  BY <1>3, <1>7 DEF Start, Order, Exhausted, LeaseRefused, WaitForCooldown, WaitEnds
<1>8. CASE \/ ForwardFails(r) \/ ForwardRejected(r) \/ ForwardLimited(r)
           \/ ForwardBreaks(r) \/ ForwardAnswered(r)
           \/ BackoffEnds(r) \/ RefreshFails(r) \/ RefreshSucceeds(r)
  <2>1. lease[r] # None
    <3>1. pc[r] = "refresh" => ~AtVertex(r)
      BY HasPlan DEF Planned, AtVertex
    <3> QED BY <1>5, <1>8, <3>1
            DEF ForwardFails, ForwardRejected, ForwardLimited, ForwardBreaks,
                ForwardAnswered, BackoffEnds, RefreshFails, RefreshSucceeds, Forward,
                Holding, AtVertex
  <2>2. UNCHANGED held \/ Return(r) \/ Release(r)
    BY <1>8 DEF ForwardFails, ForwardRejected, ForwardLimited, ForwardBreaks,
       ForwardAnswered, BackoffEnds, RefreshFails, RefreshSucceeds, Retry, Answer, GiveUp
  <2> QED BY <1>4, <2>1, <2>2
<1>9. CASE \/ VertexMatch(r) \/ VertexSend(r) \/ VertexPauseEnds(r) \/ VertexAnswered(r)
           \/ \E what \in {"no answer", "429", "5xx"} : VertexFails(r, what)
  <2>1. UNCHANGED held \/ Return(r)
    BY <1>9 DEF VertexMatch, VertexSend, VertexPauseEnds, VertexAnswered, VertexFails,
       Answer, GiveUp
  <2> QED BY <1>4, <2>1
<1> QED BY <1>6, <1>7, <1>8, <1>9 DEF Request

(* The marks keep their type.                                              *)
LEMMA StatusTyped ==
  ASSUME TypeOK, NEW r \in Requests, Request(r)
  PROVE  status' \in [Credentials -> Statuses]
<1>1. status \in [Credentials -> Statuses]
  BY DEF TypeOK
<1>2. ASSUME NEW what \in Statuses, Mark(r, what)
      PROVE  status' \in [Credentials -> Statuses]
  BY <1>1, <1>2 DEF Mark
<1>3. {"dead", "cooling"} \subseteq Statuses
  BY DEF Statuses
<1>4. status' = status \/ Mark(r, "dead") \/ Mark(r, "cooling")
  BY DEF Request, Start, Order, Exhausted, Lease, LeaseRefused, WaitForCooldown, WaitEnds,
     ForwardFails, ForwardRejected, ForwardLimited, ForwardBreaks, ForwardAnswered,
     BackoffEnds, RefreshFails, RefreshSucceeds, VertexMatch, VertexSend,
     VertexPauseEnds, VertexAnswered, VertexFails
<1> QED BY <1>1, <1>2, <1>3, <1>4

(* A value of type T in place of another.                                  *)
LEMMA ReplacedTyped ==
  ASSUME NEW S, NEW T, NEW r \in S, NEW f \in [S -> T], NEW v \in T
  PROVE  [f EXCEPT ![r] = v] \in [S -> T]
OBVIOUS

(* A step of a request keeps the types of everything.                      *)
LEMMA RequestTyped ==
  ASSUME TypeOK, \A q \in Requests : Planned(q), NEW r \in Requests, Request(r)
  PROVE  TypeOK' /\ \A q \in Requests : Planned(q)'
<1>1. Alone(r) /\ OwnStep(r)
  BY Frame, OwnSteps
<1>2. UNCHANGED <<policy, anthropic, chats, ask, canceled, moved>>
  BY <1>1 DEF Alone
<1>3. Planned(r)' /\ pc'[r] \in Places /\ attempt'[r] \in 0..MaxAttempts - 1
  BY <1>1, <1>2, PlanKept
<1>4. OwnTypes(r)'
  BY <1>1, <1>2, OwnTyped
<1>5. plan'[r] \in Seq(SourceKinds) /\ source'[r] \in 1..2
  <2>1. CASE plan'[r] = << >>
    BY <1>3, <2>1 DEF Planned
  <2>2. CASE plan'[r] # << >>
    <3>1. plan'[r] \in {Chat, Fallback} \cup Plain /\ source'[r] \in 1..Len(plan'[r])
      BY <1>3, <2>2 DEF Planned, Plans
    <3>2. plan'[r] \in Seq(SourceKinds) /\ Len(plan'[r]) \in {1, 2}
      BY <3>1, OrderFacts
    <3>3. source'[r] \in 1..2
      <4>1. CASE Len(plan'[r]) = 1
        BY <3>1, <4>1
      <4>2. CASE Len(plan'[r]) = 2
        BY <3>1, <4>2
      <4> QED BY <3>2, <4>1, <4>2
    <3> QED BY <3>2, <3>3
  <2> QED BY <2>1, <2>2
<1>6. /\ pc' \in [Requests -> Places] /\ source' \in [Requests -> 1..2]
      /\ attempt' \in [Requests -> 0..MaxAttempts - 1]
      /\ plan' \in [Requests -> Seq(SourceKinds)]
  <2>1. /\ pc \in [Requests -> Places] /\ source \in [Requests -> 1..2]
        /\ attempt \in [Requests -> 0..MaxAttempts - 1]
        /\ plan \in [Requests -> Seq(SourceKinds)]
    BY DEF TypeOK, Places
  <2> QED BY <1>1, <1>3, <1>5, <2>1, ReplacedTyped DEF Alone, AloneHere
<1>7. /\ refreshed' \in [Requests -> SUBSET Claudes]
      /\ replies' \in [Requests -> Seq(Answers)]
      /\ refused' \in [Requests -> SUBSET SourceKinds]
      /\ tried' \in [Requests -> [SourceKinds -> Nat]]
  <2>1. /\ refreshed \in [Requests -> SUBSET Claudes]
        /\ replies \in [Requests -> Seq(Answers)]
        /\ refused \in [Requests -> SUBSET SourceKinds]
        /\ tried \in [Requests -> [SourceKinds -> Nat]]
    BY DEF TypeOK, Answers
  <2>2. /\ refreshed'[r] \in SUBSET Claudes /\ replies'[r] \in Seq(Answers)
        /\ refused'[r] \in SUBSET SourceKinds /\ tried'[r] \in [SourceKinds -> Nat]
    BY <1>4 DEF OwnTypes
  <2> QED BY <1>1, <2>1, <2>2, ReplacedTyped DEF Alone
<1>8. lease' \in [Requests -> Credentials \cup {None}] /\ inflight' \in [Credentials -> Int]
  <2>1. lease \in [Requests -> Credentials \cup {None}] /\ inflight \in [Credentials -> Int]
    BY DEF TypeOK
  <2> QED BY <2>1, LeaseEffects
<1>9. status' \in [Credentials -> Statuses]
  BY StatusTyped
<1>10. ASSUME NEW q \in Requests \ {r}
       PROVE  /\ pc'[q] = pc[q] /\ source'[q] = source[q] /\ attempt'[q] = attempt[q]
              /\ plan'[q] = plan[q] /\ lease'[q] = lease[q] /\ refused'[q] = refused[q]
  BY <1>1, Functions DEF Alone, AloneHere
<1>11. \A q \in Requests \ {r} : Planned(q)'
  BY <1>2, <1>10 DEF Planned, Plans, AtVertex, Source
<1>12. \A q \in Requests :
         IF pc'[q] \in {"forward", "refresh", "backoff"} /\ Source(q)' # "vertex"
         THEN lease'[q] \in Pool(Source(q))' ELSE lease'[q] = None
  <2>2. ASSUME NEW q \in Requests \ {r}
        PROVE  IF pc'[q] \in {"forward", "refresh", "backoff"} /\ Source(q)' # "vertex"
               THEN lease'[q] \in Pool(Source(q))' ELSE lease'[q] = None
    <3>1. Pool(Source(q))' = Pool(Source(q)) /\ Source(q)' = Source(q)
      BY <1>2, <1>10 DEF Pool, Source
    <3> QED BY <1>10, <3>1 DEF TypeOK
  <2> QED BY <1>4, <2>2 DEF OwnTypes, Holding, AtVertex
<1>13. /\ policy'.enabled \in BOOLEAN /\ policy'.rules \in Seq(Rules)
       /\ anthropic' \subseteq Keys /\ chats' \subseteq Requests
       /\ ask' \in [Requests -> Asks] /\ canceled' \in [Requests -> BOOLEAN]
       /\ moved' \in [Requests -> BOOLEAN]
  BY <1>2 DEF TypeOK
<1> QED BY <1>3, <1>6, <1>7, <1>8, <1>9, <1>11, <1>12, <1>13 DEF TypeOK, Places, Answers

(* A function on 1..n is a sequence.                                       *)
LEMMA IsSequence ==
  ASSUME NEW T, NEW n \in Nat, NEW f \in [1..n -> T]
  PROVE  f \in Seq(T)
OBVIOUS

(* Preserving the body is what a rule without a patch does.                *)
LEMMA Preserving ==
  ASSUME NEW rule \in Rules
  PROVE  [rule EXCEPT !.patch = "preserve"] \in Rules
<1>1. PICK e \in BOOLEAN, f \in Names, v \in Names, t \in Names, p \in Names :
        rule = [enabled |-> e, from |-> f, variant |-> v, to |-> t, patch |-> p]
  BY DEF Rules
<1>2. [rule EXCEPT !.patch = "preserve"]
        = [enabled |-> e, from |-> f, variant |-> v, to |-> t, patch |-> "preserve"]
  BY <1>1
<1>3. "preserve" \in Names
  BY MessagesAssumption DEF DefaultNames
<1> QED BY <1>2, <1>3 DEF Rules

(* A policy that was submitted, or the default one, is a policy.           *)
LEMMA PolicyTyped ==
  /\ DefaultPolicy.enabled \in BOOLEAN /\ DefaultPolicy.rules \in Seq(Rules)
  /\ \A p \in Puts : WithDefaults(p).enabled \in BOOLEAN /\ WithDefaults(p).rules \in Seq(Rules)
<1>1. DefaultPolicy.enabled \in BOOLEAN /\ DefaultPolicy.rules \in Seq(Rules)
  <2>1. ASSUME NEW from \in DefaultNames, NEW to \in DefaultNames
        PROVE  Rule(from, to) \in Rules
    <3>1. from \in Names /\ to \in Names /\ "" \in Names /\ "preserve" \in Names
      BY MessagesAssumption DEF DefaultNames
    <3> QED BY <3>1 DEF Rule, Rules
  <2>2. /\ Rule("claude-opus-4-7", "claude-opus-4-6") \in Rules
        /\ Rule("claude-haiku-4-5", "claude-sonnet-4-6") \in Rules
        /\ Rule("claude-sonnet-4-6", "claude-sonnet-4-6") \in Rules
    BY <2>1 DEF DefaultNames
  <2> QED BY <2>2 DEF DefaultPolicy
<1>2. ASSUME NEW p \in Puts
      PROVE  WithDefaults(p).enabled \in BOOLEAN /\ WithDefaults(p).rules \in Seq(Rules)
  <2>1. p \in [enabled : BOOLEAN, rules : Seq(Rules)]
    BY MessagesAssumption
  <2>2. CASE p.rules = << >>
    BY <1>1, <2>2 DEF WithDefaults
  <2>3. CASE p.rules # << >>
    <3> DEFINE rules == [i \in DOMAIN p.rules |->
                 IF p.rules[i].patch = "" THEN [p.rules[i] EXCEPT !.patch = "preserve"]
                 ELSE p.rules[i]]
    <3>1. p.rules \in Seq(Rules) /\ p.enabled \in BOOLEAN
      BY <2>1
    <3>2. /\ Len(p.rules) \in Nat /\ DOMAIN p.rules = 1..Len(p.rules)
          /\ \A i \in 1..Len(p.rules) : p.rules[i] \in Rules
      BY <3>1
    <3>3. rules \in [1..Len(p.rules) -> Rules]
      BY <3>2, Preserving
    <3>4. WithDefaults(p) = [p EXCEPT !.rules = rules]
      BY <2>3 DEF WithDefaults
    <3> HIDE DEF rules
    <3>5. rules \in Seq(Rules)
      BY <3>2, <3>3, IsSequence
    <3>6. WithDefaults(p).enabled = p.enabled /\ WithDefaults(p).rules = rules
      BY <2>1, <3>4
    <3> QED BY <3>1, <3>5, <3>6
  <2> QED BY <2>2, <2>3
<1> QED BY <1>1, <1>2

AllPlanned == \A r \in Requests : Planned(r)

(* Types and places, as one invariant.                                     *)
LEMMA Typed == Spec => [](TypeOK /\ AllPlanned)
<1>1. Init => TypeOK /\ AllPlanned
  <2> SUFFICES ASSUME Init PROVE TypeOK /\ AllPlanned
    OBVIOUS
  <2>1. policy.enabled \in BOOLEAN /\ policy.rules \in Seq(Rules)
    BY PolicyTyped DEF Init
  <2>2. 0 \in 0..MaxAttempts - 1 /\ 1 \in 1..2
    <3>1. MaxAttempts \in Nat /\ MaxAttempts > 0
      BY MessagesAssumption
    <3> QED BY <3>1
  <2>3. /\ plan = [r \in Requests |-> << >>] /\ << >> \in Seq(SourceKinds)
        /\ replies = [r \in Requests |-> << >>] /\ << >> \in Seq(Answers)
    BY DEF Init
  <2>4. plan \in [Requests -> Seq(SourceKinds)] /\ replies \in [Requests -> Seq(Answers)]
    BY <2>3
  <2>5. /\ status \in [Credentials -> Statuses] /\ inflight \in [Credentials -> Int]
        /\ anthropic \subseteq Keys /\ chats \subseteq Requests
        /\ ask \in [Requests -> Asks]
        /\ lease \in [Requests -> Credentials \cup {None}]
        /\ refreshed \in [Requests -> SUBSET Claudes]
        /\ canceled \in [Requests -> BOOLEAN] /\ refused \in [Requests -> SUBSET SourceKinds]
        /\ tried \in [Requests -> [SourceKinds -> Nat]] /\ moved \in [Requests -> BOOLEAN]
    BY DEF Init
  <2>6. /\ pc = [r \in Requests |-> "start"]
        /\ source \in [Requests -> 1..2] /\ attempt \in [Requests -> 0..MaxAttempts - 1]
        /\ \A r \in Requests : source[r] = 1 /\ attempt[r] = 0 /\ lease[r] = None
    BY <2>2 DEF Init
  <2>7. \A r \in Requests : Planned(r)
    BY <2>3, <2>6 DEF Planned
  <2> QED BY <2>1, <2>4, <2>5, <2>6, <2>7 DEF TypeOK, Answers, AllPlanned
<1>2. TypeOK /\ AllPlanned /\ [Next]_vars => TypeOK' /\ AllPlanned'
  <2> SUFFICES ASSUME TypeOK, \A r \in Requests : Planned(r), [Next]_vars
               PROVE  TypeOK' /\ \A r \in Requests : Planned(r)'
    BY DEF AllPlanned
  <2>1. CASE UNCHANGED vars
    BY <2>1 DEF vars, held, here, seen, asked, TypeOK, Planned, Plans, AtVertex, Source, Pool
  <2>2. ASSUME NEW r \in Requests, Request(r)
        PROVE  TypeOK' /\ \A q \in Requests : Planned(q)'
    BY <2>2, RequestTyped
  <2>3. ASSUME NEW r \in Requests, Cancel(r)
        PROVE  TypeOK' /\ \A q \in Requests : Planned(q)'
    BY <2>3 DEF Cancel, held, here, seen, asked, TypeOK, Planned, Plans, AtVertex, Source, Pool
  <2>4. ASSUME NEW c \in Credentials, Update(c)
        PROVE  TypeOK' /\ \A q \in Requests : Planned(q)'
    <3>1. status' \in [Credentials -> Statuses]
      BY <2>4 DEF Update, TypeOK
    <3> QED BY <2>4, <3>1 DEF Update, held, here, seen, asked, TypeOK, Planned, Plans,
            AtVertex, Source, Pool
  <2>5. ASSUME NEW p \in Puts, PutPolicy(p)
        PROVE  TypeOK' /\ \A q \in Requests : Planned(q)'
    <3>1. policy'.enabled \in BOOLEAN /\ policy'.rules \in Seq(Rules)
      BY <2>5, PolicyTyped DEF PutPolicy
    <3>2. moved' \in [Requests -> BOOLEAN]
      BY <2>5 DEF PutPolicy, TypeOK
    <3> QED BY <2>5, <3>1, <3>2 DEF PutPolicy, held, here, asked, TypeOK, Planned, Plans,
            AtVertex, Source, Pool
  <2> QED BY <2>1, <2>2, <2>3, <2>4, <2>5 DEF Next
<1> QED BY <1>1, <1>2, PTL DEF Spec

(* Every variable keeps its type, the loops stay within maxAttempts also   *)
(* when attempts are given back, and a request holds a lease of its source *)
(* exactly while it forwards, refreshes or backs off at a pool             *)
(* (messages.go:135-327, chat.go:66-147).                                  *)
THEOREM MessagesTypeCorrect == Spec => []TypeOK
BY Typed, PTL

-----------------------------------------------------------------------------
(* Leases.                                                                 *)

(* The requests that hold a credential are finitely many.                  *)
LEMMA HoldersFinite ==
  ASSUME NEW c
  PROVE  IsFiniteSet(Holders(c)) /\ Cardinality(Holders(c)) \in Nat
<1>1. Holders(c) \in SUBSET Requests
  BY DEF Holders
<1> QED BY <1>1, MessagesAssumption, FS_Subset, FS_CardinalityType

(* What is left of a step that is not a request's.                         *)
LEMMA Others ==
  ASSUME [Next]_vars, \A r \in Requests : ~Request(r)
  PROVE  UNCHANGED <<lease, inflight, chats, pc, source, attempt, plan, refreshed,
                     replies, refused, tried>>
BY DEF Next, vars, Cancel, Update, PutPolicy, held, here, seen, asked

(* Counts and leases change together.                                      *)
LEMMA BalanceKept ==
  ASSUME TypeOK, AllPlanned, LeasesBalanced, [Next]_vars
  PROVE  LeasesBalanced'
<1> SUFFICES ASSUME NEW d \in Credentials PROVE inflight'[d] = Cardinality(Holders(d)')
  BY DEF LeasesBalanced
<1>1. IsFiniteSet(Holders(d)) /\ Cardinality(Holders(d)) \in Nat
  BY HoldersFinite
<1>2. inflight[d] = Cardinality(Holders(d)) /\ inflight \in [Credentials -> Int]
  BY DEF LeasesBalanced, TypeOK
<1>3. CASE UNCHANGED <<lease, inflight>>
  <2>1. Holders(d)' = Holders(d)
    BY <1>3 DEF Holders
  <2> QED BY <1>2, <1>3, <2>1
<1>4. ASSUME NEW r \in Requests, NEW c \in Credentials, lease[r] = None,
             lease' = [lease EXCEPT ![r] = c], inflight' = [inflight EXCEPT ![c] = @ + 1]
      PROVE  inflight'[d] = Cardinality(Holders(d)')
  <2>1. CASE c = d
    <3>1. Holders(d)' = Holders(d) \cup {r} /\ r \notin Holders(d)
      <4>1. DOMAIN lease = Requests /\ lease[r] # d
        BY <1>4, <2>1, MessagesAssumption DEF TypeOK
      <4>2. lease'[r] = d /\ \A q \in Requests \ {r} : lease'[q] = lease[q]
        BY <1>4, <2>1, <4>1
      <4> QED BY <4>1, <4>2 DEF Holders
    <3>2. Cardinality(Holders(d)') = Cardinality(Holders(d)) + 1
      BY <1>1, <3>1, FS_AddElement
    <3> QED BY <1>2, <1>4, <2>1, <3>2
  <2>2. CASE c # d
    <3>1. Holders(d)' = Holders(d)
      BY <1>4, <2>2, MessagesAssumption DEF Holders, TypeOK
    <3> QED BY <1>2, <1>4, <2>2, <3>1
  <2> QED BY <2>1, <2>2
<1>5. ASSUME NEW r \in Requests, lease[r] \in Credentials,
             lease' = [lease EXCEPT ![r] = None],
             inflight' = [inflight EXCEPT ![lease[r]] = @ - 1]
      PROVE  inflight'[d] = Cardinality(Holders(d)')
  <2>1. CASE lease[r] = d
    <3>1. Holders(d)' = Holders(d) \ {r} /\ r \in Holders(d)
      BY <1>5, <2>1, MessagesAssumption DEF Holders, TypeOK
    <3>2. Cardinality(Holders(d)') = Cardinality(Holders(d)) - 1
      BY <1>1, <3>1, FS_RemoveElement
    <3> QED BY <1>2, <1>5, <2>1, <3>2
  <2>2. CASE lease[r] # d
    <3>1. Holders(d)' = Holders(d)
      BY <1>5, <2>2, MessagesAssumption DEF Holders, TypeOK
    <3> QED BY <1>2, <1>5, <2>2, <3>1
  <2> QED BY <2>1, <2>2
<1>6. ASSUME NEW r \in Requests, Request(r)
      PROVE  inflight'[d] = Cardinality(Holders(d)')
  <2>1. Planned(r)
    BY DEF AllPlanned
  <2> QED BY <1>3, <1>4, <1>5, <1>6, <2>1, LeaseEffects
<1> QED BY <1>3, <1>6, Others

(* The count of a credential is the number of requests that hold a lease   *)
(* on it, at whichever pool, whatever the upstream answers and whenever    *)
(* the client leaves (messages.go:142-243, 253-325, chat.go:66-147).       *)
THEOREM MessagesLeasesGivenBack == Spec => []LeasesBalanced
<1>1. Init => LeasesBalanced
  <2> SUFFICES ASSUME Init, NEW c \in Credentials
               PROVE  inflight[c] = Cardinality(Holders(c))
    BY DEF LeasesBalanced
  <2>1. Holders(c) = {}
    BY MessagesAssumption DEF Init, Holders
  <2> QED BY <2>1, FS_EmptySet DEF Init
<1> QED BY <1>1, BalanceKept, Typed, PTL DEF Spec

-----------------------------------------------------------------------------
(* Answers.                                                                *)

(* The other requests keep what is theirs.                                 *)
LEMMA OtherRequests ==
  ASSUME TypeOK, NEW r \in Requests, Alone(r), NEW q \in Requests \ {r}
  PROVE  /\ pc'[q] = pc[q] /\ source'[q] = source[q] /\ attempt'[q] = attempt[q]
         /\ plan'[q] = plan[q] /\ refreshed'[q] = refreshed[q]
         /\ replies'[q] = replies[q] /\ refused'[q] = refused[q] /\ tried'[q] = tried[q]
BY Functions DEF Alone, AloneHere

(* The answer ends the request, and a request that ends without one was    *)
(* canceled.                                                               *)
LEMMA OwnAnswer ==
  ASSUME TypeOK, NEW r \in Requests, Unanswered(r), OwnStep(r), UNCHANGED canceled
  PROVE  Unanswered(r)'
<1>1. pc[r] # "done" /\ replies[r] = << >>
  BY DEF OwnStep, Outside, Takes, GetsNothing, Retries, Returns, Refreshes, BacksOff,
     Repeats, AsksVertex, Holding, Unanswered
<1>2. ASSUME NEW what, Says(r, what), pc'[r] = "done" PROVE Unanswered(r)'
  <2>1. replies'[r] = <<what>>
    BY <1>1, <1>2 DEF Says
  <2>2. Len(<<what>>) = 1 /\ <<what>> # << >>
    OBVIOUS
  <2> QED BY <1>2, <2>1, <2>2 DEF Unanswered
<1>3. CASE Silent(r) /\ (pc'[r] # "done" \/ canceled[r])
  <2>1. Len(<< >>) <= 1
    OBVIOUS
  <2> QED BY <1>1, <1>3, <2>1 DEF Silent, Unanswered
<1>4. CASE Outside(r)
  <2>1. \A s : Entry(s) # "done"
    BY DEF Entry
  <2> QED BY <1>2, <1>3, <1>4, <2>1 DEF Outside, GoesTo
<1>5. CASE Returns(r)
  BY <1>2, <1>3, <1>5 DEF Returns, GoesTo
<1>6. CASE ~Outside(r) /\ ~Returns(r)
  <2>1. \A s : Entry(s) # "done"
    BY DEF Entry
  <2>2. Silent(r) /\ pc'[r] # "done"
    BY <1>6, <2>1 DEF OwnStep, Takes, GetsNothing, Retries, Refreshes, BacksOff,
       Repeats, AsksVertex, GoesTo, Again, Second, Over
  <2> QED BY <1>3, <2>2
<1> QED BY <1>4, <1>5, <1>6

AllUnanswered == \A r \in Requests : Unanswered(r)

(* The same, of all requests and all steps.                                *)
LEMMA AnswersKept ==
  ASSUME TypeOK, AllPlanned, AllUnanswered, [Next]_vars
  PROVE  AllUnanswered'
<1>1. ASSUME NEW r \in Requests, Request(r) PROVE AllUnanswered'
  <2>1. Alone(r) /\ OwnStep(r) /\ UNCHANGED canceled
    BY <1>1, Frame, OwnSteps DEF AllPlanned, Alone
  <2>2. Unanswered(r)'
    BY <2>1, OwnAnswer DEF AllUnanswered
  <2>3. ASSUME NEW q \in Requests \ {r} PROVE Unanswered(q)'
    BY <2>1, OtherRequests DEF AllUnanswered, Unanswered
  <2> QED BY <2>2, <2>3 DEF AllUnanswered
<1>2. CASE \A r \in Requests : ~Request(r)
  <2>1. UNCHANGED <<pc, replies>>
    BY <1>2, Others
  <2>2. \A r \in Requests : canceled[r] => canceled'[r]
    BY <1>2 DEF Next, vars, Cancel, Update, PutPolicy, TypeOK
  <2> QED BY <2>1, <2>2 DEF AllUnanswered, Unanswered
<1> QED BY <1>1, <1>2

(* That no request has been answered before it ends.                       *)
LEMMA Unspoken == Spec => []AllUnanswered
<1>1. Init => AllUnanswered
  BY DEF Init, AllUnanswered, Unanswered
<1> QED BY <1>1, AnswersKept, Typed, PTL DEF Spec

(* No request is answered twice, however many sources it works through and *)
(* rounds it makes, and one that ended unanswered lost its client before   *)
(* (messages.go:54-81, 344-402, chat.go:66-148).                           *)
THEOREM MessagesAnsweredOnce == Spec => []AnsweredOnce
<1>1. AllUnanswered => AnsweredOnce
  <2>1. Len(<< >>) <= 1
    OBVIOUS
  <2> QED BY <2>1 DEF AllUnanswered, Unanswered, AnsweredOnce
<1> QED BY <1>1, Unspoken, PTL

-----------------------------------------------------------------------------
(* How often a source is tried.                                            *)

(* One step of a request, of values known by their types.                  *)
LEMMA OwnNumbers ==
  ASSUME TypeOK, NEW r \in Requests
  PROVE  /\ attempt[r] \in Nat /\ attempt[r] < MaxAttempts /\ MaxAttempts \in Nat
         /\ \A s \in SourceKinds : tried[r][s] \in Nat
         /\ tried[r] \in [SourceKinds -> Nat]
<1>1. MaxAttempts \in Nat /\ attempt[r] \in 0..MaxAttempts - 1
  BY MessagesAssumption DEF TypeOK
<1>2. tried[r] \in [SourceKinds -> Nat]
  BY DEF TypeOK
<1> QED BY <1>1, <1>2

(* What a request has refreshed stays a finite set, and it grows by the    *)
(* account whose refresh begins.                                           *)
LEMMA RefreshedGrows ==
  ASSUME NEW r \in Requests, IsFiniteSet(refreshed[r]), OwnStep(r)
  PROVE  /\ IsFiniteSet(refreshed'[r])
         /\ \A s : Extra(r, s) \in Nat
         /\ \A s : Extra(r, s)' = Extra(r, s) + (IF Refreshes(r) /\ s = "claude" THEN 1 ELSE 0)
<1>1. Cardinality(refreshed[r]) \in Nat
  BY FS_CardinalityType
<1>2. CASE Refreshes(r)
  <2>1. refreshed'[r] = refreshed[r] \cup {lease[r]} /\ lease[r] \notin refreshed[r]
    BY <1>2 DEF Refreshes
  <2>2. /\ IsFiniteSet(refreshed[r] \cup {lease[r]})
        /\ Cardinality(refreshed[r] \cup {lease[r]}) = Cardinality(refreshed[r]) + 1
    BY <2>1, FS_AddElement
  <2>3. Cardinality(refreshed'[r]) = Cardinality(refreshed[r]) + 1
    BY <2>1, <2>2
  <2>4. /\ \A s : Extra(r, s) = IF s = "claude" THEN Cardinality(refreshed[r]) ELSE 0
        /\ \A s : Extra(r, s)' = IF s = "claude" THEN Cardinality(refreshed'[r]) ELSE 0
    BY DEF Extra
  <2> QED BY <1>1, <1>2, <2>1, <2>2, <2>3, <2>4
<1>3. CASE ~Refreshes(r)
  <2>1. refreshed'[r] = refreshed[r]
    BY <1>3 DEF OwnStep, Outside, Takes, GetsNothing, Retries, Returns, BacksOff, Repeats,
       AsksVertex, SameSeen, TurnedAway, Begins
  <2> QED BY <1>1, <1>3, <2>1 DEF Extra
<1> QED BY <1>2, <1>3

(* A forward is begun for the current source, or for none.                 *)
LEMMA TriedGrows ==
  ASSUME TypeOK, NEW r \in Requests, Planned(r), OwnStep(r)
  PROVE  \/ tried'[r] = tried[r] /\ ~Takes(r)
         \/ /\ pc[r] \in {"lease", "send"} /\ pc'[r] = "forward" /\ Stays(r)
            /\ Begins(r, Source(r)) /\ Source(r) \in SourceKinds /\ plan[r] # << >>
<1>1. CASE Takes(r)
  <2>1. plan[r] # << >> /\ Source(r) \in SourceKinds
    BY <1>1, HasPlan, SourceFacts DEF Takes
  <2> QED BY <1>1, <2>1 DEF Takes, GoesTo
<1>2. CASE AsksVertex(r)
  <2>1. CASE pc[r] = "send"
    <3>1. plan[r] # << >> /\ Source(r) \in SourceKinds
      BY <2>1, HasPlan, SourceFacts
    <3> QED BY <1>2, <2>1, <3>1 DEF AsksVertex, AtVertex, GoesTo
  <2>2. CASE pc[r] # "send"
    BY <1>2, <2>2 DEF AsksVertex, SameSeen, TurnedAway, Takes
  <2> QED BY <2>1, <2>2
<1>3. CASE ~Takes(r) /\ ~AsksVertex(r)
  BY <1>3 DEF OwnStep, Outside, GetsNothing, Retries, Returns, Refreshes, BacksOff, Repeats,
     SameSeen, TurnedAway
<1> QED BY <1>1, <1>2, <1>3

(* The order is fixed once; the place in it advances from 1 to 2.          *)
LEMMA OrderKept ==
  ASSUME TypeOK, NEW r \in Requests, Planned(r), OwnStep(r)
  PROVE  \/ plan[r] = << >> /\ source[r] = 1 /\ source'[r] = 1
         \/ /\ plan[r] # << >> /\ plan'[r] = plan[r]
            /\ source'[r] = source[r] \/ Second(r)
<1>1. CASE Outside(r)
  <2>1. CASE plan[r] = << >>
    BY <1>1, <2>1 DEF Outside, GoesTo, Stays, Planned
  <2>2. CASE plan[r] # << >>
    BY <1>1, <2>2 DEF Outside, GoesTo, Stays, Planned
  <2> QED BY <2>1, <2>2
<1>2. CASE ~Outside(r)
  <2>1. pc[r] \notin {"start", "order", "done"}
    BY <1>2 DEF OwnStep, Takes, GetsNothing, Retries, Returns, Refreshes, BacksOff,
       Repeats, AsksVertex, Holding
  <2>2. plan[r] # << >>
    BY <2>1, HasPlan
  <2>3. plan'[r] = plan[r] /\ (source'[r] = source[r] \/ Second(r))
    BY <1>2 DEF OwnStep, Takes, GetsNothing, Retries, Returns, Refreshes, BacksOff,
       Repeats, AsksVertex, GoesTo, Stays, Again, Over, Second
  <2> QED BY <2>2, <2>3
<1> QED BY <1>1, <1>2

(* No source sees more forwards than it was given rounds.                  *)
LEMMA OwnLimit ==
  ASSUME TypeOK, NEW r \in Requests, Planned(r), Limited(r), OwnStep(r)
  PROVE  Limited(r)'
<1>1. /\ IsFiniteSet(refreshed'[r])
      /\ \A s : Extra(r, s) \in Nat
      /\ \A s : Extra(r, s)' = Extra(r, s) + (IF Refreshes(r) /\ s = "claude" THEN 1 ELSE 0)
  BY RefreshedGrows DEF Limited
<1>2. \A s : Extra(r, s)' \in Nat /\ Extra(r, s)' >= Extra(r, s)
  BY <1>1
<1>3. /\ attempt[r] \in Nat /\ attempt[r] < MaxAttempts /\ MaxAttempts \in Nat
      /\ \A s \in SourceKinds : tried[r][s] \in Nat
      /\ tried[r] \in [SourceKinds -> Nat]
  BY OwnNumbers
<1>4. AtSource(r) => plan[r] # << >> /\ Source(r) \in SourceKinds
  BY HasPlan, SourceFacts DEF AtSource
<1>5. ASSUME pc[r] \in {"lease", "send"}, Begins(r, Source(r)), Source(r) \in SourceKinds
      PROVE  /\ tried'[r][Source(r)] = tried[r][Source(r)] + 1
             /\ tried[r][Source(r)] <= attempt[r] + Extra(r, Source(r))
             /\ \A s \in SourceKinds \ {Source(r)} : tried'[r][s] = tried[r][s]
  <2>1. tried[r][Source(r)] <= Counted(r) + Extra(r, Source(r)) /\ Counted(r) = attempt[r] + 0
    BY <1>5 DEF Limited, Within, Counted, AtSource
  <2>2. Counted(r) = attempt[r]
    BY <1>3, <2>1
  <2> QED BY <1>3, <1>5, <2>1, <2>2 DEF Begins
<1>6. ASSUME NEW s \in SourceKinds
      PROVE  tried'[r][s] <= MaxAttempts + Extra(r, s)'
  <2>1. tried[r][s] <= MaxAttempts + Extra(r, s) /\ tried[r][s] \in Nat
    BY <1>3 DEF Limited
  <2>2. CASE tried'[r] = tried[r]
    BY <1>1, <1>2, <1>3, <2>1, <2>2
  <2>3. CASE tried'[r] # tried[r]
    <3>1. pc[r] \in {"lease", "send"} /\ Begins(r, Source(r)) /\ Source(r) \in SourceKinds
      BY <2>3, TriedGrows
    <3>2. CASE s = Source(r)
      <4>1. tried'[r][s] = tried[r][s] + 1 /\ tried[r][s] <= attempt[r] + Extra(r, s)
        BY <1>5, <3>1, <3>2
      <4> QED BY <1>1, <1>2, <1>3, <4>1
    <3>3. CASE s # Source(r)
      <4>1. tried'[r][s] = tried[r][s]
        BY <1>5, <3>1, <3>3
      <4> QED BY <1>1, <1>2, <1>3, <2>1, <4>1
    <3> QED BY <3>2, <3>3
  <2> QED BY <2>2, <2>3
<1>7. ASSUME NEW s \in SourceKinds
      PROVE  \/ tried'[r][s] = 0
             \/ \E i \in 1..source'[r] : i \in DOMAIN plan'[r] /\ plan'[r][i] = s
  <2>1. CASE plan[r] = << >>
    <3>1. DOMAIN << >> = {}
      OBVIOUS
    <3>2. tried[r][s] = 0
      BY <2>1, <3>1 DEF Limited
    <3>3. tried'[r] = tried[r]
      BY <2>1, TriedGrows
    <3> QED BY <3>2, <3>3
  <2>2. CASE plan[r] # << >>
    <3>1. /\ plan'[r] = plan[r] /\ DOMAIN plan[r] = 1..Len(plan[r])
          /\ source[r] \in 1..Len(plan[r]) /\ source[r] \in {1, 2}
      BY <2>2, OrderKept, SourceFacts
    <3>2. 1..source[r] \subseteq 1..source'[r] /\ source[r] \in 1..source'[r]
      <4>1. CASE source'[r] = source[r]
        BY <3>1, <4>1
      <4>2. CASE Second(r)
        BY <3>1, <4>2 DEF Second
      <4> QED BY <2>2, <4>1, <4>2, OrderKept
    <3>3. CASE \E i \in 1..source[r] : i \in DOMAIN plan[r] /\ plan[r][i] = s
      BY <3>1, <3>2, <3>3
    <3>4. CASE tried[r][s] = 0 /\ tried'[r][s] # 0
      <4>1. s = Source(r)
        BY <1>5, <3>4, TriedGrows
      <4> QED BY <3>1, <3>2, <4>1 DEF Source
    <3> QED BY <3>3, <3>4 DEF Limited
  <2> QED BY <2>1, <2>2
<1>8. ASSUME AtSource(r)', NEW k, k = Source(r)'
      PROVE  tried'[r][k] <= Counted(r)' + Extra(r, k)'
  <2> DEFINE Goal == tried'[r][k] <= Counted(r)' + Extra(r, k)'
  <2>1. ASSUME AtSource(r), Stays(r), tried'[r] = tried[r],
               Counted(r)' + Extra(r, k)' >= Counted(r) + Extra(r, k)
        PROVE  Goal
    <3>1. k = Source(r) /\ Counted(r) \in Nat /\ Counted(r)' \in Nat
      BY <1>3, <1>8, <2>1 DEF Stays, Source, Counted
    <3>2. tried[r][k] <= Counted(r) + Extra(r, k) /\ tried[r][k] \in Nat
      BY <1>3, <1>4, <2>1, <3>1 DEF Limited, Within
    <3> QED BY <1>1, <1>2, <2>1, <3>1, <3>2
  <2>2. ASSUME tried'[r] = tried[r], k \in SourceKinds, tried[r][k] = 0, attempt'[r] = 0
        PROVE  Goal
    <3>1. Counted(r)' \in Nat
      BY <2>2 DEF Counted
    <3> QED BY <1>1, <1>2, <2>2, <3>1
  <2>3. ASSUME Second(r), tried'[r] = tried[r], plan[r] # << >> PROVE Goal
    <3>1. k = plan[r][2] /\ source[r] = 1 /\ attempt'[r] = 0
      BY <1>8, <2>3 DEF Second, Source
    <3>2. plan[r][2] \in SourceKinds /\ plan[r][2] # plan[r][1]
      BY <2>3, SourceFacts, OrderFacts DEF Second
    <3>3. tried[r][plan[r][2]] = 0
      BY <3>1, <3>2 DEF Limited
    <3> QED BY <2>2, <2>3, <3>1, <3>2, <3>3
  <2>4. ASSUME Again(r), AtSource(r), tried'[r] = tried[r], ~Refreshes(r),
               pc[r] = "wait" => ~AtVertex(r)
        PROVE  Goal
    <3>1. k = Source(r) /\ Counted(r)' = attempt[r] + 1
      <4>1. k = Source(r) /\ Counted(r)' = attempt'[r] + 0
        BY <1>8, <2>4 DEF Again, Source, Counted
      <4> QED BY <1>3, <2>4, <4>1 DEF Again
    <3>2. Counted(r) \in Nat /\ Counted(r) <= attempt[r] + 1
      BY <1>3 DEF Counted
    <3>3. tried[r][k] <= Counted(r) + Extra(r, k) /\ tried[r][k] \in Nat
      BY <1>3, <1>4, <2>4, <3>1 DEF Limited, Within
    <3> QED BY <1>1, <1>2, <1>3, <2>4, <3>1, <3>2, <3>3
  <2>5. Over(r) => ~AtSource(r)'
    BY DEF Over, GoesTo, AtSource
  <2>6. CASE Outside(r)
    <3>1. pc[r] = "order" /\ tried'[r] = tried[r] /\ plan'[r] = SourceOrder(r)
          /\ source'[r] = source[r] /\ attempt'[r] = attempt[r]
      BY <1>8, <2>6 DEF Outside, GoesTo, AtSource, SameSeen
    <3>2. plan[r] = << >> /\ source'[r] = 1 /\ attempt'[r] = 0
      BY <3>1 DEF Planned
    <3>3. plan'[r] \in {Chat, Fallback} \cup Plain
      BY <3>1 DEF SourceOrder, Chat, Fallback, Plain
    <3>4. k \in SourceKinds
      BY <1>8, <3>2, <3>3, OrderFacts DEF Source
    <3>5. tried[r][k] = 0
      <4>1. DOMAIN << >> = {}
        OBVIOUS
      <4> QED BY <3>2, <3>4, <4>1 DEF Limited
    <3> QED BY <2>2, <3>1, <3>2, <3>4, <3>5
  <2>7. CASE pc[r] \in {"lease", "send"} /\ pc'[r] = "forward" /\ Stays(r)
             /\ Begins(r, Source(r)) /\ Source(r) \in SourceKinds
    <3>1. tried'[r][Source(r)] = tried[r][Source(r)] + 1
          /\ tried[r][Source(r)] <= attempt[r] + Extra(r, Source(r))
      BY <1>5, <2>7
    <3>2. k = Source(r) /\ Counted(r)' = attempt[r] + 1
      BY <1>8, <2>7 DEF Stays, Source, Counted
    <3> QED BY <1>1, <1>2, <1>3, <2>7, <3>1, <3>2
  <2>8. CASE Takes(r)
    BY <2>7, <2>8, TriedGrows
  <2>9. CASE GetsNothing(r)
    <3>1. AtSource(r) /\ tried'[r] = tried[r] /\ ~AtVertex(r) /\ ~Refreshes(r)
      BY <2>9 DEF GetsNothing, AtSource, TurnedAway, Refreshes
    <3>2. ASSUME NEW where \in {"exhausted", "wait"}, GoesTo(r, where) PROVE Goal
      <4>1. Stays(r) /\ AtVertex(r)' = AtVertex(r)
        BY <3>2 DEF GoesTo, Stays, AtVertex, Source
      <4>2. Counted(r) = attempt[r] + 0 /\ Counted(r)' = attempt[r] + 0
        BY <2>9, <3>1, <3>2, <4>1 DEF GetsNothing, GoesTo, Stays, Counted
      <4> QED BY <1>1, <1>2, <1>3, <2>1, <3>1, <4>1, <4>2
    <3> QED BY <1>4, <1>8, <2>3, <2>4, <2>5, <2>9, <3>1, <3>2 DEF GetsNothing
  <2>10. CASE Retries(r)
    <3>1. AtSource(r) /\ tried'[r] = tried[r] /\ ~AtVertex(r)
      BY <2>10 DEF Retries, Holding, AtSource, SameSeen
    <3>2. Again(r) => ~Refreshes(r)
      BY DEF Again, Refreshes, GoesTo
    <3> QED BY <1>4, <1>8, <2>3, <2>4, <2>5, <2>10, <3>1, <3>2 DEF Retries
  <2>11. CASE Returns(r)
    BY <1>8, <2>11 DEF Returns, GoesTo, AtSource
  <2>12. CASE Refreshes(r)
    <3>1. AtSource(r) /\ Stays(r) /\ tried'[r] = tried[r] /\ Source(r) = "claude"
      BY <2>12 DEF Refreshes, GoesTo, AtSource
    <3>2. Counted(r) = attempt[r] + 1 /\ Counted(r)' = attempt[r] + 0
      BY <2>12 DEF Refreshes, GoesTo, Stays, Counted
    <3>3. k = "claude"
      BY <1>8, <3>1 DEF Stays, Source
    <3>4. Extra(r, k)' = Extra(r, k) + 1 /\ Extra(r, k) \in Nat
      BY <1>1, <2>12, <3>3
    <3>5. Counted(r)' + Extra(r, k)' >= Counted(r) + Extra(r, k)
      BY <1>3, <3>2, <3>4
    <3> QED BY <2>1, <3>1, <3>5
  <2>13. CASE BacksOff(r)
    <3>1. AtSource(r) /\ Stays(r) /\ tried'[r] = tried[r]
      BY <2>13 DEF BacksOff, GoesTo, AtSource, SameSeen
    <3>2. Counted(r) = attempt[r] + 1 /\ Counted(r)' = attempt[r] + 1
      BY <2>13 DEF BacksOff, GoesTo, Stays, Counted
    <3> QED BY <1>1, <1>2, <1>3, <2>1, <3>1, <3>2
  <2>14. CASE Repeats(r)
    <3>1. AtSource(r) /\ Stays(r) /\ tried'[r] = tried[r]
      BY <2>14 DEF Repeats, GoesTo, AtSource, SameSeen
    <3>2. Counted(r) = attempt[r] + 0 /\ Counted(r)' = attempt[r] + 0
      BY <2>14 DEF Repeats, GoesTo, Stays, Counted
    <3> QED BY <1>1, <1>2, <1>3, <2>1, <3>1, <3>2
  <2>15. CASE AsksVertex(r)
    <3>1. AtVertex(r)
      BY <2>15 DEF AsksVertex
    <3>2. CASE pc[r] = "send"
      <4>1. GoesTo(r, "forward") /\ Begins(r, Source(r)) /\ plan[r] # << >>
        BY <2>15, <3>2, HasPlan DEF AsksVertex, AtVertex
      <4> QED BY <2>7, <3>2, <4>1, SourceFacts DEF GoesTo
    <3>3. CASE pc[r] = "match"
      <4>1. GoesTo(r, "send") /\ SameSeen(r)
        BY <1>8, <2>5, <2>15, <3>3 DEF AsksVertex
      <4>2. Counted(r) = attempt[r] + 0 /\ Counted(r)' = attempt[r] + 0
        BY <3>3, <4>1 DEF GoesTo, Stays, Counted
      <4> QED BY <1>1, <1>2, <1>3, <2>1, <3>3, <4>1, <4>2 DEF GoesTo, AtSource, SameSeen
    <3>4. CASE pc[r] = "forward"
      <4>1. /\ SameSeen(r) /\ Stays(r) /\ pc'[r] \in {"wait", "backoff"}
            /\ AtVertex(r)'
        BY <2>15, <3>1, <3>4 DEF AsksVertex, GoesTo, Stays, AtVertex, Source
      <4>2. Counted(r) = attempt[r] + 1 /\ Counted(r)' = attempt[r] + 1
        BY <3>4, <4>1 DEF Stays, Counted
      <4> QED BY <1>1, <1>2, <1>3, <2>1, <3>4, <4>1, <4>2 DEF AtSource, SameSeen
    <3>5. CASE pc[r] \in {"wait", "backoff"}
      <4>1. /\ tried'[r] = tried[r] /\ AtSource(r) /\ k = Source(r)
            /\ pc'[r] = "send" /\ attempt'[r] = attempt[r] + 1
        BY <1>8, <2>15, <3>5 DEF AsksVertex, SameSeen, AtSource, Source
      <4>2. Counted(r) = attempt[r] + 1 /\ Counted(r)' = attempt[r] + 1 + 0
        BY <3>1, <3>5, <4>1 DEF Counted
      <4>3. tried[r][k] <= Counted(r) + Extra(r, k) /\ tried[r][k] \in Nat
        BY <1>3, <1>4, <4>1 DEF Limited, Within
      <4> QED BY <1>1, <1>2, <1>3, <4>1, <4>2, <4>3
    <3> QED BY <2>15, <3>2, <3>3, <3>4, <3>5 DEF AsksVertex
  <2> QED BY <2>6, <2>8, <2>9, <2>10, <2>11, <2>12, <2>13, <2>14, <2>15 DEF OwnStep
<1>9. AtSource(r)' => Within(r)'
  <2> SUFFICES ASSUME AtSource(r)', NEW k, k = Source(r)' PROVE Within(r)'
    OBVIOUS
  <2>1. tried'[r][k] <= Counted(r)' + Extra(r, k)'
    BY <1>8
  <2> QED BY <2>1 DEF Within, Extra
<1> QED BY <1>1, <1>6, <1>7, <1>9 DEF Limited

AllLimited == \A r \in Requests : Limited(r)

(* The same, of all requests and all steps.                                *)
LEMMA LimitKept ==
  ASSUME TypeOK, AllPlanned, AllLimited, [Next]_vars
  PROVE  AllLimited'
<1>1. ASSUME NEW r \in Requests, Request(r) PROVE AllLimited'
  <2>1. Alone(r) /\ OwnStep(r)
    BY <1>1, Frame, OwnSteps DEF AllPlanned
  <2>2. Limited(r)'
    BY <2>1, OwnLimit DEF AllPlanned, AllLimited
  <2>3. ASSUME NEW q \in Requests \ {r} PROVE Limited(q)'
    <3>1. /\ pc'[q] = pc[q] /\ source'[q] = source[q] /\ attempt'[q] = attempt[q]
          /\ plan'[q] = plan[q] /\ refreshed'[q] = refreshed[q] /\ tried'[q] = tried[q]
      BY <2>1, OtherRequests
    <3>2. Limited(q)
      BY DEF AllLimited
    <3> QED BY <3>1, <3>2 DEF Limited, Within, Counted, Extra, AtSource, AtVertex, Source
  <2> QED BY <2>2, <2>3 DEF AllLimited
<1>2. CASE \A r \in Requests : ~Request(r)
  <2>1. UNCHANGED <<pc, source, attempt, plan, refreshed, tried>>
    BY <1>2, Others
  <2>2. ASSUME NEW q \in Requests PROVE Limited(q)'
    <3>1. Limited(q)
      BY DEF AllLimited
    <3> QED BY <2>1, <3>1 DEF Limited, Within, Counted, Extra, AtSource, AtVertex, Source
  <2> QED BY <2>2 DEF AllLimited
<1> QED BY <1>1, <1>2

(* That every request stays within its rounds.                             *)
LEMMA Rounds == Spec => [](AllPlanned /\ AllLimited)
<1>1. Init => AllLimited
  <2> SUFFICES ASSUME Init, NEW r \in Requests PROVE Limited(r)
    BY DEF AllLimited
  <2>1. IsFiniteSet(refreshed[r]) /\ Cardinality(refreshed[r]) = 0
    BY FS_EmptySet DEF Init
  <2>2. MaxAttempts \in Nat
    BY MessagesAssumption
  <2>3. \A s \in SourceKinds : tried[r][s] = 0 /\ Extra(r, s) = 0
    BY <2>1 DEF Init, Extra
  <2>4. ~AtSource(r)
    BY DEF Init, AtSource
  <2> QED BY <2>1, <2>2, <2>3, <2>4 DEF Limited
<1> QED BY <1>1, LimitKept, Typed, PTL DEF Spec

(* A request does not spend both Vertex and the Anthropic keys, whatever   *)
(* policies are put meanwhile: a source is tried only if the order has it, *)
(* and the order is computed once (messages.go:58, 102-119).               *)
THEOREM MessagesOneKindOfFallback == Spec => []OneKindOfFallback
<1>1. AllPlanned /\ AllLimited => OneKindOfFallback
  <2> SUFFICES ASSUME AllPlanned, AllLimited, NEW r \in Requests,
                      tried[r]["vertex"] # 0, tried[r]["anthropic"] # 0
               PROVE  FALSE
    BY DEF OneKindOfFallback
  <2>1. "vertex" \in SourceKinds /\ "anthropic" \in SourceKinds
    BY DEF SourceKinds
  <2>2. PICK i \in 1..source[r] : i \in DOMAIN plan[r] /\ plan[r][i] = "vertex"
    BY <2>1 DEF AllLimited, Limited
  <2>3. PICK j \in 1..source[r] : j \in DOMAIN plan[r] /\ plan[r][j] = "anthropic"
    BY <2>1 DEF AllLimited, Limited
  <2>4. DOMAIN << >> = {}
    OBVIOUS
  <2>5. plan[r] \in {Chat, Fallback} \cup Plain
    BY <2>2, <2>4 DEF AllPlanned, Planned, Plans
  <2> QED BY <2>2, <2>3, <2>5, OrderFacts
<1> QED BY <1>1, Rounds, PTL

(* A source sees at most maxAttempts forwards and one more for every       *)
(* account that was refreshed, though a refresh gives its attempt back     *)
(* (messages.go:141-142, 179-189).                                         *)
THEOREM MessagesForwardsBounded == Spec => []ForwardsBounded
<1>1. AllLimited => ForwardsBounded
  BY DEF AllLimited, Limited, Extra, ForwardsBounded
<1> QED BY <1>1, Rounds, PTL

-----------------------------------------------------------------------------
(* In which order the sources are left.                                    *)

(* What is used up stays used up.                                          *)
LEMMA StaysUsedUp ==
  ASSUME TypeOK, NEW r \in Requests, Planned(r), OwnStep(r), NEW s \in SourceKinds
  PROVE  /\ tried'[r][s] \in Nat /\ tried'[r][s] >= tried[r][s] /\ tried[r][s] \in Nat
         /\ refused[r] \subseteq refused'[r]
         /\ UsedUp(r, s) => UsedUp(r, s)'
<1>1. /\ MaxAttempts \in Nat /\ tried[r] \in [SourceKinds -> Nat]
  BY OwnNumbers
<1>2. tried'[r][s] \in Nat /\ tried'[r][s] >= tried[r][s] /\ tried[r][s] \in Nat
  <2>1. CASE tried'[r] = tried[r]
    BY <1>1, <2>1
  <2>2. ASSUME NEW k \in SourceKinds, Begins(r, k)
        PROVE  tried'[r][s] \in Nat /\ tried'[r][s] >= tried[r][s] /\ tried[r][s] \in Nat
    <3>1. tried'[r][s] = tried[r][s] \/ tried'[r][s] = tried[r][s] + 1
      BY <1>1, <2>2 DEF Begins
    <3> QED BY <1>1, <3>1
  <2> QED BY <2>1, <2>2, TriedGrows
<1>3. refused[r] \subseteq refused'[r]
  BY DEF OwnStep, Outside, Takes, GetsNothing, Retries, Returns, Refreshes, BacksOff,
     Repeats, AsksVertex, SameSeen, TurnedAway, Begins
<1>4. UsedUp(r, s) => UsedUp(r, s)'
  BY <1>1, <1>2, <1>3 DEF UsedUp
<1> QED BY <1>2, <1>3, <1>4

(* A request leaves a source that is used up.                              *)
LEMMA OwnOrder ==
  ASSUME TypeOK, NEW r \in Requests, Planned(r), InOrder(r), OwnStep(r)
  PROVE  InOrder(r)'
<1>1. /\ attempt[r] \in Nat /\ attempt[r] < MaxAttempts /\ MaxAttempts \in Nat
  BY OwnNumbers
<1>2. ASSUME AtSource(r) \/ pc[r] = "exhausted all"
      PROVE  plan[r] # << >> /\ Source(r) \in SourceKinds
  BY <1>2, HasPlan, SourceFacts DEF AtSource
<1>3. ASSUME NEW k \in SourceKinds
      PROVE  /\ tried'[r][k] \in Nat /\ tried'[r][k] >= tried[r][k] /\ tried[r][k] \in Nat
             /\ k \in refused[r] => k \in refused'[r]
             /\ UsedUp(r, k) => UsedUp(r, k)'
  BY <1>3, StaysUsedUp
<1>4. ASSUME Stays(r) \/ Again(r) \/ source'[r] = 1
      PROVE  \A i \in 1..source'[r] - 1 : UsedUp(r, plan[r][i])'
  <2>1. CASE source'[r] = 1
    BY <2>1
  <2>2. CASE source'[r] # 1
    <3>1. source'[r] = source[r] /\ plan'[r] = plan[r] /\ plan[r] # << >>
      BY <1>4, <2>2 DEF Planned, Stays, Again
    <3>2. source[r] = 2 /\ Len(plan[r]) \in {1, 2} /\ plan[r][1] \in SourceKinds
      BY <2>2, <3>1, SourceFacts, OrderFacts
    <3>3. PICK k \in SourceKinds : k = plan[r][1]
      BY <3>2
    <3>4. UsedUp(r, k)
      <4>1. 1 \in 1..source[r] - 1
        BY <3>2
      <4>2. UsedUp(r, plan[r][1])
        BY <4>1 DEF InOrder
      <4> QED BY <3>3, <4>2, Zenon
    <3>5. UsedUp(r, k)'
      BY <1>3, <3>4
    <3>6. \A i \in 1..source'[r] - 1 : plan'[r][i] = k
      BY <3>1, <3>2, <3>3
    <3> QED BY <3>5, <3>6 DEF UsedUp
  <2> QED BY <2>1, <2>2
<1>5. ASSUME Second(r), plan[r] # << >>, NEW k \in SourceKinds, k = Source(r), UsedUp(r, k)'
      PROVE  InOrder(r)'
  <2>1. /\ source'[r] = 2 /\ attempt'[r] = 0 /\ pc'[r] \in {"lease", "match"}
        /\ plan'[r] = plan[r] /\ k = plan[r][1] /\ Len(plan[r]) = 2
    BY <1>5 DEF Second, Entry, Source
  <2>2. \A i \in 1..source'[r] - 1 : plan'[r][i] = k
    BY <2>1
  <2>3. \A i \in 1..source'[r] - 1 : UsedUp(r, plan[r][i])'
    BY <1>5, <2>2 DEF UsedUp
  <2>4. PICK j : j = plan[r][2]
    OBVIOUS
  <2>5. j \in SourceKinds
    BY <1>5, <2>1, <2>4, SourceFacts, OrderFacts
  <2>6. Begun(r)' = 0
    BY <2>1 DEF Begun, Holding
  <2>7. Source(r)' = j /\ tried'[r][j] >= 0
    BY <1>3, <2>1, <2>4, <2>5 DEF Source
  <2> QED BY <2>1, <2>3, <2>6, <2>7 DEF InOrder
<1>6. ASSUME Over(r), NEW k \in SourceKinds, k = Source(r), UsedUp(r, k)'
      PROVE  InOrder(r)'
  <2>1. /\ pc'[r] = "exhausted all" /\ Stays(r) /\ source[r] = Len(plan[r])
        /\ Source(r)' = k
    BY <1>6 DEF Over, GoesTo, Stays, Source
  <2>2. UsedUp(r, Source(r))'
    BY <1>6, <2>1 DEF UsedUp
  <2> QED BY <1>4, <2>1, <2>2 DEF InOrder, AtSource, Stays
<1>7. ASSUME Stays(r) \/ Again(r), pc'[r] # "exhausted all",
             NEW k \in SourceKinds, k = Source(r),
             AtVertex(r) \/ k \in refused'[r] \/ tried'[r][k] >= Begun(r)'
      PROVE  InOrder(r)'
  <2>1. Source(r)' = k /\ AtVertex(r)' = AtVertex(r)
    BY <1>7 DEF Stays, Again, Source, AtVertex
  <2> QED BY <1>4, <1>7, <2>1 DEF InOrder
<1>8. CASE Outside(r)
  <2>1. CASE pc[r] = "start"
    BY <1>4, <1>8, <2>1 DEF Outside, GoesTo, InOrder, AtSource
  <2>2. CASE pc[r] = "exhausted all"
    BY <1>4, <1>8, <2>2 DEF Outside, GoesTo, InOrder, AtSource
  <2>3. CASE pc[r] = "order"
    <3>1. /\ plan'[r] = SourceOrder(r) /\ pc'[r] = Entry(plan'[r][1])
          /\ source'[r] = 1 /\ attempt'[r] = 0
      BY <1>8, <2>3 DEF Outside, Planned
    <3>2. plan'[r] \in {Chat, Fallback} \cup Plain
      BY <3>1 DEF SourceOrder, Chat, Fallback, Plain
    <3>3. PICK k : k = plan'[r][1]
      OBVIOUS
    <3>4. k \in SourceKinds /\ Source(r)' = k
      BY <3>1, <3>2, <3>3, OrderFacts DEF Source
    <3>5. Begun(r)' = 0 /\ tried'[r][k] >= 0 /\ pc'[r] # "exhausted all"
      <4>1. pc'[r] \in {"lease", "match"}
        BY <3>1 DEF Entry
      <4>2. tried'[r][k] >= 0
        BY <1>3, <3>4
      <4>3. Begun(r)' = 0 + 0
        BY <3>1, <4>1 DEF Begun, Holding
      <4>4. 0 + 0 = 0
        OBVIOUS
      <4> QED BY <4>1, <4>2, <4>3, <4>4, Zenon
    <3> QED BY <1>4, <3>1, <3>4, <3>5 DEF InOrder
  <2> QED BY <1>8, <2>1, <2>2, <2>3 DEF Outside
<1>9. ASSUME AtSource(r), NEW k \in SourceKinds, k = Source(r)
      PROVE  InOrder(r)'
  <2>1. AtVertex(r) \/ k \in refused[r] \/ tried[r][k] >= Begun(r)
    BY <1>9 DEF InOrder
  <2>2. /\ tried'[r][k] \in Nat /\ tried'[r][k] >= tried[r][k] /\ tried[r][k] \in Nat
        /\ k \in refused[r] => k \in refused'[r]
    BY <1>3
  <2>3. /\ Holding(r) => Begun(r) = attempt[r] + 1
        /\ ~Holding(r) => Begun(r) = attempt[r]
        /\ Holding(r)' => Begun(r)' = attempt'[r] + 1
        /\ ~Holding(r)' /\ Stays(r) => Begun(r)' = attempt[r]
        /\ Again(r) => Begun(r)' = attempt[r] + 1
    BY <1>1 DEF Begun, Again, Holding, Stays
  <2>4. CASE Takes(r)
    <3>1. Holding(r)' /\ ~Holding(r) /\ attempt'[r] = attempt[r] /\ Stays(r)
      BY <2>4 DEF Takes, GoesTo, Stays, Holding
    <3>2. tried'[r][k] = tried[r][k] + 1
      <4>1. tried[r] \in [SourceKinds -> Nat]
        BY OwnNumbers
      <4> QED BY <1>9, <2>4, <4>1 DEF Takes, Begins
    <3>3. AtVertex(r) \/ k \in refused'[r] \/ tried'[r][k] >= Begun(r)'
      BY <1>1, <2>1, <2>2, <2>3, <3>1, <3>2
    <3> QED BY <1>7, <1>9, <2>4, <3>1, <3>3 DEF Takes, GoesTo
  <2>5. CASE GetsNothing(r)
    <3>1. k \in refused'[r]
      BY <1>9, <2>5 DEF GetsNothing, TurnedAway
    <3>2. UsedUp(r, k)'
      BY <3>1 DEF UsedUp
    <3>3. ASSUME NEW where \in {"exhausted", "wait"}, GoesTo(r, where) PROVE InOrder(r)'
      BY <1>7, <1>9, <3>1, <3>3 DEF GoesTo
    <3>4. Again(r) => InOrder(r)'
      BY <1>7, <1>9, <3>1 DEF Again
    <3> QED BY <1>2, <1>5, <1>6, <1>9, <2>5, <3>2, <3>3, <3>4 DEF GetsNothing
  <2>6. CASE Retries(r)
    <3>1. Holding(r) /\ ~AtVertex(r)
      BY <2>6 DEF Retries
    <3>2. Again(r) => InOrder(r)'
      <4>1. ASSUME Again(r) PROVE k \in refused'[r] \/ tried'[r][k] >= Begun(r)'
        BY <1>1, <2>1, <2>2, <2>3, <3>1, <4>1
      <4> QED BY <1>7, <1>9, <4>1 DEF Again
    <3>3. attempt[r] + 1 = MaxAttempts => UsedUp(r, k)'
      <4>1. attempt[r] + 1 = MaxAttempts => UsedUp(r, k)
        BY <1>1, <2>1, <2>2, <2>3, <3>1 DEF UsedUp
      <4> QED BY <1>3, <4>1
    <3> QED BY <1>2, <1>5, <1>6, <1>9, <2>6, <3>2, <3>3 DEF Retries
  <2>7. CASE Returns(r)
    BY <1>4, <2>7 DEF Returns, GoesTo, InOrder, AtSource
  <2>8. CASE Refreshes(r) \/ BacksOff(r) \/ Repeats(r)
    <3>1. /\ Holding(r) /\ attempt'[r] = attempt[r] /\ Stays(r)
          /\ pc'[r] # "exhausted all"
      BY <2>8 DEF Refreshes, BacksOff, Repeats, GoesTo, Stays, Holding
    <3>2. Begun(r) = attempt[r] + 1 /\ Begun(r)' \in Nat /\ Begun(r)' <= attempt[r] + 1
      <4>1. Begun(r) = attempt[r] + 1
        BY <3>1 DEF Begun
      <4>2. Begun(r)' = attempt[r] + (IF Holding(r)' THEN 1 ELSE 0)
        BY <3>1 DEF Begun
      <4>3. (IF Holding(r)' THEN 1 ELSE 0) \in {0, 1}
        OBVIOUS
      <4> QED BY <1>1, <4>1, <4>2, <4>3
    <3>3. tried[r][k] >= attempt[r] + 1 => tried'[r][k] >= Begun(r)'
      BY <1>1, <2>2, <3>2
    <3>4. AtVertex(r) \/ k \in refused'[r] \/ tried'[r][k] >= Begun(r)'
      BY <2>1, <2>2, <3>2, <3>3
    <3> QED BY <1>7, <1>9, <3>1, <3>4
  <2>9. CASE AsksVertex(r)
    <3>1. AtVertex(r)
      BY <2>9 DEF AsksVertex
    <3>2. CASE TurnedAway(r) /\ Over(r)
      <4>1. UsedUp(r, k)'
        BY <1>9, <3>2 DEF TurnedAway, UsedUp
      <4> QED BY <1>6, <1>9, <3>2, <4>1
    <3>3. CASE pc'[r] # "exhausted all" /\ Stays(r)
      BY <1>7, <1>9, <3>1, <3>3
    <3>4. CASE pc[r] \in {"wait", "backoff"}
      <4>1. /\ pc'[r] = "send" /\ source'[r] = source[r] /\ plan'[r] = plan[r]
        BY <2>9, <3>4 DEF AsksVertex
      <4>2. AtVertex(r)'
        BY <3>1, <4>1 DEF AtVertex, Source
      <4>3. \A i \in 1..source'[r] - 1 : UsedUp(r, plan[r][i])'
        <5>1. ASSUME NEW i \in 1..source'[r] - 1 PROVE UsedUp(r, plan[r][i])'
          <6>1. i = 1 /\ source[r] = 2
            BY <1>2, <1>9, <4>1, SourceFacts
          <6>2. PICK j : j = plan[r][1]
            OBVIOUS
          <6>3. j \in SourceKinds
            BY <1>2, <1>9, <6>2, SourceFacts, OrderFacts
          <6>4. UsedUp(r, j)
            <7>1. 1 \in 1..source[r] - 1
              BY <6>1
            <7>2. UsedUp(r, plan[r][1])
              BY <7>1 DEF InOrder
            <7> QED BY <6>2, <7>2, Zenon
          <6>5. UsedUp(r, j)'
            BY <1>3, <6>3, <6>4
          <6> QED BY <4>1, <6>1, <6>2, <6>5 DEF UsedUp
        <5> QED BY <5>1
      <4> QED BY <4>1, <4>2, <4>3 DEF InOrder
    <3> QED BY <2>9, <3>2, <3>3, <3>4 DEF AsksVertex, GoesTo
  <2>10. ~Outside(r)
    BY <1>9 DEF AtSource, Outside
  <2> QED BY <2>4, <2>5, <2>6, <2>7, <2>8, <2>9, <2>10 DEF OwnStep
<1>10. CASE AtSource(r)
  BY <1>2, <1>9, <1>10
<1>11. ~Outside(r) => AtSource(r)
  BY DEF OwnStep, Takes, GetsNothing, Retries, Returns, Refreshes, BacksOff, Repeats,
     AsksVertex, Holding, AtSource
<1> QED BY <1>8, <1>10, <1>11

AllInOrder == \A r \in Requests : InOrder(r)

(* The same, of all requests and all steps.                                *)
LEMMA OrdersKept ==
  ASSUME TypeOK, AllPlanned, AllInOrder, [Next]_vars
  PROVE  AllInOrder'
<1>1. ASSUME NEW r \in Requests, Request(r) PROVE AllInOrder'
  <2>1. Alone(r) /\ OwnStep(r)
    BY <1>1, Frame, OwnSteps DEF AllPlanned
  <2>2. InOrder(r)'
    BY <2>1, OwnOrder DEF AllPlanned, AllInOrder
  <2>3. ASSUME NEW q \in Requests \ {r} PROVE InOrder(q)'
    <3>1. /\ pc'[q] = pc[q] /\ source'[q] = source[q] /\ attempt'[q] = attempt[q]
          /\ plan'[q] = plan[q] /\ refused'[q] = refused[q] /\ tried'[q] = tried[q]
      BY <2>1, OtherRequests
    <3>2. InOrder(q)
      BY DEF AllInOrder
    <3> QED BY <3>1, <3>2
            DEF InOrder, UsedUp, Begun, Holding, AtSource, AtVertex, Source
  <2> QED BY <2>2, <2>3 DEF AllInOrder
<1>2. CASE \A r \in Requests : ~Request(r)
  <2>1. UNCHANGED <<pc, source, attempt, plan, refused, tried>>
    BY <1>2, Others
  <2>2. ASSUME NEW q \in Requests PROVE InOrder(q)'
    <3>1. InOrder(q)
      BY DEF AllInOrder
    <3> QED BY <2>1, <3>1
            DEF InOrder, UsedUp, Begun, Holding, AtSource, AtVertex, Source
  <2> QED BY <2>2 DEF AllInOrder
<1> QED BY <1>1, <1>2

OfPolicy == \A r \in Requests : PlanOfPolicy(r)

(* The order is the policy's.  A policy that is put while the request is   *)
(* under way is remembered.                                                *)
LEMMA PolicyKept ==
  ASSUME TypeOK, AllPlanned, OfPolicy, [Next]_vars
  PROVE  OfPolicy'
<1>1. ASSUME NEW r \in Requests, Request(r) PROVE OfPolicy'
  <2>1. /\ Alone(r) /\ OwnStep(r) /\ Planned(r)
        /\ UNCHANGED <<policy, chats, moved>>
    BY <1>1, Frame, OwnSteps DEF AllPlanned, Alone
  <2>2. PlanOfPolicy(r)'
    <3>1. CASE plan[r] = << >>
      <4>1. plan'[r] = << >> \/ plan'[r] = SourceOrder(r)
        <5>1. Outside(r)
          <6>1. pc[r] \in {"start", "order"}
            BY <2>1, <3>1 DEF Planned, OwnStep, Outside, Takes, GetsNothing, Retries,
               Returns, Refreshes, BacksOff, Repeats, AsksVertex, Holding
          <6> QED BY <2>1, <6>1 DEF OwnStep, Takes, GetsNothing, Retries, Returns,
                  Refreshes, BacksOff, Repeats, AsksVertex, Holding
        <5> QED BY <3>1, <5>1 DEF Outside, GoesTo, Stays
      <4> QED BY <2>1, <4>1 DEF PlanOfPolicy, SourceOrder, Fallback, Plain
    <3>2. CASE plan[r] # << >>
      <4>1. plan'[r] = plan[r] /\ pc[r] # "done"
        <5>1. pc[r] # "done"
          BY <2>1 DEF OwnStep, Outside, Takes, GetsNothing, Retries, Returns, Refreshes,
             BacksOff, Repeats, AsksVertex, Holding
        <5> QED BY <2>1, <3>2, <5>1, OrderKept
      <4> QED BY <2>1, <3>2, <4>1 DEF OfPolicy, PlanOfPolicy
    <3> QED BY <3>1, <3>2
  <2>3. ASSUME NEW q \in Requests \ {r} PROVE PlanOfPolicy(q)'
    BY <2>1, OtherRequests DEF OfPolicy, PlanOfPolicy
  <2> QED BY <2>2, <2>3 DEF OfPolicy
<1>2. CASE \A r \in Requests : ~Request(r)
  <2>1. UNCHANGED <<pc, plan, chats>>
    BY <1>2, Others
  <2>2. CASE UNCHANGED <<policy, moved>>
    BY <2>1, <2>2 DEF OfPolicy, PlanOfPolicy
  <2>3. ASSUME NEW p \in Puts, PutPolicy(p) PROVE OfPolicy'
    <3>1. ASSUME NEW r \in Requests, ~moved'[r] PROVE plan[r] = << >> \/ pc[r] = "done"
      BY <2>3, <3>1 DEF PutPolicy, AllPlanned, Planned
    <3> QED BY <2>1, <3>1 DEF OfPolicy, PlanOfPolicy
  <2> QED BY <1>2, <2>2, <2>3 DEF Next, vars, Cancel, Update, seen
<1> QED BY <1>1, <1>2

AllWorded == \A r \in Requests : Worded(r)

(* A request that is answered with a 503 has used up all of its order.     *)
LEMMA WordsKept ==
  ASSUME TypeOK, AllPlanned, AllUnanswered, AllInOrder, OfPolicy, AllWorded, [Next]_vars
  PROVE  AllWorded'
<1>1. ASSUME NEW r \in Requests, Request(r) PROVE AllWorded'
  <2>1. /\ Alone(r) /\ OwnStep(r) /\ Planned(r) /\ InOrder(r) /\ PlanOfPolicy(r)
        /\ Unanswered(r) /\ UNCHANGED <<policy, chats, moved>>
    BY <1>1, Frame, OwnSteps DEF AllPlanned, AllInOrder, OfPolicy, AllUnanswered, Alone
  <2>2. Worded(r)'
    <3>1. pc[r] # "done" /\ replies[r] = << >>
      BY <2>1 DEF OwnStep, Outside, Takes, GetsNothing, Retries, Returns, Refreshes,
         BacksOff, Repeats, AsksVertex, Holding, Unanswered
    <3>2. CASE Silent(r) \/ pc'[r] # "done"
      BY <3>1, <3>2 DEF Silent, Worded
    <3>3. ASSUME NEW what, Says(r, what)
          PROVE  replies'[r][1] = what
      BY <3>1, <3>3 DEF Says
    <3>4. ASSUME NEW what \in {"2xx", "4xx", "400", "401", "429", "502"}, Says(r, what)
          PROVE  Worded(r)'
      BY <3>3, <3>4 DEF Worded
    <3>5. CASE /\ pc[r] = "exhausted all" /\ Says(r, Exhaustion(r)) /\ SameSeen(r)
               /\ GoesTo(r, "done")
      <4>1. /\ plan[r] # << >> /\ source[r] = Len(plan[r]) /\ UsedUp(r, Source(r))
            /\ plan[r] \in Plans(r)
        BY <2>1, <3>5, HasPlan DEF InOrder, Planned
      <4>2. \A s : UsedUp(r, s)' = UsedUp(r, s)
        BY <3>5 DEF SameSeen, UsedUp
      <4>3. CASE r \in chats
        <5>1. plan[r] = <<"openai">> /\ Source(r) = "openai"
          BY <4>1, <4>3 DEF Plans, Chat, Source
        <5>2. replies'[r][1] = "503 chat"
          BY <3>3, <3>5, <4>3 DEF Exhaustion
        <5> QED BY <4>1, <4>2, <5>1, <5>2 DEF Worded
      <4>4. CASE r \notin chats /\ ~moved[r]
        <5>1. IF policy.enabled THEN plan[r] = Fallback ELSE plan[r] \in Plain
          BY <2>1, <3>1, <4>1, <4>4 DEF PlanOfPolicy
        <5>2. UsedUp(r, plan[r][1]) /\ UsedUp(r, plan[r][2])
          <6>1. Len(plan[r]) = 2
            BY <5>1 DEF Fallback, Plain
          <6>2. source[r] = 2 /\ 1 \in 1..source[r] - 1
            BY <4>1, <6>1
          <6>3. UsedUp(r, plan[r][1])
            BY <2>1, <6>2 DEF InOrder
          <6> QED BY <4>1, <6>2, <6>3 DEF Source
        <5>3. CASE policy.enabled
          <6>1. replies'[r][1] = "503 fallback"
            BY <3>3, <3>5, <4>4, <5>3 DEF Exhaustion
          <6>2. plan[r][1] = "claude" /\ plan[r][2] = "vertex"
            BY <5>1, <5>3 DEF Fallback
          <6>3. UsedUp(r, "claude") /\ UsedUp(r, "vertex")
            BY <5>2, <6>2, Zenon
          <6> QED BY <4>2, <6>1, <6>3 DEF Worded
        <5>4. CASE ~policy.enabled
          <6>1. replies'[r][1] = "503 keys"
            BY <3>3, <3>5, <4>4, <5>4 DEF Exhaustion
          <6>2. \/ plan[r][1] = "claude" /\ plan[r][2] = "anthropic"
                \/ plan[r][1] = "anthropic" /\ plan[r][2] = "claude"
            BY <5>1, <5>4 DEF Plain
          <6>3. UsedUp(r, "claude") /\ UsedUp(r, "anthropic")
            BY <5>2, <6>2, Zenon
          <6> QED BY <4>2, <6>1, <6>3 DEF Worded
        <5> QED BY <5>3, <5>4
      <4> QED BY <2>1, <4>3, <4>4 DEF Worded
    <3>6. CASE Outside(r)
      BY <3>2, <3>4, <3>5, <3>6 DEF Outside, GoesTo
    <3>7. CASE Returns(r)
      BY <3>2, <3>4, <3>7 DEF Returns
    <3>8. CASE ~Outside(r) /\ ~Returns(r)
      BY <2>1, <3>2, <3>8 DEF OwnStep, Takes, GetsNothing, Retries, Refreshes, BacksOff,
         Repeats, AsksVertex
    <3> QED BY <3>6, <3>7, <3>8
  <2>3. ASSUME NEW q \in Requests \ {r} PROVE Worded(q)'
    <3>1. /\ pc'[q] = pc[q] /\ replies'[q] = replies[q]
          /\ refused'[q] = refused[q] /\ tried'[q] = tried[q]
      BY <2>1, OtherRequests
    <3> QED BY <2>1, <3>1 DEF AllWorded, Worded, UsedUp
  <2> QED BY <2>2, <2>3 DEF AllWorded
<1>2. CASE \A r \in Requests : ~Request(r)
  <2>1. UNCHANGED <<pc, replies, refused, tried>>
    BY <1>2, Others
  <2>2. \A r \in Requests : moved[r] => moved'[r]
    BY <1>2 DEF Next, vars, Cancel, Update, PutPolicy, seen
  <2> QED BY <2>1, <2>2 DEF AllWorded, Worded, UsedUp
<1> QED BY <1>1, <1>2

(* A source is left only when it had nothing for the request or failed it  *)
(* maxAttempts times, in the order that was computed at the beginning, and *)
(* a 503 names the sources the request was turned away from unless the     *)
(* policy changed under it (messages.go:58-81, chat.go:66-148).            *)
THEOREM MessagesSourcesInOrder == Spec => []SourcesInOrder
<1>1. Init => AllInOrder /\ OfPolicy /\ AllWorded
  <2>1. Init => AllInOrder
    BY DEF Init, AllInOrder, InOrder, AtSource
  <2>2. Init => OfPolicy /\ AllWorded
    BY DEF Init, OfPolicy, PlanOfPolicy, AllWorded, Worded
  <2> QED BY <2>1, <2>2
<1>2. AllInOrder /\ AllWorded => SourcesInOrder
  BY DEF AllInOrder, InOrder, AllWorded, Worded, SourcesInOrder
<1> QED BY <1>1, <1>2, OrdersKept, PolicyKept, WordsKept, Typed, Unspoken, PTL DEF Spec

==============================================================================
