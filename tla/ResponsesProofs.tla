---------------------------- MODULE ResponsesProofs ----------------------------
(***************************************************************************)
(* Proofs about Responses for every set of requests and credentials, every *)
(* order of the sources and every maxAttempts: its types, that leases are  *)
(* balanced, that no request is answered twice, and that 503 is honest.    *)
(*                                                                         *)
(* Every step of a request has one of four shapes; the invariants are      *)
(* proved for the shapes.                                                  *)
(***************************************************************************)
EXTENDS Responses, FiniteSetTheorems, TLAPS

Holding(r) == pc[r] \in {"forward", "refresh", "backoff"}

(* A lease is taken; it is kept while the request goes on; nothing was to  *)
(* be had of the source; the lease is given back.                          *)
Takes(r) == \E c \in Credentials : Lease(r, c)
Keeps(r) ==
  /\ Holding(r)
  /\ \E where \in {"refresh", "backoff"} : Goto(r, where)
  /\ UNCHANGED <<lease, inflight, replies, canceled, seen>>
GetsNothing(r) ==
  /\ pc[r] \in {"lease", "exhausted", "wait"}
  /\ refused' = [refused EXCEPT ![r] = @ \cup {Source(r)}]
  /\ \/ \E where \in {"exhausted", "wait"} : Goto(r, where) /\ UNCHANGED replies
     \/ NextAttempt(r)
     \/ LeaveSource(r)
  /\ UNCHANGED <<lease, inflight, canceled, tried>>
GivesBack(r) ==
  /\ Holding(r)
  /\ \/ Retry(r)
     \/ \E what \in {"2xx", "4xx", "401", "429"} : Answer(r, what)
     \/ canceled[r] /\ GiveUp(r)
  /\ UNCHANGED <<canceled, seen>>

(* A request that waits was refused by the source it waits for.            *)
WaitingRefused ==
  \A r \in Requests : pc[r] \in {"exhausted", "wait"} => Source(r) \in refused[r]

(* Every source of the configuration is one of the two kinds.              *)
LEMMA SourceKinds ==
  /\ Len(Sources) \in Nat \ {0}
  /\ \A i \in 1..Len(Sources) : Sources[i] \in {"account", "key"}
BY ResponsesAssumption

(* The steps of a request.                                                 *)
LEMMA Shapes ==
  ASSUME TypeOK, WaitingRefused, NEW r \in Requests, Request(r)
  PROVE  Takes(r) \/ Keeps(r) \/ GetsNothing(r) \/ GivesBack(r)
<1> USE DEF TypeOK, Holding
<1>1. CASE \E c \in Credentials : Lease(r, c)
  BY <1>1 DEF Takes
<1>2. CASE LeaseRefused(r)
  BY <1>2 DEF LeaseRefused, GetsNothing
<1>3. CASE WaitForCooldown(r) \/ WaitEnds(r)
  <2>1. pc[r] \in {"exhausted", "wait"} /\ Source(r) \in refused[r]
    BY <1>3 DEF WaitForCooldown, WaitEnds, WaitingRefused
  <2>2. refused' = [refused EXCEPT ![r] = @ \cup {Source(r)}]
    BY <1>3, <2>1 DEF WaitForCooldown, WaitEnds, seen
  <2> QED BY <1>3, <2>1, <2>2 DEF WaitForCooldown, WaitEnds, GetsNothing, seen
<1>4. CASE ForwardFails(r)
  BY <1>4 DEF ForwardFails, Forward, GivesBack
<1>5. CASE ForwardRejected(r)
  BY <1>5 DEF ForwardRejected, Forward, GivesBack, Keeps
<1>6. CASE ForwardLimited(r)
  BY <1>6 DEF ForwardLimited, Forward, Limited, GivesBack
<1>7. CASE ForwardBreaks(r)
  BY <1>7 DEF ForwardBreaks, Forward, Keeps
<1>8. CASE ForwardAnswered(r)
  BY <1>8 DEF ForwardAnswered, Forward, GivesBack
<1>9. CASE BackoffEnds(r)
  BY <1>9 DEF BackoffEnds, GivesBack
<1>10. CASE RefreshFails(r)
  BY <1>10 DEF RefreshFails, GivesBack
<1>11. CASE RefreshSucceeds(r)
  BY <1>11 DEF RefreshSucceeds, Limited, GivesBack, Keeps
<1> QED BY <1>1, <1>2, <1>3, <1>4, <1>5, <1>6, <1>7, <1>8, <1>9, <1>10, <1>11 DEF Request

(* What a step does to the credentials' marks and the refreshes keeps      *)
(* their types.                                                            *)
LEMMA MarksTyped ==
  ASSUME TypeOK, NEW r \in Requests, Request(r)
  PROVE  /\ barred' \in [Credentials -> SUBSET Reasons]
         /\ refreshed' \in [Requests -> SUBSET Accounts]
<1> USE DEF TypeOK
<1>1. \A reason \in Reasons :
        Mark(r, reason) => barred' \in [Credentials -> SUBSET Reasons]
  <2> SUFFICES ASSUME NEW reason \in Reasons, Mark(r, reason)
               PROVE  barred' \in [Credentials -> SUBSET Reasons]
    OBVIOUS
  <2>1. barred \in [Credentials -> SUBSET Reasons]
    OBVIOUS
  <2> HIDE DEF TypeOK
  <2>2. \A c \in Credentials : barred'[c] = barred[c] \/ barred'[c] = barred[c] \cup {reason}
    BY <2>1 DEF Mark
  <2>3. \A c \in Credentials : barred'[c] \in SUBSET Reasons
    BY <2>1, <2>2
  <2>4. barred' = [c \in Credentials |-> barred'[c]]
    BY <2>1 DEF Mark
  <2> QED BY <2>3, <2>4
<1>2. {"dead", "cooling"} \subseteq Reasons
  BY DEF Reasons
<1>3. ASSUME \/ Takes(r) \/ LeaseRefused(r) \/ WaitForCooldown(r) \/ WaitEnds(r)
             \/ ForwardFails(r) \/ ForwardBreaks(r) \/ ForwardAnswered(r) \/ BackoffEnds(r)
      PROVE  UNCHANGED <<barred, refreshed>>
  BY <1>3 DEF Takes, Lease, LeaseRefused, WaitForCooldown, WaitEnds, ForwardFails,
     ForwardBreaks, ForwardAnswered, BackoffEnds
<1>4. ASSUME ForwardRejected(r)
      PROVE  /\ barred' = barred \/ Mark(r, "dead")
             /\ refreshed' \in [Requests -> SUBSET Accounts]
  <2>1. Source(r) = "account" => lease[r] \in Accounts
    BY <1>4 DEF ForwardRejected, Forward, Pool
  <2>2. refreshed \in [Requests -> SUBSET Accounts]
    OBVIOUS
  <2> HIDE DEF TypeOK
  <2>3. CASE Source(r) = "account" /\ lease[r] \notin refreshed[r]
    BY <1>4, <2>1, <2>2, <2>3 DEF ForwardRejected
  <2>4. CASE ~(Source(r) = "account" /\ lease[r] \notin refreshed[r])
    BY <1>4, <2>2, <2>4 DEF ForwardRejected
  <2> QED BY <2>3, <2>4
<1>5. ASSUME ForwardLimited(r) \/ RefreshFails(r) \/ RefreshSucceeds(r)
      PROVE  /\ barred' = barred \/ Mark(r, "dead") \/ Mark(r, "cooling")
             /\ UNCHANGED refreshed
  <2>1. CASE ForwardLimited(r)
    BY <2>1 DEF ForwardLimited, Limited
  <2>2. CASE RefreshFails(r)
    BY <2>2 DEF RefreshFails
  <2>3. CASE RefreshSucceeds(r)
    BY <2>3 DEF RefreshSucceeds, Limited
  <2> QED BY <1>5, <2>1, <2>2, <2>3
<1>6. Takes(r) \/ ~\E c \in Credentials : Lease(r, c)
  BY DEF Takes
<1> QED BY <1>1, <1>2, <1>3, <1>4, <1>5, <1>6 DEF Request

-----------------------------------------------------------------------------
(* Types.                                                                  *)

(* The place after one that is not the last.                               *)
LEMMA Successor ==
  ASSUME NEW n \in Nat, NEW i \in 1..n, i < n
  PROVE  i + 1 \in 1..n
OBVIOUS

(* What Lease, GetsNothing and the ways on do to where a request is.       *)
LEMMA NextAttemptTyped ==
  ASSUME TypeOK, NEW r \in Requests, NextAttempt(r) \/ LeaveSource(r)
  PROVE  /\ pc' = [pc EXCEPT ![r] = "lease"] \/ pc' = [pc EXCEPT ![r] = "done"]
         /\ source' \in [Requests -> 1..Len(Sources)]
         /\ attempt' \in [Requests -> 0..MaxAttempts - 1]
         /\ replies' = replies \/ replies' = [replies EXCEPT ![r] = Append(@, "503")]
         /\ \A q \in Requests \ {r} : source'[q] = source[q]
<1>1. /\ source \in [Requests -> 1..Len(Sources)]
      /\ attempt \in [Requests -> 0..MaxAttempts - 1]
  BY DEF TypeOK
<1>2. MaxAttempts \in Nat /\ MaxAttempts > 0
  BY ResponsesAssumption
<1>3. CASE LeaveSource(r) /\ source[r] < Len(Sources)
  <2>1. source[r] + 1 \in 1..Len(Sources)
    BY <1>1, <1>3, Successor, SourceKinds
  <2>2. 0 \in 0..MaxAttempts - 1
    BY <1>2
  <2>3. /\ pc' = [pc EXCEPT ![r] = "lease"]
        /\ source' = [source EXCEPT ![r] = @ + 1]
        /\ attempt' = [attempt EXCEPT ![r] = 0]
        /\ replies' = replies
    BY <1>3 DEF LeaveSource
  <2> QED BY <1>1, <2>1, <2>2, <2>3
<1>4. CASE LeaveSource(r) /\ ~(source[r] < Len(Sources))
  BY <1>1, <1>4 DEF LeaveSource, Goto, Reply
<1>5. CASE ~LeaveSource(r)
  <2>1. /\ attempt[r] + 1 < MaxAttempts
        /\ attempt' = [attempt EXCEPT ![r] = @ + 1]
        /\ pc' = [pc EXCEPT ![r] = "lease"]
        /\ source' = source /\ replies' = replies
    BY <1>5 DEF NextAttempt
  <2>2. attempt[r] + 1 \in 0..MaxAttempts - 1
    BY <1>1, <1>2, <2>1
  <2> QED BY <1>1, <2>1, <2>2
<1> QED BY <1>3, <1>4, <1>5

(* One answer more is still a sequence of answers.                         *)
LEMMA RepliesTyped ==
  ASSUME TypeOK, NEW r \in Requests,
         \/ replies' = replies
         \/ \E what \in {"2xx", "4xx", "401", "429", "503"} :
              replies' = [replies EXCEPT ![r] = Append(@, what)]
  PROVE  replies' \in [Requests -> Seq({"2xx", "4xx", "401", "429", "503"})]
<1> DEFINE Answers == {"2xx", "4xx", "401", "429", "503"}
<1>1. replies \in [Requests -> Seq(Answers)]
  BY DEF TypeOK
<1>2. \A what \in Answers : Append(replies[r], what) \in Seq(Answers)
  <2>1. replies[r] \in Seq(Answers)
    BY <1>1
  <2> HIDE DEF Answers
  <2> QED BY <2>1
<1>3. \/ replies' = replies
      \/ \E what \in Answers : replies' = [replies EXCEPT ![r] = Append(@, what)]
  OBVIOUS
<1> HIDE DEF Answers
<1>4. replies' \in [Requests -> Seq(Answers)]
  BY <1>1, <1>2, <1>3
<1> QED BY <1>4 DEF Answers

(* A step of a request keeps the types, one shape after the other.         *)
LEMMA RequestTyped ==
  ASSUME TypeOK, WaitingRefused, NEW r \in Requests, Request(r)
  PROVE  TypeOK' /\ WaitingRefused'
<1>1. /\ barred' \in [Credentials -> SUBSET Reasons]
      /\ refreshed' \in [Requests -> SUBSET Accounts]
  BY MarksTyped
<1>2. Source(r) \in {"account", "key"} /\ source[r] \in 1..Len(Sources)
  BY SourceKinds DEF TypeOK, Source
<1>3. CASE Takes(r)
  <2>1. PICK c \in Credentials : Lease(r, c)
    BY <1>3 DEF Takes
  <2>2. c \in Pool(Source(r))
    BY <2>1 DEF Lease, Available
  <2>3. /\ inflight' \in [Credentials -> Int]
        /\ tried' \in [Requests -> [{"account", "key"} -> Nat]]
    BY <1>2, <2>1 DEF Lease, TypeOK
  <2>4. WaitingRefused'
    BY <2>1 DEF Lease, Goto, WaitingRefused, TypeOK, Source
  <2> QED BY <1>1, <2>1, <2>2, <2>3, <2>4 DEF Lease, Goto, TypeOK, Source
<1>4. CASE Keeps(r)
  <2>1. WaitingRefused'
    BY <1>4 DEF Keeps, Goto, WaitingRefused, TypeOK, Source, seen
  <2> QED BY <1>1, <1>4, <2>1 DEF Keeps, Holding, Goto, TypeOK, Source, seen
<1>5. CASE GetsNothing(r)
  <2>1. /\ refused' = [refused EXCEPT ![r] = @ \cup {Source(r)}]
        /\ UNCHANGED <<lease, inflight, canceled, tried>>
        /\ lease[r] = None
    BY <1>5 DEF GetsNothing, TypeOK
  <2>2. refused' \in [Requests -> SUBSET {"account", "key"}]
    BY <1>2, <2>1 DEF TypeOK
  <2>3. CASE \E where \in {"exhausted", "wait"} : Goto(r, where) /\ UNCHANGED replies
    <3>1. WaitingRefused'
      BY <2>1, <2>3 DEF Goto, WaitingRefused, TypeOK, Source
    <3> QED BY <1>1, <2>1, <2>2, <2>3, <3>1 DEF Goto, TypeOK, Source
  <2>4. CASE NextAttempt(r) \/ LeaveSource(r)
    <3>1. /\ pc' = [pc EXCEPT ![r] = "lease"] \/ pc' = [pc EXCEPT ![r] = "done"]
          /\ source' \in [Requests -> 1..Len(Sources)]
          /\ attempt' \in [Requests -> 0..MaxAttempts - 1]
          /\ replies' = replies \/ replies' = [replies EXCEPT ![r] = Append(@, "503")]
          /\ \A q \in Requests \ {r} : source'[q] = source[q]
      BY <2>4, NextAttemptTyped
    <3>2. pc'[r] \in {"lease", "done"}
      BY <3>1 DEF TypeOK
    <3>3. WaitingRefused'
      BY <2>1, <3>1, <3>2 DEF WaitingRefused, TypeOK, Source
    <3>4. replies' \in [Requests -> Seq({"2xx", "4xx", "401", "429", "503"})]
      BY <3>1, RepliesTyped
    <3>5. \A q \in Requests \ {r} : Source(q)' = Source(q) /\ pc'[q] = pc[q]
      BY <3>1 DEF Source, TypeOK
    <3>6. \A q \in Requests : IF pc'[q] \in {"forward", "refresh", "backoff"}
                              THEN lease[q] \in Pool(Source(q)') ELSE lease[q] = None
      BY <2>1, <3>2, <3>5 DEF TypeOK
    <3> QED BY <1>1, <2>1, <2>2, <3>1, <3>3, <3>4, <3>6 DEF TypeOK, Pool
  <2> QED BY <1>5, <2>3, <2>4 DEF GetsNothing
<1>6. CASE GivesBack(r)
  <2>1. /\ lease[r] \in Credentials
        /\ inflight' = [inflight EXCEPT ![lease[r]] = @ - 1]
        /\ lease' = [lease EXCEPT ![r] = None]
        /\ UNCHANGED <<canceled, refused, tried>>
    BY <1>6 DEF GivesBack, Holding, Retry, Answer, GiveUp, Release, seen, TypeOK, Pool, Credentials
  <2>2. inflight' \in [Credentials -> Int]
    BY <2>1 DEF TypeOK
  <2>3. /\ pc' = [pc EXCEPT ![r] = "lease"] \/ pc' = [pc EXCEPT ![r] = "done"]
        /\ source' \in [Requests -> 1..Len(Sources)]
        /\ attempt' \in [Requests -> 0..MaxAttempts - 1]
        /\ \/ replies' = replies
           \/ \E what \in {"2xx", "4xx", "401", "429", "503"} :
                replies' = [replies EXCEPT ![r] = Append(@, what)]
        /\ \A q \in Requests \ {r} : source'[q] = source[q]
    <3>1. CASE Retry(r)
      BY <3>1, NextAttemptTyped DEF Retry
    <3>2. CASE GiveUp(r) \/ \E what \in {"2xx", "4xx", "401", "429"} : Answer(r, what)
      BY <3>2 DEF GiveUp, Answer, Goto, Reply, TypeOK
    <3> QED BY <1>6, <3>1, <3>2 DEF GivesBack
  <2>4. replies' \in [Requests -> Seq({"2xx", "4xx", "401", "429", "503"})]
    BY <2>3, RepliesTyped
  <2>5. WaitingRefused'
    <3>1. pc'[r] \notin {"exhausted", "wait"} /\ \A q \in Requests \ {r} : pc'[q] = pc[q]
      BY <2>3 DEF TypeOK
    <3>2. \A q \in Requests \ {r} : Source(q)' = Source(q)
      BY <2>3 DEF Source
    <3> QED BY <2>1, <3>1, <3>2 DEF WaitingRefused
  <2> QED BY <1>1, <2>1, <2>2, <2>3, <2>4, <2>5 DEF TypeOK, Source
<1> QED BY <1>3, <1>4, <1>5, <1>6, Shapes

(* Types and refusals, as one invariant.                                   *)
LEMMA Typed == Spec => [](TypeOK /\ WaitingRefused)
<1>1. Init => TypeOK /\ WaitingRefused
  <2> SUFFICES ASSUME Init PROVE TypeOK /\ WaitingRefused
    OBVIOUS
  <2>1. barred \in [Credentials -> SUBSET Reasons]
    BY ResponsesAssumption DEF Init
  <2>2. 0 \in 0..MaxAttempts - 1 /\ 1 \in 1..Len(Sources)
    BY ResponsesAssumption, SourceKinds
  <2>3. << >> \in Seq({"2xx", "4xx", "401", "429", "503"})
    OBVIOUS
  <2> QED BY <2>1, <2>2, <2>3 DEF Init, TypeOK, WaitingRefused
<1>2. TypeOK /\ WaitingRefused /\ [Next]_vars => TypeOK' /\ WaitingRefused'
  <2> SUFFICES ASSUME TypeOK, WaitingRefused, [Next]_vars
               PROVE  TypeOK' /\ WaitingRefused'
    OBVIOUS
  <2>1. CASE UNCHANGED vars
    BY <2>1 DEF vars, here, seen, TypeOK, WaitingRefused, Source
  <2>2. ASSUME NEW r \in Requests, Request(r) PROVE TypeOK' /\ WaitingRefused'
    BY <2>2, RequestTyped
  <2>3. ASSUME NEW r \in Requests, Cancel(r) PROVE TypeOK' /\ WaitingRefused'
    BY <2>3 DEF Cancel, here, seen, TypeOK, WaitingRefused, Source
  <2>4. ASSUME NEW c \in Credentials, Update(c) PROVE TypeOK' /\ WaitingRefused'
    <3>1. barred' \in [Credentials -> SUBSET Reasons]
      BY <2>4, ResponsesAssumption DEF Update, TypeOK
    <3> QED BY <2>4, <3>1 DEF Update, here, seen, TypeOK, WaitingRefused, Source
  <2> QED BY <2>1, <2>2, <2>3, <2>4 DEF Next
<1> QED BY <1>1, <1>2, PTL DEF Spec

(* Every variable keeps its type, the loops stay within maxAttempts, and a *)
(* request holds a lease of its source exactly while it forwards,          *)
(* refreshes or backs off (responses.go:194-336).                          *)
THEOREM ResponsesTypeCorrect == Spec => []TypeOK
BY Typed, PTL

-----------------------------------------------------------------------------
(* Leases.                                                                 *)

(* The requests that hold a credential are finitely many.                  *)
LEMMA HoldersFinite ==
  ASSUME NEW c
  PROVE  IsFiniteSet(Holders(c)) /\ Cardinality(Holders(c)) \in Nat
<1>1. Holders(c) \in SUBSET Requests
  BY DEF Holders
<1> QED BY <1>1, ResponsesAssumption, FS_Subset, FS_CardinalityType

(* What a shape does to the leases and the counts.                         *)
LEMMA LeaseEffects ==
  ASSUME TypeOK, NEW r \in Requests,
         Takes(r) \/ Keeps(r) \/ GetsNothing(r) \/ GivesBack(r)
  PROVE  \/ UNCHANGED <<lease, inflight>>
         \/ \E c \in Credentials : /\ lease[r] = None
                                   /\ lease' = [lease EXCEPT ![r] = c]
                                   /\ inflight' = [inflight EXCEPT ![c] = @ + 1]
         \/ /\ lease[r] \in Credentials
            /\ lease' = [lease EXCEPT ![r] = None]
            /\ inflight' = [inflight EXCEPT ![lease[r]] = @ - 1]
<1>1. CASE Takes(r)
  BY <1>1 DEF Takes, Lease, TypeOK
<1>2. CASE Keeps(r) \/ GetsNothing(r)
  BY <1>2 DEF Keeps, GetsNothing
<1>3. CASE GivesBack(r)
  BY <1>3 DEF GivesBack, Holding, Retry, Answer, GiveUp, Release, TypeOK, Pool, Credentials
<1> QED BY <1>1, <1>2, <1>3

(* Counts and leases change together.                                      *)
LEMMA BalanceKept ==
  ASSUME TypeOK, WaitingRefused, LeasesBalanced, [Next]_vars
  PROVE  LeasesBalanced'
<1> SUFFICES ASSUME NEW d \in Credentials PROVE inflight'[d] = Cardinality(Holders(d)')
  BY DEF LeasesBalanced
<1>1. IsFiniteSet(Holders(d)) /\ Cardinality(Holders(d)) \in Nat
  BY HoldersFinite
<1>2. inflight[d] = Cardinality(Holders(d)) /\ inflight \in [Credentials -> Int]
  BY DEF LeasesBalanced, TypeOK
<1>3. CASE UNCHANGED <<lease, inflight>>
  <2>1. Holders(d)' = Holders(d)
    BY <1>3 DEF Holders
  <2> QED BY <1>2, <1>3, <2>1
<1>4. ASSUME NEW r \in Requests, NEW c \in Credentials, lease[r] = None,
             lease' = [lease EXCEPT ![r] = c], inflight' = [inflight EXCEPT ![c] = @ + 1]
      PROVE  inflight'[d] = Cardinality(Holders(d)')
  <2>1. CASE c = d
    <3>1. Holders(d)' = Holders(d) \cup {r} /\ r \notin Holders(d)
      BY <1>4, <2>1, ResponsesAssumption DEF Holders, TypeOK
    <3>2. Cardinality(Holders(d)') = Cardinality(Holders(d)) + 1
      BY <1>1, <3>1, FS_AddElement
    <3> QED BY <1>2, <1>4, <2>1, <3>2
  <2>2. CASE c # d
    <3>1. Holders(d)' = Holders(d)
      BY <1>4, <2>2, ResponsesAssumption DEF Holders, TypeOK
    <3> QED BY <1>2, <1>4, <2>2, <3>1
  <2> QED BY <2>1, <2>2
<1>5. ASSUME NEW r \in Requests, lease[r] \in Credentials,
             lease' = [lease EXCEPT ![r] = None],
             inflight' = [inflight EXCEPT ![lease[r]] = @ - 1]
      PROVE  inflight'[d] = Cardinality(Holders(d)')
  <2>1. CASE lease[r] = d
    <3>1. Holders(d)' = Holders(d) \ {r} /\ r \in Holders(d)
      BY <1>5, <2>1, ResponsesAssumption DEF Holders, TypeOK
    <3>2. Cardinality(Holders(d)') = Cardinality(Holders(d)) - 1
      BY <1>1, <3>1, FS_RemoveElement
    <3> QED BY <1>2, <1>5, <2>1, <3>2
  <2>2. CASE lease[r] # d
    <3>1. Holders(d)' = Holders(d)
      BY <1>5, <2>2, ResponsesAssumption DEF Holders, TypeOK
    <3> QED BY <1>2, <1>5, <2>2, <3>1
  <2> QED BY <2>1, <2>2
<1>6. ASSUME NEW r \in Requests, Request(r)
      PROVE  inflight'[d] = Cardinality(Holders(d)')
  BY <1>3, <1>4, <1>5, <1>6, Shapes, LeaseEffects
<1>7. (UNCHANGED vars \/ (\E r \in Requests : Cancel(r)) \/ \E c \in Credentials : Update(c))
        => UNCHANGED <<lease, inflight>>
  BY DEF vars, Cancel, Update
<1> QED BY <1>3, <1>6, <1>7 DEF Next

(* The count of a credential is the number of requests that hold a lease   *)
(* on it, for every number of requests and however they end                *)
(* (responses.go:194-336).                                                 *)
THEOREM LeasesGivenBack == Spec => []LeasesBalanced
<1>1. Init => LeasesBalanced
  <2> SUFFICES ASSUME Init, NEW c \in Credentials
               PROVE  inflight[c] = Cardinality(Holders(c))
    BY DEF LeasesBalanced
  <2>1. Holders(c) = {}
    BY ResponsesAssumption DEF Init, Holders
  <2> QED BY <2>1, FS_EmptySet DEF Init
<1> QED BY <1>1, BalanceKept, Typed, PTL DEF Spec

-----------------------------------------------------------------------------
(* Answers.                                                                *)

(* A request that goes on has not been answered.                           *)
OpenUnanswered == \A r \in Requests : pc[r] # "done" => replies[r] = << >>

(* What a shape writes: nothing, or one answer at the end of the request.  *)
LEMMA AnswerEffects ==
  ASSUME TypeOK, NEW r \in Requests,
         Takes(r) \/ Keeps(r) \/ GetsNothing(r) \/ GivesBack(r)
  PROVE  /\ pc[r] # "done"
         /\ UNCHANGED canceled
         /\ \/ /\ UNCHANGED replies
               /\ \E where \in {"lease", "exhausted", "wait", "forward", "refresh", "backoff"} :
                    pc' = [pc EXCEPT ![r] = where]
            \/ /\ UNCHANGED replies /\ canceled[r]
               /\ pc' = [pc EXCEPT ![r] = "done"]
            \/ /\ \E what \in {"2xx", "4xx", "401", "429", "503"} :
                    replies' = [replies EXCEPT ![r] = Append(@, what)]
               /\ pc' = [pc EXCEPT ![r] = "done"]
<1>1. CASE Takes(r)
  BY <1>1 DEF Takes, Lease, Goto
<1>2. CASE Keeps(r)
  BY <1>2 DEF Keeps, Goto, Holding
<1>3. ASSUME NextAttempt(r) \/ LeaveSource(r)
      PROVE  \/ pc' = [pc EXCEPT ![r] = "lease"] /\ UNCHANGED replies
             \/ pc' = [pc EXCEPT ![r] = "done"]
                /\ replies' = [replies EXCEPT ![r] = Append(@, "503")]
  BY <1>3 DEF NextAttempt, LeaveSource, Goto, Reply
<1>4. CASE GetsNothing(r)
  BY <1>3, <1>4 DEF GetsNothing, Goto
<1>5. CASE GivesBack(r)
  BY <1>3, <1>5 DEF GivesBack, Retry, Answer, GiveUp, Goto, Reply, Holding
<1> QED BY <1>1, <1>2, <1>4, <1>5

(* No step answers a request that was answered.                            *)
LEMMA AnswersKept ==
  ASSUME TypeOK, WaitingRefused, OpenUnanswered, AnsweredOnce, [Next]_vars
  PROVE  OpenUnanswered' /\ AnsweredOnce'
<1>1. ASSUME NEW r \in Requests, Request(r) PROVE OpenUnanswered' /\ AnsweredOnce'
  <2> DEFINE Places == {"lease", "exhausted", "wait", "forward", "refresh", "backoff"}
             Answers == {"2xx", "4xx", "401", "429", "503"}
  <2>1. /\ pc \in [Requests -> Places \cup {"done"}]
        /\ replies \in [Requests -> Seq(Answers)]
    BY DEF TypeOK
  <2>2. /\ replies[r] = << >> /\ UNCHANGED canceled
        /\ \/ UNCHANGED replies /\ \E where \in Places : pc' = [pc EXCEPT ![r] = where]
           \/ UNCHANGED replies /\ canceled[r] /\ pc' = [pc EXCEPT ![r] = "done"]
           \/ /\ \E what \in Answers : replies' = [replies EXCEPT ![r] = Append(@, what)]
              /\ pc' = [pc EXCEPT ![r] = "done"]
    BY <1>1, Shapes, AnswerEffects DEF OpenUnanswered
  <2>3. \A q \in Requests \ {r} : pc'[q] = pc[q] /\ replies'[q] = replies[q]
    BY <2>1, <2>2
  <2>4. CASE UNCHANGED replies
    BY <2>1, <2>2, <2>3, <2>4 DEF OpenUnanswered, AnsweredOnce
  <2>5. CASE /\ \E what \in Answers : replies' = [replies EXCEPT ![r] = Append(@, what)]
             /\ pc' = [pc EXCEPT ![r] = "done"]
    <3>1. PICK what \in Answers : replies' = [replies EXCEPT ![r] = Append(<< >>, what)]
      BY <2>2, <2>5
    <3> HIDE DEF Answers
    <3>2. replies'[r] = Append(<< >>, what) /\ pc'[r] = "done"
      BY <2>1, <2>5, <3>1
    <3>3. Len(replies'[r]) <= 1 /\ replies'[r] # << >>
      <4>1. << >> \in Seq(Answers)
        OBVIOUS
      <4>2. Len(Append(<< >>, what)) = 1
        BY <4>1
      <4> QED BY <3>2, <4>2
    <3> QED BY <2>2, <2>3, <3>2, <3>3 DEF OpenUnanswered, AnsweredOnce
  <2> QED BY <2>2, <2>4, <2>5
<1>2. ASSUME NEW r \in Requests, Cancel(r) PROVE OpenUnanswered' /\ AnsweredOnce'
  BY <1>2 DEF Cancel, here, OpenUnanswered, AnsweredOnce, TypeOK
<1>3. ASSUME UNCHANGED vars \/ \E c \in Credentials : Update(c)
      PROVE  OpenUnanswered' /\ AnsweredOnce'
  BY <1>3 DEF vars, Update, here, OpenUnanswered, AnsweredOnce
<1> QED BY <1>1, <1>2, <1>3 DEF Next

(* No request is answered twice, and one that ended unanswered lost its    *)
(* client before (responses.go:101-156, 358-492).                          *)
THEOREM OneAnswer == Spec => []AnsweredOnce
<1>1. Init => OpenUnanswered /\ AnsweredOnce
  BY DEF Init, OpenUnanswered, AnsweredOnce
<1> QED BY <1>1, AnswersKept, Typed, PTL DEF Spec

-----------------------------------------------------------------------------
(* Exhaustion.                                                             *)

(* A source that refused the request or that failed it often enough.       *)
Spent(r, i) == Sources[i] \in refused[r] \/ tried[r][Sources[i]] >= MaxAttempts

(* The sources a request has left are spent; the one it is at has refused  *)
(* it or has been leased from once for every attempt made, and once more   *)
(* while a lease is held.                                                  *)
Accounted(r) ==
  /\ \A i \in 1..source[r] - 1 : Spent(r, i)
  /\ \/ Source(r) \in refused[r]
     \/ pc[r] = "done"
     \/ tried[r][Source(r)] >= attempt[r] + (IF Holding(r) THEN 1 ELSE 0)

Honest(r) == replies[r] = <<"503">> => \A i \in 1..Len(Sources) : Spent(r, i)

(* The next attempt, the next source or 503 after an attempt that is       *)
(* accounted for.                                                          *)
LEMMA MovesOn ==
  ASSUME TypeOK, NEW r \in Requests, replies[r] = << >>,
         tried' \in [Requests -> [{"account", "key"} -> Nat]],
         \A i \in 1..source[r] - 1 : Spent(r, i)',
         \/ Source(r) \in refused'[r] /\ (NextAttempt(r) \/ LeaveSource(r))
         \/ tried'[r][Source(r)] >= attempt[r] + 1 /\ NextAttempt(r)
  PROVE  Accounted(r)' /\ Honest(r)'
<1> DEFINE Here == \/ Source(r) \in refused'[r]
                   \/ tried'[r][Source(r)] >= attempt[r] + 1
<1>1. /\ source \in [Requests -> 1..Len(Sources)] /\ attempt \in [Requests -> 0..MaxAttempts - 1]
      /\ MaxAttempts \in Nat /\ Len(Sources) \in Nat
      /\ pc = [q \in Requests |-> pc[q]] /\ replies = [q \in Requests |-> replies[q]]
      /\ Source(r) \in {"account", "key"}
  BY SourceKinds, ResponsesAssumption DEF TypeOK, Source
<1>2. << >> # <<"503">>
  OBVIOUS
<1>3. PICK n \in 1..Len(Sources) : n = source[r]
  BY <1>1
<1>4. Here /\ (NextAttempt(r) \/ LeaveSource(r))
  OBVIOUS
<1>5. CASE /\ attempt[r] + 1 < MaxAttempts
           /\ attempt' = [attempt EXCEPT ![r] = @ + 1]
           /\ pc' = [pc EXCEPT ![r] = "lease"]
           /\ source' = source /\ replies' = replies
  <2>1. pc'[r] = "lease" /\ attempt'[r] = attempt[r] + 1 /\ Source(r)' = Source(r)
    BY <1>1, <1>5 DEF Source
  <2>2. ~Holding(r)' /\ attempt'[r] + 0 = attempt[r] + 1
    BY <1>1, <2>1 DEF Holding
  <2>3. \A i \in 1..source'[r] - 1 : Spent(r, i)'
    BY <1>5
  <2>4. Accounted(r)'
    BY <1>4, <2>1, <2>2, <2>3 DEF Accounted
  <2>5. replies'[r] # <<"503">>
    BY <1>5, <1>2
  <2> QED BY <2>4, <2>5 DEF Honest
<1>6. ASSUME LeaveSource(r), Spent(r, n)'
      PROVE  Accounted(r)' /\ Honest(r)'
  <2>1. CASE source[r] < Len(Sources)
    <3>1. /\ source'[r] = source[r] + 1 /\ attempt'[r] = 0
          /\ pc'[r] = "lease" /\ replies'[r] = << >>
      BY <1>1, <1>6, <2>1 DEF LeaveSource
    <3>2. source[r] + 1 \in 1..Len(Sources)
      BY <1>1, <2>1, Successor
    <3>3. Source(r)' \in {"account", "key"}
      BY <3>1, <3>2, SourceKinds DEF Source
    <3>4. tried'[r][Source(r)'] \in Nat
      BY <3>3
    <3>5. \A i \in 1..source'[r] - 1 : i \in 1..source[r] - 1 \/ i = source[r]
      BY <1>1, <3>1
    <3>6. \A i \in 1..source'[r] - 1 : Spent(r, i)'
      BY <1>3, <1>6, <3>5
    <3>7. tried'[r][Source(r)'] >= attempt'[r] + (IF Holding(r)' THEN 1 ELSE 0)
      BY <3>1, <3>4 DEF Holding
    <3> QED BY <1>2, <3>1, <3>6, <3>7 DEF Accounted, Honest
  <2>2. CASE ~(source[r] < Len(Sources))
    <3>1. source[r] = Len(Sources)
      BY <1>1, <2>2
    <3>2. source' = source /\ pc'[r] = "done"
      BY <1>1, <1>6, <2>2 DEF LeaveSource, Goto
    <3>3. \A i \in 1..Len(Sources) : i \in 1..source[r] - 1 \/ i = source[r]
      BY <1>1, <3>1
    <3>4. \A i \in 1..Len(Sources) : Spent(r, i)'
      BY <1>3, <1>6, <3>3
    <3> QED BY <3>2, <3>4 DEF Accounted, Honest
  <2> QED BY <2>1, <2>2
<1>7. Source(r) \in refused'[r] => Spent(r, n)'
  BY <1>3 DEF Spent, Source
<1>8. tried'[r][Source(r)] >= attempt[r] + 1 /\ attempt[r] + 1 >= MaxAttempts
        => Spent(r, n)'
  <2>1. tried'[r][Source(r)] \in Nat /\ attempt[r] \in Nat
    BY <1>1
  <2> QED BY <1>1, <1>3, <2>1 DEF Spent, Source
<1>9. CASE LeaveSource(r) /\ Source(r) \in refused'[r]
  BY <1>6, <1>7, <1>9
<1>10. CASE NextAttempt(r)
  <2>1. CASE attempt[r] + 1 < MaxAttempts
    BY <1>5, <1>10, <2>1 DEF NextAttempt
  <2>2. CASE ~(attempt[r] + 1 < MaxAttempts)
    <3>1. attempt[r] + 1 >= MaxAttempts
      BY <1>1, <2>2
    <3> QED BY <1>4, <1>6, <1>7, <1>8, <1>10, <2>2, <3>1 DEF NextAttempt
  <2> QED BY <2>1, <2>2
<1> QED BY <1>9, <1>10

HonestInv == \A r \in Requests : Accounted(r) /\ Honest(r)

(* What was refused or tried stays so.                                     *)
LEMMA SpentStays ==
  ASSUME TypeOK, NEW r \in Requests,
         Takes(r) \/ Keeps(r) \/ GetsNothing(r) \/ GivesBack(r)
  PROVE  /\ \A i \in 1..Len(Sources) : Spent(r, i) => Spent(r, i)'
         /\ \A q \in Requests \ {r} : /\ refused'[q] = refused[q] /\ tried'[q] = tried[q]
                                      /\ source'[q] = source[q] /\ attempt'[q] = attempt[q]
                                      /\ pc'[q] = pc[q] /\ replies'[q] = replies[q]
<1>1. /\ refused = [q \in Requests |-> refused[q]] /\ pc = [q \in Requests |-> pc[q]]
      /\ source = [q \in Requests |-> source[q]] /\ attempt = [q \in Requests |-> attempt[q]]
      /\ replies = [q \in Requests |-> replies[q]]
      /\ tried \in [Requests -> [{"account", "key"} -> Nat]]
  BY DEF TypeOK
<1>2. ASSUME NextAttempt(r) \/ LeaveSource(r)
      PROVE  \A q \in Requests \ {r} : /\ source'[q] = source[q] /\ attempt'[q] = attempt[q]
                                       /\ pc'[q] = pc[q] /\ replies'[q] = replies[q]
  BY <1>1, <1>2 DEF NextAttempt, LeaveSource, Goto, Reply
<1>3. CASE Takes(r)
  <2>1. PICK c \in Credentials : Lease(r, c)
    BY <1>3 DEF Takes
  <2>2. refused' = refused /\ \A s \in {"account", "key"} : tried'[r][s] >= tried[r][s]
    BY <1>1, <2>1 DEF Lease
  <2>3. \A i \in 1..Len(Sources) : Spent(r, i) => Spent(r, i)'
    <3> SUFFICES ASSUME NEW i \in 1..Len(Sources), Spent(r, i) PROVE Spent(r, i)'
      OBVIOUS
    <3>1. Sources[i] \in {"account", "key"}
      BY SourceKinds
    <3>2. tried[r][Sources[i]] \in Nat /\ tried'[r][Sources[i]] \in Nat
      BY <1>1, <2>1, <3>1 DEF Lease
    <3>3. MaxAttempts \in Nat
      BY ResponsesAssumption
    <3> QED BY <2>2, <3>1, <3>2, <3>3 DEF Spent
  <2> QED BY <1>1, <2>1, <2>3 DEF Lease, Goto
<1>4. CASE Keeps(r)
  BY <1>1, <1>4 DEF Keeps, Goto, seen, Spent
<1>5. CASE GetsNothing(r)
  <2>1. /\ \A q \in Requests \ {r} : refused'[q] = refused[q] /\ tried'[q] = tried[q]
        /\ refused[r] \subseteq refused'[r] /\ tried' = tried
    BY <1>1, <1>5 DEF GetsNothing
  <2>2. \A i \in 1..Len(Sources) : Spent(r, i) => Spent(r, i)'
    BY <2>1 DEF Spent
  <2> QED BY <1>1, <1>2, <1>5, <2>1, <2>2 DEF GetsNothing, Goto
<1>6. CASE GivesBack(r)
  <2>1. refused' = refused /\ tried' = tried
    BY <1>6 DEF GivesBack, seen
  <2>2. \A i \in 1..Len(Sources) : Spent(r, i) => Spent(r, i)'
    BY <2>1 DEF Spent
  <2> QED BY <1>1, <1>2, <1>6, <2>1, <2>2 DEF GivesBack, Retry, Answer, GiveUp, Goto, Reply
<1> QED BY <1>3, <1>4, <1>5, <1>6

(* The account of a request's attempts survives its own steps.             *)
LEMMA OwnAccount ==
  ASSUME TypeOK, TypeOK', WaitingRefused, OpenUnanswered, HonestInv,
         NEW r \in Requests,
         Takes(r) \/ Keeps(r) \/ GetsNothing(r) \/ GivesBack(r)
  PROVE  Accounted(r)' /\ Honest(r)'
<1>1. /\ source[r] \in 1..Len(Sources) /\ attempt[r] \in Nat /\ Len(Sources) \in Nat
      /\ pc = [q \in Requests |-> pc[q]] /\ replies = [q \in Requests |-> replies[q]]
      /\ Source(r) \in {"account", "key"}
      /\ tried[r] \in [{"account", "key"} -> Nat]
      /\ tried' \in [Requests -> [{"account", "key"} -> Nat]]
  BY SourceKinds, ResponsesAssumption DEF TypeOK, Source
<1>2. replies[r] = << >> /\ << >> # <<"503">> /\ pc[r] # "done"
  <2>1. pc[r] # "done"
    BY DEF Takes, Lease, Keeps, Holding, GetsNothing, GivesBack
  <2> QED BY <2>1 DEF OpenUnanswered
<1>3. /\ \A i \in 1..source[r] - 1 : Spent(r, i)
      /\ \/ Source(r) \in refused[r]
         \/ tried[r][Source(r)] >= attempt[r] + (IF Holding(r) THEN 1 ELSE 0)
  BY <1>2 DEF HonestInv, Accounted
<1>4. \A i \in 1..source[r] - 1 : Spent(r, i)'
  <2>1. \A i \in 1..source[r] - 1 : i \in 1..Len(Sources)
    BY <1>1
  <2> QED BY <1>3, <2>1, SpentStays
<1>5. CASE Takes(r)
  <2>1. PICK c \in Credentials : Lease(r, c)
    BY <1>5 DEF Takes
  <2>2. /\ source' = source /\ attempt' = attempt /\ refused' = refused /\ replies' = replies
        /\ pc[r] = "lease" /\ pc'[r] = "forward"
    BY <1>1, <2>1 DEF Lease, Goto
  <2>3. tried'[r][Source(r)] = tried[r][Source(r)] + 1
    BY <1>1, <2>1 DEF Lease, TypeOK
  <2>4. Source(r) \in refused'[r] \/ tried'[r][Source(r)] >= attempt[r] + 1
    BY <1>1, <1>3, <2>2, <2>3 DEF Holding
  <2>5. Source(r)' = Source(r) /\ Holding(r)'
    BY <2>2 DEF Source, Holding
  <2> QED BY <1>2, <1>4, <2>2, <2>4, <2>5 DEF Accounted, Honest
<1>6. CASE Keeps(r)
  <2>1. /\ source' = source /\ attempt' = attempt /\ refused' = refused /\ tried' = tried
        /\ replies' = replies
        /\ Holding(r) /\ Holding(r)'
    BY <1>1, <1>6 DEF Keeps, Goto, seen, Holding
  <2> QED BY <1>2, <1>3, <1>4, <2>1 DEF Accounted, Honest, Source
<1>7. CASE GetsNothing(r)
  <2>1. Source(r) \in refused'[r]
    BY <1>7 DEF GetsNothing, TypeOK
  <2>2. CASE NextAttempt(r) \/ LeaveSource(r)
    BY <1>1, <1>2, <1>4, <2>1, <2>2, MovesOn
  <2>3. CASE ~(NextAttempt(r) \/ LeaveSource(r))
    <3>1. source' = source /\ replies' = replies
      BY <1>7, <2>3 DEF GetsNothing, Goto
    <3> QED BY <1>2, <1>4, <2>1, <3>1 DEF Accounted, Honest, Source
  <2> QED BY <2>2, <2>3
<1>8. CASE GivesBack(r)
  <2>1. Holding(r) /\ refused' = refused /\ tried' = tried
    BY <1>8 DEF GivesBack, seen
  <2>2. CASE NextAttempt(r)
    <3>1. Source(r) \in refused'[r] \/ tried'[r][Source(r)] >= attempt[r] + 1
      BY <1>3, <2>1
    <3> QED BY <1>1, <1>2, <1>4, <2>2, <3>1, MovesOn
  <2>3. CASE ~NextAttempt(r)
    <3>1. /\ source' = source /\ pc'[r] = "done"
          /\ \/ replies'[r] = << >>
             \/ \E what \in {"2xx", "4xx", "401", "429"} :
                  replies'[r] = Append(<< >>, what)
      BY <1>1, <1>2, <1>8, <2>3 DEF GivesBack, Retry, Answer, GiveUp, Goto, Reply
    <3>2. replies'[r] # <<"503">>
      <4> DEFINE Answers == {"2xx", "4xx", "401", "429"}
      <4>1. \A what \in Answers : what # "503"
        OBVIOUS
      <4>2. \/ replies'[r] = << >>
            \/ \E what \in Answers : replies'[r] = Append(<< >>, what)
        BY <3>1
      <4> HIDE DEF Answers
      <4>3. ASSUME NEW what \in Answers PROVE Append(<< >>, what) # <<"503">>
        <5>1. << >> \in Seq(Answers)
          OBVIOUS
        <5>2. Append(<< >>, what)[1] = what
          BY <5>1
        <5>3. <<"503">>[1] = "503"
          OBVIOUS
        <5> QED BY <4>1, <5>2, <5>3, Zenon
      <4> QED BY <1>2, <4>2, <4>3, Zenon
    <3> QED BY <1>4, <3>1, <3>2 DEF Accounted, Honest
  <2> QED BY <2>2, <2>3
<1> QED BY <1>5, <1>6, <1>7, <1>8

(* The accounts of all requests survive every step.                        *)
LEMMA HonestKept ==
  ASSUME TypeOK, TypeOK', WaitingRefused, OpenUnanswered, HonestInv, [Next]_vars
  PROVE  HonestInv'
<1>1. ASSUME NEW r \in Requests, Request(r) PROVE HonestInv'
  <2>1. Takes(r) \/ Keeps(r) \/ GetsNothing(r) \/ GivesBack(r)
    BY <1>1, Shapes
  <2>2. Accounted(r)' /\ Honest(r)'
    BY <2>1, OwnAccount
  <2>3. ASSUME NEW q \in Requests \ {r} PROVE Accounted(q)' /\ Honest(q)'
    <3>1. /\ refused'[q] = refused[q] /\ tried'[q] = tried[q] /\ source'[q] = source[q]
          /\ attempt'[q] = attempt[q] /\ pc'[q] = pc[q] /\ replies'[q] = replies[q]
      BY <2>1, SpentStays
    <3>2. Accounted(q) /\ Honest(q)
      BY DEF HonestInv
    <3> QED BY <3>1, <3>2 DEF Accounted, Honest, Spent, Source, Holding
  <2> QED BY <2>2, <2>3 DEF HonestInv
<1>2. ASSUME \/ UNCHANGED vars \/ \E r \in Requests : Cancel(r)
             \/ \E c \in Credentials : Update(c)
      PROVE  HonestInv'
  <2>1. UNCHANGED <<refused, tried, source, attempt, pc, replies>>
    BY <1>2 DEF vars, here, seen, Cancel, Update
  <2> QED BY <2>1 DEF HonestInv, Accounted, Honest, Spent, Source, Holding
<1> QED BY <1>1, <1>2 DEF Next

(* 503 is the answer only if every source had nothing to lease at some     *)
(* time or failed the request maxAttempts times (responses.go:139-155).    *)
THEOREM HonestExhaustion == Spec => []ExhaustedIsHonest
<1>1. Init => OpenUnanswered /\ AnsweredOnce
  BY DEF Init, OpenUnanswered, AnsweredOnce
<1>2. Init => HonestInv
  <2> SUFFICES ASSUME Init, NEW r \in Requests PROVE Accounted(r) /\ Honest(r)
    BY DEF HonestInv
  <2>1. /\ source[r] = 1 /\ attempt[r] = 0 /\ replies[r] = << >> /\ pc[r] = "lease"
        /\ tried[r] = [s \in {"account", "key"} |-> 0]
    BY DEF Init
  <2>2. Source(r) \in {"account", "key"} /\ << >> # <<"503">>
    BY <2>1, SourceKinds DEF Source
  <2>3. tried[r][Source(r)] = 0 /\ ~Holding(r) /\ \A i \in 1..source[r] - 1 : FALSE
    BY <2>1, <2>2 DEF Holding
  <2> QED BY <2>1, <2>2, <2>3 DEF Accounted, Honest
<1>3. HonestInv => ExhaustedIsHonest
  BY DEF HonestInv, Honest, Spent, ExhaustedIsHonest
<1> QED BY <1>1, <1>2, <1>3, AnswersKept, HonestKept, Typed, PTL DEF Spec

==============================================================================
