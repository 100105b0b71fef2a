------------------------------- MODULE Messages -------------------------------
(***************************************************************************)
(* What becomes of a request to /v1/messages (ingress/messages.go) and of  *)
(* one to /v1/chat/completions (ingress/chat.go).  A messages request      *)
(* fixes its order of sources from the fallback policy                     *)
(* (ingress/claude_fallback.go) and the configured priority, works through *)
(* them, and reads the policy again at Vertex and for the wording of its   *)
(* 503; an admin may replace the policy at any time.  A Claude account     *)
(* whose token was refreshed gives the attempt back.  A chat request has   *)
(* the OpenAI keys as its only source.                                     *)
(*                                                                         *)
(* Which of the available credentials a lease gets is the matter of        *)
(* ClaudePool and of apikey.go, here any of them.  Model and variant names *)
(* that normalise alike are one value.                                     *)
(***************************************************************************)
EXTENDS Integers, Sequences, FiniteSets

CONSTANTS
  Requests,                 \* request goroutines
  Claudes,                  \* accounts of the Claude pool
  Keys,                     \* of the API key pool, Anthropic's or OpenAI's
  KeysFirst,                \* Priority is "apikey-first"
  MaxAttempts,              \* maxAttempts, per source
  Names,                    \* of models and of their variants, the empty one too
  Asks,                     \* what a request may ask: records of model, variant
  Puts,                     \* the policies an admin may submit
  None

Credentials == Claudes \cup Keys

(* Dead or Disabled, in a cooldown only, or not in the pool.               *)
Statuses == {"available", "cooling", "dead", "gone"}

Rules == [enabled : BOOLEAN, from : Names, variant : Names, to : Names,
          patch : Names]

(* The names the program itself writes into a policy.                      *)
DefaultNames == {"", "preserve", "claude-opus-4-7", "claude-opus-4-6",
                 "claude-haiku-4-5", "claude-sonnet-4-6"}

ASSUME MessagesAssumption ==
  /\ IsFiniteSet(Requests)
  /\ Claudes \cap Keys = {}
  /\ None \notin Credentials
  /\ KeysFirst \in BOOLEAN
  /\ MaxAttempts \in Nat \ {0}
  /\ DefaultNames \subseteq Names
  /\ Asks \subseteq [model : Names, variant : Names]
  /\ Puts \subseteq [enabled : BOOLEAN, rules : Seq(Rules)]

VARIABLES
  status,      \* of a credential
  inflight,    \* the counts of the pools
  policy,      \* ClaudeFallbackRuntime.policy
  anthropic,   \* the keys of type anthropic
  chats,       \* the requests to ChatHandler
  ask,         \* model and variant of a request
  pc, source, attempt,
  plan,        \* what sourceOrder returned
  lease,       \* the credential a request holds, or None
  refreshed,   \* accounts the request has refreshed
  replies,     \* what was written to the client, in order
  canceled,    \* the client is gone
  refused,     \* history: the sources that turned the request away
  tried,       \* history: how many forwards a source was begun for
  moved        \* history: the policy changed after the request had begun

here == <<pc, source, attempt>>
held == <<lease, inflight>>
seen == <<refused, tried, moved>>
asked == <<anthropic, chats, ask>>
vars == <<status, held, policy, asked, here, plan, refreshed, replies,
          canceled, seen>>

SourceKinds == {"claude", "vertex", "anthropic", "openai"}

-----------------------------------------------------------------------------
(* ingress/claude_fallback.go.                                             *)

Rule(from, to) == [enabled |-> TRUE, from |-> from, variant |-> "", to |-> to,
                   patch |-> "preserve"]

DefaultPolicy ==
  [enabled |-> TRUE,
   rules   |-> << Rule("claude-opus-4-7", "claude-opus-4-6"),
                  Rule("claude-haiku-4-5", "claude-sonnet-4-6"),
                  Rule("claude-sonnet-4-6", "claude-sonnet-4-6") >>]

(* A policy without rules is the default one, enabled whatever it said.    *)
WithDefaults(p) ==
  IF p.rules = << >> THEN DefaultPolicy
  ELSE [p EXCEPT !.rules = [i \in DOMAIN @ |->
          IF @[i].patch = "" THEN [@[i] EXCEPT !.patch = "preserve"] ELSE @[i]]]

(* The rules that match: the first of them counts.                         *)
Matching(p, a) ==
  {i \in DOMAIN p.rules :
     LET rule == p.rules[i]
     IN  /\ rule.enabled
         /\ rule.from # "" /\ rule.from = a.model
         /\ rule.variant \in {"", a.variant}
         /\ rule.to # ""}

Matches(p, a) == p.enabled /\ Matching(p, a) # {}
FirstMatch(p, a) ==
  p.rules[CHOOSE i \in Matching(p, a) : \A j \in Matching(p, a) : i <= j]

(* ApplyClaudeTarget: a variant that edits more of the body than the model *)
(* may not apply to it.                                                    *)
PatchMayFail(rule) == rule.patch \notin {"preserve", "long-context"}

(* putClaudeFallback: what is refused with 400.                            *)
Valid(p) ==
  \A i \in DOMAIN p.rules :
    LET rule == p.rules[i]
    IN  /\ rule.enabled => rule.from # "" /\ rule.to # ""
        /\ rule.patch # "unknown"

-----------------------------------------------------------------------------
Init == /\ status \in [Credentials -> Statuses]
        /\ inflight = [c \in Credentials |-> 0]
        /\ policy \in {DefaultPolicy} \cup {WithDefaults(p) : p \in Puts}
        /\ Valid(policy)
        /\ anthropic \in SUBSET Keys
        /\ chats \in SUBSET Requests
        /\ ask \in [Requests -> Asks]
        /\ pc = [r \in Requests |-> "start"]
        /\ plan = [r \in Requests |-> << >>]
        /\ source = [r \in Requests |-> 1]
        /\ attempt = [r \in Requests |-> 0]
        /\ lease = [r \in Requests |-> None]
        /\ refreshed = [r \in Requests |-> {}]
        /\ replies = [r \in Requests |-> << >>]
        /\ canceled = [r \in Requests |-> FALSE]
        /\ refused = [r \in Requests |-> {}]
        /\ tried = [r \in Requests |-> [s \in SourceKinds |-> 0]]
        /\ moved = [r \in Requests |-> FALSE]

Source(r) == plan[r][source[r]]
Pool(s) == CASE s = "claude" -> Claudes
             [] s = "anthropic" -> anthropic
             [] s = "openai" -> Keys \ anthropic
             [] s = "vertex" -> {}
Available(s) == {c \in Pool(s) : status[c] = "available"}
InPool(set) == {c \in set : status[c] # "gone"}

(* ClaudePool.NearestCooldown is not 0.                                    *)
SomeCoolingDown == \E c \in Claudes : status[c] = "cooling"

SourceOrder(r) ==
  CASE r \in chats    -> <<"openai">>
    [] r \notin chats /\ policy.enabled -> <<"claude", "vertex">>
    [] OTHER -> IF KeysFirst THEN <<"anthropic", "claude">> ELSE <<"claude", "anthropic">>

-----------------------------------------------------------------------------
(* How a request goes on.                                                  *)

Reply(r, what) == replies' = [replies EXCEPT ![r] = Append(@, what)]

Goto(r, where) == /\ pc' = [pc EXCEPT ![r] = where]
                  /\ UNCHANGED <<source, attempt>>

(* Where the loop of a source begins.                                      *)
Entry(s) == IF s = "vertex" THEN "match" ELSE "lease"

(* Mutant: the policy of the moment decides what follows the first source. *)
LeaveSourceByPolicy(r) ==
  IF source[r] < Len(plan[r])
  THEN LET next == IF policy.enabled THEN "vertex" ELSE plan[r][source[r] + 1]
       IN  /\ pc' = [pc EXCEPT ![r] = Entry(next)]
           /\ plan' = [plan EXCEPT ![r][source[r] + 1] = next]
           /\ source' = [source EXCEPT ![r] = @ + 1]
           /\ attempt' = [attempt EXCEPT ![r] = 0]
  ELSE Goto(r, "exhausted all") /\ UNCHANGED plan

(* outcomeSourceUnavailable: the next source, or 503 after the last one.   *)
LeaveSource(r) ==
  IF source[r] < Len(plan[r])
  THEN /\ pc' = [pc EXCEPT ![r] = Entry(plan[r][source[r] + 1])]
       /\ source' = [source EXCEPT ![r] = @ + 1]
       /\ attempt' = [attempt EXCEPT ![r] = 0]
       /\ UNCHANGED plan
  ELSE Goto(r, "exhausted all") /\ UNCHANGED plan

(* Mutant: one attempt too many. *)
NextAttemptTooMany(r) ==
  IF attempt[r] < MaxAttempts
  THEN /\ attempt' = [attempt EXCEPT ![r] = @ + 1]
       /\ pc' = [pc EXCEPT ![r] = "lease"]
       /\ UNCHANGED <<source, plan>>
  ELSE LeaveSource(r)

(* Mutant: a source is left at its first failure. *)
NextAttemptNever(r) == LeaveSource(r)

(* continue: the next round of the loop, if there is one left.             *)
NextAttempt(r) ==
  IF attempt[r] + 1 < MaxAttempts
  THEN /\ attempt' = [attempt EXCEPT ![r] = @ + 1]
       /\ pc' = [pc EXCEPT ![r] = "lease"]
       /\ UNCHANGED <<source, plan>>
  ELSE LeaveSource(r)

Release(r) == /\ inflight' = [inflight EXCEPT ![lease[r]] = @ - 1]
              /\ lease' = [lease EXCEPT ![r] = None]

Retry(r) == Release(r) /\ NextAttempt(r) /\ UNCHANGED replies

(* return, with or without an answer; Vertex has no lease to give back.    *)
Return(r) == /\ IF lease[r] = None THEN UNCHANGED held ELSE Release(r)
             /\ Goto(r, "done") /\ UNCHANGED plan
Answer(r, what) == Return(r) /\ Reply(r, what)
GiveUp(r) == Return(r) /\ UNCHANGED replies

(* MarkDead, MarkCooldown of the leased credential: a dead one stays dead,  *)
(* and the pool does not see the mark of one that it no longer holds.       *)
Mark(r, what) ==
  status' = [status EXCEPT ![lease[r]] =
               IF @ = "gone" \/ @ = "dead" THEN @ ELSE what]

-----------------------------------------------------------------------------
(* ServeHTTP of the two handlers.                                          *)

(* Nothing configured: 401; Vertex counts while the fallback is enabled.   *)
Start(r) ==
  /\ pc[r] = "start"
  /\ IF \/ InPool(IF r \in chats THEN Keys ELSE Claudes \cup anthropic) # {}
        \/ r \notin chats /\ policy.enabled
     THEN Goto(r, "order") /\ UNCHANGED replies
     ELSE Goto(r, "done") /\ Reply(r, "401")
  /\ UNCHANGED <<status, held, policy, asked, plan, refreshed, canceled, seen>>

Order(r) ==
  /\ pc[r] = "order"
  /\ plan' = [plan EXCEPT ![r] = SourceOrder(r)]
  /\ Goto(r, Entry(SourceOrder(r)[1]))
  /\ UNCHANGED <<status, held, policy, asked, refreshed, replies, canceled, seen>>

(* 503, worded by the policy of the moment.                                *)
Exhausted(r) ==
  /\ pc[r] = "exhausted all"
  /\ Goto(r, "done")
  /\ Reply(r, IF r \in chats THEN "503 chat"
              ELSE IF policy.enabled THEN "503 fallback" ELSE "503 keys")
  /\ UNCHANGED <<status, held, policy, asked, plan, refreshed, canceled, seen>>

-----------------------------------------------------------------------------
(* ClaudePool.Lease, APIKeyPool.Lease.                                     *)

Lease(r, c) ==
  /\ pc[r] = "lease"
  /\ c \in Available(Source(r))
  /\ lease' = [lease EXCEPT ![r] = c]
  /\ inflight' = [inflight EXCEPT ![c] = @ + 1]
  /\ tried' = [tried EXCEPT ![r][Source(r)] = @ + 1]
  /\ Goto(r, "forward")
  /\ UNCHANGED <<status, policy, asked, plan, refreshed, replies, canceled,
                 refused, moved>>

(* Nothing to lease: only Claude accounts are waited for, and only while   *)
(* there are accounts and attempts left.                                   *)
LeaseRefused(r) ==
  /\ pc[r] = "lease"
  /\ Available(Source(r)) = {}
  /\ refused' = [refused EXCEPT ![r] = @ \cup {Source(r)}]
  /\ IF Source(r) = "claude" /\ InPool(Claudes) # {} /\ attempt[r] + 1 < MaxAttempts
     THEN Goto(r, "exhausted") /\ UNCHANGED plan
     ELSE LeaveSource(r)
  /\ UNCHANGED <<status, held, policy, asked, refreshed, replies, canceled,
                 tried, moved>>

WaitForCooldown(r) ==
  /\ pc[r] = "exhausted"
  /\ IF SomeCoolingDown THEN Goto(r, "wait") /\ UNCHANGED plan ELSE LeaveSource(r)
  /\ UNCHANGED <<status, held, policy, asked, refreshed, replies, canceled, seen>>

(* Mutant: a round that waited does not count as an attempt. *)
WaitEndsFree(r) ==
  /\ pc[r] = "wait" /\ Source(r) = "claude"
  /\ Goto(r, "lease") \/ (canceled[r] /\ Goto(r, "exhausted all"))
  /\ UNCHANGED <<status, held, policy, asked, plan, refreshed, replies,
                 canceled, seen>>

WaitEnds(r) ==
  /\ pc[r] = "wait" /\ Source(r) = "claude"
  /\ NextAttempt(r) \/ (canceled[r] /\ LeaveSource(r))
  /\ UNCHANGED <<status, held, policy, asked, refreshed, replies, canceled, seen>>

-----------------------------------------------------------------------------
(* The forwards of the Claude and key loops.                               *)

Forward(r) == /\ pc[r] = "forward" /\ Source(r) # "vertex"
              /\ UNCHANGED <<policy, asked, canceled, seen>>

ForwardFails(r) ==
  /\ Forward(r)
  /\ IF canceled[r] THEN GiveUp(r) ELSE Retry(r)
  /\ UNCHANGED <<status, refreshed>>

(* Mutant: which accounts were refreshed is not remembered. *)
ForwardRejectedForgets(r) ==
  /\ Forward(r)
  /\ IF Source(r) = "claude"
     THEN Goto(r, "refresh") /\ UNCHANGED <<status, held, plan, refreshed, replies>>
     ELSE Mark(r, "dead") /\ Retry(r) /\ UNCHANGED refreshed

(* 401, or 403 to a key: a Claude account is refreshed, once per request   *)
(* and account, if it has a refresh token.                                 *)
ForwardRejected(r) ==
  /\ Forward(r)
  /\ \/ /\ Source(r) = "claude" /\ lease[r] \notin refreshed[r]
        /\ refreshed' = [refreshed EXCEPT ![r] = @ \cup {lease[r]}]
        /\ Goto(r, "refresh")
        /\ UNCHANGED <<status, held, plan, replies>>
     \/ Mark(r, "dead") /\ Retry(r) /\ UNCHANGED refreshed

ForwardLimited(r) ==
  /\ Forward(r)
  /\ Mark(r, "cooling") /\ Retry(r) /\ UNCHANGED refreshed

(* 5xx: the lease is kept while the handler backs off.                     *)
ForwardBreaks(r) ==
  /\ Forward(r)
  /\ Goto(r, "backoff") /\ UNCHANGED <<status, held, plan, refreshed, replies>>

(* Mutant: a response that was passed on is tried again when it is no 2xx. *)
ForwardAnsweredRetries(r) ==
  /\ Forward(r)
  /\ \/ Answer(r, "2xx")
     \/ Release(r) /\ NextAttempt(r) /\ Reply(r, "4xx")
  /\ UNCHANGED <<status, refreshed>>

ForwardAnswered(r) ==
  /\ Forward(r)
  /\ \E what \in {"2xx", "4xx"} : Answer(r, what)
  /\ UNCHANGED <<status, refreshed>>

(* Mutant: the lease is forgotten when the client leaves during a backoff. *)
BackoffLeaks(r) ==
  /\ pc[r] = "backoff" /\ Source(r) # "vertex"
  /\ \/ Retry(r)
     \/ /\ canceled[r] /\ Goto(r, "done")
        /\ lease' = [lease EXCEPT ![r] = None] /\ UNCHANGED <<inflight, plan, replies>>
  /\ UNCHANGED <<status, policy, asked, refreshed, canceled, seen>>

BackoffEnds(r) ==
  /\ pc[r] = "backoff" /\ Source(r) # "vertex"
  /\ Retry(r) \/ (canceled[r] /\ GiveUp(r))
  /\ UNCHANGED <<status, policy, asked, refreshed, canceled, seen>>

RefreshFails(r) ==
  /\ pc[r] = "refresh"
  /\ Mark(r, "dead") /\ Retry(r)
  /\ UNCHANGED <<policy, asked, refreshed, canceled, seen>>

(* attempt--; continue: the round is repeated, with a new lease.           *)
RefreshSucceeds(r) ==
  /\ pc[r] = "refresh"
  /\ Release(r) /\ Goto(r, "lease")
  /\ UNCHANGED <<status, policy, asked, plan, refreshed, replies, canceled, seen>>

-----------------------------------------------------------------------------
(* serveViaVertexFallback.                                                 *)

(* The policy is read again; a request it no longer covers is turned away, *)
(* and one whose body does not take the variant is refused with 400.       *)
VertexMatch(r) ==
  /\ pc[r] = "match"
  /\ \/ /\ ~Matches(policy, ask[r])
        /\ refused' = [refused EXCEPT ![r] = @ \cup {"vertex"}]
        /\ LeaveSource(r) /\ UNCHANGED <<replies, held>>
     \/ /\ Matches(policy, ask[r])
        /\ PatchMayFail(FirstMatch(policy, ask[r]))
        /\ Answer(r, "400") /\ UNCHANGED <<refused>>
     \/ /\ Matches(policy, ask[r])
        /\ Goto(r, "send") /\ UNCHANGED <<plan, replies, held, refused>>
  /\ UNCHANGED <<status, policy, asked, refreshed, canceled, tried, moved>>

VertexSend(r) ==
  /\ pc[r] = "send"
  /\ tried' = [tried EXCEPT ![r]["vertex"] = @ + 1]
  /\ Goto(r, "forward")
  /\ UNCHANGED <<status, held, policy, asked, plan, refreshed, replies, canceled,
                 refused, moved>>

(* No answer, 429, 5xx: tried again after a pause while attempts are left, *)
(* else answered; a forward that fails because the client left is not.     *)
VertexFails(r, what) ==
  /\ pc[r] = "forward" /\ Source(r) = "vertex"
  /\ IF what = "no answer" /\ canceled[r] THEN GiveUp(r)
     ELSE IF attempt[r] + 1 < MaxAttempts
     THEN /\ Goto(r, IF what = "429" THEN "wait" ELSE "backoff")
          /\ UNCHANGED <<held, plan, replies>>
     ELSE Answer(r, IF what = "429" THEN "429" ELSE "502")
  /\ UNCHANGED <<status, policy, asked, refreshed, canceled, seen>>

(* sleepCtx: the pause is over, or the client is gone and answered.        *)
VertexPauseEnds(r) ==
  /\ pc[r] \in {"wait", "backoff"} /\ Source(r) = "vertex"
  /\ \/ /\ pc' = [pc EXCEPT ![r] = "send"]
        /\ attempt' = [attempt EXCEPT ![r] = @ + 1]
        /\ UNCHANGED <<source, plan, replies, held>>
     \/ canceled[r] /\ Answer(r, IF pc[r] = "wait" THEN "429" ELSE "502")
  /\ UNCHANGED <<status, policy, asked, refreshed, canceled, seen>>

VertexAnswered(r) ==
  /\ pc[r] = "forward" /\ Source(r) = "vertex"
  /\ \E what \in {"2xx", "4xx"} : Answer(r, what)
  /\ UNCHANGED <<status, policy, asked, refreshed, canceled, seen>>

-----------------------------------------------------------------------------
(* The environment.                                                        *)

Cancel(r) ==
  /\ pc[r] # "done" /\ ~canceled[r]
  /\ canceled' = [canceled EXCEPT ![r] = TRUE]
  /\ UNCHANGED <<status, held, policy, asked, here, plan, refreshed, replies, seen>>

(* Reloads, pollers, the admin API, other endpoints and the clock.         *)
Update(c) ==
  /\ \E s \in Statuses : status' = [status EXCEPT ![c] = s]
  /\ UNCHANGED <<held, policy, asked, here, plan, refreshed, replies, canceled, seen>>

(* putClaudeFallback: validated, then set; what it queues for the store is *)
(* a policy that the next process begins with.                             *)
PutPolicy(p) ==
  /\ Valid(WithDefaults(p))
  /\ policy' = WithDefaults(p)
  /\ policy' # policy
  /\ moved' = [r \in Requests |-> moved[r] \/ pc[r] \notin {"start", "done"}]
  /\ UNCHANGED <<status, held, asked, here, plan, refreshed, replies, canceled,
                 refused, tried>>

Request(r) ==
  \/ Start(r) \/ Order(r) \/ Exhausted(r)
  \/ \E c \in Credentials : Lease(r, c)
  \/ LeaseRefused(r) \/ WaitForCooldown(r) \/ WaitEnds(r)
  \/ ForwardFails(r) \/ ForwardRejected(r) \/ ForwardLimited(r)
  \/ ForwardBreaks(r) \/ ForwardAnswered(r)
  \/ BackoffEnds(r) \/ RefreshFails(r) \/ RefreshSucceeds(r)
  \/ VertexMatch(r) \/ VertexSend(r) \/ VertexPauseEnds(r) \/ VertexAnswered(r)
  \/ \E what \in {"no answer", "429", "5xx"} : VertexFails(r, what)

Next == \/ \E r \in Requests : Request(r) \/ Cancel(r)
        \/ \E c \in Credentials : Update(c)
        \/ \E p \in Puts : PutPolicy(p)

Spec == Init /\ [][Next]_vars

(* A goroutine runs, its timers expire and the upstream answers, breaks    *)
(* the connection, or the client ends the wait; only then is a step due.   *)
FairSpec == Spec /\ \A r \in Requests : WF_vars(Request(r))

-----------------------------------------------------------------------------
(* Types; the loops stay within maxAttempts also when attempts are given   *)
(* back, and a request holds a lease exactly while it forwards, refreshes  *)
(* or backs off at a pool (messages.go:135-327, chat.go:66-147).           *)
TypeOK ==
  /\ status \in [Credentials -> Statuses]
  /\ inflight \in [Credentials -> Int]
  /\ policy.enabled \in BOOLEAN /\ policy.rules \in Seq(Rules)
  /\ anthropic \subseteq Keys /\ chats \subseteq Requests
  /\ ask \in [Requests -> Asks]
  /\ pc \in [Requests -> {"start", "order", "lease", "exhausted", "wait", "forward",
                "refresh", "backoff", "match", "send", "exhausted all", "done"}]
  /\ plan \in [Requests -> Seq(SourceKinds)]
  /\ source \in [Requests -> 1..2]
  /\ attempt \in [Requests -> 0..MaxAttempts - 1]
  /\ lease \in [Requests -> Credentials \cup {None}]
  /\ refreshed \in [Requests -> SUBSET Claudes]
  /\ replies \in [Requests -> Seq({"2xx", "4xx", "400", "401", "429", "502",
                                   "503 chat", "503 fallback", "503 keys"})]
  /\ canceled \in [Requests -> BOOLEAN]
  /\ refused \in [Requests -> SUBSET SourceKinds]
  /\ tried \in [Requests -> [SourceKinds -> Nat]]
  /\ moved \in [Requests -> BOOLEAN]
  /\ \A r \in Requests :
       IF pc[r] \in {"forward", "refresh", "backoff"} /\ Source(r) # "vertex"
       THEN lease[r] \in Pool(Source(r)) ELSE lease[r] = None

Holders(c) == {r \in Requests : lease[r] = c}

(* The count of a credential is the number of requests that hold a lease   *)
(* on it: every return and every continue of the loops gave its lease back *)
(* once (messages.go:142-243, 253-325, chat.go:66-147).                    *)
LeasesBalanced == \A c \in Credentials : inflight[c] = Cardinality(Holders(c))

(* No request is answered twice, and one that ended unanswered lost its    *)
(* client before (messages.go:54-81, 344-402, chat.go:66-148).             *)
AnsweredOnce ==
  \A r \in Requests :
    /\ Len(replies[r]) <= 1
    /\ pc[r] = "done" /\ replies[r] = << >> => canceled[r]

UsedUp(r, s) == s \in refused[r] \/ tried[r][s] >= MaxAttempts

(* A source is left only when it had nothing for the request or failed it  *)
(* maxAttempts times, in the order of the plan; and a 503 speaks of the    *)
(* sources the request was turned away from, if the policy did not change  *)
(* under it (messages.go:58-81, chat.go:66-148).                           *)
SourcesInOrder ==
  \A r \in Requests :
    /\ \A i \in 1..source[r] - 1 : UsedUp(r, plan[r][i])
    /\ pc[r] = "done" /\ replies[r] # << >> /\ ~moved[r] =>
         /\ replies[r][1] = "503 keys" => UsedUp(r, "claude") /\ UsedUp(r, "anthropic")
         /\ replies[r][1] = "503 fallback" => UsedUp(r, "claude") /\ UsedUp(r, "vertex")
         /\ replies[r][1] = "503 chat" => UsedUp(r, "openai")

(* A request does not spend both Vertex and the Anthropic keys, whatever   *)
(* becomes of the policy meanwhile: the order is fixed when it begins      *)
(* (messages.go:58, 102-119).                                              *)
OneKindOfFallback ==
  \A r \in Requests : tried[r]["vertex"] = 0 \/ tried[r]["anthropic"] = 0

(* A refresh gives its attempt back, but an account is refreshed once: a   *)
(* source sees at most maxAttempts forwards and one more for every account *)
(* refreshed (messages.go:141-142, 179-189).                               *)
ForwardsBounded ==
  \A r \in Requests : \A s \in SourceKinds :
    tried[r][s] <= MaxAttempts + (IF s = "claude" THEN Cardinality(refreshed[r]) ELSE 0)

(* Every request comes to an end, however the upstream behaves and         *)
(* whatever becomes of credentials and policy (messages.go:58-404,         *)
(* chat.go:66-148).                                                        *)
EveryRequestEnds == \A r \in Requests : <>(pc[r] = "done")
==============================================================================
