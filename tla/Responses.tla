------------------------------ MODULE Responses -------------------------------
(***************************************************************************)
(* What becomes of a request to /v1/responses (ingress/responses.go): it   *)
(* goes through the configured sources in order, at each source it leases  *)
(* a credential, forwards, and by the upstream's answer serves the client, *)
(* passes an error on, refreshes the token, or tries again with another    *)
(* lease; when no source is left the answer is 503.                        *)
(*                                                                         *)
(* One behaviour per request goroutine; between its steps other requests,  *)
(* pollers, reloads and the clock change what credentials are available.   *)
(* Which of the available credentials a lease gets is the choice of        *)
(* AccountPool (pool.go, rotation.go) and of apikey.go, here any of them;  *)
(* what a hot reload does to the counts is AccountPool's matter too.       *)
(***************************************************************************)
EXTENDS Integers, Sequences, FiniteSets

CONSTANTS
  Requests,     \* request goroutines
  Accounts, ApiKeys,
  Sources,      \* sourceOrder: "account" and "key", in the order of priority
  MaxAttempts,  \* maxAttempts, per source
  Pinned,       \* requests with a session key or a previous response id
  Bars,         \* why a credential may be unavailable: sets of reasons
  None

Credentials == Accounts \cup ApiKeys

(* Not in the pool, Dead or Disabled, in a cooldown, over the usage caps.  *)
Reasons == {"gone", "dead", "cooling", "capped"}

ASSUME ResponsesAssumption ==
  /\ IsFiniteSet(Requests)
  /\ Accounts \cap ApiKeys = {}
  /\ None \notin Credentials
  /\ Sources \in Seq({"account", "key"}) /\ Sources # << >>
  /\ MaxAttempts \in Nat \ {0}
  /\ Bars \subseteq SUBSET Reasons

VARIABLES
  barred,      \* why a credential is unavailable, {} if it is available
  inflight,    \* the counts of the pools
  pc,          \* where a request is
  source,      \* its position in Sources
  attempt,     \* the loop variable of serveVia...Pool
  lease,       \* the credential it leases, or None
  refreshed,   \* backoffRetry.authRetried
  replies,     \* what was written to the client, in order
  canceled,    \* the client is gone
  refused,     \* history: the sources that had nothing to lease
  tried        \* history: how many leases the request got of a source

here == <<pc, source, attempt>>
seen == <<refused, tried>>
vars == <<barred, inflight, here, lease, refreshed, replies, canceled, seen>>

Init == /\ barred \in [Credentials -> Bars]
        /\ inflight = [c \in Credentials |-> 0]
        /\ pc = [r \in Requests |-> "lease"]
        /\ source = [r \in Requests |-> 1]
        /\ attempt = [r \in Requests |-> 0]
        /\ lease = [r \in Requests |-> None]
        /\ refreshed = [r \in Requests |-> {}]
        /\ replies = [r \in Requests |-> << >>]
        /\ canceled = [r \in Requests |-> FALSE]
        /\ refused = [r \in Requests |-> {}]
        /\ tried = [r \in Requests |-> [s \in {"account", "key"} |-> 0]]

Source(r) == Sources[source[r]]
Pool(s) == IF s = "account" THEN Accounts ELSE ApiKeys
Available(s) == {c \in Pool(s) : barred[c] = {}}

(* NearestCooldown is not 0: some account only waits for its cooldown.     *)
SomeCoolingDown ==
  \E c \in Accounts : "cooling" \in barred[c] /\ barred[c] \cap {"gone", "dead"} = {}

-----------------------------------------------------------------------------
(* How a request goes on.                                                  *)

Reply(r, what) == replies' = [replies EXCEPT ![r] = Append(@, what)]

Goto(r, where) == /\ pc' = [pc EXCEPT ![r] = where]
                  /\ UNCHANGED <<source, attempt>>

(* outcomeSourceUnavailable: the next source, or 503 after the last one.   *)
LeaveSource(r) ==
  IF source[r] < Len(Sources)
  THEN /\ pc' = [pc EXCEPT ![r] = "lease"]
       /\ source' = [source EXCEPT ![r] = @ + 1]
       /\ attempt' = [attempt EXCEPT ![r] = 0]
       /\ UNCHANGED replies
  ELSE Goto(r, "done") /\ Reply(r, "503")

(* Mutant: one attempt too many. *)
NextAttemptTooMany(r) ==
  IF attempt[r] < MaxAttempts
  THEN /\ attempt' = [attempt EXCEPT ![r] = @ + 1]
       /\ pc' = [pc EXCEPT ![r] = "lease"]
       /\ UNCHANGED <<source, replies>>
  ELSE LeaveSource(r)

(* Mutant: a failed attempt does not count. *)
NextAttemptFree(r) ==
  /\ pc' = [pc EXCEPT ![r] = "lease"]
  /\ UNCHANGED <<source, attempt, replies>>

(* Mutant: the source is left at the first failure. *)
NextAttemptNever(r) == LeaveSource(r)

(* continue: the next round of the loop, if there is one left.             *)
NextAttempt(r) ==
  IF attempt[r] + 1 < MaxAttempts
  THEN /\ attempt' = [attempt EXCEPT ![r] = @ + 1]
       /\ pc' = [pc EXCEPT ![r] = "lease"]
       /\ UNCHANGED <<source, replies>>
  ELSE LeaveSource(r)

Release(r) == /\ inflight' = [inflight EXCEPT ![lease[r]] = @ - 1]
              /\ lease' = [lease EXCEPT ![r] = None]

(* outcomeRetry: release and go round again.                               *)
Retry(r) == Release(r) /\ NextAttempt(r)

(* outcomeServed and outcomeFailed with an answer: release and return.     *)
Answer(r, what) == Release(r) /\ Goto(r, "done") /\ Reply(r, what)

(* outcomeFailed without an answer: the client is gone.                    *)
GiveUp(r) == Release(r) /\ Goto(r, "done") /\ UNCHANGED replies

(* MarkDead, MarkCooldown of the leased credential; the pool does not see  *)
(* the mark of one that it no longer holds.                                *)
Mark(r, reason) ==
  barred' = [barred EXCEPT ![lease[r]] = IF "gone" \in @ THEN @ ELSE @ \cup {reason}]

-----------------------------------------------------------------------------
(* Pool.Lease, APIKeyPool.Lease.                                           *)

Lease(r, c) ==
  /\ pc[r] = "lease"
  /\ c \in Available(Source(r))
  /\ lease' = [lease EXCEPT ![r] = c]
  /\ inflight' = [inflight EXCEPT ![c] = @ + 1]
  /\ tried' = [tried EXCEPT ![r][Source(r)] = @ + 1]
  /\ Goto(r, "forward")
  /\ UNCHANGED <<barred, refreshed, replies, canceled, refused>>

(* Nothing to lease: the account pool may be waited for while attempts are *)
(* left (ErrAllExhausted), the key pool and an empty pool (ErrNoAccounts)  *)
(* are left at once.                                                       *)
LeaseRefused(r) ==
  /\ pc[r] = "lease"
  /\ Available(Source(r)) = {}
  /\ refused' = [refused EXCEPT ![r] = @ \cup {Source(r)}]
  /\ IF /\ Source(r) = "account" /\ attempt[r] + 1 < MaxAttempts
        /\ \E c \in Accounts : "gone" \notin barred[c]
     THEN Goto(r, "exhausted") /\ UNCHANGED replies
     ELSE LeaveSource(r)
  /\ UNCHANGED <<barred, inflight, lease, refreshed, canceled, tried>>

(* NearestCooldown, computed after the refusal: wait, or leave the source. *)
WaitForCooldown(r) ==
  /\ pc[r] = "exhausted"
  /\ IF SomeCoolingDown THEN Goto(r, "wait") /\ UNCHANGED replies
                        ELSE LeaveSource(r)
  /\ UNCHANGED <<barred, inflight, lease, refreshed, canceled, seen>>

(* sleepCtx: the time is over, or the client is gone.                      *)
WaitEnds(r) ==
  /\ pc[r] = "wait"
  /\ NextAttempt(r) \/ (canceled[r] /\ LeaveSource(r))
  /\ UNCHANGED <<barred, inflight, lease, refreshed, canceled, seen>>

-----------------------------------------------------------------------------
(* Forward and the upstream's answer.                                      *)

Forward(r) == /\ pc[r] = "forward"
              /\ UNCHANGED <<canceled, seen>>

(* No answer: given up if the client is gone, else tried again.            *)
ForwardFails(r) ==
  /\ Forward(r)
  /\ IF canceled[r] THEN GiveUp(r) ELSE Retry(r)
  /\ UNCHANGED <<barred, refreshed>>

(* 401 to an account: a refresh, once per request; to a key, as 403: dead. *)
ForwardRejected(r) ==
  /\ Forward(r)
  /\ IF Source(r) = "account" /\ lease[r] \notin refreshed[r]
     THEN /\ refreshed' = [refreshed EXCEPT ![r] = @ \cup {lease[r]}]
          /\ Goto(r, "refresh")
          /\ UNCHANGED <<barred, inflight, lease, replies>>
     ELSE Mark(r, "dead") /\ Retry(r) /\ UNCHANGED refreshed

(* Mutant: the 429 is written and the loop goes on. *)
LimitedKeepsTrying(r) ==
  /\ Mark(r, "cooling")
  /\ IF Source(r) = "account" /\ r \in Pinned
     THEN /\ Release(r) /\ Reply(r, "429")
          /\ IF attempt[r] + 1 < MaxAttempts
             THEN /\ attempt' = [attempt EXCEPT ![r] = @ + 1]
                  /\ pc' = [pc EXCEPT ![r] = "lease"]
                  /\ UNCHANGED source
             ELSE Goto(r, "done")
     ELSE Retry(r)

(* 429: the credential cools down; a pinned request is not moved to        *)
(* another account, its client gets the 429.                               *)
Limited(r) ==
  /\ Mark(r, "cooling")
  /\ IF Source(r) = "account" /\ r \in Pinned THEN Answer(r, "429") ELSE Retry(r)

ForwardLimited(r) == Forward(r) /\ Limited(r) /\ UNCHANGED refreshed

(* 5xx: the lease is kept while the handler backs off.                     *)
ForwardBreaks(r) ==
  /\ Forward(r)
  /\ Goto(r, "backoff")
  /\ UNCHANGED <<barred, inflight, lease, refreshed, replies>>

(* Any other status: served, or passed on as it is.                        *)
ForwardAnswered(r) ==
  /\ Forward(r)
  /\ \E what \in {"2xx", "4xx"} : Answer(r, what)
  /\ UNCHANGED <<barred, refreshed>>

(* Mutant: the lease is forgotten when the client leaves during a backoff. *)
BackoffLeaks(r) ==
  /\ pc[r] = "backoff"
  /\ \/ Retry(r)
     \/ /\ canceled[r] /\ Goto(r, "done")
        /\ lease' = [lease EXCEPT ![r] = None] /\ UNCHANGED <<inflight, replies>>
  /\ UNCHANGED <<barred, refreshed, canceled, seen>>

BackoffEnds(r) ==
  /\ pc[r] = "backoff"
  /\ Retry(r) \/ (canceled[r] /\ GiveUp(r))
  /\ UNCHANGED <<barred, refreshed, canceled, seen>>

(* RefreshToken failed, whatever the reason: the account is dead.          *)
RefreshFails(r) ==
  /\ pc[r] = "refresh"
  /\ Mark(r, "dead") /\ Retry(r)
  /\ UNCHANGED <<refreshed, canceled, seen>>

(* RefreshToken succeeded and the request is forwarded once more: an error *)
(* kills the account, a second 401 is passed on like any other status.     *)
RefreshSucceeds(r) ==
  /\ pc[r] = "refresh"
  /\ \/ Mark(r, "dead") /\ Retry(r)
     \/ Limited(r)
     \/ /\ Goto(r, "backoff")
        /\ UNCHANGED <<barred, inflight, lease, replies>>
     \/ \E what \in {"2xx", "4xx", "401"} : Answer(r, what) /\ UNCHANGED barred
  /\ UNCHANGED <<refreshed, canceled, seen>>

-----------------------------------------------------------------------------
(* The environment.                                                        *)

(* The client disconnects.                                                 *)
Cancel(r) ==
  /\ pc[r] # "done" /\ ~canceled[r]
  /\ canceled' = [canceled EXCEPT ![r] = TRUE]
  /\ UNCHANGED <<barred, inflight, here, lease, refreshed, replies, seen>>

(* Reloads, pollers, the admin API, other endpoints and the clock.         *)
Update(c) ==
  /\ \E b \in Bars : barred' = [barred EXCEPT ![c] = b]
  /\ UNCHANGED <<inflight, here, lease, refreshed, replies, canceled, seen>>

Request(r) ==
  \/ \E c \in Credentials : Lease(r, c)
  \/ LeaseRefused(r) \/ WaitForCooldown(r) \/ WaitEnds(r)
  \/ ForwardFails(r) \/ ForwardRejected(r) \/ ForwardLimited(r)
  \/ ForwardBreaks(r) \/ ForwardAnswered(r)
  \/ BackoffEnds(r) \/ RefreshFails(r) \/ RefreshSucceeds(r)

Next == \/ \E r \in Requests : Request(r) \/ Cancel(r)
        \/ \E c \in Credentials : Update(c)

Spec == Init /\ [][Next]_vars

(* A goroutine runs, its timers expire and the upstream answers, breaks    *)
(* the connection, or the client ends the wait; only then is a step due.   *)
FairSpec == Spec /\ \A r \in Requests : WF_vars(Request(r))

-----------------------------------------------------------------------------
(* The variables hold what the Go types allow, the loops stay within       *)
(* maxAttempts, and a request holds a lease exactly while it forwards,     *)
(* refreshes or backs off (responses.go:194-336).                          *)
TypeOK ==
  /\ barred \in [Credentials -> SUBSET Reasons]
  /\ inflight \in [Credentials -> Int]
  /\ pc \in [Requests -> {"lease", "exhausted", "wait", "forward", "refresh",
                          "backoff", "done"}]
  /\ source \in [Requests -> 1..Len(Sources)]
  /\ attempt \in [Requests -> 0..MaxAttempts - 1]
  /\ lease \in [Requests -> Credentials \cup {None}]
  /\ refreshed \in [Requests -> SUBSET Accounts]
  /\ replies \in [Requests -> Seq({"2xx", "4xx", "401", "429", "503"})]
  /\ canceled \in [Requests -> BOOLEAN]
  /\ refused \in [Requests -> SUBSET {"account", "key"}]
  /\ tried \in [Requests -> [{"account", "key"} -> Nat]]
  /\ \A r \in Requests :
       IF pc[r] \in {"forward", "refresh", "backoff"}
       THEN lease[r] \in Pool(Source(r)) ELSE lease[r] = None

Holders(c) == {r \in Requests : lease[r] = c}

(* The count of a credential is the number of requests that hold a lease   *)
(* on it: every return of the handler gave its lease back once, so that    *)
(* rankings do not drift (responses.go:194-336).                           *)
LeasesBalanced == \A c \in Credentials : inflight[c] = Cardinality(Holders(c))

(* No request is answered twice, and one that ended unanswered lost its    *)
(* client before (responses.go:101-156, 358-492).                          *)
AnsweredOnce ==
  \A r \in Requests :
    /\ Len(replies[r]) <= 1
    /\ pc[r] = "done" /\ replies[r] = << >> => canceled[r]

(* "All accounts and API keys exhausted" is the answer only if every       *)
(* source at some time had nothing to lease or failed the request          *)
(* maxAttempts times (responses.go:139-155).                               *)
ExhaustedIsHonest ==
  \A r \in Requests : replies[r] = <<"503">> =>
    \A i \in 1..Len(Sources) :
      Sources[i] \in refused[r] \/ tried[r][Sources[i]] >= MaxAttempts

(* Every request comes to an end, however the upstream behaves and         *)
(* whatever becomes of the credentials meanwhile (responses.go:101-336).   *)
EveryRequestEnds == \A r \in Requests : <>(pc[r] = "done")
==============================================================================
