------------------------------ MODULE Lifecycle ------------------------------
(***************************************************************************)
(* The life of one credential: its tokens, its flags and what is kept of   *)
(* them.  A credential is an account of ChatGPT or of Claude, or an API    *)
(* key.  Its token is in the file, in the object the pool leases, and in   *)
(* objects that requests, pollers and the admin API still hold after a     *)
(* reload has replaced them; the upstream honours the newest refresh token *)
(* only.  Its flags are in the objects and, as statistics, in the store    *)
(* behind the persist queue, from which a restart reads them.              *)
(*                                                                         *)
(* Nothing serialises the parties: a refresh (control/recorder.go,         *)
(* claude_refresh.go), a poll (wham.go, claude_usage.go), a toggle or a    *)
(* deletion (admin.go) is a sequence of steps on the object it began with. *)
(* The watcher's events and timers are the matter of HotReload: here it    *)
(* reads the file some time after a change, and adds what it read later.   *)
(***************************************************************************)
EXTENDS Integers, Sequences, FiniteSets

CONSTANTS
  Kinds,        \* of {"chatgpt", "claude", "key"}
  Workers,      \* goroutines: requests, pollers, admin requests
  Objects,      \* bound: Account objects that are referred to at a time
  MaxQueue,     \* bound: operations waiting in the persist queue
  MaxEvents,    \* bound: exchanges, logins, toggles, commands, rewrites,
                \* failed commits and ends of the process
  None

Tokens == 1..(MaxEvents + 1)
Wish(disabled) == IF disabled THEN "disabled" ELSE "enabled"

(* DeadReason: a refresh failed ("refresh: ..."), or a call was refused or  *)
(* not answered (any other reason).                                        *)
Reasons == {"no", "refresh", "call"}
Stats == [disabled : BOOLEAN, dead : Reasons]
NewStats == [disabled |-> FALSE, dead |-> "no"]

ASSUME LifecycleAssumption ==
  /\ Kinds \subseteq {"chatgpt", "claude", "key"}
  /\ IsFiniteSet(Workers) /\ IsFiniteSet(Objects)
  /\ MaxQueue \in Nat /\ MaxEvents \in Nat
  /\ None \notin Objects \cup Tokens \cup Stats

VARIABLES
  kind,         \* what the credential is
  upstream,     \* the newest refresh token
  file,         \* the token in the file, or None
  token, stats, \* of each object
  entry,        \* the object in the pool, or None
  changed,      \* the file changed and the watcher has not looked
  loaded,       \* the token handleFileEvent has read and not added, or None
  stored,       \* the store: the statistics of the credential, or None
  queued,       \* the persist queue
  up,           \* the process runs
  events,       \* with upstream, counts what MaxEvents bounds
  job, pc,      \* of a goroutine
  held,         \* the object it works on
  sent,         \* the refresh token it sent, then the one it received
  snap,         \* the snapshot it is about to queue
  after,        \* what it does when it has queued it
  wish,         \* history: what the last toggle asked, "any" if not promised
  sound,        \* history: no refresh token was lost on its way to the file
  wronged,      \* history: a refresh failed for another reason than a used token
  deleted       \* history: deleted while nobody else worked on the account

object == <<token, stats, entry>>
watch == <<changed, loaded>>
process == <<up, events>>
worker == <<job, pc, held, sent, snap, after>>
hist == <<wish, sound, wronged, deleted>>
vars == <<kind, upstream, file, object, watch, stored, queued, process, worker,
          hist>>

(* The store and the queue in front of it, as WriteBehind specifies them.  *)
Key == "stats"
Behind == INSTANCE WriteBehind WITH
  Keys <- {Key}, Vals <- Stats, Absent <- None,
  store <- stored, pending <- queued

Write(val) == Behind!Accept([key |-> Key, val |-> val])

-----------------------------------------------------------------------------
Init == /\ kind \in Kinds
        /\ upstream = 1
        /\ file = 1
        /\ token = [o \in Objects |-> 1]
        /\ stats = [o \in Objects |-> NewStats]
        /\ entry = None
        /\ changed = FALSE /\ loaded = None
        /\ stored = [k \in {Key} |-> None]
        /\ queued = << >>
        /\ up = FALSE /\ events = 0
        /\ job = [w \in Workers |-> "none"]
        /\ pc = [w \in Workers |-> "idle"]
        /\ held = [w \in Workers |-> None]
        /\ sent = [w \in Workers |-> None]
        /\ snap = [w \in Workers |-> None]
        /\ after = [w \in Workers |-> "idle"]
        /\ wish = "enabled" /\ sound = TRUE /\ wronged = FALSE /\ deleted = FALSE

Budget == upstream + events <= MaxEvents
Event == Budget /\ events' = events + 1

Held == {held[w] : w \in Workers}
ReferredBesides(w) == {entry} \cup {held[v] : v \in Workers \ {w}}

(* Objects that nobody refers to any more are alike.                       *)
Keep(refs, tok, st) ==
  /\ token' = [o \in Objects |-> IF o \in refs THEN tok[o] ELSE 1]
  /\ stats' = [o \in Objects |-> IF o \in refs THEN st[o] ELSE NewStats]

Others(w) == {v \in Workers \ {w} : pc[v] # "idle"}

Marked(o, field, val) == [stats EXCEPT ![o][field] = val]

(* A goroutine goes on with its object, or without it.                     *)
Goto(w, where) == pc' = [pc EXCEPT ![w] = where]
Step(w, where) == /\ Goto(w, where)
                  /\ sent' = [sent EXCEPT ![w] = None]
                  /\ UNCHANGED <<job, held, snap, after, token, stats>>

(* A request that leaves the account in its first call knows nothing of it; *)
(* one that has refreshed it, or tried to, remembers its email, and tries  *)
(* at most once more (authRetried, refreshed).                             *)
Remembered(w) ==
  IF job[w] = "retry" \/ (job[w] = "request" /\ pc[w] # "call") THEN "retry" ELSE "none"

Leave(w, where, st) ==
  /\ Goto(w, where)
  /\ job' = [job EXCEPT ![w] = IF where = "record" THEN "none" ELSE Remembered(w)]
  /\ held' = [held EXCEPT ![w] = None]
  /\ sent' = [sent EXCEPT ![w] = None]
  /\ UNCHANGED <<snap, after>>
  /\ Keep(ReferredBesides(w), token, st)
Finish(w) == Leave(w, "idle", stats)

(* Its object is persisted, then it goes on.                               *)
PersistThen(w, next) ==
  /\ Goto(w, "persist")
  /\ after' = [after EXCEPT ![w] = next]
  /\ job' = IF next = "idle" THEN [job EXCEPT ![w] = Remembered(w)] ELSE job
  /\ sent' = [sent EXCEPT ![w] = None]
  /\ UNCHANGED <<held, snap>>

-----------------------------------------------------------------------------
(* Jobs begin with the object the pool has at the time.                    *)

Usable(o) == ~stats[o].disabled /\ stats[o].dead = "no"

(* A refresh begins with the refresh token the object has.                 *)
SendToken(w, o) ==
  /\ sent' = [sent EXCEPT ![w] = token[o]]
  /\ Goto(w, "exchange")

(* Requests and polls leave out a disabled or dead account, the admin API  *)
(* does not; keys are neither polled nor refreshed.  A request may get an  *)
(* account it remembers, or the one that replaced it, from the pool again: *)
(* a retry.  A poll of a ChatGPT account does to it what a passed-through  *)
(* request does.  The dashboard offers to disable what is enabled, and the *)
(* other way round.                                                        *)
Take(w, what) ==
  /\ up /\ pc[w] = "idle" /\ entry # None
  /\ what \in {"request", "retry", "passthrough", "poll"} => Usable(entry)
  /\ what = "retry" => job[w] = "retry"
  /\ what = "passthrough" => kind = "chatgpt"
  /\ what = "poll" => kind = "claude"
  /\ what = "refresh" => kind # "key"
  /\ what \in {"disable", "enable"} => (what = "disable") # stats[entry].disabled
  /\ job' = [job EXCEPT ![w] = what]
  /\ held' = [held EXCEPT ![w] = entry]
  /\ IF what = "refresh" THEN SendToken(w, entry)
     ELSE /\ Goto(w, CASE what \in {"disable", "enable"} -> "set"
                      [] what = "delete" -> "unlink"
                      [] OTHER -> "call")
          /\ UNCHANGED sent
  /\ deleted' = (what = "delete" /\ kind = "claude" /\ Others(w) = {})
  /\ UNCHANGED <<kind, upstream, file, object, watch, stored, queued, process,
                 snap, after, wish, sound, wronged>>

(* What a job does when its call was answered, or failed: a request is     *)
(* recorded, or goes on with another lease; a poll of a Claude account     *)
(* persists the account it holds.                                          *)
CallAnswered(w) ==
  /\ pc[w] \in {"call", "call again"}
  /\ IF job[w] = "poll" THEN PersistThen(w, "idle") /\ UNCHANGED <<token, stats>>
     ELSE \/ Finish(w)
          \/ job[w] \in {"request", "retry"} /\ kind # "key" /\ Leave(w, "record", stats)
  /\ UNCHANGED <<kind, upstream, file, entry, watch, stored, queued, process, hist>>

(* What makes a request give the credential up without a refresh: for a    *)
(* key a 401 or a 403, at Claude a 403, of a retry a 401; and after its    *)
(* refresh of a ChatGPT account no answer, which may be the client's doing *)
(* (post_refresh).  Whatever its token, the object is marked dead.         *)
CallRefused(w) ==
  /\ job[w] \in {"request", "retry"}
  /\ \/ pc[w] = "call" /\ (kind # "chatgpt" \/ job[w] = "retry")
     \/ pc[w] = "call again"
  /\ Leave(w, "idle", Marked(held[w], "dead", "call"))
  /\ UNCHANGED <<kind, upstream, file, entry, watch, stored, queued, process, hist>>

CallUnauthorized(w) ==
  /\ pc[w] = "call" /\ kind # "key" /\ job[w] # "retry"
  /\ SendToken(w, held[w])
  /\ UNCHANGED <<kind, upstream, file, object, watch, stored, queued, process,
                 job, held, snap, after, hist>>

-----------------------------------------------------------------------------
(* RefreshToken, RefreshClaudeToken.                                       *)

(* A failed exchange of a Claude account is persisted before it is         *)
(* reported, a failed save is not.                                         *)
ExchangeError(w) ==
  IF kind = "claude"
  THEN /\ PersistThen(w, IF job[w] = "refresh" THEN "idle" ELSE "failed")
       /\ UNCHANGED <<token, stats>>
  ELSE Step(w, "failed")

(* The upstream honours its newest token, and replaces it; the answer may  *)
(* be lost, or the client may be.                                          *)
Exchange(w) ==
  /\ pc[w] = "exchange" /\ sent[w] = upstream
  /\ Budget
  /\ upstream' = upstream + 1
  /\ \/ /\ sent' = [sent EXCEPT ![w] = upstream + 1]
        /\ Goto(w, "update")
        /\ UNCHANGED <<job, held, snap, after, token, stats, sound, wronged>>
     \/ /\ ExchangeError(w)
        /\ sound' = FALSE /\ wronged' = TRUE
  /\ UNCHANGED <<kind, file, entry, watch, stored, queued, process, wish, deleted>>

(* A used token, or none of the upstream's answers: a timeout, a client    *)
(* that left, a 5xx.  Not the token's fault if it is the newest, or if     *)
(* another goroutine has changed the object's token, or is about to.       *)
ExchangeFails(w) ==
  /\ pc[w] = "exchange"
  /\ ExchangeError(w)
  /\ wronged' = \/ wronged
                \/ sent[w] = upstream
                \/ token[held[w]] # sent[w]
                \/ \E v \in Others(w) : pc[v] = "update" /\ held[v] = held[w]
  /\ UNCHANGED <<kind, upstream, file, entry, watch, stored, queued, process,
                 wish, sound, deleted>>

(* Mutant: the object keeps its refresh token. *)
UpdateTokensAccessOnly(w) ==
  /\ pc[w] = "update"
  /\ Step(w, "save")
  /\ UNCHANGED <<kind, upstream, file, entry, watch, stored, queued, process, hist>>

UpdateTokens(w) ==
  /\ pc[w] = "update"
  /\ token' = [token EXCEPT ![held[w]] = sent[w]]
  /\ sent' = [sent EXCEPT ![w] = None]
  /\ Goto(w, "save")
  /\ UNCHANGED <<kind, upstream, file, stats, entry, watch, stored, queued,
                 process, job, held, snap, after, hist>>

(* SaveAccountFile: the object's token of the moment.  A request repeats   *)
(* its call, one to Claude with another lease, which is another job; so    *)
(* does a poll; the admin API has answered.  A goroutine whose object was  *)
(* replaced, and its successor refreshed, saves over the newer token.      *)
Save(w) ==
  /\ pc[w] = "save"
  /\ file' = token[held[w]]
  /\ changed' = TRUE
  /\ sound' = (sound /\ (held[w] = entry \/ token[held[w]] = upstream))
  /\ CASE kind = "claude" -> /\ PersistThen(w, IF job[w] = "poll" THEN "call again" ELSE "idle")
                             /\ UNCHANGED <<token, stats>>
       [] kind # "claude" /\ job[w] # "refresh" -> Step(w, "call again")
       [] OTHER -> Finish(w)
  /\ UNCHANGED <<kind, upstream, entry, loaded, stored, queued, process, wish,
                 wronged, deleted>>

SaveFails(w) ==
  /\ pc[w] = "save"
  /\ sound' = FALSE /\ wronged' = TRUE
  /\ Step(w, "failed")
  /\ UNCHANGED <<kind, upstream, file, entry, watch, stored, queued, process,
                 wish, deleted>>

(* Mutant: the account of that email is marked, whichever object it is. *)
RefreshFailedByEmail(w) ==
  /\ pc[w] = "failed"
  /\ IF job[w] = "request" /\ entry # None
     THEN Leave(w, "idle", Marked(entry, "dead", "refresh"))
     ELSE Finish(w)
  /\ UNCHANGED <<kind, upstream, file, entry, watch, stored, queued, process, hist>>

(* The loops of the two pools mark the object dead; a passed-through       *)
(* request and the admin endpoint answer, a poll of a Claude account       *)
(* persists once more.                                                     *)
RefreshFailed(w) ==
  /\ pc[w] = "failed"
  /\ CASE job[w] = "request" -> Leave(w, "idle", Marked(held[w], "dead", "refresh"))
       [] job[w] = "poll" -> PersistThen(w, "idle") /\ UNCHANGED <<token, stats>>
       [] OTHER -> Finish(w)
  /\ UNCHANGED <<kind, upstream, file, entry, watch, stored, queued, process, hist>>

-----------------------------------------------------------------------------
(* The statistics: a snapshot is taken in one step and queued in another.  *)

Queue(val) == Len(queued) < MaxQueue /\ Write(val)

(* persistStats, ClaudeUsagePoller.persist, persistAccountStats.           *)
Persist(w) ==
  /\ pc[w] = "persist"
  /\ snap' = [snap EXCEPT ![w] = stats[held[w]]]
  /\ Goto(w, "put")
  /\ IF after[w] = "idle"
     THEN /\ held' = [held EXCEPT ![w] = None]
          /\ Keep(ReferredBesides(w), token, stats)
     ELSE UNCHANGED <<held, token, stats>>
  /\ UNCHANGED <<kind, upstream, file, entry, watch, stored, queued, process,
                 job, sent, after, hist>>

(* RecordRequest looks the account up by its email.                        *)
Record(w) ==
  /\ pc[w] = "record"
  /\ IF entry = None THEN Goto(w, "idle") /\ UNCHANGED snap
     ELSE /\ snap' = [snap EXCEPT ![w] = stats[entry]]
          /\ Goto(w, "put")
  /\ UNCHANGED <<kind, upstream, file, object, watch, stored, queued, process,
                 job, held, sent, after, hist>>

Put(w) ==
  /\ pc[w] = "put"
  /\ Queue(snap[w])
  /\ snap' = [snap EXCEPT ![w] = None]
  /\ after' = [after EXCEPT ![w] = "idle"]
  /\ Goto(w, after[w])
  /\ UNCHANGED <<kind, upstream, file, object, watch, process, job, held, sent, hist>>

(* The queue's transaction: a prefix is applied, or dropped if it fails.   *)
Commit(n) ==
  /\ Behind!Commit(n)
  /\ UNCHANGED <<kind, upstream, file, object, watch, process, worker, hist>>

CommitFails(n) ==
  /\ Behind!Drop(n) /\ Event
  /\ wish' = "any" /\ deleted' = FALSE
  /\ UNCHANGED <<kind, upstream, file, object, watch, up, worker, sound, wronged>>

-----------------------------------------------------------------------------
(* The admin API.                                                          *)

(* Somebody has a snapshot in hand, or an object that is not in the pool.  *)
Overtaken(w) ==
  \E v \in Others(w) : pc[v] = "put" \/ held[v] \notin {entry, None}

(* toggleAccount, toggleClaudeAccount, toggleKey.                          *)
SetDisabled(w) ==
  /\ pc[w] = "set" /\ Event
  /\ stats' = Marked(held[w], "disabled", job[w] = "disable")
  /\ wish' = IF held[w] # entry \/ Overtaken(w) THEN "any" ELSE Wish(job[w] = "disable")
  /\ PersistThen(w, "idle")
  /\ UNCHANGED <<kind, upstream, file, token, entry, watch, stored, queued,
                 up, sound, wronged, deleted>>

(* deleteClaudeAccount removes the file; the other two leave it.           *)
Unlink(w) ==
  /\ pc[w] = "unlink" /\ kind = "claude"
  /\ file' = None
  /\ changed' = TRUE
  /\ Step(w, "remove")
  /\ UNCHANGED <<kind, upstream, entry, loaded, stored, queued, process, hist>>

(* Pool.Remove: the object stays with those who hold it.                   *)
Drop == /\ entry' = None
        /\ wish' = "any"

Remove(w) ==
  /\ pc[w] = "remove" \/ (pc[w] = "unlink" /\ kind # "claude")
  /\ Drop
  /\ IF kind = "claude" THEN Step(w, "forget")
     ELSE /\ Goto(w, "idle")
          /\ job' = [job EXCEPT ![w] = "none"]
          /\ held' = [held EXCEPT ![w] = None]
          /\ UNCHANGED <<sent, snap, after>>
          /\ Keep({held[v] : v \in Workers \ {w}}, token, stats)
  /\ UNCHANGED <<kind, upstream, file, watch, stored, queued, process, sound,
                 wronged, deleted>>

(* Mutant: as with the other two kinds, the statistics stay. *)
ForgetNothing(w) ==
  /\ pc[w] = "forget"
  /\ Finish(w)
  /\ UNCHANGED <<kind, upstream, file, entry, watch, stored, queued, process, hist>>

Forget(w) ==
  /\ pc[w] = "forget"
  /\ Queue(None)
  /\ Finish(w)
  /\ UNCHANGED <<kind, upstream, file, entry, watch, process, hist>>

-----------------------------------------------------------------------------
(* The watcher.                                                            *)

(* handleFileEvent: the file is read, or the account behind it removed.    *)
Look ==
  /\ up /\ changed /\ loaded = None
  /\ changed' = FALSE
  /\ IF file = None
     THEN /\ Drop
          /\ Keep(Held, token, stats)
          /\ UNCHANGED loaded
     ELSE loaded' = file /\ UNCHANGED <<object, wish>>
  /\ UNCHANGED <<kind, upstream, file, stored, queued, process, worker, sound,
                 wronged, deleted>>

SameToken == entry # None /\ loaded = token[entry]

(* Mutant: a Claude account inherits nothing either. *)
InheritedNever == NewStats

(* Pool.Add keeps nothing of the object it replaces, ClaudePool.Add its    *)
(* statistics, but Disabled and Dead only if the token is the same.        *)
Inherited == IF kind = "claude" /\ SameToken THEN stats[entry] ELSE NewStats

Add ==
  /\ up /\ loaded # None
  /\ \E o \in Objects \ Held :
       /\ entry' = o
       /\ Keep(Held \cup {o}, [token EXCEPT ![o] = loaded],
               [stats EXCEPT ![o] = Inherited])
  /\ wish' = IF kind = "claude" /\ SameToken THEN wish ELSE "any"
  /\ loaded' = None
  /\ UNCHANGED <<kind, upstream, file, changed, stored, queued, process, worker,
                 sound, wronged, deleted>>

-----------------------------------------------------------------------------
(* The process and its surroundings.                                       *)

(* LoadDir and loadAccountStats, loadClaudeStats, loadKeyStats.            *)
Start ==
  /\ ~up
  /\ up' = TRUE
  /\ IF file = None THEN UNCHANGED <<object, wronged>>
     ELSE /\ entry' \in Objects
          /\ token' = [token EXCEPT ![entry'] = file]
          /\ stats' = [stats EXCEPT ![entry'] =
                         IF stored[Key] = None THEN NewStats ELSE stored[Key]]
          /\ wronged' = (wronged \/ (stored[Key] # None /\ stored[Key].dead = "refresh"))
  /\ UNCHANGED <<kind, upstream, file, watch, stored, queued, events, worker,
                 wish, sound, deleted>>

(* The process ends: what was not committed is gone, and what a refresh    *)
(* had not saved.  An orderly end commits everything first.                *)
Stop ==
  /\ up /\ Event
  /\ up' = FALSE
  /\ Behind!Crash
  /\ entry' = None /\ changed' = FALSE /\ loaded' = None
  /\ Keep({}, token, stats)
  /\ job' = [w \in Workers |-> "none"]
  /\ pc' = [w \in Workers |-> "idle"]
  /\ held' = [w \in Workers |-> None]
  /\ sent' = [w \in Workers |-> None]
  /\ snap' = [w \in Workers |-> None]
  /\ after' = [w \in Workers |-> "idle"]
  /\ wish' = IF queued # << >> \/ \E w \in Workers : pc[w] \in {"persist", "put"}
             THEN "any" ELSE wish
  /\ sound' = (sound /\ \A w \in Workers : pc[w] \notin {"update", "save"})
  /\ deleted' = (deleted /\ queued = << >> /\ \A w \in Workers : pc[w] = "idle")
  /\ UNCHANGED <<kind, upstream, file, wronged>>

(* The disable and enable commands, while no server holds the store: the   *)
(* credential is loaded without its statistics, and these are overwritten. *)
Command(v) ==
  /\ ~up /\ file # None /\ Event
  /\ stored' = [k \in {Key} |-> [NewStats EXCEPT !.disabled = v]]
  /\ wish' = Wish(v)
  /\ UNCHANGED <<kind, upstream, file, object, watch, queued, up, worker,
                 sound, wronged, deleted>>

(* An editor or a backup that writes the file as it was.                   *)
Rewrite ==
  /\ kind # "key" /\ up /\ file # None /\ Event
  /\ changed' = TRUE
  /\ UNCHANGED <<kind, upstream, file, object, loaded, stored, queued, up, worker,
                 hist>>

(* A login after a deletion: a new token.                                  *)
Login ==
  /\ kind # "key" /\ file = None /\ Budget
  /\ upstream' = upstream + 1
  /\ file' = upstream'
  /\ changed' = up
  /\ sound' = (sound /\ \A w \in Workers : pc[w] \notin {"update", "save"})
  /\ deleted' = FALSE
  /\ UNCHANGED <<kind, object, loaded, stored, queued, process, worker, wish,
                 wronged>>

Jobs == {"request", "retry", "passthrough", "poll", "refresh", "disable", "enable", "delete"}

Work(w) ==
  \/ \E what \in Jobs : Take(w, what)
  \/ CallAnswered(w) \/ CallRefused(w) \/ CallUnauthorized(w)
  \/ Exchange(w) \/ ExchangeFails(w) \/ UpdateTokens(w)
  \/ Save(w) \/ SaveFails(w) \/ RefreshFailed(w)
  \/ Persist(w) \/ Record(w) \/ Put(w)
  \/ SetDisabled(w) \/ Unlink(w) \/ Remove(w) \/ Forget(w)

Next == \/ \E w \in Workers : Work(w)
        \/ \E n \in 1..Len(queued) : Commit(n) \/ CommitFails(n)
        \/ Look \/ Add
        \/ Start \/ Stop \/ Rewrite \/ Login
        \/ \E v \in BOOLEAN : Command(v)

Spec == Init /\ [][Next]_vars

-----------------------------------------------------------------------------
(* Types; every goroutine at work holds an object, and a snapshot is in    *)
(* hand only on its way to the queue.                                      *)
TypeOK ==
  /\ kind \in Kinds
  /\ upstream \in Tokens /\ file \in Tokens \cup {None}
  /\ token \in [Objects -> Tokens] /\ stats \in [Objects -> Stats]
  /\ entry \in Objects \cup {None} /\ loaded \in Tokens \cup {None}
  /\ {changed, up, sound, wronged, deleted} \subseteq BOOLEAN
  /\ stored \in [{Key} -> Stats \cup {None}]
  /\ queued \in Seq(Behind!Op) /\ Len(queued) <= MaxQueue
  /\ events \in 0..MaxEvents
  /\ wish \in {"disabled", "enabled", "any"}
  /\ job \in [Workers -> Jobs \cup {"none"}]
  /\ after \in [Workers -> {"idle", "call again", "failed"}]
  /\ held \in [Workers -> Objects \cup {None}]
  /\ sent \in [Workers -> Tokens \cup {None}]
  /\ snap \in [Workers -> Stats \cup {None}]
  /\ \A w \in Workers : /\ pc[w] \notin {"idle", "record", "put"} => held[w] # None
                        /\ pc[w] = "put" <=> snap[w] # None

(* What an admin asked last, in the dashboard or on the command line, is   *)
(* what the pool goes by, through requests, polls and refreshes of others, *)
(* reloads of the same token, and restarts; unless the code lost it: see   *)
(* wish (admin.go:959-1040, claude_account.go:312-333, main.go:838-878).   *)
ToggleHolds ==
  up /\ entry # None /\ wish # "any" =>
    wish = Wish(stats[entry].disabled)

(* Between refreshes the file has the newest refresh token, and so has the *)
(* pool when its watcher has caught up: every token the upstream gave out  *)
(* reached them, unless an answer, a save or the process was lost in       *)
(* between (recorder.go:391-410, claude_refresh.go:18-37, watch.go:68-83). *)
TokensInStep ==
  sound /\ (\A w \in Workers : pc[w] \notin {"update", "save"}) =>
    /\ file # None => file = upstream
    /\ up /\ ~changed /\ loaded = None /\ entry # None => token[entry] = upstream

(* An account that is dead because its refresh failed has a token that is  *)
(* used up, unless a refresh failed for want of an answer, or because two  *)
(* shared one token, or the mark is one of an earlier process              *)
(* (responses.go:400-404, messages.go:179-187).  The other reasons promise *)
(* nothing of the token: see CallRefused.                                  *)
DeadHasReason ==
  entry # None /\ stats[entry].dead = "refresh" /\ ~wronged =>
    token[entry] # upstream

(* A Claude account that was deleted while nobody else worked on it is     *)
(* gone: no file, restart or late look of the watcher brings it back to    *)
(* the pool, and it leaves no statistics to a later account of that email  *)
(* (admin.go:486-505, claude_account.go:634-647).                          *)
DeletedIsGone ==
  deleted /\ (\A w \in Workers : pc[w] = "idle") =>
    /\ file = None
    /\ ~changed /\ loaded = None => entry = None
    /\ queued = << >> => stored[Key] = None
==============================================================================
