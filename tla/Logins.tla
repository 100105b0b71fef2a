------------------------------- MODULE Logins --------------------------------
(***************************************************************************)
(* Adding an account by OAuth.  A login is begun in one of three ways.  By *)
(* browser (main.go): a goroutine listens on a port of 127.0.0.1 for the   *)
(* redirect (auth/oauth.go), exchanges its code and saves the account.  By *)
(* hand in the dashboard (control/admin.go) or on the command line         *)
(* (cmd/claude.go): the verifier is kept, in memory or in a file, until    *)
(* the user has pasted the redirect of a page that failed to load.  The    *)
(* redirect of a login by hand names the first port all the same: whoever  *)
(* listens there gets it.                                                  *)
(*                                                                         *)
(* The module is about one provider: Claude, whose logins know all three   *)
(* ways; the browser logins of ChatGPT are alike, on ports of their own.   *)
(* Its names are not those of ClaudePool: one module can be about both.    *)
(***************************************************************************)
EXTENDS Integers, FiniteSets

CONSTANTS
  MaxLogins,    \* bound: logins in all
  MaxPort,      \* bound: the ports tried, 6 in the code
  Visitors,     \* goroutines that handle a request to a callback server
  Finishers,    \* requests, or commands, that finish a login by hand
  MaxEvents,    \* bound: expiries, failures of a server and restarts
  NoLogin

Logins == 1..MaxLogins
Ports == 1..MaxPort
Slots == {"api", "cli"}

ASSUME LoginsAssumption ==
  /\ MaxLogins \in Nat /\ MaxPort \in Nat \ {0} /\ MaxEvents \in Nat
  /\ IsFiniteSet(Visitors) /\ IsFiniteSet(Finishers)
  /\ NoLogin \notin Logins

VARIABLES
  via,          \* how a login was begun, "none" if it was not
  pc,           \* of the goroutine of a browser login
  listener,     \* the login whose callback server listens on a port, or NoLogin
  outcome,      \* Callback.result or err: "none", "code" or "error"
  closed,       \* Callback.done is closed
  visit,        \* of each visitor: where it is, whose callback, and whether
                \* it is the goroutine that runs the server
  pending,      \* pendingClaude, and the pending file
  expired,      \* logins begun more than ten minutes ago
  finish,       \* of each finisher: where it is, its slot, its copy of the
                \* pending login, and the login its code is of
  authorised,   \* logins the user has confirmed at the provider
  used,         \* codes that were exchanged
  saved,        \* logins whose account was saved
  excused,      \* history: the newest login of a slot may be forgotten
  events

callback == <<listener, outcome, closed, visit>>
manual == <<pending, expired, finish, excused>>
upstream == <<authorised, used, saved>>
loginVars == <<via, pc, callback, manual, upstream, events>>

Idle == [at |-> "idle", of |-> NoLogin, serves |-> FALSE]
Rest == [at |-> "idle", slot |-> "api", held |-> NoLogin, code |-> NoLogin]

LoginInit ==
  /\ via = [l \in Logins |-> "none"]
  /\ pc = [l \in Logins |-> "none"]
  /\ listener = [p \in Ports |-> NoLogin]
  /\ outcome = [l \in Logins |-> "none"]
  /\ closed = [l \in Logins |-> FALSE]
  /\ visit = [v \in Visitors |-> Idle]
  /\ pending = [s \in Slots |-> NoLogin]
  /\ expired = {}
  /\ finish = [f \in Finishers |-> Rest]
  /\ authorised = {} /\ used = {} /\ saved = {}
  /\ excused = [s \in Slots |-> FALSE]
  /\ events = 0

Event == events < MaxEvents /\ events' = events + 1

Begun == {l \in Logins : via[l] # "none"}
NextLogin == Cardinality(Begun) + 1

-----------------------------------------------------------------------------
(* Logins by browser: claudeOAuthStarter and its goroutine.                *)

FreePorts == {p \in Ports : listener[p] = NoLogin}

(* startCallback takes the first port that is free, or refuses.            *)
StartBrowser ==
  /\ NextLogin \in Logins /\ FreePorts # {}
  /\ via' = [via EXCEPT ![NextLogin] = "browser"]
  /\ pc' = [pc EXCEPT ![NextLogin] = "wait"]
  /\ \E p \in FreePorts :
       /\ \A q \in FreePorts : p <= q
       /\ listener' = [listener EXCEPT ![p] = NextLogin]
  /\ UNCHANGED <<outcome, closed, visit, manual, upstream, events>>

(* Mutant: the server goes on listening. *)
EndListening(l) ==
  /\ pc' = [pc EXCEPT ![l] = "ended"]
  /\ UNCHANGED listener

(* The goroutine ends, and closes its server.                              *)
End(l) ==
  /\ pc' = [pc EXCEPT ![l] = "ended"]
  /\ listener' = [p \in Ports |-> IF listener[p] = l THEN NoLogin ELSE listener[p]]

(* Callback.Wait.                                                          *)
WaitDone(l) ==
  /\ pc[l] = "wait" /\ closed[l]
  /\ IF outcome[l] = "code"
     THEN pc' = [pc EXCEPT ![l] = "exchange"] /\ UNCHANGED listener
     ELSE End(l)
  /\ UNCHANGED <<via, outcome, closed, visit, manual, upstream, events>>

WaitTimeout(l) ==
  /\ pc[l] = "wait"
  /\ End(l)
  /\ UNCHANGED <<via, outcome, closed, visit, manual, upstream, events>>

(* The code is exchanged with the verifier of this login; the state has    *)
(* been compared.                                                          *)
Exchange(l) ==
  /\ pc[l] = "exchange"
  /\ \/ /\ l \notin used
        /\ used' = used \cup {l}
        /\ pc' = [pc EXCEPT ![l] = "save"]
        /\ UNCHANGED listener
     \/ End(l) /\ UNCHANGED used
  /\ UNCHANGED <<via, outcome, closed, visit, manual, authorised, saved, events>>

(* The profile, SaveClaudeAccountFile, then ClaudePool.Add; or an error.   *)
Save(l) ==
  /\ pc[l] = "save"
  /\ End(l)
  /\ saved' \in {saved, saved \cup {l}}
  /\ UNCHANGED <<via, outcome, closed, visit, manual, authorised, used, events>>

-----------------------------------------------------------------------------
(* The callback server.                                                    *)

(* The user logs in at the provider.                                       *)
Authorise(l) ==
  /\ l \in Begun \ authorised
  /\ authorised' = authorised \cup {l}
  /\ UNCHANGED <<via, pc, callback, manual, used, saved, events>>

(* Where a redirect of l goes: to its own server; to whoever listens there *)
(* by now, when that one has let go of its port (which one it had is not   *)
(* kept); and to the first port, when it was begun by hand.                *)
Redirect(l, p) ==
  IF via[l] = "browser"
  THEN listener[p] = l \/ \A q \in Ports : listener[q] # l
  ELSE p = 1

(* The first result or error counts, under the mutex; then done is closed. *)
Settle(v, m, result) ==
  /\ visit[v] = Idle
  /\ outcome' = [outcome EXCEPT ![m] = IF @ = "none" THEN result ELSE @]
  /\ visit' = [visit EXCEPT ![v] = [at |-> "signal", of |-> m, serves |-> FALSE]]

(* Mutant: the state of the redirect is not compared. *)
HandleAnyState(v, l) ==
  /\ \E p \in Ports :
       /\ l \in Begun /\ Redirect(l, p) /\ listener[p] # NoLogin
       /\ \/ l \in authorised /\ Settle(v, listener[p], "code")
          \/ l \notin authorised /\ Settle(v, listener[p], "error")
  /\ UNCHANGED <<via, pc, listener, closed, manual, upstream, events>>

(* handle: the redirect of l, or of a refusal, reaches the server of m; it *)
(* is repeated when the user reloads the page.                             *)
Handle(v, l) ==
  /\ \E p \in Ports :
       /\ l \in Begun /\ Redirect(l, p) /\ listener[p] # NoLogin
       /\ \/ /\ l \in authorised
             /\ Settle(v, listener[p], IF listener[p] = l THEN "code" ELSE "error")
          \/ l \notin authorised /\ Settle(v, listener[p], "error")
  /\ UNCHANGED <<via, pc, listener, closed, manual, upstream, events>>

(* The server stops by itself and lets go of its port; its error counts    *)
(* even after a result.                                                    *)
ServeFails(v, m) ==
  /\ visit[v] = Idle
  /\ m \in {listener[p] : p \in Ports} \ {NoLogin} /\ Event
  /\ listener' = [p \in Ports |-> IF listener[p] = m THEN NoLogin ELSE listener[p]]
  /\ outcome' = [outcome EXCEPT ![m] = "error"]
  /\ visit' = [visit EXCEPT ![v] = [at |-> "signal", of |-> m, serves |-> TRUE]]
  /\ UNCHANGED <<via, pc, closed, manual, upstream>>

(* signalDone: the channel is looked at in one step and closed in another. *)
Signal(v) ==
  /\ visit[v].at = "signal"
  /\ visit' = [visit EXCEPT ![v] = IF closed[visit[v].of] THEN Idle
                                   ELSE [@ EXCEPT !.at = "close"]]
  /\ UNCHANGED <<via, pc, listener, outcome, closed, manual, upstream, events>>

CloseDone(v) ==
  /\ visit[v].at = "close" /\ ~closed[visit[v].of]
  /\ closed' = [closed EXCEPT ![visit[v].of] = TRUE]
  /\ visit' = [visit EXCEPT ![v] = Idle]
  /\ UNCHANGED <<via, pc, listener, outcome, manual, upstream, events>>

(* A second close panics; net/http recovers the panic of a handler.        *)
ClosePanics(v) ==
  /\ visit[v].at = "close" /\ closed[visit[v].of] /\ ~visit[v].serves
  /\ visit' = [visit EXCEPT ![v] = Idle]
  /\ UNCHANGED <<via, pc, listener, outcome, closed, manual, upstream, events>>

-----------------------------------------------------------------------------
(* Logins by hand.                                                         *)

Busy(s) == \E f \in Finishers : finish[f].at # "idle" /\ finish[f].slot = s

(* uiClaudeOAuthManualStart, AddClaudeAccountNoBrowser.                    *)
StartManual(s) ==
  /\ NextLogin \in Logins
  /\ via' = [via EXCEPT ![NextLogin] = s]
  /\ pending' = [pending EXCEPT ![s] = NextLogin]
  /\ excused' = [excused EXCEPT ![s] = Busy(s)]
  /\ UNCHANGED <<pc, callback, expired, finish, upstream, events>>

(* uiClaudeOAuthManualFinish, AddClaudeAccountFromCode.  The pending login *)
(* is copied; it may not have expired, and its state is that of a pasted   *)
(* address; a bare code has none.                                          *)
FinishBegins(f, s, c, address) ==
  /\ finish[f] = Rest
  /\ pending[s] # NoLogin /\ pending[s] \notin expired
  /\ c \in authorised /\ via[c] \in Slots
  /\ address => c = pending[s]
  /\ finish' = [finish EXCEPT ![f] = [at |-> "exchange", slot |-> s,
                                      held |-> pending[s], code |-> c]]
  /\ UNCHANGED <<via, pc, callback, pending, expired, excused, upstream, events>>

(* The provider takes a code once, with the verifier of its login.         *)
FinishExchange(f) ==
  /\ finish[f].at = "exchange"
  /\ finish[f].code = finish[f].held /\ finish[f].code \notin used
  /\ used' = used \cup {finish[f].code}
  /\ finish' = [finish EXCEPT ![f].at = "save"]
  /\ UNCHANGED <<via, pc, callback, pending, expired, excused, authorised, saved,
                 events>>

(* Mutant: a try that failed ends the login. *)
FinishFailsForgets(f) ==
  /\ finish[f].at \in {"exchange", "save"}
  /\ finish' = [finish EXCEPT ![f] = Rest]
  /\ pending' = [pending EXCEPT ![finish[f].slot] = NoLogin]
  /\ UNCHANGED <<via, pc, callback, expired, excused, upstream, events>>

(* The exchange, the profile or the file fails: the login stays pending.   *)
FinishFails(f) ==
  /\ finish[f].at \in {"exchange", "save"}
  /\ finish' = [finish EXCEPT ![f] = Rest]
  /\ UNCHANGED <<via, pc, callback, pending, expired, excused, upstream, events>>

FinishSave(f) ==
  /\ finish[f].at = "save"
  /\ saved' = saved \cup {finish[f].held}
  /\ finish' = [finish EXCEPT ![f].at = "clear"]
  /\ UNCHANGED <<via, pc, callback, pending, expired, excused, authorised, used,
                 events>>

(* Whatever is pending by now is forgotten; the command ignores that the   *)
(* file could not be removed.                                              *)
FinishClear(f) ==
  /\ finish[f].at = "clear"
  /\ \/ pending' = [pending EXCEPT ![finish[f].slot] = NoLogin]
     \/ finish[f].slot = "cli" /\ UNCHANGED pending
  /\ finish' = [finish EXCEPT ![f] = Rest]
  /\ UNCHANGED <<via, pc, callback, expired, excused, upstream, events>>

(* add-claude-account --abort-pending removes the file, whichever login is *)
(* in it, whoever is finishing it.                                         *)
AbortPending ==
  /\ pending["cli"] # NoLogin
  /\ pending' = [pending EXCEPT !["cli"] = NoLogin]
  /\ excused' = [excused EXCEPT !["cli"] = TRUE]
  /\ UNCHANGED <<via, pc, callback, expired, finish, upstream, events>>

Expire(l) ==
  /\ l \in {pending[s] : s \in Slots} \ (expired \cup {NoLogin}) /\ Event
  /\ expired' = expired \cup {l}
  /\ UNCHANGED <<via, pc, callback, pending, finish, excused, upstream>>

-----------------------------------------------------------------------------
(* The server ends, orderly or by a panic outside of a handler: its        *)
(* goroutines and what it had pending are gone, the file is not.           *)
Gone ==
  /\ pc' = [l \in Logins |-> IF via[l] = "browser" THEN "ended" ELSE pc[l]]
  /\ listener' = [p \in Ports |-> NoLogin]
  /\ visit' = [v \in Visitors |-> Idle]
  /\ pending' = [pending EXCEPT !["api"] = NoLogin]
  /\ excused' = [excused EXCEPT !["api"] = TRUE]
  /\ finish' = [f \in Finishers |-> IF finish[f].slot = "api" THEN Rest ELSE finish[f]]
  /\ UNCHANGED <<via, outcome, closed, expired, upstream>>

Restart == Event /\ Gone

ServePanics(v) ==
  /\ visit[v].at = "close" /\ closed[visit[v].of] /\ visit[v].serves
  /\ Gone
  /\ UNCHANGED events

Goroutine(l) == WaitDone(l) \/ WaitTimeout(l) \/ Exchange(l) \/ Save(l)

LoginNext ==
  \/ StartBrowser \/ AbortPending \/ Restart
  \/ \E s \in Slots : StartManual(s)
  \/ \E l \in Logins : Goroutine(l) \/ Authorise(l) \/ Expire(l)
  \/ \E v \in Visitors :
       \/ Signal(v) \/ CloseDone(v) \/ ClosePanics(v) \/ ServePanics(v)
       \/ \E l \in Logins : Handle(v, l) \/ ServeFails(v, l)
  \/ \E f \in Finishers :
       \/ \E s \in Slots, c \in Logins, address \in BOOLEAN :
            FinishBegins(f, s, c, address)
       \/ FinishExchange(f) \/ FinishFails(f) \/ FinishSave(f) \/ FinishClear(f)

LoginSpec == LoginInit /\ [][LoginNext]_loginVars

(* The goroutine of a login runs, its timers fire, and the provider        *)
(* answers or the client's 30 seconds pass.                                *)
FairLoginSpec == LoginSpec /\ \A l \in Logins : WF_loginVars(Goroutine(l))

-----------------------------------------------------------------------------
LoginTypes ==
  /\ via \in [Logins -> {"none", "browser"} \cup Slots]
  /\ pc \in [Logins -> {"none", "wait", "exchange", "save", "ended"}]
  /\ expired \cup authorised \cup used \cup saved \subseteq Logins
  /\ events \in 0..MaxEvents

CallbackTypes ==
  /\ listener \in [Ports -> Logins \cup {NoLogin}]
  /\ outcome \in [Logins -> {"none", "code", "error"}]
  /\ closed \in [Logins -> BOOLEAN]
  /\ visit \in [Visitors -> [at : {"idle", "signal", "close"},
                             of : Logins \cup {NoLogin}, serves : BOOLEAN]]
  /\ \A v \in Visitors : visit[v].at # "idle" => visit[v].of # NoLogin
  /\ \A p \in Ports :
       listener[p] # NoLogin => pc[listener[p]] \in {"wait", "exchange", "save"}

ManualTypes ==
  /\ pending \in [Slots -> Logins \cup {NoLogin}]
  /\ excused \in [Slots -> BOOLEAN]
  /\ finish \in [Finishers -> [at : {"idle", "exchange", "save", "clear"},
                               slot : Slots, held : Logins \cup {NoLogin},
                               code : Logins \cup {NoLogin}]]
  /\ \A f \in Finishers :
       finish[f].at # "idle" => NoLogin \notin {finish[f].held, finish[f].code}

(* Types; whoever listens on a port has a goroutine that has not ended, a  *)
(* signal is of some callback, and a finish on its way holds the login it  *)
(* found pending (auth/oauth.go:146-285, admin.go:324-358).                *)
LoginTypeOK == LoginTypes /\ CallbackTypes /\ ManualTypes

Newest(s, l) == via[l] = s /\ \A m \in Logins : via[m] = s => m <= l

(* The login by hand that was begun last can be finished until it is, or   *)
(* expires, however often a try failed and whatever other logins do: it is *)
(* not forgotten, unless it was begun while an earlier one was being       *)
(* finished, the user aborted it (main.go:604-610), or the server that had *)
(* it in memory was restarted (admin.go:298-400, cmd/claude.go:107-178).   *)
PendingKept ==
  \A s \in Slots, l \in Logins :
    Newest(s, l) /\ l \notin saved /\ ~excused[s] => pending[s] = l

(* An account is saved only of a login that the user has confirmed and     *)
(* whose own code was exchanged: neither the redirect of another login     *)
(* that reaches its port, nor a code that was pasted after a new login had *)
(* begun, becomes its account (auth/oauth.go:232-277, main.go:417-446,     *)
(* admin.go:355-388, cmd/claude.go:137-178).                               *)
SavedWithOwnCode == saved \subseteq used /\ used \subseteq authorised

(* A browser login does not wait for ever, whichever callbacks come, twice *)
(* or never, and when it has ended its port is free again for the next one *)
(* (main.go:399-465, auth/oauth.go:146-283).                               *)
EveryLoginEnds ==
  \A l \in Logins :
    pc[l] = "wait" ~> pc[l] = "ended" /\ \A p \in Ports : listener[p] # l
==============================================================================
