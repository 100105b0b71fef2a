------------------------------ MODULE HotReload -------------------------------
(***************************************************************************)
(* How the account pools follow their directories (broker/watch.go, and    *)
(* the same code for Claude in claude_account.go): LoadDir at the start,   *)
(* then fsnotify events, a 200 ms debounce per path, and for each timer    *)
(* that fires a goroutine that loads the file into the pool or removes the *)
(* account that came from it.                                              *)
(*                                                                         *)
(* A handler reads (the file, or the pool's list) in one step and changes  *)
(* the pool in another; two handlers of one path may overlap, for stopping *)
(* a timer does not stop a handler that runs.  A file is written in two    *)
(* steps, truncation and content, each with its event.                     *)
(***************************************************************************)
EXTENDS Integers, Sequences, FiniteSets

CONSTANTS
  Paths,       \* numbers, in the order of the file names
  Emails,      \* numbers, in the order of the strings
  Handlers,    \* bound: goroutines of handleFileEvent at a time
  EmailsIn,    \* the emails a path may hold
  MaxChanges,  \* bound: writes, removals and restarts
  None, Torn

ASSUME ReloadAssumption ==
  /\ Paths \subseteq Int /\ IsFiniteSet(Paths)
  /\ Emails \subseteq Int /\ IsFiniteSet(Emails)
  /\ EmailsIn \in [Paths -> SUBSET Emails]
  /\ MaxChanges \in Nat
  /\ None # Torn

Contents == [email : Emails, version : 1..MaxChanges]
Accounts == [path : Paths, version : 1..MaxChanges]
Ops == {"write", "remove"}
ASSUME SentinelAssumption ==
  /\ None \notin Contents \cup Emails \cup Paths \cup Accounts \cup Ops
  /\ Torn \notin Contents

VARIABLES
  file,        \* the directory: None, Torn or the content of each path
  pool,        \* per email: the path and version its account came from, or None
  events,      \* fsnotify's channel
  timer,       \* runWatcher's debounce: the event whose timer runs, or None
  handler,     \* handleFileEvent: what each goroutine is about to do
  up,          \* the process: "down", "loaded" or "watching"
  changes,     \* counts the writes, removals and restarts
  unsure       \* history: paths whose last handler overlapped another one,
               \* or that nobody watched when they changed

watcher == <<events, timer, handler>>
vars == <<file, pool, watcher, up, changes, unsure>>

Idle == [do |-> "idle", path |-> None, data |-> None]

Init == /\ file = [p \in Paths |-> None]
        /\ pool = [e \in Emails |-> None]
        /\ events = << >>
        /\ timer = [p \in Paths |-> None]
        /\ handler = [h \in Handlers |-> Idle]
        /\ up = "down"
        /\ changes = 0
        /\ unsure = {}

-----------------------------------------------------------------------------
(* The directory: users, SaveAccountFile, imports, deletions.              *)

Notify(p, op) == IF up = "watching"
                 THEN events' = Append(events, [path |-> p, op |-> op]) /\ UNCHANGED unsure
                 ELSE unsure' = unsure \cup {p} /\ UNCHANGED events

Change == changes < MaxChanges /\ changes' = changes + 1

WriteBegin(p) ==
  /\ file[p] # Torn /\ Change
  /\ file' = [file EXCEPT ![p] = Torn]
  /\ Notify(p, "write")
  /\ UNCHANGED <<pool, timer, handler, up>>

(* The version is the number of the write.                                 *)
WriteEnd(p, e) ==
  /\ file[p] = Torn /\ e \in EmailsIn[p]
  /\ file' = [file EXCEPT ![p] = [email |-> e, version |-> changes]]
  /\ Notify(p, "write")
  /\ UNCHANGED <<pool, timer, handler, up, changes>>

(* A removal, or a rename to a name the pools do not read.                 *)
Delete(p) ==
  /\ file[p] \notin {None, Torn} /\ Change
  /\ file' = [file EXCEPT ![p] = None]
  /\ Notify(p, "remove")
  /\ UNCHANGED <<pool, timer, handler, up>>

-----------------------------------------------------------------------------
(* The process.                                                            *)

(* LoadDir: every file in the order of the names, the last one of an email *)
(* wins; a file that does not parse keeps the server from starting.        *)
LoadDir ==
  /\ up = "down"
  /\ \A p \in Paths : file[p] # Torn
  /\ pool' = [e \in Emails |->
       LET from == {p \in Paths : file[p] # None /\ file[p].email = e}
       IN  IF from = {} THEN None
           ELSE LET p == CHOOSE q \in from : \A s \in from : s <= q
                IN  [path |-> p, version |-> file[p].version]]
  /\ up' = "loaded"
  /\ unsure' = {}
  /\ UNCHANGED <<file, watcher, changes>>

(* WatchDir, started after the statistics were read.                       *)
WatchDir == /\ up = "loaded"
            /\ up' = "watching"
            /\ UNCHANGED <<file, pool, watcher, changes, unsure>>

(* The process ends, and everything it held in memory.                     *)
Stop == /\ up = "watching" /\ Change
        /\ up' = "down"
        /\ pool' = [e \in Emails |-> None]
        /\ events' = << >>
        /\ timer' = [p \in Paths |-> None]
        /\ handler' = [h \in Handlers |-> Idle]
        /\ UNCHANGED <<file, unsure>>

(* DELETE /admin/accounts: the file stays.                                 *)
AdminDelete(e) ==
  /\ up = "watching" /\ pool[e] # None
  /\ pool' = [pool EXCEPT ![e] = None]
  /\ unsure' = unsure \cup {pool[e].path}
  /\ UNCHANGED <<file, watcher, up, changes>>

-----------------------------------------------------------------------------
(* runWatcher.                                                             *)

Event == Head(events)

(* Mutant: the first event of a burst keeps its timer. *)
DebounceKeepsFirst ==
  /\ events # << >>
  /\ timer' = [timer EXCEPT ![Event.path] = IF @ = None THEN Event.op ELSE @]
  /\ events' = Tail(events)
  /\ UNCHANGED <<file, pool, handler, up, changes, unsure>>

(* An event starts the timer of its path, or starts it again.              *)
Debounce ==
  /\ events # << >>
  /\ timer' = [timer EXCEPT ![Event.path] = Event.op]
  /\ events' = Tail(events)
  /\ UNCHANGED <<file, pool, handler, up, changes, unsure>>

(* The timer fires: a goroutine of its own handles the event.              *)
Fire(p, h) ==
  /\ timer[p] # None /\ handler[h] = Idle
  /\ timer' = [timer EXCEPT ![p] = None]
  /\ handler' = [handler EXCEPT ![h] = [do |-> timer[p], path |-> p, data |-> None]]
  /\ unsure' = IF \E g \in Handlers : handler[g].path = p
               THEN unsure \cup {p} ELSE unsure \ {p}
  /\ UNCHANGED <<file, pool, events, up, changes>>

(* Mutant: a file that does not parse is added all the same. *)
LoadUnparsed(h) ==
  /\ handler[h].do = "write"
  /\ LET c == file[handler[h].path] IN
       handler' = [handler EXCEPT ![h] = IF c = None THEN Idle
                                         ELSE [@ EXCEPT !.do = "add", !.data = c]]
  /\ UNCHANGED <<file, pool, events, timer, up, changes, unsure>>

(* LoadAccountFile: what the file holds now; no valid content, no Add.     *)
LoadFile(h) ==
  /\ handler[h].do = "write"
  /\ LET c == file[handler[h].path] IN
       handler' = [handler EXCEPT ![h] = IF c \in {None, Torn} THEN Idle
                                         ELSE [@ EXCEPT !.do = "add", !.data = c]]
  /\ UNCHANGED <<file, pool, events, timer, up, changes, unsure>>

(* Pool.Add of what was read.                                              *)
AddLoaded(h) ==
  /\ handler[h].do = "add"
  /\ LET c == handler[h].data IN
       pool' = [pool EXCEPT ![c.email] = [path |-> handler[h].path, version |-> c.version]]
  /\ handler' = [handler EXCEPT ![h] = Idle]
  /\ UNCHANGED <<file, events, timer, up, changes, unsure>>

(* emailBySource: the first account, by email, that came from the path.    *)
From(p) == {e \in Emails : pool[e] # None /\ pool[e].path = p}

FindSource(h) ==
  /\ handler[h].do = "remove"
  /\ LET from == From(handler[h].path) IN
       handler' = [handler EXCEPT ![h] =
         IF from = {} THEN Idle
         ELSE [@ EXCEPT !.do = "drop", !.data = CHOOSE e \in from : \A f \in from : e <= f]]
  /\ UNCHANGED <<file, pool, events, timer, up, changes, unsure>>

(* Mutant: the account stays. *)
DropNothing(h) ==
  /\ handler[h].do = "drop"
  /\ handler' = [handler EXCEPT ![h] = Idle]
  /\ UNCHANGED <<file, pool, events, timer, up, changes, unsure>>

(* Pool.Remove of the email that was found.                                *)
DropFound(h) ==
  /\ handler[h].do = "drop"
  /\ pool' = [pool EXCEPT ![handler[h].data] = None]
  /\ handler' = [handler EXCEPT ![h] = Idle]
  /\ UNCHANGED <<file, events, timer, up, changes, unsure>>

Handle(h) == LoadFile(h) \/ AddLoaded(h) \/ FindSource(h) \/ DropFound(h)

Disk == \E p \in Paths : \/ WriteBegin(p) \/ Delete(p)
                         \/ \E e \in Emails : WriteEnd(p, e)

Next == \/ Disk \/ LoadDir \/ WatchDir \/ Stop \/ Debounce
        \/ \E e \in Emails : AdminDelete(e)
        \/ \E p \in Paths, h \in Handlers : Fire(p, h)
        \/ \E h \in Handlers : Handle(h)

Spec == Init /\ [][Next]_vars

(* The watcher goroutine, the timers and the handlers run.                 *)
FairSpec == /\ Spec
            /\ WF_vars(Debounce)
            /\ \A p \in Paths : WF_vars(\E h \in Handlers : Fire(p, h))
            /\ \A h \in Handlers : WF_vars(Handle(h))

-----------------------------------------------------------------------------
(* The variables hold what the Go types allow; a handler holds a content   *)
(* only between its read and its Add (watch.go:33-92).                     *)
TypeOK ==
  /\ file \in [Paths -> Contents \cup {None, Torn}]
  /\ pool \in [Emails -> Accounts \cup {None}]
  /\ events \in Seq([path : Paths, op : Ops])
  /\ timer \in [Paths -> Ops \cup {None}]
  /\ handler \in [Handlers ->
       {Idle} \cup [do : Ops, path : Paths, data : {None}]
              \cup [do : {"add"}, path : Paths, data : Contents]
              \cup [do : {"drop"}, path : Paths, data : Emails]]
  /\ up \in {"down", "loaded", "watching"}
  /\ changes \in 0..MaxChanges
  /\ unsure \subseteq Paths

(* Every file has one email for life and no two files share one: the way   *)
(* SaveAccountFile names files (account.go:273-286).                       *)
OneFilePerEmail ==
  \A p, q \in Paths : \A e \in EmailsIn[p], f \in EmailsIn[q] : (p = q) <=> (e = f)

(* Nothing that concerns p is under way.                                   *)
Quiet(p) == /\ up = "watching" /\ file[p] # Torn /\ timer[p] = None
            /\ \A i \in DOMAIN events : events[i].path # p
            /\ \A h \in Handlers : handler[h].path # p

(* The accounts of the pool that came from p are those p holds, as it      *)
(* holds them.                                                             *)
InStep(p) ==
  \A e \in Emails :
    LET held == file[p] # None /\ file[p].email = e
    IN  /\ held <=> e \in From(p)
        /\ held => pool[e].version = file[p].version

(* Once the events of a path are dealt with the pool holds its account, in *)
(* its last version, or no account if the file is gone, whatever the order *)
(* of writes, removals, timers and reads; but for handlers of one path     *)
(* that overlapped (watch.go:33-92).                                       *)
QuietPoolInStep ==
  OneFilePerEmail => \A p \in Paths : Quiet(p) /\ p \notin unsure => InStep(p)

(* A file that holds an account and is left alone is loaded, unless its    *)
(* handlers overlapped or the process ends (watch.go:33-92).               *)
WrittenIsLoaded ==
  OneFilePerEmail =>
    \A p \in Paths : \A v \in 1..MaxChanges :
      (up = "watching" /\ file[p] \notin {None, Torn} /\ file[p].version = v)
        ~> \/ up # "watching" \/ p \in unsure
           \/ file[p] \in {None, Torn} \/ InStep(p)

(* Account files are removed without a restart (README.md:15): when the    *)
(* removal of a file has been dealt with, no account of it is left.        *)
RemovedFileIsGone ==
  \A p \in Paths : Quiet(p) /\ p \notin unsure /\ file[p] = None => From(p) = {}
==============================================================================
