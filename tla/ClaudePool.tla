------------------------------ MODULE ClaudePool -----------------------------
(***************************************************************************)
(* The pool of Claude accounts (broker/claude_account.go).  It differs from *)
(* AccountPool where the hot reload is concerned: Add hands the state and   *)
(* the count of the replaced entry over, and revives the account when the   *)
(* loaded file has another access token; Release stops at 0.  The choice    *)
(* is by what the usage poller knows of an account.                         *)
(*                                                                         *)
(* Objects, steps and locks are those of AccountPool: Lease chooses and     *)
(* counts under the read lock, Release looks its entry up under it and      *)
(* decrements after it.                                                     *)
(***************************************************************************)
EXTENDS Integers, FiniteSets

CONSTANTS
  Emails,      \* numbers, in the order of the strings
  Handlers,    \* goroutines that lease
  Objects,     \* bound: the ClaudeAccounts that are ever loaded
  None,
  States       \* what the pool sees of an account's state

(* Usage is counted in tenths: 10 is claudeUsageProtectPct, 1.0.           *)
Full == 10

ASSUME ClaudeAssumption ==
  /\ Emails \subseteq Int
  /\ IsFiniteSet(Handlers)
  /\ None \notin Objects \cup Emails
  /\ States \subseteq [ok : BOOLEAN, fresh : BOOLEAN, primary : 0..Full,
                       secondary : 0..Full, load : Nat]

VARIABLES
  owner,       \* the email of an object, None before it is loaded
  entry,       \* ClaudePool.accounts: the object in the map, or None
  inflight,    \* claudeAccountEntry.inflight of the entry that holds it
  state,       \* ClaudeAccount.state
  hpc, lease, target,  \* handlers: where they are, their lease, Release's entry
  leaked,      \* history: decrements that an Add made miss an email's count
  removed      \* history: the email has been removed from the map

vars == <<owner, entry, inflight, state, hpc, lease, target, leaked, removed>>

NewState == [ok |-> TRUE, fresh |-> FALSE, primary |-> 0, secondary |-> 0, load |-> 0]

Init == /\ owner = [o \in Objects |-> None]
        /\ entry = [e \in Emails |-> None]
        /\ inflight = [o \in Objects |-> 0]
        /\ state = [o \in Objects |-> NewState]
        /\ hpc = [h \in Handlers |-> "idle"]
        /\ lease = [h \in Handlers |-> None]
        /\ target = [h \in Handlers |-> None]
        /\ leaked = [e \in Emails |-> 0]
        /\ removed = [e \in Emails |-> FALSE]

Loaded == {entry[e] : e \in Emails} \ {None}
Candidates == {o \in Loaded : state[o].ok}

-----------------------------------------------------------------------------
(* The choice.                                                             *)

(* claudeOverProtectThreshold *)
Over(o) == state[o].primary >= Full \/ state[o].secondary >= Full

EligibleKnown == {o \in Candidates : state[o].fresh /\ ~Over(o)}
Unknown == {o \in Candidates : ~state[o].fresh}

(* Mutant: the protected accounts come before the unknown ones. *)
RoutingProtectsLess ==
  IF EligibleKnown # {} THEN EligibleKnown
  ELSE IF Candidates \ Unknown # {} THEN Candidates \ Unknown
  ELSE Unknown

(* claudeRoutingCandidates *)
RoutingCandidates ==
  IF EligibleKnown # {} THEN EligibleKnown
  ELSE IF Unknown # {} THEN Unknown
  ELSE Candidates

Loads == {1} \cup {state[o].load : o \in RoutingCandidates}
MaxLoad == CHOOSE n \in Loads : \A m \in Loads : m <= n

(* claudeUsageScore, in units of 0.05 / maxLoad: a tenth of the weekly      *)
(* quota counts 2, one of the primary quota 1, a lease in flight 4.         *)
Score(o) == MaxLoad * (2 * (Full - state[o].secondary) + (Full - state[o].primary)
                         - 4 * inflight[o]) - state[o].load

ByEmail(o, p) == owner[o] < owner[p]
ByLoad(o, p) == \/ state[o].load < state[p].load
                \/ state[o].load = state[p].load /\ inflight[o] < inflight[p]
                \/ /\ state[o].load = state[p].load /\ inflight[o] = inflight[p]
                   /\ ByEmail(o, p)

(* The order chooseClaudeCandidate sorts the routing candidates in: by      *)
(* usage when it is known, by token load otherwise.                         *)
Before(o, p) ==
  IF ~state[o].fresh THEN ByLoad(o, p)
  ELSE \/ Score(o) > Score(p)
       \/ Score(o) = Score(p) /\ inflight[o] < inflight[p]
       \/ Score(o) = Score(p) /\ inflight[o] = inflight[p] /\ ByLoad(o, p)

-----------------------------------------------------------------------------
(* Hot reload and admin calls: they wait while a Lease holds its read lock. *)

Unlocked == \A h \in Handlers : hpc[h] # "ranked"

(* Releases under way that have looked up the entry of e.                  *)
Decrementing(e) == {h \in Handlers : hpc[h] = "releasing" /\ target[h] = entry[e]}

Load(e, o, s, n) ==
  /\ Unlocked
  /\ owner[o] = None
  /\ owner' = [owner EXCEPT ![o] = e]
  /\ entry' = [entry EXCEPT ![e] = o]
  /\ state' = [state EXCEPT ![o] = s]
  /\ inflight' = [inflight EXCEPT ![o] = n]
  /\ UNCHANGED <<hpc, lease, target, removed>>

(* Mutant: the new entry starts at 0, as in Pool.Add. *)
ReplaceAtZero(e, newToken) ==
  /\ entry[e] # None
  /\ \E o \in Objects :
       Load(e, o, [state[entry[e]] EXCEPT !.ok = @ \/ newToken], 0)
  /\ leaked' = [leaked EXCEPT ![e] = @ + Cardinality(Decrementing(e))]

(* Add of an email that has no entry.                                      *)
AddFirst(e) == /\ entry[e] = None
               /\ \E o \in Objects : Load(e, o, NewState, 0)
               /\ UNCHANGED leaked

(* Add of an email that has one: its state and count are copied; a file    *)
(* with another access token clears Disabled, Dead and the cooldown.       *)
Replace(e, newToken) ==
  /\ entry[e] # None
  /\ \E o \in Objects :
       Load(e, o, [state[entry[e]] EXCEPT !.ok = @ \/ newToken], inflight[entry[e]])
  /\ leaked' = [leaked EXCEPT ![e] = @ + Cardinality(Decrementing(e))]

(* handleFileEvent for a file that went away, and deleteClaudeAccount.     *)
Remove(e) ==
  /\ Unlocked
  /\ entry[e] # None
  /\ entry' = [entry EXCEPT ![e] = None]
  /\ removed' = [removed EXCEPT ![e] = TRUE]
  /\ UNCHANGED <<owner, inflight, state, hpc, lease, target, leaked>>

(* What handlers, the usage poller, the admin API and the passing of time  *)
(* make of an account of the pool.                                         *)
Update(o) ==
  /\ o \in Loaded
  /\ \E s \in States : state' = [state EXCEPT ![o] = s]
  /\ UNCHANGED <<owner, entry, inflight, hpc, lease, target, leaked, removed>>

-----------------------------------------------------------------------------
(* Handlers.                                                               *)

(* Lease, first part: the first routing candidate is chosen.               *)
LeaseChoose(h) ==
  /\ hpc[h] = "idle"
  /\ \E o \in RoutingCandidates :
       /\ \A p \in RoutingCandidates \ {o} : Before(o, p)
       /\ lease' = [lease EXCEPT ![h] = o]
  /\ hpc' = [hpc EXCEPT ![h] = "ranked"]
  /\ UNCHANGED <<owner, entry, inflight, state, target, leaked, removed>>

(* Lease, second part: the lease is counted, the read lock released.       *)
LeaseCount(h) ==
  /\ hpc[h] = "ranked"
  /\ hpc' = [hpc EXCEPT ![h] = "leased"]
  /\ inflight' = [inflight EXCEPT ![lease[h]] = @ + 1]
  /\ UNCHANGED <<owner, entry, state, lease, target, leaked, removed>>

(* Release, first part: the entry the map holds now for the lease's email. *)
ReleaseLookup(h) ==
  /\ hpc[h] = "leased"
  /\ hpc' = [hpc EXCEPT ![h] = "releasing"]
  /\ target' = [target EXCEPT ![h] = entry[owner[lease[h]]]]
  /\ UNCHANGED <<owner, entry, inflight, state, lease, leaked, removed>>

(* Mutant: the count goes below 0. *)
ReleaseNoFloor(h) ==
  /\ hpc[h] = "releasing"
  /\ hpc' = [hpc EXCEPT ![h] = "idle"]
  /\ lease' = [lease EXCEPT ![h] = None]
  /\ target' = [target EXCEPT ![h] = None]
  /\ inflight' = [o \in Objects |-> IF o = target[h] THEN inflight[o] - 1 ELSE inflight[o]]
  /\ UNCHANGED <<owner, entry, state, leaked, removed>>

(* Release, second part: decrementInflight on that entry, if there was one. *)
ReleaseDecrement(h) ==
  /\ hpc[h] = "releasing"
  /\ hpc' = [hpc EXCEPT ![h] = "idle"]
  /\ lease' = [lease EXCEPT ![h] = None]
  /\ target' = [target EXCEPT ![h] = None]
  /\ inflight' = [o \in Objects |-> IF o = target[h] /\ inflight[o] > 0
                                   THEN inflight[o] - 1 ELSE inflight[o]]
  /\ UNCHANGED <<owner, entry, state, leaked, removed>>

Handler(h) == \/ LeaseChoose(h) \/ LeaseCount(h)
              \/ ReleaseLookup(h) \/ ReleaseDecrement(h)

Next == \/ \E e \in Emails : \/ AddFirst(e) \/ Remove(e)
                            \/ \E newToken \in BOOLEAN : Replace(e, newToken)
        \/ \E o \in Objects : Update(o)
        \/ \E h \in Handlers : Handler(h)

Spec == Init /\ [][Next]_vars

-----------------------------------------------------------------------------
(* The leases of an email that are still to be taken off its count.        *)
Outstanding(e) ==
  {h \in Handlers : /\ lease[h] # None /\ owner[lease[h]] = e
                    /\ \/ hpc[h] = "leased"
                       \/ hpc[h] = "releasing" /\ target[h] = entry[e]}

(* The object an entry holds was loaded for that entry's email.            *)
EntriesOwned == \A e \in Emails : entry[e] # None => owner[entry[e]] = e

(* The variables hold what the Go types allow, no count is negative, the   *)
(* map is keyed by the email of its accounts, and a handler past the choice *)
(* of Lease has a loaded account (claude_account.go:312-333, 411-442).     *)
TypeOK ==
  /\ owner \in [Objects -> Emails \cup {None}]
  /\ entry \in [Emails -> Objects \cup {None}]
  /\ inflight \in [Objects -> Nat]
  /\ state \in [Objects -> [ok : BOOLEAN, fresh : BOOLEAN, primary : 0..Full,
                           secondary : 0..Full, load : Nat]]
  /\ hpc \in [Handlers -> {"idle", "ranked", "leased", "releasing"}]
  /\ lease \in [Handlers -> Objects \cup {None}]
  /\ target \in [Handlers -> Objects \cup {None}]
  /\ leaked \in [Emails -> Nat]
  /\ removed \in [Emails -> BOOLEAN]
  /\ EntriesOwned
  /\ \A h \in Handlers : /\ hpc[h] = "idle" <=> lease[h] = None
                         /\ lease[h] # None => owner[lease[h]] # None

(* While an account is never removed, its count is the number of its       *)
(* leases still out, whichever entry granted them, plus the decrements that *)
(* met an Add between their lookup and their decrement: the hand-over loses *)
(* no lease, and the floor at 0 never hides one                            *)
(* (claude_account.go:312-333, 397-421).                                   *)
CountsHandedOver ==
  \A e \in Emails : entry[e] # None /\ ~removed[e] =>
    inflight[entry[e]] = Cardinality(Outstanding(e)) + leaked[e]

(* An account that is known to have used up its quota is leased only when  *)
(* every account that could be leased is (claude_account.go:444-529).      *)
ProtectedLast ==
  [][\A h \in Handlers : LeaseChoose(h) =>
       (Over(lease'[h]) /\ state[lease'[h]].fresh =>
          \A o \in Candidates : Over(o) /\ state[o].fresh)]_vars
=============================================================================
