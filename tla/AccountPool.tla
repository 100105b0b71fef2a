----------------------------- MODULE AccountPool -----------------------------
(***************************************************************************)
(* The pool of ChatGPT accounts (broker/pool.go, rotation.go, watch.go):   *)
(* handlers lease an account, use it and release it, while the hot reload  *)
(* adds, replaces and removes accounts.                                    *)
(*                                                                         *)
(* Add puts a new entry with a new Account and a count of 0 in the map, so *)
(* the model tells the Accounts apart: an object is loaded once, belongs   *)
(* to one email and, after it was replaced, lives on in the leases that    *)
(* still hold it.  Of an Account's state the pool sees whether it is       *)
(* available and how it ranks; the goroutines that mark, toggle and poll   *)
(* accounts may change that at any time.                                   *)
(*                                                                         *)
(* Steps are what the locks and atomics leave visible.  Under the read     *)
(* lock, which others may hold too, Lease reads of one entry after another *)
(* whether it is available, its count and its state, sorts, and counts its *)
(* choice; Release looks its entry up under that lock and decrements after *)
(* it; marks take no lock of the pool.                                     *)
(***************************************************************************)
EXTENDS Integers, FiniteSets

CONSTANTS
  Emails,      \* numbers, in the order of the strings
  Handlers,    \* goroutines that lease
  Objects,     \* bound: the Accounts that are ever loaded
  None,
  Tier,        \* planTier of the plan of an email
  States       \* what the pool sees of an Account's state

(* Usage is counted in the 0.025 that RecordSuccess adds: Full is 1.0.     *)
Full == 40

ASSUME PoolAssumption ==
  /\ Emails \subseteq Int
  /\ IsFiniteSet(Handlers)
  /\ None \notin Objects \cup Emails
  /\ Tier \in [Emails -> Nat]
  /\ States \subseteq [ok : BOOLEAN, primary : 0..Full, secondary : 0..Full]

VARIABLES
  owner,       \* the email of an object, None before it is loaded
  entry,       \* Pool.accounts: the object in the map, or None
  inflight,    \* accountEntry.inflight of the entry that holds the object
  state,       \* Account.state
  hpc,         \* where a handler is
  rest,        \* the entries rankCandidates has not come to
  cur,         \* the entry it is reading, or None
  counts,      \* the counts it has read
  states,      \* the states it has read; None of who is no candidate
  lease,       \* the Account of a Lease, or None
  target,      \* the entry its Release has looked up, or None
  stray,       \* history: decrements an entry took for leases of other entries
  least, most, \* history: the leases out on an entry while a handler ranked,
               \* when they were fewest and when they were most
  moved        \* history: the entries whose count moved while it sorted

pool == <<owner, entry, inflight, state>>
ranks == <<rest, cur, counts, states>>
watch == <<least, most, moved>>
vars == <<pool, hpc, ranks, lease, target, stray, watch>>

NewState == [ok |-> TRUE, primary |-> 0, secondary |-> 0]

Init == /\ owner = [o \in Objects |-> None]
        /\ entry = [e \in Emails |-> None]
        /\ inflight = [o \in Objects |-> 0]
        /\ state = [o \in Objects |-> NewState]
        /\ hpc = [h \in Handlers |-> "idle"]
        /\ rest = [h \in Handlers |-> {}]
        /\ cur = [h \in Handlers |-> None]
        /\ counts = [h \in Handlers |-> [o \in Objects |-> 0]]
        /\ states = [h \in Handlers |-> [o \in Objects |-> None]]
        /\ lease = [h \in Handlers |-> None]
        /\ target = [h \in Handlers |-> None]
        /\ stray = [o \in Objects |-> 0]
        /\ least = [h \in Handlers |-> [o \in Objects |-> 0]]
        /\ most = [h \in Handlers |-> [o \in Objects |-> 0]]
        /\ moved = [h \in Handlers |-> {}]

Loaded == {entry[e] : e \in Emails} \ {None}
Candidates == {o \in Loaded : state[o].ok}

(* The leases counted on the entry of o that are not given back yet.       *)
Outstanding(o) ==
  {h \in Handlers : /\ lease[h] = o
                    /\ \/ hpc[h] = "leased"
                       \/ hpc[h] = "releasing" /\ target[h] = o}

-----------------------------------------------------------------------------
(* Ranking.                                                                *)

(* The candidates of a ranking, as they were read.                         *)
Ranked(h) == {o \in Objects : states[h][o] # None}

(* Mutant: a lease in flight adds to the score. *)
ScoreBusyFirst(h, o) == 400 * Tier[owner[o]] + 10 * (Full - states[h][o].secondary)
                          + (Full - states[h][o].primary) + 200 * counts[h][o]

(* DefaultScoreWeights, in units of 0.0025: a tier counts 400, all of the  *)
(* weekly quota 400, all of the primary one 40, a lease in flight 200.     *)
Score(h, o) == 400 * Tier[owner[o]] + 10 * (Full - states[h][o].secondary)
                 + (Full - states[h][o].primary) - 200 * counts[h][o]

Tied(h) == {o \in Ranked(h) : \A p \in Ranked(h) : Score(h, p) <= Score(h, o)}

(* Who may come out first of the sort: it compares scores, which are fixed, *)
(* and among equals reads the counts once more for each comparison.  While *)
(* these move, its order among equals is any; otherwise the email decides. *)
Foremost(h) ==
  {o \in Tied(h) :
     moved[h] \cap Tied(h) = {} =>
       \A p \in Tied(h) \ {o} :
         inflight[o] < inflight[p] \/ (inflight[o] = inflight[p] /\ owner[o] < owner[p])}

Ranks(h) == hpc[h] \in {"ranking", "counting", "scoring"}
Sorts(h) == hpc[h] = "ranking" /\ rest[h] = {}

-----------------------------------------------------------------------------
(* Hot reload and admin calls, which change the map under Pool.mu: they    *)
(* wait while a Lease holds its read lock.                                 *)

Unlocked == \A h \in Handlers : hpc[h] \in {"idle", "leased", "releasing"}

(* Mutant: the new entry takes the count of the old one over. *)
AddCarriesCount(e) ==
  /\ Unlocked
  /\ \E o \in Objects :
       /\ owner[o] = None
       /\ owner' = [owner EXCEPT ![o] = e]
       /\ entry' = [entry EXCEPT ![e] = o]
       /\ inflight' = [inflight EXCEPT ![o] = IF entry[e] = None THEN 0
                                              ELSE inflight[entry[e]]]
  /\ UNCHANGED <<state, hpc, ranks, lease, target, stray, watch>>

(* LoadDir, and handleFileEvent for a file that was written by hand or by  *)
(* the SaveAccountFile of a token refresh.                                 *)
Add(e) ==
  /\ Unlocked
  /\ \E o \in Objects : /\ owner[o] = None
                        /\ owner' = [owner EXCEPT ![o] = e]
                        /\ entry' = [entry EXCEPT ![e] = o]
  /\ UNCHANGED <<inflight, state, hpc, ranks, lease, target, stray, watch>>

(* handleFileEvent for a file that went away, and deleteAccount.           *)
Remove(e) ==
  /\ Unlocked
  /\ entry[e] # None
  /\ entry' = [entry EXCEPT ![e] = None]
  /\ UNCHANGED <<owner, inflight, state, hpc, ranks, lease, target, stray, watch>>

(* MarkDead, MarkCooldown and its end, SetDisabled, RecordSuccess and      *)
(* ApplyWham on an Account of the pool; on a replaced one they change      *)
(* nothing that the pool reads.                                            *)
Update(o) ==
  /\ o \in Loaded
  /\ \E s \in States : state' = [state EXCEPT ![o] = s]
  /\ UNCHANGED <<owner, entry, inflight, hpc, ranks, lease, target, stray, watch>>

-----------------------------------------------------------------------------
(* Handlers.                                                               *)

(* Mutant: the pinned account is used without a look whether it exists. *)
LeasePinnedUnchecked(h, e) ==
  /\ hpc[h] = "idle"
  /\ hpc' = [hpc EXCEPT ![h] = "ranked"]
  /\ lease' = [lease EXCEPT ![h] = entry[e]]
  /\ UNCHANGED <<pool, ranks, target, stray, watch>>

(* Lease, when the session key or the previous response is pinned to e:    *)
(* its account is chosen, if it is in the map and available.               *)
LeasePinned(h, e) ==
  /\ hpc[h] = "idle" /\ entry[e] \in Candidates
  /\ hpc' = [hpc EXCEPT ![h] = "ranked"]
  /\ lease' = [lease EXCEPT ![h] = entry[e]]
  /\ UNCHANGED <<pool, ranks, target, stray, watch>>

(* Lease without such a pin: it ranks what is in the map.                  *)
RankBegin(h) ==
  /\ hpc[h] = "idle" /\ Loaded # {}
  /\ hpc' = [hpc EXCEPT ![h] = "ranking"]
  /\ rest' = [rest EXCEPT ![h] = Loaded]
  /\ LET out == [o \in Objects |-> IF o \in Loaded THEN Cardinality(Outstanding(o)) ELSE 0]
     IN least' = [least EXCEPT ![h] = out] /\ most' = [most EXCEPT ![h] = out]
  /\ UNCHANGED <<pool, cur, counts, states, lease, target, stray, moved>>

(* The next entry of the map, in any order: one that is not available is   *)
(* left out.                                                               *)
RankLook(h) ==
  /\ hpc[h] = "ranking"
  /\ \E o \in rest[h] :
       /\ rest' = [rest EXCEPT ![h] = @ \ {o}]
       /\ IF state[o].ok
          THEN cur' = [cur EXCEPT ![h] = o] /\ hpc' = [hpc EXCEPT ![h] = "counting"]
          ELSE UNCHANGED <<cur, hpc>>
  /\ UNCHANGED <<pool, counts, states, lease, target, stray, watch>>

(* Its count is read, then its state once more, by now another maybe.      *)
RankCount(h) ==
  /\ hpc[h] = "counting"
  /\ hpc' = [hpc EXCEPT ![h] = "scoring"]
  /\ counts' = [counts EXCEPT ![h][cur[h]] = inflight[cur[h]]]
  /\ UNCHANGED <<pool, rest, cur, states, lease, target, stray, watch>>

RankScore(h) ==
  /\ hpc[h] = "scoring"
  /\ hpc' = [hpc EXCEPT ![h] = "ranking"]
  /\ states' = [states EXCEPT ![h][cur[h]] = state[cur[h]]]
  /\ cur' = [cur EXCEPT ![h] = None]
  /\ UNCHANGED <<pool, rest, counts, lease, target, stray, watch>>

(* What the handler had read, and what was noted of it, is forgotten.      *)
Forget(h) ==
  /\ counts' = [counts EXCEPT ![h] = [o \in Objects |-> 0]]
  /\ states' = [states EXCEPT ![h] = [o \in Objects |-> None]]
  /\ least' = [least EXCEPT ![h] = [o \in Objects |-> 0]]
  /\ most' = [most EXCEPT ![h] = [o \in Objects |-> 0]]
  /\ moved' = [moved EXCEPT ![h] = {}]
  /\ UNCHANGED <<rest, cur>>

(* ErrAllExhausted. *)
RankNone(h) ==
  /\ Sorts(h) /\ Ranked(h) = {}
  /\ hpc' = [hpc EXCEPT ![h] = "idle"]
  /\ Forget(h)
  /\ UNCHANGED <<pool, lease, target, stray>>

(* The candidates are sorted, the first one is chosen.                     *)
LeaseRanked(h) ==
  /\ Sorts(h)
  /\ hpc' = [hpc EXCEPT ![h] = "ranked"]
  /\ \E o \in Foremost(h) : lease' = [lease EXCEPT ![h] = o]
  /\ Forget(h)
  /\ UNCHANGED <<pool, target, stray>>

(* The count of o moves under the rankings of others.                      *)
Note(o) ==
  /\ moved' = [g \in Handlers |->
                 IF Sorts(g) THEN moved[g] \cup ({o} \cap Loaded) ELSE moved[g]]
  /\ least' = [g \in Handlers |-> [p \in Objects |->
                 IF Ranks(g) /\ p \in {o} \cap Loaded /\ Cardinality(Outstanding(p)') < least[g][p]
                 THEN Cardinality(Outstanding(p)') ELSE least[g][p]]]
  /\ most' = [g \in Handlers |-> [p \in Objects |->
                 IF Ranks(g) /\ p \in {o} \cap Loaded /\ Cardinality(Outstanding(p)') > most[g][p]
                 THEN Cardinality(Outstanding(p)') ELSE most[g][p]]]

(* Lease, last part: the lease is counted, the read lock released.         *)
LeaseCount(h) ==
  /\ hpc[h] = "ranked"
  /\ hpc' = [hpc EXCEPT ![h] = "leased"]
  /\ inflight' = [inflight EXCEPT ![lease[h]] = @ + 1]
  /\ UNCHANGED <<owner, entry, state, ranks, lease, target, stray>>
  /\ Note(lease[h])

(* Release, first part: the entry the map holds now for the lease's email. *)
ReleaseLookup(h) ==
  /\ hpc[h] = "leased"
  /\ hpc' = [hpc EXCEPT ![h] = "releasing"]
  /\ target' = [target EXCEPT ![h] = entry[owner[lease[h]]]]
  /\ UNCHANGED <<pool, ranks, lease, stray, watch>>

(* Release, second part: that entry is decremented, if there was one.      *)
ReleaseDecrement(h) ==
  /\ hpc[h] = "releasing"
  /\ hpc' = [hpc EXCEPT ![h] = "idle"]
  /\ lease' = [lease EXCEPT ![h] = None]
  /\ target' = [target EXCEPT ![h] = None]
  /\ inflight' = [o \in Objects |->
                    IF o = target[h] THEN inflight[o] - 1 ELSE inflight[o]]
  /\ stray' = [o \in Objects |->
                 IF o = target[h] /\ o # lease[h] THEN stray[o] + 1 ELSE stray[o]]
  /\ UNCHANGED <<owner, entry, state, ranks>>
  /\ Note(target[h])

Handler(h) == \/ \E e \in Emails : LeasePinned(h, e)
              \/ RankBegin(h) \/ RankLook(h) \/ RankCount(h) \/ RankScore(h)
              \/ RankNone(h) \/ LeaseRanked(h) \/ LeaseCount(h)
              \/ ReleaseLookup(h) \/ ReleaseDecrement(h)

Next == \/ \E e \in Emails : Add(e) \/ Remove(e)
        \/ \E o \in Objects : Update(o)
        \/ \E h \in Handlers : Handler(h)

Spec == Init /\ [][Next]_vars

-----------------------------------------------------------------------------
(* Candidates that rank alike, as they were read, but for their counts.    *)
Twins(h, o, p) == /\ Tier[owner[o]] = Tier[owner[p]]
                  /\ states[h][o].primary = states[h][p].primary
                  /\ states[h][o].secondary = states[h][p].secondary

(* The object an entry holds was loaded for that entry's email.            *)
EntriesOwned == \A e \in Emails : entry[e] # None => owner[entry[e]] = e

(* The variables hold what the Go types allow, the map is keyed by the     *)
(* email of its accounts, a ranking is about accounts of the map, and a    *)
(* handler past the choice of Lease has a loaded Account (pool.go:59-63,   *)
(* 159-190, rotation.go:58-69).                                            *)
TypeOK ==
  /\ owner \in [Objects -> Emails \cup {None}]
  /\ entry \in [Emails -> Objects \cup {None}]
  /\ inflight \in [Objects -> Int]
  /\ state \in [Objects -> States \cup {NewState}]
  /\ hpc \in [Handlers -> {"idle", "ranking", "counting", "scoring", "ranked", "leased",
                           "releasing"}]
  /\ lease \in [Handlers -> Objects \cup {None}]
  /\ target \in [Handlers -> Objects \cup {None}]
  /\ stray \in [Objects -> Nat]
  /\ rest \in [Handlers -> SUBSET Objects] /\ cur \in [Handlers -> Objects \cup {None}]
  /\ counts \in [Handlers -> [Objects -> Int]]
  /\ states \in [Handlers -> [Objects -> States \cup {NewState, None}]]
  /\ least \in [Handlers -> [Objects -> Nat]] /\ most \in [Handlers -> [Objects -> Nat]]
  /\ moved \in [Handlers -> SUBSET Objects]
  /\ EntriesOwned
  /\ \A h \in Handlers :
       /\ hpc[h] \in {"ranked", "leased", "releasing"} <=> lease[h] # None
       /\ lease[h] # None => owner[lease[h]] # None
       /\ hpc[h] \in {"counting", "scoring"} <=> cur[h] # None
       /\ rest[h] \cup Ranked(h) \cup ({cur[h]} \ {None}) \subseteq Loaded
       /\ Ranks(h) \/ (rest[h] = {} /\ Ranked(h) = {})

(* The count of an account in the pool is the number of leases taken from  *)
(* its entry and still out, less the decrements that leases of replaced    *)
(* entries left on it: no interleaving of Lease, Release and hot reload    *)
(* leaks a lease or counts one twice (pool.go:59-69, 125-137, 159-190).    *)
InflightExact ==
  \A e \in Emails : entry[e] # None =>
    inflight[entry[e]] = Cardinality(Outstanding(entry[e])) - stray[entry[e]]

(* A lease goes to an account that was, among those that rank alike, not   *)
(* the busier one: while it was ranked there was a moment when no more     *)
(* leases were out on it than on the other at some moment, however others  *)
(* lease, release and mark between the reads of the ranking (with nobody   *)
(* between, on the one with the fewest); as long as no lease of a replaced *)
(* entry disturbed the counts (rotation.go:36-81).                         *)
RotatesWhileExact ==
  [][\A h \in Handlers : LeaseRanked(h) =>
       \A p \in Ranked(h) :
         Twins(h, lease'[h], p) /\ stray[lease'[h]] = 0 /\ stray[p] = 0 =>
           least[h][lease'[h]] <= most[h][p]]_vars

(* The same without the proviso: two accounts that rank alike share the    *)
(* load (rotation_test.go:124-142).                                        *)
InflightPenaltyRotates ==
  [][\A h \in Handlers : LeaseRanked(h) =>
       \A p \in Ranked(h) :
         Twins(h, lease'[h], p) => least[h][lease'[h]] <= most[h][p]]_vars
==============================================================================
