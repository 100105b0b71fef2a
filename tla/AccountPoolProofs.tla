--------------------------- MODULE AccountPoolProofs -------------------------
(***************************************************************************)
(* Proofs about AccountPool for every set of emails, handlers and objects: *)
(* its types, that the counts in the pool are exact, and that a lease goes *)
(* to the least loaded of the accounts that rank alike.                    *)
(***************************************************************************)
EXTENDS AccountPool, FiniteSetTheorems, TLAPS

(* A lease holds an object that was loaded; until it is counted that       *)
(* object is in the map, for Add and Remove wait for the read lock.        *)
LeasesOwned ==
  \A h \in Handlers : lease[h] # None =>
    /\ owner[lease[h]] \in Emails
    /\ hpc[h] = "ranked" => entry[owner[lease[h]]] = lease[h]

(* Release decrements an entry of the lease's email.                       *)
TargetsOwned ==
  \A h \in Handlers : target[h] # None =>
    hpc[h] = "releasing" /\ owner[target[h]] # None

(* An object that was not loaded yet has a clean count.                    *)
FreshCounts == \A o \in Objects : owner[o] = None => inflight[o] = 0 /\ stray[o] = 0

PoolInv == LeasesOwned /\ TargetsOwned /\ FreshCounts /\ InflightExact

(* The leases out on an object are finitely many.                          *)
LEMMA OutstandingFinite ==
  ASSUME NEW o
  PROVE  IsFiniteSet(Outstanding(o)) /\ Cardinality(Outstanding(o)) \in Nat
<1>1. Outstanding(o) \in SUBSET Handlers
  BY DEF Outstanding
<1> QED BY <1>1, PoolAssumption, FS_Subset, FS_CardinalityType

-----------------------------------------------------------------------------
(* Types.                                                                  *)

(* A step that leaves the accounts alone keeps what is typed about them.   *)
Pooled == /\ owner \in [Objects -> Emails \cup {None}]
          /\ entry \in [Emails -> Objects \cup {None}]
          /\ inflight \in [Objects -> Int]
          /\ state \in [Objects -> States \cup {NewState}]
          /\ EntriesOwned

(* What a handler has read, and what was noted of it.                      *)
Reads == /\ rest \in [Handlers -> SUBSET Objects] /\ cur \in [Handlers -> Objects \cup {None}]
         /\ counts \in [Handlers -> [Objects -> Int]]
         /\ states \in [Handlers -> [Objects -> States \cup {NewState, None}]]
Notes == /\ least \in [Handlers -> [Objects -> Nat]] /\ most \in [Handlers -> [Objects -> Nat]]
         /\ moved \in [Handlers -> SUBSET Objects]

(* Where a handler is, what it holds.                                      *)
Holds == /\ hpc \in [Handlers -> {"idle", "ranking", "counting", "scoring", "ranked",
                                  "leased", "releasing"}]
         /\ lease \in [Handlers -> Objects \cup {None}]
         /\ target \in [Handlers -> Objects \cup {None}]
         /\ stray \in [Objects -> Nat]

(* The rest of the type invariant, for one handler.                        *)
Fits(h) ==
  /\ hpc[h] \in {"ranked", "leased", "releasing"} <=> lease[h] # None
  /\ lease[h] # None => owner[lease[h]] # None
  /\ hpc[h] \in {"counting", "scoring"} <=> cur[h] # None
  /\ rest[h] \cup Ranked(h) \cup ({cur[h]} \ {None}) \subseteq Loaded
  /\ Ranks(h) \/ (rest[h] = {} /\ Ranked(h) = {})

LEMMA TypeParts == TypeOK <=> Pooled /\ Reads /\ Notes /\ Holds /\ \A h \in Handlers : Fits(h)
BY DEF TypeOK, Pooled, Reads, Notes, Holds, Fits

(* The object of an entry is loaded, and every loaded one has an email.    *)
LEMMA LoadedOwned ==
  ASSUME Pooled, NEW o \in Loaded
  PROVE  o \in Objects /\ owner[o] \in Emails /\ entry[owner[o]] = o
BY DEF Pooled, EntriesOwned, Loaded

(* A step that touches neither the map nor what others have in hand leaves *)
(* them as they are.                                                       *)
LEMMA OthersFit ==
  ASSUME TypeOK, NEW h, NEW g \in Handlers \ {h},
         UNCHANGED <<owner, entry>>,
         hpc'[g] = hpc[g], lease'[g] = lease[g], cur'[g] = cur[g], rest'[g] = rest[g],
         states'[g] = states[g]
  PROVE  Fits(g)'
<1>1. Loaded' = Loaded /\ Ranked(g)' = Ranked(g) /\ (Ranks(g)' <=> Ranks(g))
  BY DEF Loaded, Ranked, Ranks
<1> QED BY <1>1, TypeParts DEF Fits

(* Every variable keeps its type, a ranking is about accounts of the map,  *)
(* and a handler past the choice of Lease has an Account (pool.go:159-190, *)
(* rotation.go:58-69).                                                     *)
THEOREM PoolTypeCorrect == Spec => []TypeOK
<1> USE PoolAssumption
<1>1. Init => TypeOK
  BY DEF Init, TypeOK, EntriesOwned, Ranked, Loaded
<1>2. TypeOK /\ [Next]_vars => TypeOK'
  <2> SUFFICES ASSUME TypeOK, [Next]_vars PROVE TypeOK'
    OBVIOUS
  <2>0. Pooled /\ Reads /\ Notes /\ Holds /\ \A h \in Handlers : Fits(h)
    BY TypeParts
  <2> SUFFICES (Pooled /\ Reads /\ Notes /\ Holds /\ \A h \in Handlers : Fits(h))'
    BY TypeParts, PTL
  <2>a. ASSUME UNCHANGED pool PROVE Pooled' /\ Loaded' = Loaded
    BY <2>0, <2>a DEF pool, Pooled, EntriesOwned, Loaded
  <2>b. ASSUME UNCHANGED ranks PROVE Reads'
    BY <2>0, <2>b DEF ranks, Reads
  <2>c. ASSUME UNCHANGED watch PROVE Notes'
    BY <2>0, <2>c DEF watch, Notes
  <2>d. ASSUME NEW o PROVE Cardinality(Outstanding(o)) \in Nat
    BY OutstandingFinite
  <2>1. CASE UNCHANGED vars
    <3>1. UNCHANGED <<pool, hpc, ranks, lease, target, stray, watch>>
      BY <2>1 DEF vars
    <3>2. Holds'
      BY <2>0, <3>1 DEF Holds
    <3>3. ASSUME NEW h \in Handlers PROVE Fits(h)'
      BY <2>0, <3>1 DEF pool, ranks, Fits, Ranked, Ranks, Loaded
    <3> QED BY <2>a, <2>b, <2>c, <3>1, <3>2, <3>3
  <2>2. ASSUME NEW e \in Emails, Add(e) \/ Remove(e)
        PROVE  (Pooled /\ Reads /\ Notes /\ Holds /\ \A h \in Handlers : Fits(h))'
    <3>1. /\ Unlocked /\ UNCHANGED <<inflight, state, hpc, ranks, lease, target, stray, watch>>
          /\ \/ \E o \in Objects : /\ owner[o] = None /\ owner' = [owner EXCEPT ![o] = e]
                                   /\ entry' = [entry EXCEPT ![e] = o]
             \/ owner' = owner /\ entry' = [entry EXCEPT ![e] = None]
      BY <2>2 DEF Add, Remove
    <3>2. Pooled'
      BY <2>0, <3>1 DEF Pooled, EntriesOwned
    <3>3. Holds'
      BY <2>0, <3>1 DEF Holds
    <3>4. ASSUME NEW o \in Objects, owner[o] # None PROVE owner'[o] # None
      BY <2>0, <3>1, <3>4 DEF Pooled
    <3>5. ASSUME NEW h \in Handlers PROVE Fits(h)'
      <4>1. /\ rest[h] = {} /\ Ranked(h) = {} /\ cur[h] = None
            /\ hpc[h] \notin {"ranking", "counting", "scoring"}
        BY <2>0, <3>1 DEF Fits, Ranks, Unlocked
      <4>2. /\ rest'[h] = {} /\ Ranked(h)' = {} /\ cur'[h] = None
        BY <3>1, <4>1 DEF ranks, Ranked
      <4>3. lease[h] # None => lease[h] \in Objects
        BY <2>0 DEF Holds
      <4> QED BY <2>0, <3>1, <3>4, <4>1, <4>2, <4>3 DEF Fits
    <3> QED BY <2>b, <2>c, <3>1, <3>2, <3>3, <3>5
  <2>3. ASSUME NEW o \in Objects, Update(o)
        PROVE  (Pooled /\ Reads /\ Notes /\ Holds /\ \A h \in Handlers : Fits(h))'
    <3>1. /\ UNCHANGED <<owner, entry, inflight, hpc, ranks, lease, target, stray, watch>>
          /\ \E s \in States : state' = [state EXCEPT ![o] = s]
      BY <2>3 DEF Update
    <3>2. Pooled' /\ Holds'
      BY <2>0, <3>1 DEF Pooled, EntriesOwned, Holds
    <3>3. ASSUME NEW h \in Handlers PROVE Fits(h)'
      BY <2>0, <3>1 DEF ranks, Fits, Ranked, Ranks, Loaded
    <3> QED BY <2>b, <2>c, <3>1, <3>2, <3>3
  <2>4. ASSUME NEW h \in Handlers, NEW e \in Emails, LeasePinned(h, e)
        PROVE  (Pooled /\ Reads /\ Notes /\ Holds /\ \A g \in Handlers : Fits(g))'
    <3>1. /\ hpc[h] = "idle" /\ entry[e] \in Loaded
          /\ hpc' = [hpc EXCEPT ![h] = "ranked"]
          /\ lease' = [lease EXCEPT ![h] = entry[e]]
          /\ UNCHANGED <<pool, ranks, target, stray, watch>>
      BY <2>4 DEF LeasePinned, Candidates
    <3>2. entry[e] \in Objects /\ owner[entry[e]] \in Emails
      BY <2>0, <3>1, LoadedOwned
    <3>3. Holds'
      BY <2>0, <3>1, <3>2 DEF Holds
    <3>4. ASSUME NEW g \in Handlers \ {h} PROVE Fits(g)'
      BY <2>0, <3>1, <3>4, OthersFit DEF Holds, pool, ranks
    <3>5. Fits(h)'
      <4>1. hpc'[h] = "ranked" /\ lease'[h] = entry[e] /\ UNCHANGED <<owner, cur, rest, states>>
        BY <2>0, <3>1 DEF Holds, pool, ranks
      <4>2. cur[h] = None /\ rest[h] = {} /\ Ranked(h) = {}
        BY <2>0, <3>1 DEF Fits, Ranks
      <4> QED BY <3>2, <4>1, <4>2 DEF Fits, Ranked
    <3> QED BY <2>a, <2>b, <2>c, <3>1, <3>3, <3>4, <3>5
  <2>5. ASSUME NEW h \in Handlers, RankBegin(h)
        PROVE  (Pooled /\ Reads /\ Notes /\ Holds /\ \A g \in Handlers : Fits(g))'
    <3>1. /\ hpc[h] = "idle" /\ hpc' = [hpc EXCEPT ![h] = "ranking"]
          /\ rest' = [rest EXCEPT ![h] = Loaded]
          /\ UNCHANGED <<pool, cur, counts, states, lease, target, stray, moved>>
      BY <2>5 DEF RankBegin
    <3>2. Loaded \subseteq Objects
      BY <2>0, LoadedOwned
    <3>3. Reads' /\ Holds'
      BY <2>0, <3>1, <3>2 DEF Reads, Holds
    <3>4. Notes'
      <4> DEFINE out == [o \in Objects |-> IF o \in Loaded THEN Cardinality(Outstanding(o)) ELSE 0]
      <4>1. out \in [Objects -> Nat]
        BY <2>d
      <4>2. least' = [least EXCEPT ![h] = out] /\ most' = [most EXCEPT ![h] = out]
        BY <2>5 DEF RankBegin
      <4> HIDE DEF out
      <4> QED BY <2>0, <3>1, <4>1, <4>2 DEF Notes
    <3>5. ASSUME NEW g \in Handlers \ {h} PROVE Fits(g)'
      BY <2>0, <3>1, <3>5, OthersFit DEF Holds, pool, Reads
    <3>6. Fits(h)'
      <4>1. /\ hpc'[h] = "ranking" /\ rest'[h] = Loaded /\ Loaded' = Loaded
            /\ UNCHANGED <<owner, cur, states, lease>>
        BY <2>0, <2>a, <3>1 DEF Holds, Reads, pool
      <4>2. cur[h] = None /\ Ranked(h) = {} /\ Ranked(h)' = Ranked(h) /\ lease[h] = None
        BY <2>0, <3>1, <4>1 DEF Fits, Ranks, Ranked
      <4> QED BY <4>1, <4>2 DEF Fits, Ranks
    <3> QED BY <2>a, <3>1, <3>3, <3>4, <3>5, <3>6
  <2>6. ASSUME NEW h \in Handlers, RankLook(h)
        PROVE  (Pooled /\ Reads /\ Notes /\ Holds /\ \A g \in Handlers : Fits(g))'
    <3>1. /\ hpc[h] = "ranking" /\ UNCHANGED <<pool, counts, states, lease, target, stray, watch>>
      BY <2>6 DEF RankLook
    <3>2. PICK o \in rest[h] :
            /\ rest' = [rest EXCEPT ![h] = @ \ {o}]
            /\ IF state[o].ok
               THEN cur' = [cur EXCEPT ![h] = o] /\ hpc' = [hpc EXCEPT ![h] = "counting"]
               ELSE UNCHANGED <<cur, hpc>>
      BY <2>6 DEF RankLook
    <3>3. o \in Loaded /\ o \in Objects /\ Loaded' = Loaded /\ Ranked(h)' = Ranked(h)
      BY <2>0, <2>a, <3>1, LoadedOwned DEF Fits, Ranked
    <3>4. Reads' /\ Holds'
      <4>1. rest' \in [Handlers -> SUBSET Objects]
        BY <2>0, <3>2 DEF Reads
      <4>2. cur' \in [Handlers -> Objects \cup {None}]
        BY <2>0, <3>2, <3>3 DEF Reads
      <4>3. hpc' \in [Handlers -> {"idle", "ranking", "counting", "scoring", "ranked", "leased",
                                   "releasing"}]
        BY <2>0, <3>2 DEF Holds
      <4> QED BY <2>0, <3>1, <4>1, <4>2, <4>3 DEF Reads, Holds
    <3>5. ASSUME NEW g \in Handlers \ {h} PROVE Fits(g)'
      BY <2>0, <3>1, <3>2, <3>5, OthersFit DEF Holds, pool, Reads
    <3>6. Fits(h)'
      <4>1. /\ rest'[h] \subseteq rest[h] /\ UNCHANGED <<owner, lease>>
            /\ \/ hpc'[h] = "counting" /\ cur'[h] = o
               \/ hpc'[h] = "ranking" /\ cur'[h] = cur[h]
        BY <2>0, <3>1, <3>2 DEF Holds, Reads, pool
      <4>2. cur[h] = None /\ Ranked(h) \subseteq Loaded /\ rest[h] \subseteq Loaded /\ lease[h] = None
        BY <2>0, <3>1 DEF Fits, Holds
      <4>3. o # None
        BY <3>3
      <4> QED BY <3>3, <4>1, <4>2, <4>3 DEF Fits, Ranks
    <3> QED BY <2>a, <2>c, <3>1, <3>4, <3>5, <3>6
  <2>7. ASSUME NEW h \in Handlers, RankCount(h)
        PROVE  (Pooled /\ Reads /\ Notes /\ Holds /\ \A g \in Handlers : Fits(g))'
    <3>1. /\ hpc[h] = "counting" /\ hpc' = [hpc EXCEPT ![h] = "scoring"]
          /\ counts' = [counts EXCEPT ![h][cur[h]] = inflight[cur[h]]]
          /\ UNCHANGED <<pool, rest, cur, states, lease, target, stray, watch>>
      BY <2>7 DEF RankCount
    <3>2. cur[h] \in Objects /\ inflight[cur[h]] \in Int
      BY <2>0, <3>1 DEF Fits, Reads, Pooled
    <3>3. Reads' /\ Holds'
      BY <2>0, <3>1, <3>2 DEF Reads, Holds
    <3>4. ASSUME NEW g \in Handlers \ {h} PROVE Fits(g)'
      BY <2>0, <3>1, <3>4, OthersFit DEF Holds, pool
    <3>5. Fits(h)'
      <4>1. hpc'[h] = "scoring" /\ UNCHANGED owner /\ Loaded' = Loaded /\ Ranked(h)' = Ranked(h)
        BY <2>0, <2>a, <3>1 DEF Holds, Ranked, pool
      <4> QED BY <2>0, <3>1, <4>1 DEF Fits, Ranks
    <3> QED BY <2>a, <2>c, <3>1, <3>3, <3>4, <3>5
  <2>8. ASSUME NEW h \in Handlers, RankScore(h)
        PROVE  (Pooled /\ Reads /\ Notes /\ Holds /\ \A g \in Handlers : Fits(g))'
    <3>1. /\ hpc[h] = "scoring" /\ hpc' = [hpc EXCEPT ![h] = "ranking"]
          /\ states' = [states EXCEPT ![h][cur[h]] = state[cur[h]]]
          /\ cur' = [cur EXCEPT ![h] = None]
          /\ UNCHANGED <<pool, rest, counts, lease, target, stray, watch>>
      BY <2>8 DEF RankScore
    <3>2. cur[h] \in Objects /\ cur[h] \in Loaded /\ state[cur[h]] \in States \cup {NewState}
      BY <2>0, <3>1 DEF Fits, Reads, Pooled
    <3>3. Reads' /\ Holds'
      BY <2>0, <3>1, <3>2 DEF Reads, Holds
    <3>4. ASSUME NEW g \in Handlers \ {h} PROVE Fits(g)'
      BY <2>0, <3>1, <3>4, OthersFit DEF Holds, Reads, pool
    <3>5. Fits(h)'
      <4>1. /\ hpc'[h] = "ranking" /\ UNCHANGED owner /\ Loaded' = Loaded /\ cur'[h] = None
            /\ Ranked(h)' \subseteq Ranked(h) \cup {cur[h]}
        BY <2>0, <2>a, <3>1, <3>2 DEF Holds, Reads, Ranked, pool
      <4> QED BY <2>0, <3>1, <3>2, <4>1 DEF Fits, Ranks
    <3> QED BY <2>a, <2>c, <3>1, <3>3, <3>4, <3>5
  <2>9. ASSUME NEW h \in Handlers, RankNone(h) \/ LeaseRanked(h)
        PROVE  (Pooled /\ Reads /\ Notes /\ Holds /\ \A g \in Handlers : Fits(g))'
    <3>1. /\ Sorts(h) /\ Forget(h) /\ UNCHANGED <<pool, target, stray>>
          /\ \/ hpc' = [hpc EXCEPT ![h] = "idle"] /\ UNCHANGED lease
             \/ /\ hpc' = [hpc EXCEPT ![h] = "ranked"]
                /\ \E o \in Ranked(h) : lease' = [lease EXCEPT ![h] = o]
      BY <2>9 DEF RankNone, LeaseRanked, Foremost, Tied
    <3>2. \A o \in Ranked(h) : o \in Objects /\ owner[o] \in Emails
      BY <2>0, LoadedOwned DEF Fits
    <3>3. Reads' /\ Notes'
      BY <2>0, <3>1 DEF Forget, Reads, Notes
    <3>4. Holds'
      BY <2>0, <3>1, <3>2 DEF Holds
    <3>5. ASSUME NEW g \in Handlers \ {h} PROVE Fits(g)'
      <4>1. /\ hpc'[g] = hpc[g] /\ lease'[g] = lease[g] /\ cur'[g] = cur[g]
            /\ rest'[g] = rest[g] /\ states'[g] = states[g] /\ UNCHANGED <<owner, entry>>
        BY <2>0, <3>1, <3>5 DEF Forget, Holds, Reads, pool
      <4> QED BY <4>1, OthersFit
    <3>6. Fits(h)'
      <4>1. /\ cur[h] = None /\ rest[h] = {} /\ lease[h] = None
        BY <2>0, <3>1 DEF Fits, Sorts
      <4>2. /\ cur'[h] = None /\ rest'[h] = {} /\ Ranked(h)' = {}
        BY <2>0, <3>1, <4>1 DEF Forget, Reads, Ranked
      <4>3. \/ hpc'[h] = "idle" /\ lease'[h] = None
            \/ hpc'[h] = "ranked" /\ lease'[h] # None /\ owner'[lease'[h]] # None
        BY <2>0, <3>1, <3>2, <4>1 DEF Holds, pool
      <4> QED BY <4>2, <4>3 DEF Fits
    <3> QED BY <2>a, <3>1, <3>3, <3>4, <3>5, <3>6
  <2>e. ASSUME NEW o, Note(o), UNCHANGED entry PROVE Notes'
    <3> DEFINE n(p) == Cardinality(Outstanding(p)')
    <3>1. ASSUME NEW p PROVE n(p) \in Nat
      <4>1. Outstanding(p)' \in SUBSET Handlers
        BY DEF Outstanding
      <4> QED BY <4>1, FS_Subset, FS_CardinalityType
    <3>2. Loaded \subseteq Objects
      BY <2>0, LoadedOwned
    <3>3. moved' \in [Handlers -> SUBSET Objects]
      BY <2>0, <2>e, <3>2 DEF Note, Notes
    <3>4. /\ least' = [g \in Handlers |-> [p \in Objects |->
                        IF Ranks(g) /\ p \in {o} \cap Loaded /\ n(p) < least[g][p]
                        THEN n(p) ELSE least[g][p]]]
          /\ most' = [g \in Handlers |-> [p \in Objects |->
                        IF Ranks(g) /\ p \in {o} \cap Loaded /\ n(p) > most[g][p]
                        THEN n(p) ELSE most[g][p]]]
      BY <2>e DEF Note
    <3> HIDE DEF n
    <3>5. /\ least' \in [Handlers -> [Objects -> Nat]] /\ most' \in [Handlers -> [Objects -> Nat]]
      BY <2>0, <3>1, <3>4 DEF Notes
    <3> QED BY <3>3, <3>5 DEF Notes
  <2>10. ASSUME NEW h \in Handlers, LeaseCount(h)
         PROVE  (Pooled /\ Reads /\ Notes /\ Holds /\ \A g \in Handlers : Fits(g))'
    <3>1. /\ hpc[h] = "ranked" /\ hpc' = [hpc EXCEPT ![h] = "leased"]
          /\ inflight' = [inflight EXCEPT ![lease[h]] = @ + 1] /\ Note(lease[h])
          /\ UNCHANGED <<owner, entry, state, ranks, lease, target, stray>>
      BY <2>10 DEF LeaseCount
    <3>2. Pooled' /\ Holds'
      <4>0. lease[h] \in Objects /\ inflight \in [Objects -> Int]
        BY <2>0, <3>1 DEF Fits, Holds, Pooled
      <4>1. inflight' \in [Objects -> Int]
        <5> DEFINE x == lease[h]
        <5>1. x \in Objects /\ inflight[x] + 1 \in Int
          BY <4>0
        <5>2. inflight' = [inflight EXCEPT ![x] = inflight[x] + 1]
          BY <3>1
        <5> HIDE DEF x
        <5> QED BY <4>0, <5>1, <5>2
      <4>2. Pooled'
        BY <2>0, <3>1, <4>1 DEF Pooled, EntriesOwned
      <4>3. Holds'
        BY <2>0, <3>1 DEF Holds
      <4> QED BY <4>2, <4>3
    <3>3. ASSUME NEW g \in Handlers \ {h} PROVE Fits(g)'
      BY <2>0, <3>1, <3>3, OthersFit DEF Holds, ranks
    <3>4. Fits(h)'
      <4>1. hpc'[h] = "leased" /\ Loaded' = Loaded /\ Ranked(h)' = Ranked(h)
        BY <2>0, <3>1 DEF Holds, Ranked, ranks, Loaded
      <4> QED BY <2>0, <3>1, <4>1 DEF Fits, Ranks, ranks
    <3> QED BY <2>b, <2>e, <3>1, <3>2, <3>3, <3>4
  <2>11. ASSUME NEW h \in Handlers, ReleaseLookup(h)
         PROVE  (Pooled /\ Reads /\ Notes /\ Holds /\ \A g \in Handlers : Fits(g))'
    <3>1. /\ hpc[h] = "leased" /\ hpc' = [hpc EXCEPT ![h] = "releasing"]
          /\ target' = [target EXCEPT ![h] = entry[owner[lease[h]]]]
          /\ UNCHANGED <<pool, ranks, lease, stray, watch>>
      BY <2>11 DEF ReleaseLookup
    <3>2. lease[h] \in Objects /\ owner[lease[h]] \in Emails
      BY <2>0, <3>1 DEF Fits, Holds, Pooled
    <3>3. Holds'
      BY <2>0, <3>1, <3>2 DEF Holds, Pooled
    <3>4. ASSUME NEW g \in Handlers \ {h} PROVE Fits(g)'
      BY <2>0, <3>1, <3>4, OthersFit DEF Holds, ranks, pool
    <3>5. Fits(h)'
      <4>1. hpc'[h] = "releasing" /\ Loaded' = Loaded /\ Ranked(h)' = Ranked(h)
        BY <2>0, <2>a, <3>1 DEF Holds, Ranked, ranks
      <4> QED BY <2>0, <3>1, <4>1 DEF Fits, Ranks, ranks, pool
    <3> QED BY <2>a, <2>b, <2>c, <3>1, <3>3, <3>4, <3>5
  <2>12. ASSUME NEW h \in Handlers, ReleaseDecrement(h)
         PROVE  (Pooled /\ Reads /\ Notes /\ Holds /\ \A g \in Handlers : Fits(g))'
    <3>1. /\ hpc[h] = "releasing" /\ hpc' = [hpc EXCEPT ![h] = "idle"]
          /\ lease' = [lease EXCEPT ![h] = None] /\ target' = [target EXCEPT ![h] = None]
          /\ UNCHANGED <<owner, entry, state, ranks>> /\ Note(target[h])
      BY <2>12 DEF ReleaseDecrement
    <3>2. inflight' \in [Objects -> Int] /\ stray' \in [Objects -> Nat]
      BY <2>0, <2>12 DEF ReleaseDecrement, Pooled, Holds
    <3>3. Pooled' /\ Holds'
      BY <2>0, <3>1, <3>2 DEF Pooled, Holds, EntriesOwned
    <3>4. ASSUME NEW g \in Handlers \ {h} PROVE Fits(g)'
      BY <2>0, <3>1, <3>4, OthersFit DEF Holds, ranks
    <3>5. Fits(h)'
      <4>1. /\ hpc'[h] = "idle" /\ lease'[h] = None /\ Loaded' = Loaded
            /\ Ranked(h)' = Ranked(h)
        BY <2>0, <3>1 DEF Holds, Ranked, ranks, Loaded
      <4> QED BY <2>0, <3>1, <4>1 DEF Fits, Ranks, ranks
    <3> QED BY <2>b, <2>e, <3>1, <3>3, <3>4, <3>5
  <2> QED BY <2>1, <2>2, <2>3, <2>4, <2>5, <2>6, <2>7, <2>8, <2>9, <2>10, <2>11, <2>12
          DEF Next, Handler
<1> QED BY <1>1, <1>2, PTL DEF Spec

-----------------------------------------------------------------------------
(* The counts.                                                             *)

(* Add, Remove and Update leave the leases of an object out as they were.  *)
LEMMA OutstandingKept ==
  ASSUME NEW o, UNCHANGED <<hpc, lease, target>>
  PROVE  Outstanding(o)' = Outstanding(o)
BY DEF Outstanding

(* A finite set without one of its members.                                *)
LEMMA OneLess ==
  ASSUME NEW S, IsFiniteSet(S), NEW x \in S
  PROVE  Cardinality(S \ {x}) = Cardinality(S) - 1
BY FS_RemoveElement

(* Every step keeps the invariant behind the exactness of the counts.      *)
LEMMA PoolInvStep == TypeOK /\ PoolInv /\ [Next]_vars => PoolInv'
<1> SUFFICES ASSUME TypeOK, PoolInv, [Next]_vars PROVE PoolInv'
  OBVIOUS
<1> USE PoolAssumption DEF TypeOK, EntriesOwned
<1>1. CASE UNCHANGED vars
  BY <1>1, OutstandingKept
     DEF vars, pool, PoolInv, LeasesOwned, TargetsOwned, FreshCounts, InflightExact
<1>2. ASSUME NEW e \in Emails, Add(e) PROVE PoolInv'
  <2>1. PICK o \in Objects : /\ owner[o] = None
                             /\ owner' = [owner EXCEPT ![o] = e]
                             /\ entry' = [entry EXCEPT ![e] = o]
    BY <1>2 DEF Add
  <2>2. /\ UNCHANGED <<inflight, stray, hpc, lease, target>>
        /\ \A h \in Handlers : hpc[h] \in {"idle", "leased", "releasing"}
    BY <1>2 DEF Add, Unlocked
  <2>3. ASSUME NEW h \in Handlers, lease[h] # None
        PROVE  /\ lease[h] \in Objects /\ owner'[lease[h]] = owner[lease[h]]
               /\ owner[lease[h]] \in Emails /\ hpc[h] # "ranked"
    BY <2>1, <2>2, <2>3 DEF PoolInv, LeasesOwned
  <2>4. LeasesOwned'
    BY <2>2, <2>3 DEF LeasesOwned
  <2>5. TargetsOwned'
    BY <2>1, <2>2 DEF PoolInv, TargetsOwned
  <2>6. FreshCounts'
    BY <2>1, <2>2 DEF PoolInv, FreshCounts
  <2>7. InflightExact'
    <3> SUFFICES ASSUME NEW f \in Emails, entry'[f] # None
                 PROVE  inflight[entry'[f]]
                          = Cardinality(Outstanding(entry'[f])) - stray[entry'[f]]
      BY <2>2, OutstandingKept DEF InflightExact
    <3>1. CASE f = e
      <4>1. entry'[f] = o
        BY <2>1, <3>1
      <4>2. Outstanding(o) = {}
        BY <2>1 DEF Outstanding, PoolInv, LeasesOwned
      <4>3. inflight[o] = 0 /\ stray[o] = 0
        BY <2>1 DEF PoolInv, FreshCounts
      <4> QED BY <4>1, <4>2, <4>3, FS_EmptySet
    <3>2. CASE f # e
      BY <2>1, <3>2 DEF PoolInv, InflightExact
    <3> QED BY <3>1, <3>2
  <2> QED BY <2>4, <2>5, <2>6, <2>7 DEF PoolInv
<1>3. ASSUME NEW e \in Emails, Remove(e) PROVE PoolInv'
  <2>1. /\ entry' = [entry EXCEPT ![e] = None]
        /\ UNCHANGED <<owner, inflight, stray, hpc, lease, target>>
        /\ \A h \in Handlers : hpc[h] \in {"idle", "leased", "releasing"}
    BY <1>3 DEF Remove, Unlocked
  <2>2. LeasesOwned' /\ TargetsOwned' /\ FreshCounts'
    BY <2>1 DEF PoolInv, LeasesOwned, TargetsOwned, FreshCounts
  <2>3. InflightExact'
    BY <2>1, OutstandingKept DEF PoolInv, InflightExact
  <2> QED BY <2>2, <2>3 DEF PoolInv
<1>4. ASSUME NEW o \in Objects, Update(o) PROVE PoolInv'
  <2>1. UNCHANGED <<owner, entry, inflight, stray, hpc, lease, target>>
    BY <1>4 DEF Update
  <2> QED BY <2>1, OutstandingKept
          DEF PoolInv, LeasesOwned, TargetsOwned, FreshCounts, InflightExact
<1>5. ASSUME NEW h \in Handlers, \/ \E e \in Emails : LeasePinned(h, e)
                                \/ LeaseRanked(h)
      PROVE  PoolInv'
  <2>1. PICK o \in Loaded : /\ lease' = [lease EXCEPT ![h] = o]
                            /\ hpc' = [hpc EXCEPT ![h] = "ranked"]
    BY <1>5 DEF LeasePinned, LeaseRanked, Foremost, Tied, Candidates
  <2>2. /\ UNCHANGED <<owner, entry, inflight, stray, target>>
        /\ hpc[h] \notin {"leased", "releasing"}
    BY <1>5 DEF LeasePinned, LeaseRanked, Sorts, pool
  <2>3. o \in Objects /\ owner[o] \in Emails /\ entry[owner[o]] = o
    BY DEF Loaded
  <2>4. FreshCounts'
    BY <2>2 DEF PoolInv, FreshCounts
  <2>5. LeasesOwned'
    BY <2>1, <2>2, <2>3 DEF PoolInv, LeasesOwned
  <2>6. TargetsOwned'
    BY <2>1, <2>2 DEF PoolInv, TargetsOwned
  <2>7. ASSUME NEW p \in Objects PROVE Outstanding(p)' = Outstanding(p)
    BY <2>1, <2>2 DEF Outstanding
  <2>8. InflightExact'
    BY <2>2, <2>7 DEF PoolInv, InflightExact
  <2> QED BY <2>4, <2>5, <2>6, <2>8 DEF PoolInv
<1>9. ASSUME NEW h \in Handlers,
             RankBegin(h) \/ RankLook(h) \/ RankCount(h) \/ RankScore(h) \/ RankNone(h)
      PROVE  PoolInv'
  <2>1. UNCHANGED <<owner, entry, inflight, lease, target, stray>>
    BY <1>9 DEF RankBegin, RankLook, RankCount, RankScore, RankNone, pool
  <2>2. \A g \in Handlers :
          \/ hpc'[g] = hpc[g]
          \/ /\ hpc[g] \notin {"ranked", "leased", "releasing"}
             /\ hpc'[g] \notin {"ranked", "leased", "releasing"}
    BY <1>9 DEF RankBegin, RankLook, RankCount, RankScore, RankNone, Sorts
  <2>3. \A o : Outstanding(o)' = Outstanding(o)
    BY <2>1, <2>2 DEF Outstanding
  <2>4. LeasesOwned' /\ TargetsOwned' /\ FreshCounts'
    BY <2>1, <2>2 DEF PoolInv, LeasesOwned, TargetsOwned, FreshCounts
  <2>5. InflightExact'
    BY <2>1, <2>3 DEF PoolInv, InflightExact
  <2> QED BY <2>4, <2>5 DEF PoolInv
<1>6. ASSUME NEW h \in Handlers, LeaseCount(h) PROVE PoolInv'
  <2>1. /\ hpc[h] = "ranked" /\ lease[h] \in Objects
        /\ hpc' = [hpc EXCEPT ![h] = "leased"]
        /\ inflight' = [inflight EXCEPT ![lease[h]] = @ + 1]
        /\ UNCHANGED <<owner, entry, stray, lease, target>>
    BY <1>6 DEF LeaseCount
  <2>2. LeasesOwned' /\ TargetsOwned'
    BY <2>1 DEF PoolInv, LeasesOwned, TargetsOwned
  <2>3. FreshCounts'
    BY <2>1 DEF PoolInv, FreshCounts, LeasesOwned
  <2>4. InflightExact'
    <3> SUFFICES ASSUME NEW e \in Emails, entry[e] # None
                 PROVE  inflight'[entry[e]]
                          = Cardinality(Outstanding(entry[e])') - stray[entry[e]]
      BY <2>1 DEF InflightExact
    <3> DEFINE c == entry[e]
    <3>1. inflight[c] = Cardinality(Outstanding(c)) - stray[c] /\ c \in Objects
      BY DEF PoolInv, InflightExact
    <3>2. CASE lease[h] = c
      <4>1. Outstanding(c)' = Outstanding(c) \cup {h} /\ h \notin Outstanding(c)
        BY <2>1, <3>2 DEF Outstanding
      <4>2. Cardinality(Outstanding(c)') = Cardinality(Outstanding(c)) + 1
        <5>1. IsFiniteSet(Outstanding(c)) /\ Cardinality(Outstanding(c)) \in Nat
          BY OutstandingFinite
        <5>2. Cardinality(Outstanding(c) \cup {h}) = Cardinality(Outstanding(c)) + 1
          BY <4>1, <5>1, FS_AddElement
        <5> QED BY <4>1, <5>2
      <4>3. inflight'[c] = inflight[c] + 1
        BY <2>1, <3>1, <3>2
      <4> QED BY <3>1, <4>2, <4>3, OutstandingFinite
    <3>3. CASE lease[h] # c
      <4>1. Outstanding(c)' = Outstanding(c)
        BY <2>1, <3>3 DEF Outstanding
      <4> QED BY <2>1, <3>1, <3>3, <4>1
    <3> QED BY <3>2, <3>3
  <2> QED BY <2>2, <2>3, <2>4 DEF PoolInv
<1>7. ASSUME NEW h \in Handlers, ReleaseLookup(h) PROVE PoolInv'
  <2>1. /\ hpc[h] = "leased" /\ lease[h] \in Objects /\ owner[lease[h]] \in Emails
        /\ hpc' = [hpc EXCEPT ![h] = "releasing"]
        /\ target' = [target EXCEPT ![h] = entry[owner[lease[h]]]]
        /\ UNCHANGED <<owner, entry, inflight, stray, lease>>
    BY <1>7 DEF ReleaseLookup, PoolInv, LeasesOwned, pool
  <2>2. FreshCounts'
    BY <2>1 DEF PoolInv, FreshCounts
  <2>3. LeasesOwned'
    BY <2>1 DEF PoolInv, LeasesOwned
  <2>4. TargetsOwned'
    BY <2>1 DEF PoolInv, TargetsOwned
  <2>5. ASSUME NEW e \in Emails, entry[e] # None
        PROVE  Outstanding(entry[e])' = Outstanding(entry[e])
    BY <2>1 DEF Outstanding, PoolInv
  <2>6. InflightExact'
    BY <2>1, <2>5 DEF PoolInv, InflightExact
  <2> QED BY <2>2, <2>3, <2>4, <2>6 DEF PoolInv
<1>8. ASSUME NEW h \in Handlers, ReleaseDecrement(h) PROVE PoolInv'
  <2>1. /\ hpc[h] = "releasing"
        /\ hpc' = [hpc EXCEPT ![h] = "idle"]
        /\ lease' = [lease EXCEPT ![h] = None]
        /\ target' = [target EXCEPT ![h] = None]
        /\ UNCHANGED <<owner, entry>>
    BY <1>8 DEF ReleaseDecrement
  <2>2. \A o \in Objects :
          /\ inflight'[o] = IF o = target[h] THEN inflight[o] - 1 ELSE inflight[o]
          /\ stray'[o] = IF o = target[h] /\ o # lease[h] THEN stray[o] + 1 ELSE stray[o]
    BY <1>8 DEF ReleaseDecrement
  <2>3. LeasesOwned' /\ TargetsOwned'
    BY <2>1 DEF PoolInv, LeasesOwned, TargetsOwned
  <2>4. FreshCounts'
    <3>1. ASSUME NEW o \in Objects, owner[o] = None PROVE o # target[h]
      BY <3>1 DEF PoolInv, TargetsOwned
    <3> QED BY <2>1, <2>2, <3>1 DEF PoolInv, FreshCounts
  <2>5. InflightExact'
    <3> SUFFICES ASSUME NEW e \in Emails, NEW c \in Objects, c = entry[e]
                 PROVE  inflight'[c] = Cardinality(Outstanding(c)') - stray'[c]
      BY <2>1 DEF InflightExact
    <3>1. /\ inflight[c] = Cardinality(Outstanding(c)) - stray[c]
          /\ inflight[c] \in Int /\ stray[c] \in Nat
      BY DEF PoolInv, InflightExact
    <3>2. CASE c = target[h] /\ c = lease[h]
      <4>1. Outstanding(c)' = Outstanding(c) \ {h} /\ h \in Outstanding(c)
        BY <2>1, <3>1, <3>2 DEF Outstanding
      <4>2. Cardinality(Outstanding(c)') = Cardinality(Outstanding(c)) - 1
        <5>1. IsFiniteSet(Outstanding(c)) /\ Cardinality(Outstanding(c)) \in Nat
          BY OutstandingFinite
        <5>2. Cardinality(Outstanding(c) \ {h}) = Cardinality(Outstanding(c)) - 1
          BY <4>1, <5>1, OneLess
        <5> QED BY <4>1, <5>2
      <4>3. inflight'[c] = inflight[c] - 1 /\ stray'[c] = stray[c]
        BY <2>2, <3>1, <3>2
      <4> QED BY <3>1, <4>2, <4>3, OutstandingFinite
    <3>3. CASE c = target[h] /\ c # lease[h]
      <4>1. Outstanding(c)' = Outstanding(c)
        BY <2>1, <3>1, <3>3 DEF Outstanding
      <4>2. inflight'[c] = inflight[c] - 1 /\ stray'[c] = stray[c] + 1
        BY <2>2, <3>1, <3>3
      <4> QED BY <3>1, <4>1, <4>2, OutstandingFinite
    <3>4. CASE c # target[h]
      <4>1. Outstanding(c)' = Outstanding(c)
        BY <2>1, <3>1, <3>4 DEF Outstanding
      <4>2. inflight'[c] = inflight[c] /\ stray'[c] = stray[c]
        BY <2>2, <3>1, <3>4
      <4> QED BY <3>1, <4>1, <4>2
    <3> QED BY <3>2, <3>3, <3>4
  <2> QED BY <2>3, <2>4, <2>5 DEF PoolInv
<1> QED BY <1>1, <1>2, <1>3, <1>4, <1>5, <1>6, <1>7, <1>8, <1>9 DEF Next, Handler

(* The invariant holds for ever.                                           *)
LEMMA PoolInvariant == Spec => []PoolInv
<1>1. Init => PoolInv
  BY PoolAssumption DEF Init, PoolInv, LeasesOwned, TargetsOwned,
     FreshCounts, InflightExact
<1> QED BY <1>1, PoolInvStep, PoolTypeCorrect, PTL DEF Spec

(* The counts of the pool are exact, but for the decrements that leases    *)
(* of replaced entries make (pool.go:59-69, 125-137).                      *)
THEOREM CountsAreExact == Spec => []InflightExact
<1>1. PoolInv => InflightExact
  BY DEF PoolInv
<1> QED BY <1>1, PoolInvariant, PTL

-----------------------------------------------------------------------------
(* The choice.                                                             *)

(* While a handler ranks, an account of the map never has fewer leases out *)
(* than noted, nor more; and neither has a count it read, unless a lease   *)
(* of a replaced entry disturbed it.                                       *)
Within(h, n, o) == least[h][o] <= n /\ n <= most[h][o]
HasRead(h, o) == o \in Ranked(h) \/ (hpc[h] = "scoring" /\ o = cur[h])
Watched(h) == Ranks(h) =>
  /\ \A o \in Loaded : Within(h, Cardinality(Outstanding(o)), o)
  /\ \A o \in Loaded : HasRead(h, o) /\ stray[o] = 0 => Within(h, counts[h][o], o)

(* A step that leaves the leases out on the map's accounts as they are, and *)
(* what a handler has read.                                                *)
LEMMA WatchedKept ==
  ASSUME NEW h, Watched(h), Ranks(h)' => Ranks(h), UNCHANGED <<entry, stray>>,
         \A o \in Loaded : Outstanding(o)' = Outstanding(o),
         \A o \in Loaded : /\ HasRead(h, o)' => HasRead(h, o)
                           /\ counts'[h][o] = counts[h][o]
                           /\ least'[h][o] = least[h][o] /\ most'[h][o] = most[h][o]
  PROVE  Watched(h)'
<1>1. Loaded' = Loaded
  BY DEF Loaded
<1>2. ASSUME NEW o \in Loaded
      PROVE  Cardinality(Outstanding(o))' = Cardinality(Outstanding(o))
  BY <1>2
<1> QED BY <1>1, <1>2 DEF Watched, Within

(* A step that notes what becomes of one account widens the bounds.        *)
LEMMA WatchedNoted ==
  ASSUME TypeOK, NEW h \in Handlers, Watched(h), Ranks(h)' => Ranks(h), NEW x, Note(x),
         UNCHANGED <<entry, counts, states, cur>>, hpc'[h] = "scoring" => hpc[h] = "scoring",
         \A o \in Loaded \ {x} : Outstanding(o)' = Outstanding(o),
         \A o \in Objects : stray[o] \in Nat /\ stray'[o] >= stray[o]
  PROVE  Watched(h)'
<1> SUFFICES ASSUME Ranks(h), NEW o \in Loaded
             PROVE  /\ Within(h, Cardinality(Outstanding(o)), o)'
                    /\ HasRead(h, o)' /\ stray'[o] = 0 => Within(h, counts[h][o], o)'
  BY DEF Watched, Loaded
<1> DEFINE n == Cardinality(Outstanding(o))
           m == Cardinality(Outstanding(o)')
           lo == least[h][o]
           hi == most[h][o]
<1>1. o \in Objects
  BY TypeParts, LoadedOwned
<1>2. n \in Nat /\ m \in Nat
  <2>1. Outstanding(o)' \in SUBSET Handlers
    BY DEF Outstanding
  <2>2. Cardinality(Outstanding(o)') \in Nat
    BY <2>1, PoolAssumption, FS_Subset, FS_CardinalityType
  <2> QED BY <2>2, OutstandingFinite
<1>3. lo \in Nat /\ hi \in Nat /\ lo <= n /\ n <= hi /\ counts[h][o] \in Int
  BY <1>1 DEF Watched, Within, TypeOK
<1>4. /\ least'[h][o] = IF o \in {x} \cap Loaded /\ m < lo THEN m ELSE lo
      /\ most'[h][o] = IF o \in {x} \cap Loaded /\ m > hi THEN m ELSE hi
  BY <1>1 DEF Note
<1>5. o # x => m = n
  OBVIOUS
<1>6. HasRead(h, o)' => HasRead(h, o)
  BY DEF HasRead, Ranked
<1>7. stray'[o] = 0 => stray[o] = 0
  BY <1>1
<1>8. HasRead(h, o)' /\ stray'[o] = 0 => lo <= counts[h][o] /\ counts[h][o] <= hi
  BY <1>6, <1>7 DEF Watched, Within
<1> HIDE DEF n, m, lo, hi
<1>9. /\ least'[h][o] <= lo /\ hi <= most'[h][o] /\ least'[h][o] \in Nat /\ most'[h][o] \in Nat
      /\ least'[h][o] <= m /\ m <= most'[h][o]
  BY <1>2, <1>3, <1>4, <1>5
<1>10. least'[h][o] <= m /\ m <= most'[h][o]
  BY <1>9
<1>11. HasRead(h, o)' /\ stray'[o] = 0
         => least'[h][o] <= counts[h][o] /\ counts[h][o] <= most'[h][o]
  BY <1>3, <1>8, <1>9
<1> QED BY <1>10, <1>11 DEF Within, m

(* Every step keeps the bounds.                                            *)
LEMMA WatchedStep ==
  ASSUME TypeOK, PoolInv, \A h \in Handlers : Watched(h), [Next]_vars, NEW h \in Handlers
  PROVE  Watched(h)'
<1>0. Pooled /\ Reads /\ Notes /\ Holds /\ \A g \in Handlers : Fits(g)
  BY TypeParts
<1>w. Watched(h)
  OBVIOUS
<1>1. CASE UNCHANGED vars
  <2>1. UNCHANGED <<entry, stray, hpc, lease, target, cur, counts, states, rest, least, most>>
    BY <1>1 DEF vars, pool, ranks, watch
  <2>2. \A o : Outstanding(o)' = Outstanding(o)
    BY <2>1, OutstandingKept
  <2> QED BY <1>w, <2>1, <2>2, WatchedKept DEF HasRead, Ranked, Ranks
<1>2. ASSUME NEW e \in Emails, Add(e) \/ Remove(e) PROVE Watched(h)'
  BY <1>2 DEF Add, Remove, Unlocked, Watched, Ranks
<1>3. ASSUME NEW o \in Objects, Update(o) PROVE Watched(h)'
  <2>1. UNCHANGED <<entry, stray, hpc, lease, target, cur, counts, states, rest, least, most>>
    BY <1>3 DEF Update, ranks, watch
  <2>2. \A p : Outstanding(p)' = Outstanding(p)
    BY <2>1, OutstandingKept
  <2> QED BY <1>w, <2>1, <2>2, WatchedKept DEF HasRead, Ranked, Ranks
<1>4. ASSUME NEW g \in Handlers,
             \/ \E e \in Emails : LeasePinned(g, e)
             \/ RankNone(g) \/ LeaseRanked(g)
      PROVE  Watched(h)'
  <2>1. /\ UNCHANGED <<entry, stray, target, cur, rest>> /\ hpc[g] \notin {"leased", "releasing"}
        /\ \/ hpc' = [hpc EXCEPT ![g] = "ranked"] \/ hpc' = [hpc EXCEPT ![g] = "idle"]
        /\ UNCHANGED lease \/ \E o : lease' = [lease EXCEPT ![g] = o]
    BY <1>4 DEF LeasePinned, RankNone, LeaseRanked, Forget, Sorts, pool, ranks
  <2>2. \A o \in Loaded : Outstanding(o)' = Outstanding(o)
    BY <1>0, <2>1 DEF Outstanding, Holds
  <2>3. CASE g = h
    BY <1>0, <2>1, <2>3 DEF Watched, Ranks, Holds
  <2>4. CASE g # h
    <3>1. /\ counts'[h] = counts[h] /\ states'[h] = states[h]
          /\ least'[h] = least[h] /\ most'[h] = most[h] /\ hpc'[h] = hpc[h]
      BY <1>0, <1>4, <2>1, <2>4
         DEF LeasePinned, RankNone, LeaseRanked, Forget, ranks, watch, Reads, Notes, Holds
    <3> QED BY <1>w, <2>1, <2>2, <3>1, WatchedKept DEF HasRead, Ranked, Ranks
  <2> QED BY <2>3, <2>4
<1>5. ASSUME NEW g \in Handlers,
             RankBegin(g) \/ RankLook(g) \/ RankCount(g) \/ RankScore(g)
      PROVE  Watched(h)'
  <2>1. /\ UNCHANGED <<entry, stray, target, lease>>
        /\ \/ hpc' = hpc
           \/ /\ hpc[g] \notin {"leased", "releasing"}
              /\ \E where \in {"ranking", "counting", "scoring"} :
                   hpc' = [hpc EXCEPT ![g] = where]
    BY <1>5 DEF RankBegin, RankLook, RankCount, RankScore, pool
  <2>2. \A o \in Loaded : Outstanding(o)' = Outstanding(o)
    BY <1>0, <2>1 DEF Outstanding, Holds
  <2>3. CASE g # h
    <3>1. /\ counts'[h] = counts[h] /\ states'[h] = states[h] /\ cur'[h] = cur[h]
          /\ least'[h] = least[h] /\ most'[h] = most[h] /\ hpc'[h] = hpc[h]
      BY <1>0, <1>5, <2>1, <2>3
         DEF RankBegin, RankLook, RankCount, RankScore, watch, Reads, Notes, Holds
    <3> QED BY <1>w, <2>1, <2>2, <3>1, WatchedKept DEF HasRead, Ranked, Ranks
  <2>4. CASE g = h /\ RankBegin(h)
    <3> DEFINE out == [o \in Objects |-> IF o \in Loaded THEN Cardinality(Outstanding(o)) ELSE 0]
    <3>1. /\ hpc[h] = "idle" /\ UNCHANGED <<cur, states>> /\ hpc' = [hpc EXCEPT ![h] = "ranking"]
          /\ least' = [least EXCEPT ![h] = out] /\ most' = [most EXCEPT ![h] = out]
      BY <2>4 DEF RankBegin
    <3>2. Ranked(h) = {} /\ Ranked(h)' = {} /\ hpc'[h] = "ranking"
      BY <1>0, <3>1 DEF Fits, Ranks, Ranked, Holds
    <3>3. \A o \in Loaded : ~HasRead(h, o)'
      BY <3>2 DEF HasRead
    <3>4. ASSUME NEW o \in Loaded
          PROVE  least'[h][o] = Cardinality(Outstanding(o)) /\ most'[h][o] = least'[h][o]
      <4>1. o \in Objects
        BY <1>0, LoadedOwned
      <4> QED BY <1>0, <3>1, <4>1 DEF Notes
    <3>5. ASSUME NEW o \in Loaded PROVE Within(h, Cardinality(Outstanding(o)), o)'
      <4>1. Cardinality(Outstanding(o)') = Cardinality(Outstanding(o))
        BY <2>2
      <4>2. Cardinality(Outstanding(o)) \in Nat
        BY OutstandingFinite
      <4> QED BY <3>4, <4>1, <4>2 DEF Within
    <3> QED BY <2>1, <3>3, <3>5 DEF Watched, Loaded
  <2>5. CASE g = h /\ RankLook(h)
    <3>1. /\ hpc[h] = "ranking" /\ UNCHANGED <<counts, states, least, most>>
          /\ hpc' = hpc \/ hpc' = [hpc EXCEPT ![h] = "counting"]
      BY <2>5 DEF RankLook, watch
    <3>2. hpc'[h] # "scoring"
      BY <1>0, <3>1 DEF Holds
    <3> QED BY <1>w, <2>1, <2>2, <3>1, <3>2, WatchedKept DEF HasRead, Ranked, Ranks
  <2>6. CASE g = h /\ RankCount(h)
    <3> DEFINE c == cur[h]
    <3>1. /\ hpc[h] = "counting" /\ UNCHANGED <<cur, states, least, most>>
          /\ counts' = [counts EXCEPT ![h][c] = inflight[c]]
      BY <2>6 DEF RankCount, watch
    <3>2. c \in Loaded /\ c \in Objects
      BY <1>0, <3>1 DEF Fits, Reads
    <3>3. ASSUME NEW o \in Loaded
          PROVE  /\ Within(h, Cardinality(Outstanding(o)), o)
                 /\ HasRead(h, o)' /\ stray[o] = 0 => Within(h, counts'[h][o], o)
      <4>1. Within(h, Cardinality(Outstanding(o)), o)
        BY <1>w, <3>1 DEF Watched, Ranks
      <4>2. CASE o = c
        <5>1. counts'[h][o] = inflight[o]
          BY <1>0, <3>1, <3>2, <4>2 DEF Reads
        <5>2. inflight[o] = Cardinality(Outstanding(o)) - stray[o]
          BY <1>0 DEF PoolInv, InflightExact, Loaded, Pooled
        <5>3. Cardinality(Outstanding(o)) \in Nat
          BY OutstandingFinite
        <5>4. stray[o] = 0 => counts'[h][o] = Cardinality(Outstanding(o))
          BY <5>1, <5>2, <5>3
        <5> QED BY <4>1, <5>4
      <4>3. CASE o # c
        <5>1. counts'[h][o] = counts[h][o]
          BY <1>0, <3>1, <3>2, <4>3 DEF Reads
        <5>2. HasRead(h, o)' => HasRead(h, o)
          BY <3>1, <4>3 DEF HasRead, Ranked
        <5> QED BY <1>w, <3>1, <4>1, <5>1, <5>2 DEF Watched, Ranks
      <4> QED BY <4>2, <4>3
    <3>4. \A o \in Loaded : Cardinality(Outstanding(o)') = Cardinality(Outstanding(o))
      BY <2>2
    <3> QED BY <2>1, <3>1, <3>3, <3>4 DEF Watched, Within, Loaded
  <2>7. CASE g = h /\ RankScore(h)
    <3>1. /\ hpc[h] = "scoring" /\ UNCHANGED <<counts, least, most>>
          /\ states' = [states EXCEPT ![h][cur[h]] = state[cur[h]]]
          /\ hpc' = [hpc EXCEPT ![h] = "ranking"]
      BY <2>7 DEF RankScore, watch
    <3>2. \A o \in Loaded : HasRead(h, o)' => HasRead(h, o)
      BY <1>0, <3>1 DEF HasRead, Ranked, Reads, Holds
    <3> QED BY <1>w, <2>1, <2>2, <3>1, <3>2, WatchedKept DEF Ranks
  <2> QED BY <1>5, <2>3, <2>4, <2>5, <2>6, <2>7
<1>6. ASSUME NEW g \in Handlers, LeaseCount(g) PROVE Watched(h)'
  <2>1. /\ hpc[g] = "ranked" /\ hpc' = [hpc EXCEPT ![g] = "leased"] /\ Note(lease[g])
        /\ UNCHANGED <<entry, counts, states, cur, lease, target, stray>>
    BY <1>6 DEF LeaseCount, ranks
  <2>2. \A o \in Loaded \ {lease[g]} : Outstanding(o)' = Outstanding(o)
    BY <1>0, <2>1 DEF Outstanding, Holds
  <2>3. \A o \in Objects : stray[o] \in Nat /\ stray'[o] >= stray[o]
    BY <1>0, <2>1 DEF Holds
  <2>4. (Ranks(h)' => Ranks(h)) /\ (hpc'[h] = "scoring" => hpc[h] = "scoring")
    BY <1>0, <2>1 DEF Ranks, Holds
  <2> QED BY <1>w, <2>1, <2>2, <2>3, <2>4, WatchedNoted
<1>7. ASSUME NEW g \in Handlers, ReleaseLookup(g) PROVE Watched(h)'
  <2>1. /\ hpc[g] = "leased" /\ hpc' = [hpc EXCEPT ![g] = "releasing"]
        /\ target' = [target EXCEPT ![g] = entry[owner[lease[g]]]]
        /\ UNCHANGED <<entry, counts, states, cur, lease, stray, least, most>>
    BY <1>7 DEF ReleaseLookup, ranks, pool, watch
  <2>2. ASSUME NEW o \in Loaded PROVE Outstanding(o)' = Outstanding(o)
    <3>1. entry[owner[o]] = o
      BY <1>0, LoadedOwned
    <3> QED BY <1>0, <2>1, <3>1 DEF Outstanding, Holds
  <2>3. (Ranks(h)' => Ranks(h)) /\ (hpc'[h] = "scoring" => hpc[h] = "scoring")
    BY <1>0, <2>1 DEF Ranks, Holds
  <2> QED BY <1>w, <2>1, <2>2, <2>3, WatchedKept DEF HasRead, Ranked
<1>8. ASSUME NEW g \in Handlers, ReleaseDecrement(g) PROVE Watched(h)'
  <2>1. /\ hpc[g] = "releasing" /\ hpc' = [hpc EXCEPT ![g] = "idle"] /\ Note(target[g])
        /\ lease' = [lease EXCEPT ![g] = None] /\ target' = [target EXCEPT ![g] = None]
        /\ UNCHANGED <<entry, counts, states, cur>>
        /\ stray' = [o \in Objects |->
                       IF o = target[g] /\ o # lease[g] THEN stray[o] + 1 ELSE stray[o]]
    BY <1>8 DEF ReleaseDecrement, ranks
  <2>2. ASSUME NEW o \in Loaded \ {target[g]} PROVE Outstanding(o)' = Outstanding(o)
    <3>1. o # None
      BY <1>0, LoadedOwned, PoolAssumption
    <3> QED BY <1>0, <2>1, <3>1 DEF Outstanding, Holds
  <2>3. \A o \in Objects : stray[o] \in Nat /\ stray'[o] >= stray[o]
    BY <1>0, <2>1 DEF Holds
  <2>4. (Ranks(h)' => Ranks(h)) /\ (hpc'[h] = "scoring" => hpc[h] = "scoring")
    BY <1>0, <2>1 DEF Ranks, Holds
  <2> QED BY <1>w, <2>1, <2>2, <2>3, <2>4, WatchedNoted
<1> QED BY <1>1, <1>2, <1>3, <1>4, <1>5, <1>6, <1>7, <1>8 DEF Next, Handler

(* The bounds hold for ever.                                               *)
WatchInv == \A h \in Handlers : Watched(h)
LEMMA WatchInvariant == Spec => []WatchInv
<1>1. Init => WatchInv
  BY DEF Init, WatchInv, Watched, Ranks
<1>2. TypeOK /\ PoolInv /\ WatchInv /\ [Next]_vars => WatchInv'
  BY WatchedStep DEF WatchInv
<1> QED BY <1>1, <1>2, PoolTypeCorrect, PoolInvariant, PTL DEF Spec

(* However others lease, release and mark between the reads of a ranking,  *)
(* among accounts that rank alike its choice had, at some moment of it, no *)
(* more leases out than any other at some moment; as long as their counts  *)
(* are exact (rotation.go:36-81).                                          *)
THEOREM LoadIsShared == Spec => RotatesWhileExact
<1>1. ASSUME TypeOK, WatchInv, NEW h \in Handlers, LeaseRanked(h),
             NEW p \in Ranked(h),
             Twins(h, lease'[h], p), stray[lease'[h]] = 0, stray[p] = 0
      PROVE  least[h][lease'[h]] <= most[h][p]
  <2>0. Pooled /\ Reads /\ Notes /\ Holds /\ Fits(h)
    BY <1>1, TypeParts
  <2>1. PICK o \in Tied(h) : lease' = [lease EXCEPT ![h] = o]
    BY <1>1 DEF LeaseRanked, Foremost
  <2>2. lease'[h] = o /\ o \in Ranked(h) /\ Score(h, p) <= Score(h, o)
    BY <2>0, <2>1 DEF Holds, Tied
  <2>3. ASSUME NEW q \in Ranked(h), stray[q] = 0
        PROVE  /\ q \in Objects /\ owner[q] \in Emails
               /\ least[h][q] <= counts[h][q] /\ counts[h][q] <= most[h][q]
               /\ counts[h][q] \in Int /\ least[h][q] \in Int /\ most[h][q] \in Int
    <3>1. q \in Loaded /\ Ranks(h)
      BY <1>1, <2>0 DEF Fits, LeaseRanked, Sorts, Ranks
    <3>2. q \in Objects /\ owner[q] \in Emails
      BY <2>0, <3>1, LoadedOwned
    <3> QED BY <1>1, <2>0, <2>3, <3>1, <3>2 DEF WatchInv, Watched, Within, HasRead, Reads, Notes
  <2>4. counts[h][o] <= counts[h][p]
    <3> DEFINE t == 400 * Tier[owner[o]]
               w == 10 * (Full - states[h][o].secondary)
               r == Full - states[h][o].primary
    <3>1. Twins(h, o, p) /\ stray[o] = 0
      BY <1>1, <2>2
    <3>2. /\ Score(h, o) = t + w + r - 200 * counts[h][o]
          /\ Score(h, p) = t + w + r - 200 * counts[h][p]
      BY <3>1 DEF Score, Twins
    <3>3. t \in Int /\ w \in Int /\ r \in Int
      <4>1. Tier[owner[o]] \in Int
        <5>1. Tier \in [Emails -> Nat]
          BY PoolAssumption
        <5> QED BY <2>2, <2>3, <3>1, <5>1
      <4>2. states[h][o].primary \in Int /\ states[h][o].secondary \in Int
        <5>1. o \in Objects /\ states[h][o] \in States \cup {NewState}
          BY <2>0, <2>2 DEF Ranked, Reads
        <5> QED BY <5>1, PoolAssumption DEF NewState, Full
      <4> QED BY <4>1, <4>2 DEF Full
    <3>4. counts[h][o] \in Int /\ counts[h][p] \in Int
      BY <1>1, <2>2, <2>3, <3>1
    <3> HIDE DEF t, w, r
    <3> QED BY <2>2, <3>2, <3>3, <3>4
  <2>5. stray[o] = 0
    BY <1>1, <2>2
  <2> QED BY <1>1, <2>2, <2>3, <2>4, <2>5
<1>2. TypeOK /\ WatchInv /\ [Next]_vars =>
        [\A h \in Handlers : LeaseRanked(h) =>
           \A p \in Ranked(h) :
             Twins(h, lease'[h], p) /\ stray[lease'[h]] = 0 /\ stray[p] = 0 =>
               least[h][lease'[h]] <= most[h][p]]_vars
  BY <1>1
<1> QED BY <1>2, PoolTypeCorrect, WatchInvariant, PTL DEF Spec, RotatesWhileExact
==============================================================================
