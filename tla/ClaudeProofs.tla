------------------------------ MODULE ClaudeProofs ----------------------------
(***************************************************************************)
(* Proofs about the accounts of Claude: the pool and the logins that add   *)
(* to it, whose specifications have no name in common.                     *)
(*                                                                         *)
(* ClaudePool, for every set of emails, handlers and objects: its types,   *)
(* that a reload hands the count of an account over exactly, and that an   *)
(* account over its quota is the last resort.                              *)
(*                                                                         *)
(* Logins, for every number of logins, ports, visitors and finishers: its  *)
(* types, that a login which was begun by hand stays pending until it is   *)
(* finished, and that an account is saved with its own code only.          *)
(***************************************************************************)
EXTENDS ClaudePool, Logins, FiniteSetTheorems, TLAPS

(* A lease holds an object that was loaded; until it is counted that       *)
(* object is in the map, for Add and Remove wait for the read lock; and an *)
(* email that was never removed stays in the map while it is leased.       *)
LeasesOwned ==
  \A h \in Handlers : lease[h] # None =>
    /\ owner[lease[h]] \in Emails
    /\ hpc[h] = "ranked" => entry[owner[lease[h]]] = lease[h]
    /\ ~removed[owner[lease[h]]] => entry[owner[lease[h]]] # None

(* Release decrements an entry of the lease's email.                       *)
TargetsOwned ==
  \A h \in Handlers : target[h] # None =>
    hpc[h] = "releasing" /\ owner[target[h]] = owner[lease[h]]

(* An email that was never in the map lost no decrement.                   *)
NothingLeakedYet ==
  \A e \in Emails : entry[e] = None /\ ~removed[e] => leaked[e] = 0

PoolInv == LeasesOwned /\ TargetsOwned /\ NothingLeakedYet /\ CountsHandedOver

(* The leases out on an email are finitely many.                           *)
LEMMA OutstandingFinite ==
  ASSUME NEW e
  PROVE  IsFiniteSet(Outstanding(e)) /\ Cardinality(Outstanding(e)) \in Nat
<1>1. Outstanding(e) \in SUBSET Handlers
  BY DEF Outstanding
<1> QED BY <1>1, ClaudeAssumption, FS_Subset, FS_CardinalityType

(* So are the releases under way.                                          *)
LEMMA DecrementingFinite ==
  ASSUME NEW e
  PROVE  IsFiniteSet(Decrementing(e)) /\ Cardinality(Decrementing(e)) \in Nat
<1>1. Decrementing(e) \in SUBSET Handlers
  BY DEF Decrementing
<1> QED BY <1>1, ClaudeAssumption, FS_Subset, FS_CardinalityType

-----------------------------------------------------------------------------
(* Types.                                                                  *)

(* Every variable keeps its type, no count falls below 0, and a handler    *)
(* past the choice of Lease has an account (claude_account.go:312-442).    *)
THEOREM ClaudeTypeCorrect == Spec => []TypeOK
<1> USE ClaudeAssumption
<1>1. Init => TypeOK
  BY DEF Init, TypeOK, EntriesOwned, NewState, Full
<1>2. TypeOK /\ [Next]_vars => TypeOK'
  <2> SUFFICES ASSUME TypeOK, [Next]_vars PROVE TypeOK'
    OBVIOUS
  <2> USE DEF TypeOK, EntriesOwned
  <2>1. CASE UNCHANGED vars
    BY <2>1 DEF vars
  <2>2. ASSUME NEW e \in Emails, AddFirst(e) PROVE TypeOK'
    BY <2>2 DEF AddFirst, Load, NewState, Full
  <2>3. ASSUME NEW e \in Emails, NEW newToken \in BOOLEAN, Replace(e, newToken)
        PROVE  TypeOK'
    <3>1. Cardinality(Decrementing(e)) \in Nat
      BY DecrementingFinite
    <3>2. leaked' \in [Emails -> Nat]
      BY <2>3, <3>1 DEF Replace
    <3> QED BY <2>3, <3>2 DEF Replace, Load
  <2>4. ASSUME NEW e \in Emails, Remove(e) PROVE TypeOK'
    BY <2>4 DEF Remove
  <2>5. ASSUME NEW o \in Objects, Update(o) PROVE TypeOK'
    BY <2>5 DEF Update
  <2>6. ASSUME NEW h \in Handlers, LeaseChoose(h) PROVE TypeOK'
    <3>1. RoutingCandidates \subseteq {o \in Objects : owner[o] # None}
      BY DEF RoutingCandidates, EligibleKnown, Unknown, Candidates, Loaded
    <3> QED BY <2>6, <3>1 DEF LeaseChoose
  <2>7. ASSUME NEW h \in Handlers, LeaseCount(h) PROVE TypeOK'
    BY <2>7 DEF LeaseCount
  <2>8. ASSUME NEW h \in Handlers, ReleaseLookup(h) PROVE TypeOK'
    <3>1. lease[h] \in Objects /\ owner[lease[h]] \in Emails
      BY <2>8 DEF ReleaseLookup
    <3> QED BY <2>8, <3>1 DEF ReleaseLookup
  <2>9. ASSUME NEW h \in Handlers, ReleaseDecrement(h) PROVE TypeOK'
    <3>1. inflight' \in [Objects -> Nat]
      BY <2>9 DEF ReleaseDecrement
    <3> QED BY <2>9, <3>1 DEF ReleaseDecrement
  <2> QED BY <2>1, <2>2, <2>3, <2>4, <2>5, <2>6, <2>7, <2>8, <2>9
          DEF Next, Handler
<1> QED BY <1>1, <1>2, PTL DEF Spec

-----------------------------------------------------------------------------
(* The counts.                                                             *)

(* Every step keeps the invariant behind the hand-over of the counts.      *)
LEMMA PoolInvStep == TypeOK /\ PoolInv /\ [Next]_vars => PoolInv'
<1> SUFFICES ASSUME TypeOK, PoolInv, [Next]_vars PROVE PoolInv'
  OBVIOUS
<1> USE ClaudeAssumption DEF TypeOK, EntriesOwned
<1>1. CASE UNCHANGED vars
  <2>1. \A e \in Emails : Outstanding(e)' = Outstanding(e)
    BY <1>1 DEF vars, Outstanding
  <2> QED BY <1>1, <2>1
          DEF vars, PoolInv, LeasesOwned, TargetsOwned, NothingLeakedYet, CountsHandedOver
<1>2. ASSUME NEW e \in Emails, AddFirst(e) PROVE PoolInv'
  <2>1. PICK o \in Objects : /\ entry[e] = None /\ owner[o] = None
                             /\ owner' = [owner EXCEPT ![o] = e]
                             /\ entry' = [entry EXCEPT ![e] = o]
                             /\ inflight' = [inflight EXCEPT ![o] = 0]
    BY <1>2 DEF AddFirst, Load
  <2>2. /\ UNCHANGED <<hpc, lease, target, removed, leaked>>
        /\ \A h \in Handlers : hpc[h] # "ranked"
    BY <1>2 DEF AddFirst, Load, Unlocked
  <2>3. LeasesOwned'
    BY <2>1, <2>2 DEF PoolInv, LeasesOwned
  <2>4. TargetsOwned'
    BY <2>1, <2>2 DEF PoolInv, TargetsOwned, LeasesOwned
  <2>5. NothingLeakedYet'
    BY <2>1, <2>2 DEF PoolInv, NothingLeakedYet
  <2>6. CountsHandedOver'
    <3> SUFFICES ASSUME NEW f \in Emails, entry'[f] # None, ~removed[f]
                 PROVE  inflight'[entry'[f]] = Cardinality(Outstanding(f)') + leaked[f]
      BY <2>2 DEF CountsHandedOver
    <3>1. CASE f = e
      <4>1. inflight'[entry'[f]] = 0 /\ leaked[f] = 0
        BY <2>1, <3>1 DEF PoolInv, NothingLeakedYet
      <4>2. Outstanding(f)' = {}
        BY <2>1, <2>2, <3>1 DEF Outstanding, PoolInv, LeasesOwned, TargetsOwned
      <4> QED BY <4>1, <4>2, FS_EmptySet
    <3>2. CASE f # e
      <4>1. entry'[f] = entry[f] /\ inflight'[entry[f]] = inflight[entry[f]]
        BY <2>1, <3>2
      <4>2. Outstanding(f)' = Outstanding(f)
        BY <2>1, <2>2, <3>2 DEF Outstanding, PoolInv, LeasesOwned
      <4> QED BY <4>1, <4>2 DEF PoolInv, CountsHandedOver
    <3> QED BY <3>1, <3>2
  <2> QED BY <2>3, <2>4, <2>5, <2>6 DEF PoolInv
<1>3. ASSUME NEW e \in Emails, NEW newToken \in BOOLEAN, Replace(e, newToken)
      PROVE  PoolInv'
  <2>1. PICK o \in Objects : /\ entry[e] # None /\ owner[o] = None
                             /\ owner' = [owner EXCEPT ![o] = e]
                             /\ entry' = [entry EXCEPT ![e] = o]
                             /\ inflight' = [inflight EXCEPT ![o] = inflight[entry[e]]]
    BY <1>3 DEF Replace, Load
  <2>2. /\ UNCHANGED <<hpc, lease, target, removed>>
        /\ leaked' = [leaked EXCEPT ![e] = @ + Cardinality(Decrementing(e))]
        /\ \A h \in Handlers : hpc[h] # "ranked"
    BY <1>3 DEF Replace, Load, Unlocked
  <2>3. LeasesOwned'
    BY <2>1, <2>2 DEF PoolInv, LeasesOwned
  <2>4. TargetsOwned'
    BY <2>1, <2>2 DEF PoolInv, TargetsOwned, LeasesOwned
  <2>5. NothingLeakedYet'
    BY <2>1, <2>2 DEF PoolInv, NothingLeakedYet
  <2>6. CountsHandedOver'
    <3> SUFFICES ASSUME NEW f \in Emails, entry'[f] # None, ~removed[f]
                 PROVE  inflight'[entry'[f]] = Cardinality(Outstanding(f)') + leaked'[f]
      BY <2>2 DEF CountsHandedOver
    <3>1. CASE f = e
      <4> DEFINE after == Outstanding(e)'
                 d == Decrementing(e)
      <4>1. Outstanding(e) = after \cup d /\ after \cap d = {}
        <5>1. \A h \in Handlers : h \in after <=>
                 lease[h] # None /\ owner[lease[h]] = e /\ hpc[h] = "leased"
          BY <2>1, <2>2 DEF Outstanding, PoolInv, LeasesOwned, TargetsOwned
        <5>2. \A h \in Handlers : h \in d <=>
                 /\ lease[h] # None /\ owner[lease[h]] = e
                 /\ hpc[h] = "releasing" /\ target[h] = entry[e]
          BY <2>1 DEF Decrementing, PoolInv, TargetsOwned
        <5>3. after \subseteq Handlers /\ d \subseteq Handlers
          BY DEF Outstanding, Decrementing
        <5> QED BY <5>1, <5>2, <5>3 DEF Outstanding
      <4>2. IsFiniteSet(after) /\ IsFiniteSet(d)
        <5>1. IsFiniteSet(Outstanding(e)) /\ after \in SUBSET Outstanding(e)
          BY <4>1, OutstandingFinite
        <5> QED BY <5>1, DecrementingFinite, FS_Subset
      <4>3. Cardinality(Outstanding(e)) = Cardinality(after) + Cardinality(d)
        <5>1. Cardinality(after \cup d)
                = Cardinality(after) + Cardinality(d) - Cardinality(after \cap d)
          BY <4>2, FS_Union
        <5>2. Cardinality(after) \in Nat /\ Cardinality(d) \in Nat
          BY <4>2, FS_CardinalityType
        <5>3. Cardinality(after \cap d) = 0
          BY <4>1, FS_EmptySet
        <5> HIDE DEF after, d
        <5> QED BY <4>1, <5>1, <5>2, <5>3
      <4>4. inflight[entry[e]] = Cardinality(Outstanding(e)) + leaked[e]
        BY <2>1, <3>1 DEF PoolInv, CountsHandedOver
      <4>5. leaked'[e] = leaked[e] + Cardinality(d) /\ leaked[e] \in Nat
        BY <2>2
      <4>6. Cardinality(after) \in Nat /\ Cardinality(d) \in Nat
        BY <4>2, FS_CardinalityType
      <4>7. inflight'[entry'[f]] = inflight[entry[e]]
        BY <2>1, <3>1
      <4>8. inflight'[entry'[f]] = Cardinality(after) + leaked'[e]
        <5> HIDE DEF after, d
        <5> QED BY <4>3, <4>4, <4>5, <4>6, <4>7
      <4> QED BY <3>1, <4>8
    <3>2. CASE f # e
      <4>1. /\ entry'[f] = entry[f] /\ inflight'[entry[f]] = inflight[entry[f]]
            /\ leaked'[f] = leaked[f]
        BY <2>1, <2>2, <3>2
      <4>2. Outstanding(f)' = Outstanding(f)
        BY <2>1, <2>2, <3>2 DEF Outstanding, PoolInv, LeasesOwned
      <4> QED BY <4>1, <4>2 DEF PoolInv, CountsHandedOver
    <3> QED BY <3>1, <3>2
  <2> QED BY <2>3, <2>4, <2>5, <2>6 DEF PoolInv
<1>4. ASSUME NEW e \in Emails, Remove(e) PROVE PoolInv'
  <2>1. /\ entry' = [entry EXCEPT ![e] = None]
        /\ removed' = [removed EXCEPT ![e] = TRUE]
        /\ UNCHANGED <<owner, inflight, hpc, lease, target, leaked>>
        /\ \A h \in Handlers : hpc[h] # "ranked"
    BY <1>4 DEF Remove, Unlocked
  <2>2. LeasesOwned' /\ TargetsOwned' /\ NothingLeakedYet'
    BY <2>1 DEF PoolInv, LeasesOwned, TargetsOwned, NothingLeakedYet
  <2>3. \A f \in Emails : f # e => Outstanding(f)' = Outstanding(f)
    BY <2>1 DEF Outstanding
  <2>4. CountsHandedOver'
    BY <2>1, <2>3 DEF PoolInv, CountsHandedOver
  <2> QED BY <2>2, <2>4 DEF PoolInv
<1>5. ASSUME NEW o \in Objects, Update(o) PROVE PoolInv'
  <2>1. UNCHANGED <<owner, entry, inflight, hpc, lease, target, leaked, removed>>
    BY <1>5 DEF Update
  <2>2. \A e \in Emails : Outstanding(e)' = Outstanding(e)
    BY <2>1 DEF Outstanding
  <2> QED BY <2>1, <2>2
          DEF PoolInv, LeasesOwned, TargetsOwned, NothingLeakedYet, CountsHandedOver
<1>6. ASSUME NEW h \in Handlers, LeaseChoose(h) PROVE PoolInv'
  <2>1. PICK o \in RoutingCandidates :
          /\ hpc[h] = "idle" /\ lease' = [lease EXCEPT ![h] = o]
          /\ hpc' = [hpc EXCEPT ![h] = "ranked"]
          /\ UNCHANGED <<owner, entry, inflight, target, leaked, removed>>
    BY <1>6 DEF LeaseChoose
  <2>2. PICK e \in Emails : entry[e] = o /\ o \in Objects /\ owner[o] = e
    BY DEF RoutingCandidates, EligibleKnown, Unknown, Candidates, Loaded
  <2>3. LeasesOwned'
    BY <2>1, <2>2 DEF PoolInv, LeasesOwned
  <2>4. TargetsOwned' /\ NothingLeakedYet'
    BY <2>1 DEF PoolInv, TargetsOwned, NothingLeakedYet
  <2>5. \A f \in Emails : Outstanding(f)' = Outstanding(f)
    BY <2>1 DEF Outstanding
  <2>6. CountsHandedOver'
    BY <2>1, <2>5 DEF PoolInv, CountsHandedOver
  <2> QED BY <2>3, <2>4, <2>6 DEF PoolInv
<1>7. ASSUME NEW h \in Handlers, LeaseCount(h) PROVE PoolInv'
  <2>1. /\ hpc[h] = "ranked" /\ lease[h] \in Objects
        /\ hpc' = [hpc EXCEPT ![h] = "leased"]
        /\ inflight' = [inflight EXCEPT ![lease[h]] = @ + 1]
        /\ UNCHANGED <<owner, entry, lease, target, leaked, removed>>
    BY <1>7 DEF LeaseCount
  <2>2. LeasesOwned' /\ TargetsOwned' /\ NothingLeakedYet'
    BY <2>1 DEF PoolInv, LeasesOwned, TargetsOwned, NothingLeakedYet
  <2>3. owner[lease[h]] \in Emails /\ entry[owner[lease[h]]] = lease[h]
    BY <2>1 DEF PoolInv, LeasesOwned
  <2>4. CountsHandedOver'
    <3> SUFFICES ASSUME NEW e \in Emails, entry[e] # None, ~removed[e]
                 PROVE  inflight'[entry[e]] = Cardinality(Outstanding(e)') + leaked[e]
      BY <2>1 DEF CountsHandedOver
    <3>1. inflight[entry[e]] = Cardinality(Outstanding(e)) + leaked[e] /\ leaked[e] \in Nat
      BY DEF PoolInv, CountsHandedOver
    <3>2. CASE owner[lease[h]] = e
      <4>1. Outstanding(e)' = Outstanding(e) \cup {h} /\ h \notin Outstanding(e)
        BY <2>1, <3>2 DEF Outstanding
      <4>2. Cardinality(Outstanding(e)') = Cardinality(Outstanding(e)) + 1
        <5>1. IsFiniteSet(Outstanding(e)) /\ Cardinality(Outstanding(e)) \in Nat
          BY OutstandingFinite
        <5>2. Cardinality(Outstanding(e) \cup {h}) = Cardinality(Outstanding(e)) + 1
          BY <4>1, <5>1, FS_AddElement
        <5> QED BY <4>1, <5>2
      <4>3. inflight'[entry[e]] = inflight[entry[e]] + 1
        BY <2>1, <2>3, <3>2
      <4> QED BY <3>1, <4>2, <4>3, OutstandingFinite
    <3>3. CASE owner[lease[h]] # e
      <4>1. Outstanding(e)' = Outstanding(e)
        BY <2>1, <3>3 DEF Outstanding
      <4>2. inflight'[entry[e]] = inflight[entry[e]]
        BY <2>1, <3>3
      <4> QED BY <3>1, <4>1, <4>2
    <3> QED BY <3>2, <3>3
  <2> QED BY <2>2, <2>4 DEF PoolInv
<1>8. ASSUME NEW h \in Handlers, ReleaseLookup(h) PROVE PoolInv'
  <2>1. /\ hpc[h] = "leased" /\ lease[h] \in Objects /\ owner[lease[h]] \in Emails
        /\ hpc' = [hpc EXCEPT ![h] = "releasing"]
        /\ target' = [target EXCEPT ![h] = entry[owner[lease[h]]]]
        /\ UNCHANGED <<owner, entry, inflight, lease, leaked, removed>>
    BY <1>8 DEF ReleaseLookup, PoolInv, LeasesOwned
  <2>2. LeasesOwned' /\ TargetsOwned' /\ NothingLeakedYet'
    <3>1. LeasesOwned' /\ NothingLeakedYet'
      BY <2>1 DEF PoolInv, LeasesOwned, NothingLeakedYet
    <3>2. ASSUME NEW i \in Handlers, target'[i] # None
          PROVE  hpc'[i] = "releasing" /\ owner[target'[i]] = owner[lease[i]]
      <4>1. CASE i = h
        BY <2>1, <3>2, <4>1
      <4>2. CASE i # h
        BY <2>1, <3>2, <4>2 DEF PoolInv, TargetsOwned
      <4> QED BY <4>1, <4>2
    <3> QED BY <2>1, <3>1, <3>2 DEF TargetsOwned
  <2>3. ASSUME NEW e \in Emails, entry[e] # None
        PROVE  Outstanding(e)' = Outstanding(e)
    BY <2>1, <2>3 DEF Outstanding
  <2>4. CountsHandedOver'
    BY <2>1, <2>3 DEF PoolInv, CountsHandedOver
  <2> QED BY <2>2, <2>4 DEF PoolInv
<1>9. ASSUME NEW h \in Handlers, ReleaseDecrement(h) PROVE PoolInv'
  <2>1. /\ hpc[h] = "releasing"
        /\ hpc' = [hpc EXCEPT ![h] = "idle"]
        /\ lease' = [lease EXCEPT ![h] = None]
        /\ target' = [target EXCEPT ![h] = None]
        /\ UNCHANGED <<owner, entry, leaked, removed>>
    BY <1>9 DEF ReleaseDecrement
  <2>2. \A o \in Objects :
          inflight'[o] = IF o = target[h] /\ inflight[o] > 0
                         THEN inflight[o] - 1 ELSE inflight[o]
    BY <1>9 DEF ReleaseDecrement
  <2>3. LeasesOwned' /\ TargetsOwned' /\ NothingLeakedYet'
    BY <2>1 DEF PoolInv, LeasesOwned, TargetsOwned, NothingLeakedYet
  <2>4. CountsHandedOver'
    <3> SUFFICES ASSUME NEW e \in Emails, NEW c \in Objects, c = entry[e], ~removed[e]
                 PROVE  inflight'[c] = Cardinality(Outstanding(e)') + leaked[e]
      BY <2>1 DEF CountsHandedOver
    <3>1. /\ inflight[c] = Cardinality(Outstanding(e)) + leaked[e]
          /\ inflight[c] \in Nat /\ leaked[e] \in Nat
      BY DEF PoolInv, CountsHandedOver
    <3>2. CASE c = target[h]
      <4>1. Outstanding(e)' = Outstanding(e) \ {h} /\ h \in Outstanding(e)
        <5>1. lease[h] # None /\ owner[lease[h]] = e
          <6>1. lease[h] # None
            BY <2>1
          <6>2. c # None
            OBVIOUS
          <6>3. target[h] # None /\ owner[c] = e
            BY <3>2, <6>2
          <6> QED BY <3>2, <6>1, <6>3 DEF PoolInv, TargetsOwned
        <5>2. h \in Outstanding(e)
          BY <2>1, <3>2, <5>1 DEF Outstanding
        <5>3. ASSUME NEW i \in Handlers
              PROVE  i \in Outstanding(e)' <=> i \in Outstanding(e) /\ i # h
          <6>1. CASE i = h
            BY <2>1, <6>1 DEF Outstanding
          <6>2. CASE i # h
            BY <2>1, <6>2 DEF Outstanding
          <6> QED BY <6>1, <6>2
        <5>4. Outstanding(e) \subseteq Handlers /\ Outstanding(e)' \subseteq Handlers
          BY DEF Outstanding
        <5> QED BY <5>2, <5>3, <5>4
      <4>2. /\ Cardinality(Outstanding(e)') = Cardinality(Outstanding(e)) - 1
            /\ Cardinality(Outstanding(e)') \in Nat
        <5>1. IsFiniteSet(Outstanding(e)) /\ Cardinality(Outstanding(e)) \in Nat
          BY OutstandingFinite
        <5>2. /\ Cardinality(Outstanding(e) \ {h}) = Cardinality(Outstanding(e)) - 1
              /\ IsFiniteSet(Outstanding(e) \ {h})
          BY <4>1, <5>1, FS_RemoveElement
        <5>3. Cardinality(Outstanding(e) \ {h}) \in Nat
          BY <5>2, FS_CardinalityType
        <5> QED BY <4>1, <5>2, <5>3
      <4>3. inflight[c] > 0
        BY <3>1, <4>2, OutstandingFinite
      <4>4. inflight'[c] = inflight[c] - 1
        BY <2>2, <3>2, <4>3
      <4> QED BY <3>1, <4>2, <4>4, OutstandingFinite
    <3>3. CASE c # target[h]
      <4>1. Outstanding(e)' = Outstanding(e)
        BY <2>1, <3>1, <3>3 DEF Outstanding
      <4>2. inflight'[c] = inflight[c]
        BY <2>2, <3>3
      <4> QED BY <3>1, <4>1, <4>2
    <3> QED BY <3>2, <3>3
  <2> QED BY <2>3, <2>4 DEF PoolInv
<1> QED BY <1>1, <1>2, <1>3, <1>4, <1>5, <1>6, <1>7, <1>8, <1>9 DEF Next, Handler

(* The counts of accounts that are never removed are exact up to the       *)
(* decrements that met a reload half way: a reload loses no lease          *)
(* (claude_account.go:312-333, 397-421).                                   *)
THEOREM CountsSurviveReload == Spec => []CountsHandedOver
<1>1. Init => PoolInv
  BY ClaudeAssumption DEF Init, PoolInv, LeasesOwned, TargetsOwned,
     NothingLeakedYet, CountsHandedOver
<1>2. PoolInv => CountsHandedOver
  BY DEF PoolInv
<1> QED BY <1>1, <1>2, PoolInvStep, ClaudeTypeCorrect, PTL DEF Spec

(* An account known to be over its quota is leased only when every         *)
(* account that could be leased is (claude_account.go:444-529).            *)
THEOREM ProtectedIsLastResort == Spec => ProtectedLast
<1>1. ASSUME TypeOK, NEW h \in Handlers, LeaseChoose(h),
             Over(lease'[h]), state[lease'[h]].fresh
      PROVE  \A o \in Candidates : Over(o) /\ state[o].fresh
  <2>1. PICK c \in RoutingCandidates : lease' = [lease EXCEPT ![h] = c]
    BY <1>1 DEF LeaseChoose
  <2>2. lease'[h] = c
    BY <1>1, <2>1 DEF TypeOK
  <2>3. c \notin EligibleKnown /\ c \notin Unknown
    BY <1>1, <2>2 DEF EligibleKnown, Unknown
  <2>4. EligibleKnown = {} /\ Unknown = {}
    BY <2>1, <2>3 DEF RoutingCandidates
  <2> QED BY <2>4 DEF EligibleKnown, Unknown
<1>2. TypeOK /\ [Next]_vars =>
        [\A h \in Handlers : LeaseChoose(h) =>
           (Over(lease'[h]) /\ state[lease'[h]].fresh =>
              \A o \in Candidates : Over(o) /\ state[o].fresh)]_vars
  BY <1>1
<1> QED BY <1>2, ClaudeTypeCorrect, PTL DEF Spec, ProtectedLast

-----------------------------------------------------------------------------
(* The types of the logins.                                                *)

(* Every variable of Logins keeps its type, nobody listens for a login     *)
(* that has ended, and a finish holds the login it found pending           *)
(* (auth/oauth.go:146-285, admin.go:324-358).                              *)
THEOREM LoginsTypeCorrect == LoginSpec => []LoginTypeOK
<1> USE LoginsAssumption DEF Slots
<1>1. LoginInit => LoginTypeOK
  BY DEF LoginInit, LoginTypeOK, LoginTypes, CallbackTypes,
     ManualTypes, Idle, Rest
<1>2. LoginTypeOK /\ [LoginNext]_loginVars => LoginTypeOK'
  <2> SUFFICES ASSUME LoginTypes, CallbackTypes, ManualTypes,
                      [LoginNext]_loginVars
               PROVE  LoginTypes' /\ CallbackTypes' /\ ManualTypes'
    BY DEF LoginTypeOK
  <2>a. ASSUME UNCHANGED <<via, pc, expired, authorised, used, saved, events>>
        PROVE  LoginTypes'
    BY <2>a DEF LoginTypes
  <2>b. ASSUME UNCHANGED <<listener, outcome, closed, visit, pc>>
        PROVE  CallbackTypes'
    BY <2>b DEF CallbackTypes
  <2>c. ASSUME UNCHANGED <<pending, excused, finish>>
        PROVE  ManualTypes'
    BY <2>c DEF ManualTypes
  <2>1. CASE UNCHANGED loginVars
    BY <2>1, <2>a, <2>b, <2>c DEF loginVars, callback, manual, upstream
  <2> USE DEF callback, manual, upstream
  <2>2. ASSUME StartBrowser
        PROVE  LoginTypes' /\ CallbackTypes' /\ ManualTypes'
    <3> DEFINE n == NextLogin
    <3>1. /\ n \in Logins /\ via' = [via EXCEPT ![n] = "browser"]
          /\ pc' = [pc EXCEPT ![n] = "wait"]
          /\ UNCHANGED <<outcome, closed, visit, pending, expired, finish, excused,
                         authorised, used, saved, events>>
      BY <2>2 DEF StartBrowser
    <3>2. PICK p \in Ports : listener' = [listener EXCEPT ![p] = n]
      BY <2>2 DEF StartBrowser, FreePorts
    <3> HIDE DEF n
    <3>3. LoginTypes'
      BY <3>1 DEF LoginTypes
    <3>4. CallbackTypes'
      BY <3>1, <3>2 DEF CallbackTypes, LoginTypes
    <3> QED BY <3>1, <3>3, <3>4, <2>c
  <2>3. ASSUME NEW s \in Slots, StartManual(s)
        PROVE  LoginTypes' /\ CallbackTypes' /\ ManualTypes'
    <3> DEFINE n == NextLogin
    <3>1. /\ n \in Logins /\ via' = [via EXCEPT ![n] = s]
          /\ pending' = [pending EXCEPT ![s] = n]
          /\ UNCHANGED <<pc, listener, outcome, closed, visit, expired, finish,
                         authorised, used, saved, events>>
      BY <2>3 DEF StartManual
    <3>2. excused' = [excused EXCEPT ![s] = Busy(s)] /\ Busy(s) \in BOOLEAN
      BY <2>3 DEF StartManual, Busy
    <3> HIDE DEF n
    <3>3. LoginTypes'
      BY <3>1 DEF LoginTypes
    <3>4. ManualTypes'
      BY <3>1, <3>2 DEF ManualTypes
    <3> QED BY <3>1, <3>3, <3>4, <2>b
  <2>4. ASSUME NEW l \in Logins, Goroutine(l)
        PROVE  LoginTypes' /\ CallbackTypes' /\ ManualTypes'
    <3>1. UNCHANGED <<via, outcome, closed, visit, pending, expired, finish, excused,
                      authorised, events>>
      BY <2>4 DEF Goroutine, WaitDone, WaitTimeout, Exchange,
         Save
    <3>2. used' \subseteq used \cup {l} /\ saved' \subseteq saved \cup {l}
      BY <2>4 DEF Goroutine, WaitDone, WaitTimeout, Exchange,
         Save
    <3>3. \/ End(l)
          \/ /\ UNCHANGED listener
             /\ \E step \in {"exchange", "save"} : pc' = [pc EXCEPT ![l] = step]
      BY <2>4 DEF Goroutine, WaitDone, WaitTimeout, Exchange,
         Save
    <3>4. LoginTypes'
      BY <3>1, <3>2, <3>3 DEF LoginTypes, End
    <3>5. CallbackTypes'
      BY <3>1, <3>3 DEF CallbackTypes, LoginTypes, End
    <3> QED BY <3>1, <3>4, <3>5, <2>c
  <2>5. ASSUME NEW l \in Logins, Authorise(l) \/ Expire(l)
        PROVE  LoginTypes' /\ CallbackTypes' /\ ManualTypes'
    <3>1. LoginTypes'
      BY <2>5 DEF Authorise, Expire, Event, LoginTypes
    <3> QED BY <2>5, <3>1, <2>b, <2>c DEF Authorise, Expire
  <2>6. ASSUME NEW v \in Visitors,
               Signal(v) \/ CloseDone(v) \/ ClosePanics(v)
        PROVE  LoginTypes' /\ CallbackTypes' /\ ManualTypes'
    <3> USE DEF Signal, CloseDone, ClosePanics
    <3>1. \/ visit' = [visit EXCEPT ![v] = Idle]
          \/ visit[v].at = "signal" /\ visit' = [visit EXCEPT ![v].at = "close"]
      BY <2>6
    <3>2. closed' \in [Logins -> BOOLEAN]
      <4>1. closed \in [Logins -> BOOLEAN]
        BY DEF CallbackTypes
      <4>2. UNCHANGED closed \/ closed' = [closed EXCEPT ![visit[v].of] = TRUE]
        BY <2>6
      <4> QED BY <4>1, <4>2
    <3>3. CallbackTypes'
      <4>1. /\ visit' \in [Visitors -> [at : {"idle", "signal", "close"},
                              of : Logins \cup {NoLogin}, serves : BOOLEAN]]
            /\ \A w \in Visitors : visit'[w].at # "idle" => visit'[w].of # NoLogin
        <5>1. CASE visit' = [visit EXCEPT ![v] = Idle]
          BY <5>1 DEF CallbackTypes, Idle
        <5>2. CASE /\ visit[v].at = "signal"
                   /\ visit' = [visit EXCEPT ![v].at = "close"]
          <6>1. \A w \in Visitors :
                  visit'[w] = IF w = v THEN [visit[v] EXCEPT !.at = "close"] ELSE visit[w]
            BY <5>2 DEF CallbackTypes
          <6>2. DOMAIN visit' = Visitors /\ visit' = [w \in Visitors |-> visit'[w]]
            BY <5>2 DEF CallbackTypes
          <6>3. visit[v].of # NoLogin
            BY <5>2 DEF CallbackTypes
          <6>4. \A w \in Visitors :
                  /\ visit'[w] \in [at : {"idle", "signal", "close"},
                                   of : Logins \cup {NoLogin}, serves : BOOLEAN]
                  /\ visit'[w].at # "idle" => visit'[w].of # NoLogin
            BY <6>1, <6>3 DEF CallbackTypes
          <6> QED BY <6>2, <6>4
        <5> QED BY <3>1, <5>1, <5>2
      <4>2. UNCHANGED <<listener, pc, outcome>>
        BY <2>6
      <4> QED BY <3>2, <4>1, <4>2 DEF CallbackTypes
    <3> QED BY <2>6, <3>3, <2>a, <2>c
  <2>7. ASSUME Gone, events' \in 0..MaxEvents
        PROVE  LoginTypes' /\ CallbackTypes' /\ ManualTypes'
    <3>1. LoginTypes'
      BY <2>7 DEF Gone, LoginTypes
    <3>2. CallbackTypes'
      BY <2>7 DEF Gone, CallbackTypes, Idle
    <3>3. ManualTypes'
      BY <2>7 DEF Gone, ManualTypes, Rest
    <3> QED BY <3>1, <3>2, <3>3
  <2>8. ASSUME NEW v \in Visitors, NEW l \in Logins, Handle(v, l)
        PROVE  LoginTypes' /\ CallbackTypes' /\ ManualTypes'
    <3>1. PICK m \in Logins, result \in {"code", "error"} : Settle(v, m, result)
      BY <2>8 DEF Handle, CallbackTypes
    <3>2. UNCHANGED <<via, pc, listener, closed, pending, expired, finish, excused,
                      authorised, used, saved, events>>
      BY <2>8 DEF Handle
    <3>3. CallbackTypes'
      BY <3>1, <3>2 DEF Settle, CallbackTypes
    <3> QED BY <3>2, <3>3, <2>a, <2>c
  <2>9. ASSUME NEW v \in Visitors, NEW m \in Logins, ServeFails(v, m)
        PROVE  LoginTypes' /\ CallbackTypes' /\ ManualTypes'
    <3>1. LoginTypes'
      BY <2>9 DEF ServeFails, Event, LoginTypes
    <3>2. CallbackTypes'
      BY <2>9 DEF ServeFails, CallbackTypes
    <3> QED BY <2>9, <3>1, <3>2, <2>c DEF ServeFails
  <2>10. ASSUME NEW f \in Finishers, NEW s \in Slots, NEW c \in Logins,
                NEW address \in BOOLEAN, FinishBegins(f, s, c, address)
         PROVE  LoginTypes' /\ CallbackTypes' /\ ManualTypes'
    <3>1. ManualTypes'
      BY <2>10 DEF FinishBegins, ManualTypes
    <3> QED BY <2>10, <3>1, <2>a, <2>b DEF FinishBegins
  <2>11. ASSUME NEW f \in Finishers,
                FinishExchange(f) \/ FinishFails(f)
                  \/ FinishSave(f) \/ FinishClear(f)
         PROVE  LoginTypes' /\ CallbackTypes' /\ ManualTypes'
    <3> USE DEF FinishExchange, FinishFails, FinishSave,
                FinishClear
    <3>1. \/ finish' = [finish EXCEPT ![f] = Rest]
          \/ /\ finish[f].at # "idle"
             /\ \E where \in {"save", "clear"} : finish' = [finish EXCEPT ![f].at = where]
      BY <2>11
    <3>2. pending' \in [Slots -> Logins \cup {NoLogin}]
      BY <2>11 DEF ManualTypes
    <3>3. ManualTypes'
      BY <2>11, <3>1, <3>2 DEF ManualTypes, Rest
    <3>4. finish[f].at # "idle" =>
            finish[f].held \in Logins /\ finish[f].code \in Logins
      BY DEF ManualTypes
    <3>5. used' \subseteq Logins /\ saved' \subseteq Logins
      BY <2>11, <3>4 DEF LoginTypes
    <3>6. LoginTypes'
      BY <2>11, <3>5 DEF LoginTypes
    <3> QED BY <2>11, <3>3, <3>6, <2>b
  <2>12. Restart => Gone /\ events' \in 0..MaxEvents
    BY DEF Restart, Event, LoginTypes
  <2>13. ASSUME NEW v \in Visitors, ServePanics(v)
         PROVE  Gone /\ events' \in 0..MaxEvents
    BY <2>13 DEF ServePanics, LoginTypes
  <2>14. ASSUME AbortPending
         PROVE  LoginTypes' /\ CallbackTypes' /\ ManualTypes'
    <3>1. ManualTypes'
      BY <2>14 DEF AbortPending, ManualTypes
    <3> QED BY <2>14, <3>1, <2>a, <2>b DEF AbortPending
  <2> QED BY <2>1, <2>2, <2>3, <2>4, <2>5, <2>6, <2>7, <2>8, <2>9, <2>10, <2>11,
             <2>12, <2>13, <2>14 DEF LoginNext
<1> QED BY <1>1, <1>2, PTL DEF LoginSpec

-----------------------------------------------------------------------------
(* A login that was begun can be finished.                                 *)

(* Logins are numbered in the order in which they begin.                   *)
BegunInOrder == Begun = 1..Cardinality(Begun)

(* What is pending in a slot is the login that was begun there last.       *)
PendingNewest ==
  \A s \in Slots : pending[s] # NoLogin => Newest(s, pending[s])

(* A finish works on the newest login of its slot, or a later one was begun *)
(* under it; and it forgets what is pending only once it saved its own.    *)
FinishesNewest ==
  \A f \in Finishers : finish[f].at # "idle" =>
    /\ Newest(finish[f].slot, finish[f].held) \/ excused[finish[f].slot]
    /\ finish[f].at = "clear" => finish[f].held \in saved

KeptInv == BegunInOrder /\ PendingNewest /\ FinishesNewest /\ PendingKept

(* The next login comes after all that were begun.                         *)
LEMMA NextLoginIsNew ==
  ASSUME BegunInOrder, NextLogin \in Logins
  PROVE  /\ NextLogin \notin Begun
         /\ \A l \in Begun : l <= NextLogin
         /\ Begun \cup {NextLogin}
              = 1..Cardinality(Begun \cup {NextLogin})
<1> DEFINE n == Cardinality(Begun)
<1>1. IsFiniteSet(Begun) /\ n \in Nat
  <2>1. Begun \subseteq 1..MaxLogins
    BY DEF Begun, Logins
  <2>2. IsFiniteSet(1..MaxLogins)
    BY FS_Interval, LoginsAssumption
  <2> QED BY <2>1, <2>2, FS_Subset, FS_CardinalityType
<1>2. NextLogin = n + 1 /\ Begun = 1..n
  BY DEF NextLogin, BegunInOrder
<1>3. n + 1 \notin 1..n /\ (1..n) \cup {n + 1} = 1..(n + 1)
  BY <1>1
<1>4. Cardinality(Begun \cup {n + 1}) = n + 1
  BY <1>1, <1>2, <1>3, FS_AddElement
<1> QED BY <1>1, <1>2, <1>3, <1>4

(* A step that begins no login and neither touches what is pending, nor    *)
(* takes a finish on its way, keeps the invariant.                         *)
LEMMA KeptAlone ==
  ASSUME KeptInv, UNCHANGED <<via, pending, excused>>, saved \subseteq saved',
         \A f \in Finishers : finish'[f] = finish[f] \/ finish'[f].at = "idle"
  PROVE  KeptInv'
<1>1. BegunInOrder'
  BY DEF KeptInv, BegunInOrder, Begun
<1>2. \A s, l : Newest(s, l)' <=> Newest(s, l)
  BY DEF Newest
<1>3. PendingNewest'
  BY <1>2 DEF KeptInv, PendingNewest
<1>4. FinishesNewest'
  BY <1>2 DEF KeptInv, FinishesNewest
<1>5. PendingKept'
  BY <1>2 DEF KeptInv, PendingKept
<1> QED BY <1>1, <1>3, <1>4, <1>5 DEF KeptInv

(* Every step keeps the invariant.                                         *)
LEMMA KeptStep ==
  ASSUME LoginTypeOK, KeptInv, [LoginNext]_loginVars
  PROVE  KeptInv'
<1> USE DEF callback, manual, upstream
<1>1. CASE UNCHANGED loginVars
  BY <1>1, KeptAlone DEF loginVars
<1>2. ASSUME NEW l \in Logins,
             Goroutine(l) \/ Authorise(l) \/ Expire(l)
      PROVE  KeptInv'
  BY <1>2, KeptAlone DEF Goroutine, WaitDone, WaitTimeout,
     Exchange, Save, Authorise, Expire
<1>3. ASSUME NEW v \in Visitors,
             \/ Signal(v) \/ CloseDone(v) \/ ClosePanics(v)
             \/ \E l \in Logins : Handle(v, l) \/ ServeFails(v, l)
      PROVE  KeptInv'
  BY <1>3, KeptAlone DEF Signal, CloseDone, ClosePanics, Handle,
     ServeFails
<1>4. ASSUME StartBrowser PROVE KeptInv'
  <2>0. PICK n : n = NextLogin
    OBVIOUS
  <2>1. /\ n \in Logins /\ via' = [via EXCEPT ![n] = "browser"]
        /\ UNCHANGED <<pending, finish, excused, saved>>
    BY <1>4, <2>0 DEF StartBrowser
  <2>2. /\ n \notin Begun
        /\ Begun \cup {n} = 1..Cardinality(Begun \cup {n})
    BY <2>0, <2>1, NextLoginIsNew DEF KeptInv
  <2>3. Begun' = Begun \cup {n} /\ via[n] = "none"
    BY <2>1, <2>2 DEF Begun, LoginTypeOK, LoginTypes
  <2>4. BegunInOrder'
    BY <2>2, <2>3 DEF BegunInOrder
  <2>5. \A s \in Slots : \A l : Newest(s, l)' <=> Newest(s, l)
    BY <2>1, <2>3 DEF Newest, Slots, LoginTypeOK, LoginTypes
  <2>6. PendingNewest' /\ FinishesNewest' /\ PendingKept'
    BY <2>1, <2>5 DEF KeptInv, PendingNewest, FinishesNewest, PendingKept,
       LoginTypeOK, ManualTypes
  <2> QED BY <2>4, <2>6 DEF KeptInv
<1>5. ASSUME NEW s \in Slots, StartManual(s) PROVE KeptInv'
  <2>0. PICK n : n = NextLogin
    OBVIOUS
  <2>1. /\ n \in Logins /\ via' = [via EXCEPT ![n] = s]
        /\ pending' = [pending EXCEPT ![s] = n]
        /\ excused' = [excused EXCEPT ![s] = Busy(s)]
        /\ UNCHANGED <<finish, saved>>
    BY <1>5, <2>0 DEF StartManual
  <2>2. /\ n \notin Begun
        /\ \A l \in Begun : l <= n
        /\ Begun \cup {n} = 1..Cardinality(Begun \cup {n})
    BY <2>0, <2>1, NextLoginIsNew DEF KeptInv
  <2>3. Begun' = Begun \cup {n} /\ via[n] = "none" /\ n \in Nat
    BY <2>1, <2>2 DEF Begun, LoginTypeOK, LoginTypes, Slots, Logins
  <2>4. BegunInOrder'
    BY <2>2, <2>3 DEF BegunInOrder
  <2>5. \A t \in Slots \ {s} : \A l : Newest(t, l)' <=> Newest(t, l)
    BY <2>1, <2>3 DEF Newest, Slots, LoginTypeOK, LoginTypes
  <2>6. \A l \in Logins : Newest(s, l)' <=> l = n
    <3>1. ASSUME NEW m \in Logins, via'[m] = s PROVE m <= n
      BY <2>1, <2>2, <2>3, <3>1 DEF Begun, Slots, LoginTypeOK, LoginTypes
    <3>2. via'[n] = s
      BY <2>1 DEF LoginTypeOK, LoginTypes
    <3>3. Newest(s, n)'
      BY <3>1, <3>2 DEF Newest
    <3>4. ASSUME NEW l \in Logins, Newest(s, l)' PROVE l = n
      <4>1. n <= l /\ l <= n
        BY <2>1, <3>1, <3>2, <3>4 DEF Newest
      <4> QED BY <4>1, <2>3 DEF Logins
    <3> QED BY <3>3, <3>4
  <2>7. PendingNewest'
    BY <2>1, <2>5, <2>6 DEF KeptInv, PendingNewest, LoginTypeOK, ManualTypes
  <2>8. FinishesNewest'
    <3>1. ASSUME NEW f \in Finishers, finish[f].at # "idle", finish[f].slot = s
          PROVE  excused'[s]
      <4>1. Busy(s)
        BY <3>1 DEF Busy
      <4> QED BY <2>1, <4>1 DEF LoginTypeOK, ManualTypes
    <3>2. ASSUME NEW f \in Finishers, finish[f].at # "idle", finish[f].slot # s
          PROVE  /\ Newest(finish[f].slot, finish[f].held)'
                      <=> Newest(finish[f].slot, finish[f].held)
                 /\ excused'[finish[f].slot] = excused[finish[f].slot]
      <4>1. finish[f].slot \in Slots \ {s}
        BY <3>2 DEF LoginTypeOK, ManualTypes
      <4> QED BY <2>1, <2>5, <4>1 DEF LoginTypeOK, ManualTypes
    <3> QED BY <2>1, <3>1, <3>2 DEF KeptInv, FinishesNewest
  <2>9. PendingKept'
    BY <2>1, <2>5, <2>6 DEF KeptInv, PendingKept, LoginTypeOK, ManualTypes
  <2> QED BY <2>4, <2>7, <2>8, <2>9 DEF KeptInv
<1>6. ASSUME NEW f \in Finishers, NEW s \in Slots, NEW c \in Logins,
             NEW address \in BOOLEAN, FinishBegins(f, s, c, address)
      PROVE  KeptInv'
  <2>1. /\ pending[s] # NoLogin
        /\ finish' = [finish EXCEPT ![f] = [at |-> "exchange", slot |-> s,
                                            held |-> pending[s], code |-> c]]
        /\ UNCHANGED <<via, pending, excused, saved>>
    BY <1>6 DEF FinishBegins
  <2>2. \A t, l : Newest(t, l)' <=> Newest(t, l)
    BY <2>1 DEF Newest
  <2>3. Newest(s, pending[s])
    BY <2>1 DEF KeptInv, PendingNewest
  <2>4. FinishesNewest'
    BY <2>1, <2>2, <2>3 DEF KeptInv, FinishesNewest, LoginTypeOK, ManualTypes
  <2>5. BegunInOrder' /\ PendingNewest' /\ PendingKept'
    BY <2>1, <2>2 DEF KeptInv, BegunInOrder, Begun, PendingNewest, PendingKept
  <2> QED BY <2>4, <2>5 DEF KeptInv
<1>7. ASSUME NEW f \in Finishers, FinishFails(f) PROVE KeptInv'
  <2>1. finish' = [finish EXCEPT ![f] = Rest]
          /\ UNCHANGED <<via, pending, excused, saved>>
    BY <1>7 DEF FinishFails
  <2>2. \A g \in Finishers : finish'[g] = finish[g] \/ finish'[g].at = "idle"
    BY <2>1 DEF Rest, LoginTypeOK, ManualTypes
  <2> QED BY <2>1, <2>2, KeptAlone
<1>8. ASSUME NEW f \in Finishers, FinishExchange(f) \/ FinishSave(f)
      PROVE  KeptInv'
  <2>1. /\ finish[f].at # "idle" /\ UNCHANGED <<via, pending, excused>>
        /\ \/ finish' = [finish EXCEPT ![f].at = "save"] /\ UNCHANGED saved
           \/ /\ finish' = [finish EXCEPT ![f].at = "clear"]
              /\ saved' = saved \cup {finish[f].held}
    BY <1>8 DEF FinishExchange, FinishSave
  <2>2. \A t, l : Newest(t, l)' <=> Newest(t, l)
    BY <2>1 DEF Newest
  <2>3. \A g \in Finishers :
          /\ finish'[g].slot = finish[g].slot /\ finish'[g].held = finish[g].held
          /\ g # f => finish'[g] = finish[g]
          /\ finish'[f].at = "clear" => finish[f].held \in saved'
    BY <2>1 DEF LoginTypeOK, ManualTypes
  <2>4. FinishesNewest'
    BY <2>1, <2>2, <2>3 DEF KeptInv, FinishesNewest
  <2>5. BegunInOrder' /\ PendingNewest' /\ PendingKept'
    BY <2>1, <2>2 DEF KeptInv, BegunInOrder, Begun, PendingNewest, PendingKept
  <2> QED BY <2>4, <2>5 DEF KeptInv
<1>9. ASSUME NEW f \in Finishers, FinishClear(f) PROVE KeptInv'
  <2> DEFINE s == finish[f].slot
  <2>1. /\ finish[f].at = "clear" /\ finish' = [finish EXCEPT ![f] = Rest]
        /\ pending' = [pending EXCEPT ![s] = NoLogin] \/ UNCHANGED pending
        /\ UNCHANGED <<via, excused, saved>>
    BY <1>9 DEF FinishClear
  <2>2. \A t, l : Newest(t, l)' <=> Newest(t, l)
    BY <2>1 DEF Newest
  <2>3. /\ s \in Slots /\ finish[f].held \in saved
        /\ Newest(s, finish[f].held) \/ excused[s]
    BY <2>1 DEF KeptInv, FinishesNewest, LoginTypeOK, ManualTypes
  <2>4. FinishesNewest'
    BY <2>1, <2>2 DEF KeptInv, FinishesNewest, Rest, LoginTypeOK, ManualTypes
  <2>5. BegunInOrder' /\ PendingNewest'
    BY <2>1, <2>2, <2>3 DEF KeptInv, BegunInOrder, Begun, PendingNewest,
       LoginTypeOK, ManualTypes
  <2>6. PendingKept'
    <3>1. ASSUME NEW t \in Slots, NEW l \in Logins, Newest(t, l),
                 l \notin saved, ~excused[t]
          PROVE  pending'[t] = l
      <4>1. pending[t] = l
        BY <3>1 DEF KeptInv, PendingKept
      <4>2. t # s
        <5> SUFFICES ASSUME t = s PROVE FALSE
          OBVIOUS
        <5>1. Newest(t, finish[f].held) /\ finish[f].held \in Logins
          BY <2>3, <3>1 DEF LoginTypeOK, LoginTypes
        <5>2. l <= finish[f].held /\ finish[f].held <= l
          BY <3>1, <5>1 DEF Newest
        <5>3. l \in Int /\ finish[f].held \in Int
          BY <3>1, <5>1 DEF Logins
        <5>4. l = finish[f].held
          BY <5>2, <5>3
        <5> QED BY <2>3, <3>1, <5>4
      <4> QED BY <2>1, <4>1, <4>2 DEF LoginTypeOK, ManualTypes
    <3> QED BY <2>1, <2>2, <3>1 DEF PendingKept
  <2> QED BY <2>4, <2>5, <2>6 DEF KeptInv
<1>10. ASSUME Gone PROVE KeptInv'
  <2>1. /\ pending' = [pending EXCEPT !["api"] = NoLogin]
        /\ excused' = [excused EXCEPT !["api"] = TRUE]
        /\ finish' = [g \in Finishers |->
                        IF finish[g].slot = "api" THEN Rest ELSE finish[g]]
        /\ UNCHANGED <<via, saved>>
    BY <1>10 DEF Gone
  <2>2. \A t, l : Newest(t, l)' <=> Newest(t, l)
    BY <2>1 DEF Newest
  <2>3. BegunInOrder' /\ PendingNewest' /\ PendingKept'
    BY <2>1, <2>2 DEF KeptInv, BegunInOrder, Begun, PendingNewest,
       PendingKept, LoginTypeOK, ManualTypes
  <2>4. FinishesNewest'
    BY <2>1, <2>2 DEF KeptInv, FinishesNewest, Rest, LoginTypeOK, ManualTypes
  <2> QED BY <2>3, <2>4 DEF KeptInv
<1>11. ASSUME AbortPending PROVE KeptInv'
  <2>1. /\ pending' = [pending EXCEPT !["cli"] = NoLogin]
        /\ excused' = [excused EXCEPT !["cli"] = TRUE]
        /\ UNCHANGED <<via, saved, finish>>
    BY <1>11 DEF AbortPending
  <2>2. \A t, l : Newest(t, l)' <=> Newest(t, l)
    BY <2>1 DEF Newest
  <2>3. BegunInOrder' /\ PendingNewest' /\ PendingKept'
    BY <2>1, <2>2 DEF KeptInv, BegunInOrder, Begun, PendingNewest,
       PendingKept, LoginTypeOK, ManualTypes
  <2>4. FinishesNewest'
    BY <2>1, <2>2 DEF KeptInv, FinishesNewest, LoginTypeOK, ManualTypes
  <2> QED BY <2>3, <2>4 DEF KeptInv
<1> QED BY <1>1, <1>2, <1>3, <1>4, <1>5, <1>6, <1>7, <1>8, <1>9, <1>10, <1>11
        DEF LoginNext, Restart, ServePanics

(* The login by hand that was begun last stays pending until it is         *)
(* finished or expires, however often a try fails and whatever other       *)
(* logins do, unless it was begun under the finish of an earlier one, the  *)
(* user aborted it (main.go:604-610), or its server was restarted          *)
(* (admin.go:298-400, cmd/claude.go:107-178).                              *)
THEOREM LoginsPendingKept == LoginSpec => []PendingKept
<1>1. LoginInit => KeptInv
  <2> SUFFICES ASSUME LoginInit PROVE KeptInv
    OBVIOUS
  <2>1. Begun = {} /\ Cardinality({}) = 0
    BY FS_EmptySet DEF LoginInit, Begun
  <2>2. BegunInOrder
    BY <2>1 DEF BegunInOrder
  <2>3. \A s \in Slots, l \in Logins : ~Newest(s, l)
    BY DEF LoginInit, Newest, Slots
  <2> QED BY <2>2, <2>3 DEF LoginInit, KeptInv, PendingNewest, FinishesNewest,
          PendingKept, Rest
<1>2. LoginTypeOK /\ KeptInv /\ [LoginNext]_loginVars => KeptInv'
  BY KeptStep
<1>3. KeptInv => PendingKept
  BY DEF KeptInv
<1> QED BY <1>1, <1>2, <1>3, LoginsTypeCorrect, PTL DEF LoginSpec

-----------------------------------------------------------------------------
(* An account is saved with its own code.                                  *)

(* A code that a callback took, or that somebody is about to exchange, is  *)
(* of a login that the user confirmed; and who is about to save has        *)
(* exchanged the code of the login it saves.                               *)
CodesOwn ==
  /\ \A l \in Logins :
       /\ outcome[l] = "code" \/ pc[l] = "exchange" => l \in authorised
       /\ pc[l] = "save" => l \in used
  /\ \A f \in Finishers :
       /\ finish[f].at = "exchange" => finish[f].code \in authorised
       /\ finish[f].at = "save" => finish[f].held \in used

OwnInv == CodesOwn /\ SavedWithOwnCode

(* A step that exchanges and saves nothing, after which nobody is further  *)
(* than before, keeps the invariant.                                       *)
LEMMA OwnAlone ==
  ASSUME OwnInv, UNCHANGED <<used, saved>>, authorised \subseteq authorised',
         \A l \in Logins :
           /\ outcome'[l] = "code" => outcome[l] = "code" \/ l \in authorised
           /\ pc'[l] = pc[l] \/ pc'[l] \notin {"exchange", "save"},
         \A f \in Finishers :
           finish'[f] = finish[f] \/ finish'[f].at \notin {"exchange", "save"}
  PROVE  OwnInv'
<1>1. CodesOwn'
  BY DEF OwnInv, CodesOwn
<1>2. SavedWithOwnCode'
  BY DEF OwnInv, SavedWithOwnCode
<1> QED BY <1>1, <1>2 DEF OwnInv

(* Every step keeps the invariant.                                         *)
LEMMA OwnStep ==
  ASSUME LoginTypeOK, OwnInv, [LoginNext]_loginVars
  PROVE  OwnInv'
<1> USE DEF callback, manual, upstream
<1>1. CASE UNCHANGED loginVars
  BY <1>1, OwnAlone DEF loginVars
<1>2. ASSUME StartBrowser \/ \E s \in Slots : StartManual(s)
      PROVE  OwnInv'
  <2>1. UNCHANGED <<outcome, finish, authorised, used, saved>>
    BY <1>2 DEF StartBrowser, StartManual
  <2>2. UNCHANGED pc \/ pc' = [pc EXCEPT ![NextLogin] = "wait"]
    BY <1>2 DEF StartBrowser, StartManual
  <2>3. \A l \in Logins : pc'[l] = pc[l] \/ pc'[l] \notin {"exchange", "save"}
    BY <2>2 DEF LoginTypeOK, LoginTypes
  <2> QED BY <2>1, <2>3, OwnAlone
<1>3. ASSUME NEW l \in Logins, Authorise(l) \/ Expire(l) PROVE OwnInv'
  BY <1>3, OwnAlone DEF Authorise, Expire
<1>4. ASSUME NEW l \in Logins, WaitDone(l) \/ WaitTimeout(l)
      PROVE  OwnInv'
  <2>1. UNCHANGED <<outcome, finish, authorised, used, saved>>
    BY <1>4 DEF WaitDone, WaitTimeout
  <2>2. \/ pc' = [pc EXCEPT ![l] = "ended"]
        \/ pc' = [pc EXCEPT ![l] = "exchange"] /\ outcome[l] = "code"
    BY <1>4 DEF WaitDone, WaitTimeout, End
  <2>3. CodesOwn'
    BY <2>1, <2>2 DEF OwnInv, CodesOwn, LoginTypeOK, LoginTypes
  <2> QED BY <2>1, <2>3 DEF OwnInv, SavedWithOwnCode
<1>5. ASSUME NEW l \in Logins, Exchange(l) PROVE OwnInv'
  <2>1. pc[l] = "exchange" /\ UNCHANGED <<outcome, finish, authorised, saved>>
    BY <1>5 DEF Exchange
  <2>2. \/ pc' = [pc EXCEPT ![l] = "ended"] /\ UNCHANGED used
        \/ pc' = [pc EXCEPT ![l] = "save"] /\ used' = used \cup {l}
    BY <1>5 DEF Exchange, End
  <2>3. l \in authorised
    BY <2>1 DEF OwnInv, CodesOwn
  <2>4. CodesOwn'
    BY <2>1, <2>2 DEF OwnInv, CodesOwn, LoginTypeOK, LoginTypes
  <2> QED BY <2>1, <2>2, <2>3, <2>4 DEF OwnInv, SavedWithOwnCode
<1>6. ASSUME NEW l \in Logins, Save(l) PROVE OwnInv'
  <2>1. /\ pc[l] = "save" /\ saved' \in {saved, saved \cup {l}}
        /\ pc' = [pc EXCEPT ![l] = "ended"]
        /\ UNCHANGED <<outcome, finish, authorised, used>>
    BY <1>6 DEF Save, End
  <2>2. l \in used
    BY <2>1 DEF OwnInv, CodesOwn
  <2>3. CodesOwn'
    BY <2>1 DEF OwnInv, CodesOwn, LoginTypeOK, LoginTypes
  <2> QED BY <2>1, <2>2, <2>3 DEF OwnInv, SavedWithOwnCode
<1>7. ASSUME NEW v \in Visitors,
             Signal(v) \/ CloseDone(v) \/ ClosePanics(v)
      PROVE  OwnInv'
  BY <1>7, OwnAlone DEF Signal, CloseDone, ClosePanics
<1>8. ASSUME NEW v \in Visitors, NEW l \in Logins, Handle(v, l)
      PROVE  OwnInv'
  <2>1. UNCHANGED <<pc, finish, authorised, used, saved>>
    BY <1>8 DEF Handle
  <2>2. PICK p \in Ports, result \in {"code", "error"} :
          /\ Settle(v, listener[p], result)
          /\ result = "code" => listener[p] = l /\ l \in authorised
    BY <1>8 DEF Handle
  <2>3. \A m \in Logins :
          outcome'[m] = "code" => outcome[m] = "code" \/ m \in authorised
    BY <2>2 DEF Settle, LoginTypeOK, CallbackTypes
  <2> QED BY <2>1, <2>3, OwnAlone
<1>9. ASSUME NEW v \in Visitors, NEW m \in Logins, ServeFails(v, m)
      PROVE  OwnInv'
  <2>1. /\ outcome' = [outcome EXCEPT ![m] = "error"]
        /\ UNCHANGED <<pc, finish, authorised, used, saved>>
    BY <1>9 DEF ServeFails
  <2>2. \A l \in Logins : outcome'[l] = "code" => outcome[l] = "code"
    BY <2>1 DEF LoginTypeOK, CallbackTypes
  <2> QED BY <2>1, <2>2, OwnAlone
<1>10. ASSUME NEW f \in Finishers, NEW s \in Slots, NEW c \in Logins,
              NEW address \in BOOLEAN, FinishBegins(f, s, c, address)
       PROVE  OwnInv'
  <2>1. /\ c \in authorised
        /\ finish' = [finish EXCEPT ![f] = [at |-> "exchange", slot |-> s,
                                            held |-> pending[s], code |-> c]]
        /\ UNCHANGED <<outcome, pc, authorised, used, saved>>
    BY <1>10 DEF FinishBegins
  <2>2. CodesOwn'
    BY <2>1 DEF OwnInv, CodesOwn, LoginTypeOK, ManualTypes
  <2> QED BY <2>1, <2>2 DEF OwnInv, SavedWithOwnCode
<1>11. ASSUME NEW f \in Finishers, FinishExchange(f) PROVE OwnInv'
  <2>1. /\ finish[f].at = "exchange" /\ finish[f].code = finish[f].held
        /\ used' = used \cup {finish[f].code}
        /\ finish' = [finish EXCEPT ![f].at = "save"]
        /\ UNCHANGED <<outcome, pc, authorised, saved>>
    BY <1>11 DEF FinishExchange
  <2>2. finish[f].code \in authorised
    BY <2>1 DEF OwnInv, CodesOwn
  <2>3. CodesOwn'
    BY <2>1 DEF OwnInv, CodesOwn, LoginTypeOK, ManualTypes
  <2> QED BY <2>1, <2>2, <2>3 DEF OwnInv, SavedWithOwnCode
<1>12. ASSUME NEW f \in Finishers, FinishSave(f) PROVE OwnInv'
  <2>1. /\ finish[f].at = "save" /\ saved' = saved \cup {finish[f].held}
        /\ finish' = [finish EXCEPT ![f].at = "clear"]
        /\ UNCHANGED <<outcome, pc, authorised, used>>
    BY <1>12 DEF FinishSave
  <2>2. finish[f].held \in used
    BY <2>1 DEF OwnInv, CodesOwn
  <2>3. CodesOwn'
    BY <2>1 DEF OwnInv, CodesOwn, LoginTypeOK, ManualTypes
  <2> QED BY <2>1, <2>2, <2>3 DEF OwnInv, SavedWithOwnCode
<1>13. ASSUME NEW f \in Finishers, FinishFails(f) \/ FinishClear(f)
       PROVE  OwnInv'
  <2>1. /\ finish' = [finish EXCEPT ![f] = Rest]
        /\ UNCHANGED <<outcome, pc, authorised, used, saved>>
    BY <1>13 DEF FinishFails, FinishClear
  <2>2. \A g \in Finishers : finish'[g] = finish[g] \/ finish'[g].at = "idle"
    BY <2>1 DEF Rest, LoginTypeOK, ManualTypes
  <2> QED BY <2>1, <2>2, OwnAlone
<1>14. ASSUME Gone PROVE OwnInv'
  <2>1. UNCHANGED <<outcome, authorised, used, saved>>
    BY <1>14 DEF Gone
  <2>2. \A l \in Logins : pc'[l] = pc[l] \/ pc'[l] = "ended"
    BY <1>14 DEF Gone
  <2>3. \A g \in Finishers : finish'[g] = finish[g] \/ finish'[g].at = "idle"
    BY <1>14 DEF Gone, Rest
  <2> QED BY <2>1, <2>2, <2>3, OwnAlone
<1>15. ASSUME AbortPending PROVE OwnInv'
  BY <1>15, OwnAlone DEF AbortPending
<1> QED BY <1>1, <1>2, <1>3, <1>4, <1>5, <1>6, <1>7, <1>8, <1>9, <1>10, <1>11, <1>12,
           <1>13, <1>14, <1>15 DEF LoginNext, Goroutine, Restart, ServePanics

(* An account is saved only of a login that the user has confirmed and     *)
(* whose own code was exchanged (auth/oauth.go:232-277, main.go:417-446,   *)
(* admin.go:355-388, cmd/claude.go:137-178).                               *)
THEOREM LoginsSavedWithOwnCode == LoginSpec => []SavedWithOwnCode
<1>1. LoginInit => OwnInv
  BY DEF LoginInit, OwnInv, CodesOwn, SavedWithOwnCode, Rest
<1>2. LoginTypeOK /\ OwnInv /\ [LoginNext]_loginVars => OwnInv'
  BY OwnStep
<1>3. OwnInv => SavedWithOwnCode
  BY DEF OwnInv
<1> QED BY <1>1, <1>2, <1>3, LoginsTypeCorrect, PTL DEF LoginSpec
==============================================================================
