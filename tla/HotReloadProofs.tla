--------------------------- MODULE HotReloadProofs ---------------------------
(***************************************************************************)
(* The proofs about HotReload: its types, and that the pool holds what the *)
(* directory holds once the events of a path have been dealt with          *)
(* (broker/watch.go:33-92).                                                *)
(*                                                                         *)
(* The argument follows one path p.  What waits for p, in the channel or   *)
(* in its timer, agrees with the file: if the last word is "remove" the    *)
(* file is gone, if it is "write" the file is there (Agrees).  So a        *)
(* handler that starts alone, with nothing left to wait for, does what the *)
(* file asks for (FollowedBy), and stays right as long as nothing new      *)
(* happens to p (Settled).  The handlers of the other paths do not touch   *)
(* an account of p, for an email belongs to one path (AtHome).             *)
(***************************************************************************)
EXTENDS HotReload, FiniteSetTheorems, WellFoundedInduction, TLAPS

-----------------------------------------------------------------------------
(* Numbers.                                                                *)

(* Every nonempty set of naturals has a least element.                     *)
LEMMA LeastNat ==
  ASSUME NEW T, T \subseteq Nat, T # {}
  PROVE  \E x \in T : \A y \in T : x <= y
<1>1. PICK x \in T : \A y \in T : ~ (<<y, x>> \in OpToRel(<, Nat))
  BY NatLessThanWellFounded, WFMin
<1>2. \A y \in T : <<y, x>> \in Nat \X Nat
  OBVIOUS
<1>3. \A y \in T : ~(y < x)
  BY <1>1, <1>2 DEF OpToRel
<1> QED BY <1>3

(* A nonempty finite set of integers has a greatest element: the last file *)
(* of an email, in the order of the names, that LoadDir keeps.             *)
LEMMA GreatestOfFinite ==
  ASSUME NEW S, IsFiniteSet(S), S \subseteq Int, S # {}
  PROVE  \E x \in S : \A y \in S : y <= x
<1> DEFINE Bad == {A \in SUBSET S : A # {} /\ ~ \E x \in A : \A y \in A : y <= x}
           Sizes == {Cardinality(A) : A \in Bad}
<1>1. \A A \in SUBSET S : IsFiniteSet(A) /\ Cardinality(A) \in Nat
  BY FS_Subset, FS_CardinalityType
<1>2. SUFFICES ASSUME Bad # {} PROVE FALSE
  BY DEF Bad
<1>3. PICK A \in Bad : \A B \in Bad : Cardinality(A) <= Cardinality(B)
  <2>1. Sizes \subseteq Nat /\ Sizes # {}
    BY <1>1, <1>2
  <2>2. PICK n \in Sizes : \A m \in Sizes : n <= m
    BY <2>1, LeastNat
  <2> QED BY <2>2
<1>4. A \in SUBSET S /\ A # {} /\ ~ \E x \in A : \A y \in A : y <= x
  OBVIOUS
<1>5. PICK a \in A : TRUE
  BY <1>4
<1>6. a \in Int /\ \A y \in A : y \in Int
  BY <1>4, <1>5
<1>7. A \ {a} # {}
  <2>1. ASSUME A = {a} PROVE FALSE
    <3>1. a <= a
      BY <1>6
    <3> QED BY <1>4, <2>1, <3>1
  <2> QED BY <1>5, <2>1
<1>8. Cardinality(A \ {a}) = Cardinality(A) - 1 /\ Cardinality(A) \in Nat
  BY <1>1, <1>4, <1>5, FS_RemoveElement
<1>9. A \ {a} \notin Bad
  <2> HIDE DEF Bad
  <2>1. ASSUME A \ {a} \in Bad PROVE FALSE
    <3>1. Cardinality(A) <= Cardinality(A \ {a})
      BY <1>3, <2>1
    <3>2. Cardinality(A) <= Cardinality(A) - 1
      BY <1>8, <3>1
    <3> QED BY <1>8, <3>2
  <2> QED BY <2>1
<1>10. PICK x \in A \ {a} : \A y \in A \ {a} : y <= x
  BY <1>4, <1>7, <1>9
<1>11. CASE a <= x
  BY <1>4, <1>10, <1>11
<1>12. CASE ~(a <= x)
  <2>1. x \in Int /\ x <= a
    BY <1>6, <1>10, <1>12
  <2>2. ASSUME NEW y \in A PROVE y <= a
    <3>1. y \in Int /\ (y = a \/ y <= x)
      BY <1>6, <1>10
    <3> QED BY <1>6, <2>1, <3>1
  <2> QED BY <1>4, <1>5, <2>2
<1> QED BY <1>11, <1>12

(* A nonempty finite set of integers has a least element: the first email  *)
(* of a path, that emailBySource returns.                                  *)
LEMMA LeastOfFinite ==
  ASSUME NEW S, IsFiniteSet(S), S \subseteq Int, S # {}
  PROVE  \E x \in S : \A y \in S : x <= y
<1> DEFINE f == [x \in S |-> -x]
           T == {f[x] : x \in S}
<1>1. IsFiniteSet(T) /\ T \subseteq Int /\ T # {}
  <2>1. f \in [S -> T] /\ f \in Surjection(S, T)
    BY DEF Surjection
  <2>2. IsFiniteSet(T)
    BY <2>1, FS_Surjection
  <2>3. T \subseteq Int /\ T # {}
    OBVIOUS
  <2> QED BY <2>2, <2>3
<1>2. PICK t \in T : \A u \in T : u <= t
  <2> HIDE DEF T
  <2> QED BY <1>1, GreatestOfFinite
<1>3. PICK x \in S : t = -x
  OBVIOUS
<1>4. ASSUME NEW y \in S PROVE x <= y
  <2>1. -y \in T
    OBVIOUS
  <2>2. -y <= -x /\ x \in Int /\ y \in Int
    BY <1>2, <1>3, <2>1
  <2> QED BY <2>2
<1> QED BY <1>4

-----------------------------------------------------------------------------
(* The channel of events.                                                  *)

Word == [path : Paths, op : Ops]

(* No event of p is in s.                                                  *)
Free(s, p) == \A i \in DOMAIN s : s[i].path # p

(* The last event of p in s is op.                                         *)
Last(s, p, op) ==
  \E i \in DOMAIN s : /\ s[i].path = p /\ s[i].op = op
                      /\ \A j \in DOMAIN s : j > i => s[j].path # p

(* An event that is sent is the last one of its path and leaves the last   *)
(* one of every other path where it was.                                   *)
LEMMA Sent ==
  ASSUME NEW s \in Seq(Word), NEW w \in Word, NEW p
  PROVE  /\ Append(s, w) \in Seq(Word)
         /\ Free(Append(s, w), p) <=> Free(s, p) /\ w.path # p
         /\ \A op : Last(Append(s, w), p, op) /\ w.path # p => Last(s, p, op)
         /\ \A op : Last(Append(s, w), p, op) /\ w.path = p => w.op = op
<1> DEFINE t == Append(s, w)
<1>1. /\ t \in Seq(Word) /\ Len(s) \in Nat
      /\ DOMAIN s = 1..Len(s) /\ DOMAIN t = 1..(Len(s) + 1)
      /\ t[Len(s) + 1] = w /\ \A i \in 1..Len(s) : t[i] = s[i]
  OBVIOUS
<1> HIDE DEF t
<1>2. Free(t, p) <=> Free(s, p) /\ w.path # p
  <2>1. ASSUME Free(t, p) PROVE Free(s, p) /\ w.path # p
    BY <1>1, <2>1 DEF Free
  <2>2. ASSUME Free(s, p), w.path # p PROVE Free(t, p)
    <3> SUFFICES ASSUME NEW i \in 1..(Len(s) + 1) PROVE t[i].path # p
      BY <1>1 DEF Free
    <3>1. i \in 1..Len(s) \/ i = Len(s) + 1
      BY <1>1
    <3> QED BY <1>1, <2>2, <3>1 DEF Free
  <2> QED BY <2>1, <2>2
<1>3. ASSUME NEW op, Last(t, p, op), w.path # p PROVE Last(s, p, op)
  <2>1. PICK i \in DOMAIN t : /\ t[i].path = p /\ t[i].op = op
                              /\ \A j \in DOMAIN t : j > i => t[j].path # p
    BY <1>3 DEF Last
  <2>2. i \in 1..Len(s)
    BY <1>1, <1>3, <2>1
  <2>3. \A j \in 1..Len(s) : j > i => s[j].path # p
    BY <1>1, <2>1
  <2> QED BY <1>1, <2>1, <2>2, <2>3 DEF Last
<1>4. ASSUME NEW op, Last(t, p, op), w.path = p PROVE w.op = op
  <2>1. PICK i \in DOMAIN t : /\ t[i].path = p /\ t[i].op = op
                              /\ \A j \in DOMAIN t : j > i => t[j].path # p
    BY <1>4 DEF Last
  <2>2. i = Len(s) + 1
    BY <1>1, <1>4, <2>1
  <2> QED BY <1>1, <2>1, <2>2
<1> QED BY <1>1, <1>2, <1>3, <1>4 DEF t

(* An event that is received was the last one of its path if no other is   *)
(* left; the last one of a path that is left was the last one before.      *)
LEMMA Received ==
  ASSUME NEW s \in Seq(Word), s # << >>, NEW p
  PROVE  /\ Head(s) \in Word /\ Tail(s) \in Seq(Word)
         /\ Free(Tail(s), p) /\ Head(s).path # p => Free(s, p)
         /\ Free(Tail(s), p) /\ Head(s).path = p => Last(s, p, Head(s).op)
         /\ \A op : Last(Tail(s), p, op) => Last(s, p, op)
<1> DEFINE t == Tail(s)
<1>1. /\ t \in Seq(Word) /\ Len(s) \in Nat \ {0}
      /\ DOMAIN s = 1..Len(s) /\ DOMAIN t = 1..(Len(s) - 1)
      /\ Head(s) = s[1] /\ Head(s) \in Word
      /\ \A i \in 1..(Len(s) - 1) : t[i] = s[i + 1]
  OBVIOUS
<1> HIDE DEF t
<1>2. ASSUME NEW i \in 1..Len(s), i > 1, Free(t, p) PROVE s[i].path # p
  <2>1. i - 1 \in 1..(Len(s) - 1) /\ (i - 1) + 1 = i
    BY <1>1, <1>2
  <2>2. t[i - 1] = s[i] /\ t[i - 1].path # p
    BY <1>1, <1>2, <2>1 DEF Free
  <2> QED BY <2>2
<1>3. \A i \in 1..Len(s) : i = 1 \/ i > 1
  BY <1>1
<1>4. ASSUME Free(t, p), Head(s).path # p PROVE Free(s, p)
  BY <1>1, <1>2, <1>3, <1>4 DEF Free
<1>5. ASSUME Free(t, p), Head(s).path = p PROVE Last(s, p, Head(s).op)
  <2>1. 1 \in DOMAIN s /\ \A j \in DOMAIN s : j > 1 => s[j].path # p
    BY <1>1, <1>2, <1>5
  <2> QED BY <1>1, <1>5, <2>1 DEF Last
<1>6. ASSUME NEW op, Last(t, p, op) PROVE Last(s, p, op)
  <2>1. PICK i \in DOMAIN t : /\ t[i].path = p /\ t[i].op = op
                              /\ \A j \in DOMAIN t : j > i => t[j].path # p
    BY <1>6 DEF Last
  <2>2. i + 1 \in DOMAIN s /\ s[i + 1] = t[i]
    BY <1>1
  <2>3. ASSUME NEW j \in DOMAIN s, j > i + 1 PROVE s[j].path # p
    <3>1. j - 1 \in DOMAIN t /\ j - 1 > i /\ (j - 1) + 1 = j
      BY <1>1, <2>3
    <3>2. t[j - 1] = s[j] /\ t[j - 1].path # p
      BY <1>1, <2>1, <3>1
    <3> QED BY <3>2
  <2> QED BY <2>1, <2>2, <2>3 DEF Last
<1> QED BY <1>1, <1>4, <1>5, <1>6 DEF t

-----------------------------------------------------------------------------
(* The types.                                                              *)

HandlerType ==
  {Idle} \cup [do : Ops, path : Paths, data : {None}]
         \cup [do : {"add"}, path : Paths, data : Contents]
         \cup [do : {"drop"}, path : Paths, data : Emails]

(* Only a write leaves a file torn.                                        *)
Counted == \A p \in Paths : file[p] = Torn => changes > 0

Typed == TypeOK /\ Counted

(* What a handler holds is told by what it is about to do.                 *)
LEMMA HandlerCases ==
  ASSUME NEW x \in HandlerType
  PROVE  /\ x.do \in {"idle", "add", "drop"} \cup Ops
         /\ x.do = "idle" <=> x = Idle
         /\ x.path = None <=> x = Idle
         /\ x # Idle => x.path \in Paths
         /\ x.do = "add" => x \in [do : {"add"}, path : Paths, data : Contents]
         /\ x.do = "drop" => x \in [do : {"drop"}, path : Paths, data : Emails]
         /\ x.do \in Ops => x \in [do : Ops, path : Paths, data : {None}]
<1>1. None \notin Paths
  BY SentinelAssumption
<1> QED BY <1>1 DEF HandlerType, Idle, Ops

(* A handler that has read what it needs.                                  *)
LEMMA Becomes ==
  ASSUME NEW x \in [do : Ops, path : Paths, data : {None}], NEW d, NEW c
  PROVE  LET y == [x EXCEPT !.do = d, !.data = c]
         IN  /\ y \in [do : {d}, path : Paths, data : {c}]
             /\ y.do = d /\ y.path = x.path /\ y.data = c
OBVIOUS

(* The account LoadDir builds for an email comes from a file.              *)
LEMMA LoadedFrom ==
  ASSUME Typed, LoadDir, NEW e \in Emails
  PROVE  LET from == {p \in Paths : file[p] # None /\ file[p].email = e}
         IN  \/ from = {} /\ pool'[e] = None
             \/ \E p \in from : pool'[e] = [path |-> p, version |-> file[p].version]
<1> DEFINE from == {p \in Paths : file[p] # None /\ file[p].email = e}
           last == CHOOSE q \in from : \A s \in from : s <= q
<1>1. pool'[e] = IF from = {} THEN None ELSE [path |-> last, version |-> file[last].version]
  BY DEF LoadDir
<1>2. CASE from = {}
  BY <1>1, <1>2
<1>3. CASE from # {}
  <2>1. IsFiniteSet(from) /\ from \subseteq Int
    BY ReloadAssumption, FS_Subset
  <2>2. \E q \in from : \A s \in from : s <= q
    <3> HIDE DEF from
    <3> QED BY <1>3, <2>1, GreatestOfFinite
  <2>3. last \in from
    <3> HIDE DEF from
    <3> QED BY <2>2
  <2> QED BY <1>1, <1>3, <2>3
<1> QED BY <1>2, <1>3

(* The email emailBySource returns has an account that came from the path. *)
LEMMA FoundFrom ==
  ASSUME NEW p, From(p) # {}
  PROVE  (CHOOSE e \in From(p) : \A f \in From(p) : e <= f) \in From(p)
<1>1. IsFiniteSet(From(p)) /\ From(p) \subseteq Int
  BY ReloadAssumption, FS_Subset DEF From
<1>2. \E e \in From(p) : \A f \in From(p) : e <= f
  BY <1>1, LeastOfFinite
<1> QED BY <1>2

(* A change is counted.                                                    *)
LEMMA Changes ==
  ASSUME Typed, Change
  PROVE  changes' \in 1..MaxChanges /\ changes' \in 0..MaxChanges
BY ReloadAssumption DEF Typed, TypeOK, Change

(* A change of the directory sends an event of its path or leaves the path *)
(* unsure.                                                                 *)
LEMMA NotifyTyped ==
  ASSUME Typed, NEW p \in Paths, NEW op \in Ops, Notify(p, op)
  PROVE  events' \in Seq(Word) /\ unsure' \subseteq Paths
<1> DEFINE w == [path |-> p, op |-> op]
<1>1. w \in Word /\ events \in Seq(Word) /\ unsure \subseteq Paths
  BY DEF Word, Typed, TypeOK
<1>2. Append(events, w) \in Seq(Word)
  BY <1>1
<1>3. (events' = Append(events, w) /\ unsure' = unsure)
      \/ (unsure' = unsure \cup {p} /\ events' = events)
  BY DEF Notify
<1> QED BY <1>1, <1>2, <1>3

(* A step that leaves the directory alone.                                 *)
LEMMA CountedKept ==
  ASSUME Counted, UNCHANGED <<file, changes>>
  PROVE  Counted'
BY DEF Counted

(* The types hold at the start.                                            *)
LEMMA TypedInit == Init => Typed
<1> SUFFICES ASSUME Init PROVE Typed
  OBVIOUS
<1>1. None # Torn /\ 0 \in 0..MaxChanges
  BY ReloadAssumption
<1>2. events \in Seq([path : Paths, op : Ops])
  BY DEF Init
<1> QED BY <1>1, <1>2 DEF Init, Typed, TypeOK, Counted

(* Every step keeps the types, one step of the proof for each action.      *)
LEMMA TypedNext ==
  ASSUME Typed, [Next]_vars
  PROVE  Typed'
<1> USE DEF Typed, watcher
<1>0. /\ TypeOK /\ Counted /\ None # Torn
      /\ events \in Seq(Word) /\ handler \in [Handlers -> HandlerType]
      /\ None \notin Paths /\ MaxChanges \in Nat
  BY ReloadAssumption, SentinelAssumption DEF TypeOK, Word, HandlerType
<1>1. ASSUME NEW p \in Paths, WriteBegin(p) PROVE Typed'
  <2>1. events' \in Seq(Word) /\ unsure' \subseteq Paths
    BY <1>1, NotifyTyped DEF WriteBegin, Ops
  <2>2. changes' \in 1..MaxChanges /\ changes' \in 0..MaxChanges
    BY <1>1, Changes DEF WriteBegin
  <2>3. file' \in [Paths -> Contents \cup {None, Torn}]
    BY <1>1 DEF WriteBegin, TypeOK
  <2>4. TypeOK'
    BY <1>0, <1>1, <2>1, <2>2, <2>3 DEF WriteBegin, TypeOK, Word
  <2>5. changes' > 0
    BY <1>0, <2>2
  <2> QED BY <2>4, <2>5 DEF Counted
<1>2. ASSUME NEW p \in Paths, NEW e \in Emails, WriteEnd(p, e) PROVE Typed'
  <2>1. events' \in Seq(Word) /\ unsure' \subseteq Paths
    BY <1>2, NotifyTyped DEF WriteEnd, Ops
  <2>2. changes \in 1..MaxChanges
    <3>1. changes \in 0..MaxChanges /\ changes > 0
      BY <1>2 DEF WriteEnd, TypeOK, Counted
    <3> QED BY <1>0, <3>1
  <2>3. [email |-> e, version |-> changes] \in Contents
    BY <2>2 DEF Contents
  <2>4. file' \in [Paths -> Contents \cup {None, Torn}]
    BY <1>2, <2>3 DEF WriteEnd, TypeOK
  <2>5. TypeOK'
    BY <1>0, <1>2, <2>1, <2>4 DEF WriteEnd, TypeOK, Word
  <2>6. Counted'
    <3>1. changes' = changes /\ changes > 0
      BY <1>2 DEF WriteEnd, Counted
    <3> QED BY <3>1 DEF Counted
  <2> QED BY <2>5, <2>6
<1>3. ASSUME NEW p \in Paths, Delete(p) PROVE Typed'
  <2>1. events' \in Seq(Word) /\ unsure' \subseteq Paths
    BY <1>3, NotifyTyped DEF Delete, Ops
  <2>2. changes' \in 1..MaxChanges /\ changes' \in 0..MaxChanges
    BY <1>3, Changes DEF Delete
  <2>3. file' \in [Paths -> Contents \cup {None, Torn}]
    BY <1>3 DEF Delete, TypeOK
  <2>4. TypeOK'
    BY <1>0, <1>3, <2>1, <2>2, <2>3 DEF Delete, TypeOK, Word
  <2>5. changes' > 0
    BY <1>0, <2>2
  <2> QED BY <2>4, <2>5 DEF Counted
<1>4. ASSUME LoadDir PROVE Typed'
  <2>1. \A e \in Emails : pool'[e] \in Accounts \cup {None}
    <3> SUFFICES ASSUME NEW e \in Emails PROVE pool'[e] \in Accounts \cup {None}
      OBVIOUS
    <3>1. CASE pool'[e] = None
      BY <3>1
    <3>2. ASSUME NEW p \in Paths, file[p] # None,
                 pool'[e] = [path |-> p, version |-> file[p].version]
          PROVE  pool'[e] \in Accounts \cup {None}
      <4>1. file[p] \in Contents
        BY <1>4, <3>2 DEF LoadDir, TypeOK
      <4> QED BY <3>2, <4>1 DEF Contents, Accounts
    <3> QED BY <1>4, <3>1, <3>2, LoadedFrom
  <2>2. pool' = [e \in Emails |-> pool'[e]]
    BY <1>4 DEF LoadDir
  <2>3. pool' \in [Emails -> Accounts \cup {None}]
    BY <2>1, <2>2
  <2>4. TypeOK'
    BY <1>4, <2>3 DEF LoadDir, TypeOK
  <2>5. Counted'
    BY <1>4, CountedKept DEF LoadDir
  <2> QED BY <2>4, <2>5
<1>5. ASSUME WatchDir PROVE Typed'
  <2>1. TypeOK'
    BY <1>5 DEF WatchDir, TypeOK
  <2> QED BY <1>5, <2>1, CountedKept DEF WatchDir
<1>6. ASSUME Stop PROVE Typed'
  <2>1. changes' \in 1..MaxChanges /\ changes' \in 0..MaxChanges
    BY <1>6, Changes DEF Stop
  <2>2. events' \in Seq([path : Paths, op : Ops])
    BY <1>6 DEF Stop
  <2>3. TypeOK'
    BY <1>6, <2>1, <2>2 DEF Stop, TypeOK
  <2>4. changes' > 0
    BY <1>0, <2>1
  <2> QED BY <2>3, <2>4 DEF Counted
<1>7. ASSUME Debounce PROVE Typed'
  <2>1. Head(events) \in Word /\ Tail(events) \in Seq(Word)
    BY <1>0, <1>7 DEF Debounce
  <2>2. timer' \in [Paths -> Ops \cup {None}]
    BY <1>7, <2>1 DEF Debounce, Event, Word, TypeOK
  <2>3. TypeOK'
    BY <1>7, <2>1, <2>2 DEF Debounce, TypeOK, Word
  <2> QED BY <1>7, <2>3, CountedKept DEF Debounce
<1>8. ASSUME NEW e \in Emails, AdminDelete(e) PROVE Typed'
  <2>1. pool[e].path \in Paths
    BY <1>8 DEF AdminDelete, TypeOK, Accounts
  <2>2. TypeOK'
    BY <1>8, <2>1 DEF AdminDelete, TypeOK
  <2> QED BY <1>8, <2>2, CountedKept DEF AdminDelete
<1>9. ASSUME NEW p \in Paths, NEW h \in Handlers, Fire(p, h) PROVE Typed'
  <2>1. timer[p] \in Ops
    BY <1>9 DEF Fire, TypeOK
  <2>2. [do |-> timer[p], path |-> p, data |-> None] \in HandlerType
    BY <2>1 DEF HandlerType
  <2>3. handler' \in [Handlers -> HandlerType]
    BY <1>0, <1>9, <2>2 DEF Fire
  <2>4. unsure' \subseteq Paths /\ timer' \in [Paths -> Ops \cup {None}]
    BY <1>9 DEF Fire, TypeOK
  <2>5. TypeOK'
    BY <1>9, <2>3, <2>4 DEF Fire, TypeOK, HandlerType
  <2> QED BY <1>9, <2>5, CountedKept DEF Fire
<1>10. ASSUME NEW h \in Handlers, LoadFile(h) PROVE Typed'
  <2> DEFINE c == file[handler[h].path]
  <2>1. handler[h] \in [do : Ops, path : Paths, data : {None}]
    BY <1>0, <1>10, HandlerCases DEF LoadFile, Ops
  <2>2. CASE c \in {None, Torn}
    <3>1. handler' = [handler EXCEPT ![h] = Idle]
      BY <1>10, <2>2 DEF LoadFile
    <3>2. handler' \in [Handlers -> HandlerType]
      BY <1>0, <3>1 DEF HandlerType
    <3>3. TypeOK'
      BY <1>10, <3>2 DEF LoadFile, TypeOK, HandlerType
    <3> QED BY <1>10, <3>3, CountedKept DEF LoadFile
  <2>3. CASE c \notin {None, Torn}
    <3>1. c \in Contents
      BY <2>1, <2>3 DEF TypeOK
    <3>2. handler' = [handler EXCEPT ![h] = [@ EXCEPT !.do = "add", !.data = c]]
      BY <1>10, <2>3 DEF LoadFile
    <3>3. handler' \in [Handlers -> HandlerType]
      <4>1. [handler[h] EXCEPT !.do = "add", !.data = c]
            \in [do : {"add"}, path : Paths, data : Contents]
        <5> HIDE DEF c
        <5> QED BY <2>1, <3>1, Becomes
      <4> HIDE DEF c
      <4> QED BY <1>0, <3>2, <4>1 DEF HandlerType
    <3>4. TypeOK'
      BY <1>10, <3>3 DEF LoadFile, TypeOK, HandlerType
    <3> QED BY <1>10, <3>4, CountedKept DEF LoadFile
  <2> QED BY <2>2, <2>3
<1>11. ASSUME NEW h \in Handlers, AddLoaded(h) PROVE Typed'
  <2>1. handler[h].path \in Paths /\ handler[h].data \in Contents
    BY <1>0, <1>11, HandlerCases DEF AddLoaded
  <2>2. pool' \in [Emails -> Accounts \cup {None}]
    BY <1>11, <2>1 DEF AddLoaded, TypeOK, Accounts, Contents
  <2>3. TypeOK'
    BY <1>11, <2>2 DEF AddLoaded, TypeOK
  <2> QED BY <1>11, <2>3, CountedKept DEF AddLoaded
<1>12. ASSUME NEW h \in Handlers, FindSource(h) PROVE Typed'
  <2> DEFINE from == From(handler[h].path)
             first == CHOOSE e \in from : \A f \in from : e <= f
  <2>1. handler[h] \in [do : Ops, path : Paths, data : {None}]
    BY <1>0, <1>12, HandlerCases DEF FindSource, Ops
  <2>2. CASE from = {}
    <3>1. handler' = [handler EXCEPT ![h] = Idle]
      BY <1>12, <2>2 DEF FindSource
    <3>2. handler' \in [Handlers -> HandlerType]
      BY <1>0, <3>1 DEF HandlerType
    <3>3. TypeOK'
      BY <1>12, <3>2 DEF FindSource, TypeOK, HandlerType
    <3> QED BY <1>12, <3>3, CountedKept DEF FindSource
  <2>3. CASE from # {}
    <3>1. first \in Emails
      BY <2>3, FoundFrom DEF From
    <3>2. handler' = [handler EXCEPT ![h] = [@ EXCEPT !.do = "drop", !.data = first]]
      BY <1>12, <2>3 DEF FindSource
    <3>3. handler' \in [Handlers -> HandlerType]
      <4>1. [handler[h] EXCEPT !.do = "drop", !.data = first]
            \in [do : {"drop"}, path : Paths, data : Emails]
        <5> HIDE DEF first
        <5> QED BY <2>1, <3>1, Becomes
      <4> HIDE DEF first
      <4> QED BY <1>0, <3>2, <4>1 DEF HandlerType
    <3>4. TypeOK'
      BY <1>12, <3>3 DEF FindSource, TypeOK, HandlerType
    <3> QED BY <1>12, <3>4, CountedKept DEF FindSource
  <2> QED BY <2>2, <2>3
<1>13. ASSUME NEW h \in Handlers, DropFound(h) PROVE Typed'
  <2>1. TypeOK'
    BY <1>13 DEF DropFound, TypeOK
  <2> QED BY <1>13, <2>1, CountedKept DEF DropFound
<1>14. CASE UNCHANGED vars
  <2>1. TypeOK'
    BY <1>14 DEF vars, TypeOK
  <2> QED BY <1>14, <2>1, CountedKept DEF vars
<1> QED
  BY <1>1, <1>2, <1>3, <1>4, <1>5, <1>6, <1>7, <1>8, <1>9, <1>10, <1>11, <1>12,
     <1>13, <1>14 DEF Next, Disk, Handle

(* The types hold of every state the watcher and the directory reach       *)
(* (watch.go:33-92).                                                       *)
THEOREM ReloadTypeCorrect == Spec => []TypeOK
<1>1. Spec => []Typed
  BY TypedInit, TypedNext, PTL DEF Spec
<1>2. Typed => TypeOK
  BY DEF Typed
<1> QED BY <1>1, <1>2, PTL

-----------------------------------------------------------------------------
(* The parts of the invariant.                                             *)

(* Only a process that watches has events, timers or handlers.             *)
Asleep == up # "watching" => /\ events = << >>
                             /\ \A p \in Paths : timer[p] = None
                             /\ \A h \in Handlers : handler[h] = Idle

(* The last thing that waits for p says whether p has a file.              *)
Agrees(p) ==
  /\ Last(events, p, "write") => file[p] # None
  /\ Last(events, p, "remove") => file[p] = None
  /\ Free(events, p) /\ timer[p] # None => (timer[p] = "remove" <=> file[p] = None)

(* A file, an account and a handler have an email of their path.           *)
FileAtHome == \A p \in Paths : file[p] \notin {None, Torn} => file[p].email \in EmailsIn[p]
PoolAtHome == \A e \in Emails : pool[e] # None => e \in EmailsIn[pool[e].path]
HandlerAtHome ==
  \A h \in Handlers :
    /\ handler[h].do = "add" => handler[h].data.email \in EmailsIn[handler[h].path]
    /\ handler[h].do = "drop" => handler[h].data \in EmailsIn[handler[h].path]
AtHome == FileAtHome /\ PoolAtHome /\ HandlerAtHome

(* Nothing waits for p, and all that happened to it since the pool was     *)
(* loaded was watched.                                                     *)
Settled(p) == up # "down" /\ p \notin unsure /\ Free(events, p) /\ timer[p] = None

(* No handler of p runs and the pool is in step with the file, or the one  *)
(* that runs does what the file asks for.                                  *)
Alone(p) == \A h \in Handlers : handler[h].path # p
FollowedBy(p) ==
  /\ Alone(p) /\ file[p] # Torn => InStep(p)
  /\ \A h \in Handlers :
       handler[h].path = p =>
         /\ handler[h].do = "write" => file[p] # None
         /\ handler[h].do = "add" => file[p] = handler[h].data
         /\ handler[h].do \in {"remove", "drop"} => file[p] = None

Ready == Typed /\ Asleep /\ AtHome /\ \A p \in Paths : Agrees(p)
Followed == OneFilePerEmail => \A p \in Paths : Settled(p) => FollowedBy(p)

-----------------------------------------------------------------------------
(* A process that does not watch has nothing to do.                        *)

(* The watcher works only on what it was given while it watched, and Stop  *)
(* takes it all away.                                                      *)
LEMMA AsleepNext ==
  ASSUME Asleep, [Next]_vars
  PROVE  Asleep'
<1> USE DEF watcher
<1>1. CASE Disk
  <2>1. up' = up /\ timer' = timer /\ handler' = handler
        /\ (up # "watching" => events' = events)
    BY <1>1 DEF Disk, WriteBegin, WriteEnd, Delete, Notify
  <2> QED BY <2>1 DEF Asleep
<1>2. CASE LoadDir
  BY <1>2 DEF LoadDir, Asleep
<1>3. CASE WatchDir
  BY <1>3 DEF WatchDir, Asleep
<1>4. CASE Stop
  BY <1>4 DEF Stop, Asleep
<1>5. CASE Debounce
  BY <1>5 DEF Debounce, Asleep
<1>6. ASSUME NEW e \in Emails, AdminDelete(e) PROVE Asleep'
  BY <1>6 DEF AdminDelete, Asleep
<1>7. ASSUME NEW p \in Paths, NEW h \in Handlers, Fire(p, h) PROVE Asleep'
  BY <1>7 DEF Fire, Asleep
<1>8. ASSUME NEW h \in Handlers, Handle(h) PROVE Asleep'
  <2>1. handler[h] # Idle /\ up' = up
    BY <1>8 DEF Handle, LoadFile, AddLoaded, FindSource, DropFound, Idle
  <2> QED BY <2>1 DEF Asleep
<1>9. CASE UNCHANGED vars
  BY <1>9 DEF vars, Asleep
<1> QED BY <1>1, <1>2, <1>3, <1>4, <1>5, <1>6, <1>7, <1>8, <1>9 DEF Next

-----------------------------------------------------------------------------
(* Emails stay with their paths.                                           *)

(* The pool takes its accounts from the files and from what the handlers   *)
(* read, and the handlers read the file, or the pool, of their own path.   *)
LEMMA AtHomeNext ==
  ASSUME Typed, AtHome, [Next]_vars
  PROVE  AtHome'
<1> USE DEF watcher
<1>0. /\ file \in [Paths -> Contents \cup {None, Torn}]
      /\ pool \in [Emails -> Accounts \cup {None}]
      /\ handler \in [Handlers -> HandlerType]
      /\ FileAtHome /\ PoolAtHome /\ HandlerAtHome
  BY DEF Typed, TypeOK, HandlerType, AtHome
<1>1. CASE Disk
  <2>1. pool' = pool /\ handler' = handler
    BY <1>1 DEF Disk, WriteBegin, WriteEnd, Delete
  <2>2. PoolAtHome' /\ HandlerAtHome'
    BY <1>0, <2>1 DEF PoolAtHome, HandlerAtHome
  <2>3. ASSUME NEW p \in Paths, WriteBegin(p) \/ Delete(p) PROVE FileAtHome'
    BY <1>0, <2>3 DEF WriteBegin, Delete, FileAtHome
  <2>4. ASSUME NEW p \in Paths, NEW e \in Emails, WriteEnd(p, e) PROVE FileAtHome'
    <3> SUFFICES ASSUME NEW q \in Paths, file'[q] \notin {None, Torn}
                 PROVE  file'[q].email \in EmailsIn[q]
      BY DEF FileAtHome
    <3>1. CASE q = p
      BY <1>0, <2>4, <3>1 DEF WriteEnd
    <3>2. CASE q # p
      BY <1>0, <2>4, <3>2 DEF WriteEnd, FileAtHome
    <3> QED BY <3>1, <3>2
  <2> QED BY <1>1, <2>2, <2>3, <2>4 DEF Disk, AtHome
<1>2. CASE LoadDir
  <2>1. FileAtHome' /\ HandlerAtHome'
    BY <1>0, <1>2 DEF LoadDir, FileAtHome, HandlerAtHome
  <2>2. ASSUME NEW e \in Emails, pool'[e] # None PROVE e \in EmailsIn[pool'[e].path]
    <3>1. PICK p \in Paths : /\ file[p] # None /\ file[p].email = e
                             /\ pool'[e] = [path |-> p, version |-> file[p].version]
      BY <1>2, <2>2, LoadedFrom
    <3>2. file[p] # Torn /\ pool'[e].path = p
      BY <1>2, <3>1 DEF LoadDir
    <3> QED BY <1>0, <3>1, <3>2 DEF FileAtHome
  <2> QED BY <2>1, <2>2 DEF AtHome, PoolAtHome
<1>3. CASE WatchDir \/ Debounce \/ UNCHANGED vars
  <2>1. UNCHANGED <<file, pool, handler>>
    BY <1>3 DEF WatchDir, Debounce, vars
  <2> QED BY <1>0, <2>1 DEF AtHome, FileAtHome, PoolAtHome, HandlerAtHome
<1>4. CASE Stop
  BY <1>0, <1>4 DEF Stop, Idle, AtHome, FileAtHome, PoolAtHome, HandlerAtHome
<1>5. ASSUME NEW e \in Emails, AdminDelete(e) PROVE AtHome'
  BY <1>0, <1>5 DEF AdminDelete, AtHome, FileAtHome, PoolAtHome, HandlerAtHome
<1>6. ASSUME NEW p \in Paths, NEW h \in Handlers, Fire(p, h) PROVE AtHome'
  <2>1. timer[p] \in Ops
    BY <1>6 DEF Fire, Typed, TypeOK
  <2>2. handler'[h].do \in Ops /\ \A g \in Handlers : g # h => handler'[g] = handler[g]
    BY <1>0, <1>6, <2>1 DEF Fire
  <2>3. HandlerAtHome'
    BY <1>0, <2>2 DEF HandlerAtHome, Ops
  <2> QED BY <1>0, <1>6, <2>3 DEF Fire, AtHome, FileAtHome, PoolAtHome
<1>7. ASSUME NEW h \in Handlers, LoadFile(h) PROVE AtHome'
  <2> DEFINE c == file[handler[h].path]
  <2>1. handler[h] \in [do : Ops, path : Paths, data : {None}]
    BY <1>0, <1>7, HandlerCases DEF LoadFile, Ops
  <2>2. \A g \in Handlers : g # h => handler'[g] = handler[g]
    BY <1>0, <1>7 DEF LoadFile
  <2>3. CASE c \in {None, Torn}
    <3>1. handler'[h] = Idle
      BY <1>0, <1>7, <2>3 DEF LoadFile
    <3>2. HandlerAtHome'
      BY <1>0, <2>2, <3>1 DEF HandlerAtHome, Idle
    <3> QED BY <1>0, <1>7, <3>2 DEF LoadFile, AtHome, FileAtHome, PoolAtHome
  <2>4. CASE c \notin {None, Torn}
    <3>1. handler'[h].do = "add" /\ handler'[h].path = handler[h].path /\ handler'[h].data = c
      <4>1. handler' = [handler EXCEPT ![h] = [@ EXCEPT !.do = "add", !.data = c]]
        BY <1>7, <2>4 DEF LoadFile
      <4> HIDE DEF c
      <4> QED BY <1>0, <2>1, <4>1, Becomes
    <3>2. c.email \in EmailsIn[handler[h].path]
      BY <1>0, <2>1, <2>4 DEF FileAtHome
    <3>3. HandlerAtHome'
      BY <1>0, <2>2, <3>1, <3>2 DEF HandlerAtHome
    <3> QED BY <1>0, <1>7, <3>3 DEF LoadFile, AtHome, FileAtHome, PoolAtHome
  <2> QED BY <2>3, <2>4
<1>8. ASSUME NEW h \in Handlers, AddLoaded(h) PROVE AtHome'
  <2>1. handler[h] \in [do : {"add"}, path : Paths, data : Contents]
    BY <1>0, <1>8, HandlerCases DEF AddLoaded
  <2>2. handler'[h] = Idle /\ \A g \in Handlers : g # h => handler'[g] = handler[g]
    BY <1>0, <1>8 DEF AddLoaded
  <2>3. HandlerAtHome'
    BY <1>0, <2>2 DEF HandlerAtHome, Idle
  <2>4. handler[h].data.email \in EmailsIn[handler[h].path] /\ handler[h].data.email \in Emails
    BY <1>0, <1>8, <2>1 DEF HandlerAtHome, AddLoaded, Contents
  <2>5. PoolAtHome'
    BY <1>0, <1>8, <2>4 DEF PoolAtHome, AddLoaded
  <2> QED BY <1>0, <1>8, <2>3, <2>5 DEF AddLoaded, AtHome, FileAtHome
<1>9. ASSUME NEW h \in Handlers, FindSource(h) PROVE AtHome'
  <2> DEFINE from == From(handler[h].path)
             first == CHOOSE e \in from : \A f \in from : e <= f
  <2>1. handler[h] \in [do : Ops, path : Paths, data : {None}]
    BY <1>0, <1>9, HandlerCases DEF FindSource, Ops
  <2>2. \A g \in Handlers : g # h => handler'[g] = handler[g]
    BY <1>0, <1>9 DEF FindSource
  <2>3. CASE from = {}
    <3>1. handler'[h] = Idle
      BY <1>0, <1>9, <2>3 DEF FindSource
    <3>2. HandlerAtHome'
      BY <1>0, <2>2, <3>1 DEF HandlerAtHome, Idle
    <3> QED BY <1>0, <1>9, <3>2 DEF FindSource, AtHome, FileAtHome, PoolAtHome
  <2>4. CASE from # {}
    <3>1. handler' = [handler EXCEPT ![h] = [@ EXCEPT !.do = "drop", !.data = first]]
      BY <1>9, <2>4 DEF FindSource
    <3>2. handler'[h].do = "drop" /\ handler'[h].path = handler[h].path
          /\ handler'[h].data = first
      <4> HIDE DEF first
      <4> QED BY <1>0, <2>1, <3>1, Becomes
    <3>3. first \in EmailsIn[handler[h].path]
      <4>1. first \in From(handler[h].path)
        BY <2>4, FoundFrom
      <4> HIDE DEF first
      <4> QED BY <1>0, <4>1 DEF From, PoolAtHome
    <3>4. HandlerAtHome'
      <4> HIDE DEF first
      <4> QED BY <1>0, <2>2, <3>2, <3>3 DEF HandlerAtHome
    <3> QED BY <1>0, <1>9, <3>4 DEF FindSource, AtHome, FileAtHome, PoolAtHome
  <2> QED BY <2>3, <2>4
<1>10. ASSUME NEW h \in Handlers, DropFound(h) PROVE AtHome'
  <2>1. handler'[h] = Idle /\ \A g \in Handlers : g # h => handler'[g] = handler[g]
    BY <1>0, <1>10 DEF DropFound
  <2>2. HandlerAtHome'
    BY <1>0, <2>1 DEF HandlerAtHome, Idle
  <2>3. \A e \in Emails : pool'[e] = None \/ pool'[e] = pool[e]
    BY <1>0, <1>10 DEF DropFound
  <2>4. PoolAtHome'
    BY <1>0, <2>3 DEF PoolAtHome
  <2> QED BY <1>0, <1>10, <2>2, <2>4 DEF DropFound, AtHome, FileAtHome
<1> QED
  BY <1>1, <1>2, <1>3, <1>4, <1>5, <1>6, <1>7, <1>8, <1>9, <1>10 DEF Next, Handle

-----------------------------------------------------------------------------
(* What waits for a path agrees with its file.                             *)

(* A change that tells of p the truth about p, or of another path.         *)
LEMMA AgreesNotified ==
  ASSUME Typed, Asleep, NEW p \in Paths, Agrees(p),
         NEW q \in Paths, NEW op \in Ops, Notify(q, op), timer' = timer,
         p # q => file'[p] = file[p],
         p = q => (op = "remove" <=> file'[p] = None)
  PROVE  Agrees(p)'
<1> DEFINE w == [path |-> q, op |-> op]
<1>0. w \in Word /\ events \in Seq(Word) /\ w.path = q /\ w.op = op
  BY DEF Typed, TypeOK, Word
<1>1. CASE up = "watching"
  <2>1. events' = Append(events, w)
    BY <1>1 DEF Notify
  <2> HIDE DEF w
  <2>2. /\ Free(events', p) <=> Free(events, p) /\ q # p
        /\ \A o : Last(events', p, o) /\ q # p => Last(events, p, o)
        /\ \A o : Last(events', p, o) /\ q = p => op = o
    BY <1>0, <2>1, Sent
  <2>3. CASE p = q
    BY <2>2, <2>3 DEF Agrees, Ops
  <2>4. CASE p # q
    BY <2>2, <2>4 DEF Agrees
  <2> QED BY <2>3, <2>4
<1>2. CASE up # "watching"
  <2>1. events' = << >> /\ timer'[p] = None
    BY <1>2 DEF Notify, Asleep
  <2>2. \A o : ~ Last(events', p, o)
    BY <2>1 DEF Last
  <2> QED BY <2>1, <2>2 DEF Agrees
<1> QED BY <1>1, <1>2

(* Every change of a file sends what the file has become; the debounce     *)
(* keeps the last word of its path.                                        *)
LEMMA AgreesNext ==
  ASSUME Typed, Asleep, [Next]_vars, NEW p \in Paths, Agrees(p)
  PROVE  Agrees(p)'
<1> USE DEF watcher
<1>0. /\ file \in [Paths -> Contents \cup {None, Torn}] /\ None # Torn
      /\ timer \in [Paths -> Ops \cup {None}] /\ events \in Seq(Word)
      /\ None \notin Contents \cup Ops
  BY ReloadAssumption, SentinelAssumption DEF Typed, TypeOK, Word
<1>1. ASSUME NEW q \in Paths, WriteBegin(q) PROVE Agrees(p)'
  <2>1. /\ Notify(q, "write") /\ timer' = timer /\ "write" \in Ops
        /\ p # q => file'[p] = file[p]
        /\ p = q => ("write" = "remove" <=> file'[p] = None)
    BY <1>0, <1>1 DEF WriteBegin, Ops
  <2> QED BY <2>1, AgreesNotified
<1>2. ASSUME NEW q \in Paths, NEW e \in Emails, WriteEnd(q, e) PROVE Agrees(p)'
  <2>1. changes \in 1..MaxChanges
    <3>1. changes \in 0..MaxChanges /\ changes > 0 /\ MaxChanges \in Nat
      BY <1>2, ReloadAssumption DEF WriteEnd, Typed, TypeOK, Counted
    <3> QED BY <3>1
  <2>2. [email |-> e, version |-> changes] # None
    BY <1>0, <2>1 DEF Contents
  <2>3. /\ Notify(q, "write") /\ timer' = timer /\ "write" \in Ops
        /\ p # q => file'[p] = file[p]
        /\ p = q => ("write" = "remove" <=> file'[p] = None)
    BY <1>0, <1>2, <2>2 DEF WriteEnd, Ops
  <2> QED BY <2>3, AgreesNotified
<1>3. ASSUME NEW q \in Paths, Delete(q) PROVE Agrees(p)'
  <2>1. /\ Notify(q, "remove") /\ timer' = timer /\ "remove" \in Ops
        /\ p # q => file'[p] = file[p]
        /\ p = q => ("remove" = "remove" <=> file'[p] = None)
    BY <1>0, <1>3 DEF Delete, Ops
  <2> QED BY <2>1, AgreesNotified
<1>4. CASE Stop
  <2>1. events' = << >> /\ timer'[p] = None
    BY <1>4 DEF Stop
  <2>2. \A o : ~ Last(events', p, o)
    BY <2>1 DEF Last
  <2> QED BY <2>1, <2>2 DEF Agrees
<1>5. CASE Debounce
  <2> DEFINE x == Head(events)
  <2>1. /\ x \in Word /\ events' = Tail(events) /\ file' = file
        /\ timer' = [timer EXCEPT ![x.path] = x.op]
        /\ Free(events', p) /\ x.path # p => Free(events, p)
        /\ Free(events', p) /\ x.path = p => Last(events, p, x.op)
        /\ \A o : Last(events', p, o) => Last(events, p, o)
    BY <1>0, <1>5, Received DEF Debounce, Event
  <2> HIDE DEF x
  <2>2. x.op \in Ops
    BY <2>1 DEF Word
  <2>3. CASE x.path = p
    <3>1. timer'[p] = x.op
      BY <1>0, <2>1, <2>3
    <3> QED BY <2>1, <2>2, <2>3, <3>1 DEF Agrees, Ops
  <2>4. CASE x.path # p
    <3>1. timer'[p] = timer[p]
      BY <1>0, <2>1, <2>4
    <3> QED BY <2>1, <2>4, <3>1 DEF Agrees
  <2> QED BY <2>3, <2>4
<1>6. ASSUME NEW q \in Paths, NEW h \in Handlers, Fire(q, h) PROVE Agrees(p)'
  <2>1. events' = events /\ file' = file /\ (timer'[p] = None \/ timer'[p] = timer[p])
    BY <1>0, <1>6 DEF Fire
  <2> QED BY <2>1 DEF Agrees
<1>7. CASE UNCHANGED <<file, events, timer>>
  BY <1>7 DEF Agrees
<1>8. ASSUME Next
      PROVE  \/ \E q \in Paths : WriteBegin(q) \/ Delete(q) \/ \E e \in Emails : WriteEnd(q, e)
             \/ Stop \/ Debounce \/ \E q \in Paths, h \in Handlers : Fire(q, h)
             \/ UNCHANGED <<file, events, timer>>
  BY <1>8 DEF Next, Disk, Handle, LoadDir, WatchDir, AdminDelete, LoadFile, AddLoaded,
              FindSource, DropFound
<1>9. CASE UNCHANGED vars
  BY <1>7, <1>9 DEF vars
<1> QED BY <1>1, <1>2, <1>3, <1>4, <1>5, <1>6, <1>7, <1>8, <1>9

(* What holds of every reachable state whatever the emails of the files.   *)
LEMMA ReadyInit == Init => Ready
<1> SUFFICES ASSUME Init PROVE Ready
  OBVIOUS
<1>1. Typed
  BY TypedInit
<1>2. Asleep
  BY DEF Init, Asleep
<1>3. AtHome
  BY DEF Init, AtHome, FileAtHome, PoolAtHome, HandlerAtHome, Idle
<1>4. ASSUME NEW p \in Paths PROVE Agrees(p)
  BY DEF Init, Agrees, Last
<1> QED BY <1>1, <1>2, <1>3, <1>4 DEF Ready

(* Each part is kept, given the others.                                    *)
LEMMA ReadyNext ==
  ASSUME Ready, [Next]_vars
  PROVE  Ready'
<1>1. Typed' /\ Asleep' /\ AtHome'
  BY TypedNext, AsleepNext, AtHomeNext DEF Ready
<1>2. ASSUME NEW p \in Paths PROVE Agrees(p)'
  BY AgreesNext DEF Ready
<1> QED BY <1>1, <1>2 DEF Ready

-----------------------------------------------------------------------------
(* A settled path is followed.                                             *)

(* An email belongs to one path.                                           *)
LEMMA OneOwner ==
  ASSUME OneFilePerEmail, NEW p \in Paths, NEW q \in Paths,
         NEW e \in EmailsIn[p], NEW f \in EmailsIn[q]
  PROVE  p = q <=> e = f
BY DEF OneFilePerEmail

(* A step that changes nothing of p but perhaps the account of an email of *)
(* another path.                                                           *)
LEMMA InStepKept ==
  ASSUME OneFilePerEmail, AtHome, NEW p \in Paths, NEW q \in Paths, q # p,
         NEW e \in EmailsIn[q], file' = file, file[p] # Torn,
         pool \in [Emails -> Accounts \cup {None}], InStep(p),
         NEW v, pool' = [pool EXCEPT ![e] = v], v = None \/ v.path = q
  PROVE  InStep(p)'
<1>0. AtHome /\ FileAtHome /\ PoolAtHome
  BY DEF AtHome
<1> SUFFICES ASSUME NEW f \in Emails
             PROVE  LET held == file'[p] # None /\ file'[p].email = f
                    IN  /\ held <=> f \in From(p)'
                        /\ held => pool'[f].version = file'[p].version
  BY DEF InStep
<1>1. CASE f = e
  <2>1. ~(file[p] # None /\ file[p].email = f)
    BY <1>0, <1>1, OneOwner DEF FileAtHome
  <2>2. pool'[f] = v
    BY <1>1
  <2>3. f \notin From(p)'
    BY <2>2 DEF From
  <2> QED BY <2>1, <2>3
<1>2. CASE f # e
  <2>1. pool'[f] = pool[f]
    BY <1>2
  <2>2. f \in From(p)' <=> f \in From(p)
    BY <2>1 DEF From
  <2> QED BY <2>1, <2>2 DEF InStep
<1> QED BY <1>1, <1>2

(* A path that no step of its own has touched.                             *)
LEMMA FollowedKept ==
  ASSUME NEW p \in Paths, FollowedBy(p), file'[p] = file[p], pool' = pool,
         \A h \in Handlers : \/ handler'[h] = handler[h]
                             \/ handler'[h].path # p /\ handler[h].path # p
  PROVE  FollowedBy(p)'
<1>1. Alone(p)' => Alone(p)
  BY DEF Alone
<1>2. InStep(p) => InStep(p)'
  BY DEF InStep, From
<1>3. ASSUME NEW h \in Handlers, handler'[h].path = p
      PROVE  /\ handler'[h].do = "write" => file'[p] # None
             /\ handler'[h].do = "add" => file'[p] = handler'[h].data
             /\ handler'[h].do \in {"remove", "drop"} => file'[p] = None
  BY <1>3 DEF FollowedBy
<1> QED BY <1>1, <1>2, <1>3 DEF FollowedBy

(* A settled path after a step was settled before it, but for a LoadDir    *)
(* and a timer of its own that fired.                                      *)
LEMMA SettledBefore ==
  ASSUME Ready, [Next]_vars, NEW p \in Paths, Settled(p)',
         ~ LoadDir, \A h \in Handlers : ~ Fire(p, h)
  PROVE  /\ Settled(p)
         /\ file'[p] = file[p] \/ Stop
         /\ \A e \in Emails : AdminDelete(e) => pool[e].path # p
<1> USE DEF watcher
<1>0. /\ Typed /\ events \in Seq(Word) /\ timer \in [Paths -> Ops \cup {None}]
      /\ None \notin Ops /\ file \in [Paths -> Contents \cup {None, Torn}]
  BY SentinelAssumption DEF Ready, Typed, TypeOK, Word
<1>1. ASSUME NEW q \in Paths, NEW op \in Ops, Notify(q, op), up' = up, timer' = timer,
             \A r \in Paths : r # q => file'[r] = file[r]
      PROVE  Settled(p) /\ file'[p] = file[p]
  <2> DEFINE w == [path |-> q, op |-> op]
  <2>1. w \in Word /\ w.path = q
    BY DEF Word
  <2> HIDE DEF w
  <2>2. CASE up = "watching"
    <3>1. events' = Append(events, w) /\ unsure' = unsure
      BY <1>1, <2>2 DEF Notify, w
    <3>2. Free(events, p) /\ q # p
      BY <1>0, <2>1, <3>1, Sent DEF Settled
    <3> QED BY <1>1, <3>1, <3>2 DEF Settled
  <2>3. CASE up # "watching"
    <3>1. events' = events /\ unsure' = unsure \cup {q}
      BY <1>1, <2>3 DEF Notify
    <3> QED BY <1>1, <3>1 DEF Settled
  <2> QED BY <2>2, <2>3
<1>2. ASSUME NEW e \in Emails, AdminDelete(e)
      PROVE  Settled(p) /\ file'[p] = file[p] /\ pool[e].path # p
  BY <1>2 DEF AdminDelete, Settled
<1>3. \A e \in Emails : AdminDelete(e) => pool[e].path # p
  BY <1>2
<1>4. CASE Disk
  <2>1. ASSUME NEW q \in Paths, WriteBegin(q) PROVE Settled(p) /\ file'[p] = file[p]
    BY <1>0, <1>1, <2>1 DEF WriteBegin, Ops
  <2>2. ASSUME NEW q \in Paths, NEW e \in Emails, WriteEnd(q, e)
        PROVE  Settled(p) /\ file'[p] = file[p]
    BY <1>0, <1>1, <2>2 DEF WriteEnd, Ops
  <2>3. ASSUME NEW q \in Paths, Delete(q) PROVE Settled(p) /\ file'[p] = file[p]
    BY <1>0, <1>1, <2>3 DEF Delete, Ops
  <2> QED BY <1>4, <1>3, <2>1, <2>2, <2>3 DEF Disk
<1>5. ASSUME UNCHANGED <<file, events, timer>>, up # "down" \/ up' = "down",
             unsure \subseteq unsure'
      PROVE  Settled(p) /\ file'[p] = file[p]
  BY <1>5 DEF Settled
<1>6. CASE WatchDir
  <2>1. Settled(p) /\ file'[p] = file[p]
    BY <1>5, <1>6 DEF WatchDir
  <2> QED BY <1>3, <2>1
<1>7. CASE Stop
  BY <1>7 DEF Stop, Settled
<1>8. CASE Debounce
  <2> DEFINE x == Head(events)
  <2>1. /\ x \in Word /\ events' = Tail(events)
        /\ timer' = [timer EXCEPT ![x.path] = x.op]
        /\ Free(events', p) /\ x.path # p => Free(events, p)
    BY <1>0, <1>8, Received DEF Debounce, Event
  <2> HIDE DEF x
  <2>2. x.path # p
    BY <1>0, <2>1 DEF Settled, Word
  <2>3. Free(events, p) /\ timer'[p] = timer[p]
    BY <1>0, <2>1, <2>2 DEF Settled
  <2>4. UNCHANGED <<file, pool, up, unsure>>
    BY <1>8 DEF Debounce
  <2> QED BY <1>3, <2>3, <2>4 DEF Settled
<1>9. ASSUME NEW q \in Paths, NEW h \in Handlers, Fire(q, h)
      PROVE  Settled(p) /\ file'[p] = file[p]
  <2>1. q # p
    BY <1>9
  <2> QED BY <1>0, <1>9, <2>1 DEF Fire, Settled
<1>10. ASSUME NEW h \in Handlers, Handle(h) PROVE Settled(p) /\ file'[p] = file[p]
  BY <1>10 DEF Handle, LoadFile, AddLoaded, FindSource, DropFound, Settled
<1>11. CASE UNCHANGED vars
  <2>1. Settled(p) /\ file'[p] = file[p]
    BY <1>11 DEF vars, Settled
  <2> QED BY <1>3, <2>1
<1> QED BY <1>4, <1>6, <1>7, <1>8, <1>2, <1>9, <1>10, <1>11, <1>3 DEF Next

(* A timer that fires while no handler of its path runs starts a handler   *)
(* that does what the file asks for.                                       *)
LEMMA FollowedFired ==
  ASSUME Ready, NEW p \in Paths, NEW h \in Handlers, Fire(p, h), Settled(p)'
  PROVE  FollowedBy(p)'
<1> USE DEF watcher
<1>0. /\ Typed /\ Agrees(p) /\ timer[p] \in Ops
      /\ handler \in [Handlers -> HandlerType]
  BY DEF Ready, Fire, Typed, TypeOK, HandlerType
<1>1. Free(events, p) /\ \A g \in Handlers : handler[g].path # p
  BY DEF Settled, Fire
<1>2. file' = file /\ handler'[h].do = timer[p] /\ handler'[h].path = p
      /\ \A g \in Handlers : g # h => handler'[g] = handler[g]
  BY <1>0 DEF Fire
<1>3. timer[p] = "remove" <=> file[p] = None
  BY <1>0, <1>1 DEF Agrees, Fire
<1>4. ASSUME NEW g \in Handlers, handler'[g].path = p
      PROVE  /\ handler'[g].do = "write" => file'[p] # None
             /\ handler'[g].do = "add" => file'[p] = handler'[g].data
             /\ handler'[g].do \in {"remove", "drop"} => file'[p] = None
  <2>1. g = h
    BY <1>1, <1>2, <1>4
  <2> QED BY <1>0, <1>2, <1>3, <2>1 DEF Ops
<1>5. ~ Alone(p)'
  BY <1>2 DEF Alone
<1> QED BY <1>4, <1>5 DEF FollowedBy

(* When the pool is loaded no handler runs, and LoadDir takes for an email *)
(* the one file that has it.                                               *)
LEMMA FollowedLoaded ==
  ASSUME OneFilePerEmail, Ready, LoadDir, NEW p \in Paths
  PROVE  FollowedBy(p)'
<1> USE DEF watcher
<1>0. /\ Typed /\ FileAtHome /\ file \in [Paths -> Contents \cup {None, Torn}]
      /\ pool \in [Emails -> Accounts \cup {None}] /\ None \notin Paths \cup Accounts
  BY SentinelAssumption DEF Ready, Typed, TypeOK, AtHome
<1>1. file' = file /\ \A h \in Handlers : handler'[h] = Idle
  BY DEF Ready, LoadDir, Asleep
<1>2. ASSUME NEW e \in Emails
      PROVE  LET held == file[p] # None /\ file[p].email = e
             IN  /\ held <=> e \in From(p)'
                 /\ held => pool'[e].version = file[p].version
  <2>1. \A q \in Paths : (/\ file[p] # None /\ file[p].email = e
                          /\ file[q] # None /\ file[q].email = e) => q = p
    <3> SUFFICES ASSUME NEW q \in Paths, file[p] # None, file[p].email = e,
                        file[q] # None, file[q].email = e
                 PROVE  q = p
      OBVIOUS
    <3>1. file[p] # Torn /\ file[q] # Torn
      BY DEF LoadDir
    <3>2. e \in EmailsIn[p] /\ e \in EmailsIn[q]
      BY <1>0, <3>1 DEF FileAtHome
    <3> QED BY <3>2, OneOwner
  <2>2. CASE pool'[e] = None
    <3>1. ~ (file[p] # None /\ file[p].email = e)
      <4>1. ASSUME NEW q \in Paths, file[q] # None, file[q].email = e PROVE FALSE
        <5>1. PICK r \in Paths : pool'[e] = [path |-> r, version |-> file[r].version]
              /\ file[r] # None
          BY <4>1, LoadedFrom, <1>0
        <5>2. file[r] \in Contents
          BY <1>0, <5>1 DEF LoadDir
        <5>3. pool'[e] \in Accounts
          BY <5>1, <5>2 DEF Contents, Accounts
        <5> QED BY <1>0, <2>2, <5>3
      <4> QED BY <4>1
    <3>2. e \notin From(p)'
      BY <2>2 DEF From
    <3> QED BY <3>1, <3>2
  <2>3. ASSUME NEW q \in Paths, file[q] # None, file[q].email = e,
               pool'[e] = [path |-> q, version |-> file[q].version]
        PROVE  LET held == file[p] # None /\ file[p].email = e
               IN  /\ held <=> e \in From(p)'
                   /\ held => pool'[e].version = file[p].version
    <3>1. file[q] \in Contents
      BY <1>0, <2>3 DEF LoadDir
    <3>2. pool'[e] \in Accounts
      BY <2>3, <3>1 DEF Contents, Accounts
    <3>3. pool'[e] # None /\ pool'[e].path = q
      BY <1>0, <2>3, <3>2
    <3>4. e \in From(p)' <=> p = q
      BY <3>3 DEF From
    <3> QED BY <2>1, <2>3, <3>4
  <2> QED BY <1>0, <2>2, <2>3, LoadedFrom
<1>3. InStep(p)'
  BY <1>1, <1>2 DEF InStep
<1>4. \A h \in Handlers : handler'[h].path # p
  BY <1>0, <1>1 DEF Idle
<1> QED BY <1>3, <1>4 DEF FollowedBy

(* A handler of the path, or of another one, goes on.                      *)
LEMMA FollowedHandled ==
  ASSUME OneFilePerEmail, Ready, NEW p \in Paths, FollowedBy(p),
         NEW h \in Handlers, Handle(h)
  PROVE  FollowedBy(p)'
<1> USE DEF watcher
<1> DEFINE q == handler[h].path
<1>0. /\ Typed /\ AtHome /\ HandlerAtHome /\ PoolAtHome /\ FileAtHome
      /\ file \in [Paths -> Contents \cup {None, Torn}]
      /\ pool \in [Emails -> Accounts \cup {None}]
      /\ handler \in [Handlers -> HandlerType] /\ None \notin Paths \cup Accounts
      /\ None \notin Contents /\ Torn \notin Contents
  BY SentinelAssumption DEF Ready, Typed, TypeOK, AtHome, HandlerType
<1>1. handler[h] # Idle /\ q \in Paths
  BY <1>0, HandlerCases DEF Handle, LoadFile, AddLoaded, FindSource, DropFound, Idle
<1>2. file' = file
  BY DEF Handle, LoadFile, AddLoaded, FindSource, DropFound
<1>3. \A g \in Handlers : g # h => handler'[g] = handler[g]
  BY <1>0 DEF Handle, LoadFile, AddLoaded, FindSource, DropFound
<1>4. \A g \in Handlers : g # h /\ handler'[g].path = p =>
        /\ handler'[g].do = "write" => file'[p] # None
        /\ handler'[g].do = "add" => file'[p] = handler'[g].data
        /\ handler'[g].do \in {"remove", "drop"} => file'[p] = None
  BY <1>2, <1>3 DEF FollowedBy
<1>5. Idle.path # p
  BY <1>0 DEF Idle
<1>6. ASSUME q # p, handler'[h].path # p, pool' = pool PROVE FollowedBy(p)'
  <2>1. \A g \in Handlers : \/ handler'[g] = handler[g]
                            \/ handler'[g].path # p /\ handler[g].path # p
    BY <1>3, <1>6
  <2> QED BY <1>2, <1>6, <2>1, FollowedKept
<1>7. ASSUME LoadFile(h) PROVE FollowedBy(p)'
  <2> DEFINE c == file[q]
  <2>1. handler[h] \in [do : Ops, path : Paths, data : {None}] /\ pool' = pool
    BY <1>0, <1>7, HandlerCases DEF LoadFile, Ops
  <2>2. CASE c \in {None, Torn}
    <3>1. handler'[h] = Idle
      BY <1>0, <1>7, <2>2 DEF LoadFile
    <3>2. CASE q = p
      <4>1. c # None
        BY <1>7, <3>2 DEF LoadFile, FollowedBy
      <4>2. file'[p] = Torn
        BY <1>2, <2>2, <3>2, <4>1
      <4> QED BY <1>4, <1>5, <3>1, <4>2 DEF FollowedBy
    <3>3. CASE q # p
      BY <1>5, <1>6, <2>1, <3>1, <3>3
    <3> QED BY <3>2, <3>3
  <2>3. CASE c \notin {None, Torn}
    <3>1. handler'[h].do = "add" /\ handler'[h].path = q /\ handler'[h].data = c
      <4>1. handler' = [handler EXCEPT ![h] = [@ EXCEPT !.do = "add", !.data = c]]
        BY <1>7, <2>3 DEF LoadFile
      <4> HIDE DEF c
      <4> QED BY <1>0, <2>1, <4>1, Becomes
    <3>2. CASE q = p
      <4>1. file'[p] = handler'[h].data
        BY <1>2, <3>1, <3>2
      <4>2. ~ Alone(p)'
        BY <3>1, <3>2 DEF Alone
      <4> QED BY <1>4, <3>1, <4>1, <4>2 DEF FollowedBy
    <3>3. CASE q # p
      BY <1>6, <2>1, <3>1, <3>3
    <3> QED BY <3>2, <3>3
  <2> QED BY <2>2, <2>3
<1>8. ASSUME FindSource(h) PROVE FollowedBy(p)'
  <2> DEFINE from == From(q)
             first == CHOOSE e \in from : \A f \in from : e <= f
  <2>1. handler[h] \in [do : Ops, path : Paths, data : {None}] /\ pool' = pool
    BY <1>0, <1>8, HandlerCases DEF FindSource, Ops
  <2>2. q = p => file'[p] = None
    BY <1>2, <1>8 DEF FindSource, FollowedBy
  <2>3. CASE from = {}
    <3>1. handler'[h] = Idle
      BY <1>0, <1>8, <2>3 DEF FindSource
    <3>2. CASE q = p
      <4>1. InStep(p)'
        BY <2>1, <2>2, <2>3, <3>2 DEF InStep, From
      <4> QED BY <1>4, <1>5, <3>1, <4>1 DEF FollowedBy
    <3>3. CASE q # p
      BY <1>5, <1>6, <2>1, <3>1, <3>3
    <3> QED BY <3>2, <3>3
  <2>4. CASE from # {}
    <3>1. handler'[h].do = "drop" /\ handler'[h].path = q
      <4>1. handler' = [handler EXCEPT ![h] = [@ EXCEPT !.do = "drop", !.data = first]]
        BY <1>8, <2>4 DEF FindSource
      <4> HIDE DEF first
      <4>2. handler'[h] = [handler[h] EXCEPT !.do = "drop", !.data = first]
        BY <1>0, <4>1
      <4> QED BY <2>1, <4>2, Becomes
    <3>2. CASE q = p
      <4>1. ~ Alone(p)'
        BY <3>1, <3>2 DEF Alone
      <4> QED BY <1>4, <2>2, <3>1, <3>2, <4>1 DEF FollowedBy
    <3>3. CASE q # p
      BY <1>6, <2>1, <3>1, <3>3
    <3> QED BY <3>2, <3>3
  <2> QED BY <2>3, <2>4
<1>9. ASSUME NEW e \in EmailsIn[q], NEW v, v = None \/ v.path = q, q # p,
             pool' = [pool EXCEPT ![e] = v], handler'[h] = Idle
      PROVE  FollowedBy(p)'
  <2>1. ASSUME Alone(p)', file'[p] # Torn PROVE InStep(p)'
    <3>1. Alone(p)
      <4> SUFFICES ASSUME NEW g \in Handlers PROVE handler[g].path # p
        BY DEF Alone
      <4>1. g = h \/ handler'[g] = handler[g]
        BY <1>3
      <4> QED BY <1>9, <2>1, <4>1 DEF Alone
    <3>2. InStep(p)
      BY <1>2, <2>1, <3>1 DEF FollowedBy
    <3> QED BY <1>0, <1>1, <1>2, <1>9, <2>1, <3>2, InStepKept
  <2> QED BY <1>4, <1>5, <1>9, <2>1 DEF FollowedBy
<1>10. ASSUME AddLoaded(h) PROVE FollowedBy(p)'
  <2> DEFINE c == handler[h].data
             a == [path |-> q, version |-> c.version]
  <2>1. c \in Contents /\ c.email \in EmailsIn[q] /\ c.email \in Emails
        /\ handler'[h] = Idle /\ pool' = [pool EXCEPT ![c.email] = a]
    BY <1>0, <1>10, HandlerCases DEF AddLoaded, HandlerAtHome, Contents
  <2>2. CASE q # p
    BY <1>9, <2>1, <2>2
  <2>3. CASE q = p
    <3>1. file[p] = c
      BY <1>10, <2>3 DEF AddLoaded, FollowedBy
    <3>2. a # None
      BY <1>0, <1>1, <2>1 DEF Accounts, Contents
    <3>3. ASSUME NEW e \in Emails
          PROVE  LET held == file'[p] # None /\ file'[p].email = e
                 IN  /\ held <=> e \in From(p)'
                     /\ held => pool'[e].version = file'[p].version
      <4>1. CASE e = c.email
        <5>1. pool'[e] = a
          BY <1>0, <2>1, <4>1
        <5> HIDE DEF c
        <5> QED BY <1>0, <1>2, <2>1, <2>3, <3>1, <3>2, <4>1, <5>1 DEF From
      <4>2. CASE e # c.email
        <5>1. pool'[e] = pool[e]
          BY <1>0, <2>1, <4>2
        <5>2. e \notin From(p)'
          <6>1. ASSUME pool[e] # None, pool[e].path = p PROVE FALSE
            <7>1. e \in EmailsIn[p] /\ c.email \in EmailsIn[p]
              BY <1>0, <2>1, <2>3, <6>1 DEF PoolAtHome
            <7> QED BY <4>2, <7>1, OneOwner
          <6> QED BY <5>1, <6>1 DEF From
        <5> QED BY <1>2, <3>1, <4>2, <5>2
      <4> QED BY <4>1, <4>2
    <3>4. InStep(p)'
      BY <3>3 DEF InStep
    <3> QED BY <1>4, <1>5, <2>1, <3>4 DEF FollowedBy
  <2> QED BY <2>2, <2>3
<1>11. ASSUME DropFound(h) PROVE FollowedBy(p)'
  <2> DEFINE d == handler[h].data
  <2>1. d \in EmailsIn[q] /\ d \in Emails /\ handler'[h] = Idle
        /\ pool' = [pool EXCEPT ![d] = None]
    BY <1>0, <1>11, HandlerCases DEF DropFound, HandlerAtHome
  <2>2. CASE q # p
    BY <1>9, <2>1, <2>2
  <2>3. CASE q = p
    <3>1. file'[p] = None
      BY <1>2, <1>11, <2>3 DEF DropFound, FollowedBy
    <3>2. ASSUME NEW e \in Emails PROVE e \notin From(p)'
      <4>1. CASE e = d
        BY <1>0, <2>1, <4>1 DEF From
      <4>2. CASE e # d
        <5>1. pool'[e] = pool[e]
          BY <1>0, <2>1, <4>2
        <5>2. ASSUME pool[e] # None, pool[e].path = p PROVE FALSE
          <6>1. e \in EmailsIn[p] /\ d \in EmailsIn[p]
            BY <1>0, <2>1, <2>3, <5>2 DEF PoolAtHome
          <6> QED BY <4>2, <6>1, OneOwner
        <5> QED BY <5>1, <5>2 DEF From
      <4> QED BY <4>1, <4>2
    <3>3. InStep(p)'
      BY <3>1, <3>2 DEF InStep
    <3> QED BY <1>4, <1>5, <2>1, <3>3 DEF FollowedBy
  <2> QED BY <2>2, <2>3
<1> QED BY <1>7, <1>8, <1>10, <1>11 DEF Handle

(* A settled path stays followed, and a path that becomes settled is       *)
(* followed: by LoadDir, or by the last handler that started.              *)
LEMMA FollowedNext ==
  ASSUME OneFilePerEmail, Ready, Followed, [Next]_vars
  PROVE  Followed'
<1> USE DEF watcher
<1> SUFFICES ASSUME NEW p \in Paths, Settled(p)' PROVE FollowedBy(p)'
  BY DEF Followed
<1>1. CASE LoadDir
  BY <1>1, FollowedLoaded
<1>2. ASSUME NEW h \in Handlers, Fire(p, h) PROVE FollowedBy(p)'
  BY <1>2, FollowedFired
<1>3. CASE ~ LoadDir /\ \A h \in Handlers : ~ Fire(p, h)
  <2>1. /\ Settled(p) /\ FollowedBy(p)
        /\ file'[p] = file[p] \/ Stop
        /\ \A e \in Emails : AdminDelete(e) => pool[e].path # p
    BY <1>3, SettledBefore DEF Followed
  <2>2. ~ Stop
    <3>1. ASSUME Stop PROVE up' = "down"
      BY <3>1 DEF Stop
    <3> QED BY <3>1 DEF Settled
  <2>3. CASE UNCHANGED <<pool, handler>>
    BY <2>1, <2>2, <2>3, FollowedKept
  <2>4. ASSUME NEW e \in Emails, AdminDelete(e) PROVE FollowedBy(p)'
    <3>1. /\ pool' = [pool EXCEPT ![e] = None] /\ file' = file /\ handler' = handler
          /\ pool[e] # None /\ pool[e].path # p
      BY <2>1, <2>4 DEF AdminDelete
    <3>2. pool \in [Emails -> Accounts \cup {None}]
      BY DEF Ready, Typed, TypeOK
    <3>3. ASSUME InStep(p) PROVE InStep(p)'
      <4> SUFFICES ASSUME NEW f \in Emails
                   PROVE  LET held == file'[p] # None /\ file'[p].email = f
                          IN  /\ held <=> f \in From(p)'
                              /\ held => pool'[f].version = file'[p].version
        BY DEF InStep
      <4>1. f \in From(p)' <=> f \in From(p)
        BY <3>1, <3>2 DEF From
      <4>2. f \in From(p) => pool'[f] = pool[f]
        BY <3>1, <3>2 DEF From
      <4> QED BY <3>1, <3>3, <4>1, <4>2 DEF InStep
    <3>4. Alone(p)' => Alone(p)
      BY <3>1 DEF Alone
    <3> QED BY <2>1, <3>1, <3>3, <3>4 DEF FollowedBy
  <2>5. ASSUME NEW q \in Paths, NEW h \in Handlers, Fire(q, h) PROVE FollowedBy(p)'
    <3>1. q # p /\ handler \in [Handlers -> HandlerType] /\ None \notin Paths
      BY <1>3, <2>5, SentinelAssumption DEF Ready, Typed, TypeOK, HandlerType
    <3>2. pool' = pool /\ file' = file /\ handler[h].path # p /\ handler'[h].path # p
          /\ \A g \in Handlers : g # h => handler'[g] = handler[g]
      BY <2>5, <3>1 DEF Fire, Idle
    <3> QED BY <2>1, <3>2, FollowedKept
  <2>6. ASSUME NEW h \in Handlers, Handle(h) PROVE FollowedBy(p)'
    BY <2>1, <2>6, FollowedHandled
  <2>7. ASSUME Next
        PROVE  \/ Stop \/ UNCHANGED <<pool, handler>>
               \/ \E e \in Emails : AdminDelete(e)
               \/ \E q \in Paths, h \in Handlers : Fire(q, h)
               \/ \E h \in Handlers : Handle(h)
    BY <1>3, <2>7 DEF Next, Disk, WriteBegin, WriteEnd, Delete, WatchDir, Debounce
  <2>8. CASE UNCHANGED vars
    BY <2>3, <2>8 DEF vars
  <2> QED BY <2>2, <2>3, <2>4, <2>5, <2>6, <2>7, <2>8
<1> QED BY <1>1, <1>2, <1>3

(* When the files belong to one email each and the events of a path have   *)
(* been dealt with, the pool holds its account in its last version, or no  *)
(* account if the file is gone, unless handlers of the path overlapped     *)
(* (watch.go:33-92).                                                       *)
THEOREM QuietInStep == Spec => []QuietPoolInStep
<1>1. Init => Ready /\ Followed
  <2> SUFFICES ASSUME Init PROVE Ready /\ Followed
    OBVIOUS
  <2>1. Followed
    BY DEF Init, Followed, Settled
  <2> QED BY <2>1, ReadyInit
<1>2. Ready /\ Followed /\ [Next]_vars => (Ready /\ Followed)'
  <2> SUFFICES ASSUME Ready, Followed, [Next]_vars PROVE (Ready /\ Followed)'
    OBVIOUS
  <2>1. Ready'
    BY ReadyNext
  <2>2. CASE OneFilePerEmail
    BY <2>1, <2>2, FollowedNext
  <2>3. CASE ~ OneFilePerEmail
    BY <2>1, <2>3 DEF Followed, OneFilePerEmail
  <2> QED BY <2>2, <2>3
<1>3. Followed => QuietPoolInStep
  <2> SUFFICES ASSUME Followed, OneFilePerEmail,
                      NEW p \in Paths, Quiet(p), p \notin unsure
               PROVE  InStep(p)
    BY DEF QuietPoolInStep
  <2>1. Settled(p) /\ Alone(p) /\ file[p] # Torn
    BY DEF Quiet, Settled, Free, Alone
  <2> QED BY <2>1 DEF Followed, FollowedBy
<1> QED BY <1>1, <1>2, <1>3, PTL DEF Spec

==============================================================================
