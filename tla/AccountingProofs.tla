-------------------------- MODULE AccountingProofs ---------------------------
(***************************************************************************)
(* Proofs about Accounting, and about the scanner of Relay that it feeds.  *)
(*                                                                         *)
(* The scanner is followed line by line: after the first a lines of an     *)
(* answer it is Upto(answer, a), whatever the chunks were.  The totals are *)
(* followed from memory through the snapshots in hand and the queue to the *)
(* store, by what Replay leaves of a list of writes.                       *)
(***************************************************************************)
EXTENDS Accounting, FiniteSetTheorems, SequenceTheorems, WellFoundedInduction, TLAPS

-----------------------------------------------------------------------------
(* Numbers.                                                                *)

(* Every nonempty set of naturals has a least element.                     *)
LEMMA LeastNat ==
  ASSUME NEW T, T \subseteq Nat, T # {}
  PROVE  \E x \in T : \A y \in T : x <= y
<1>1. PICK x \in T : \A y \in T : ~ (<<y, x>> \in OpToRel(<, Nat))
  BY NatLessThanWellFounded, WFMin
<1>2. \A y \in T : <<y, x>> \in Nat \X Nat
  OBVIOUS
<1>3. \A y \in T : ~(y < x)
  BY <1>1, <1>2 DEF OpToRel
<1> QED BY <1>3

(* A set of numbers up to n that has 0 and with each number the next has   *)
(* them all.                                                               *)
LEMMA AllUpto ==
  ASSUME NEW n \in Nat, NEW S, 0 \in S,
         \A i \in 0..n : i < n /\ i \in S => i + 1 \in S
  PROVE  \A i \in 0..n : i \in S
<1>1. SUFFICES ASSUME {i \in 0..n : i \notin S} # {} PROVE FALSE
  OBVIOUS
<1>2. PICK m \in {i \in 0..n : i \notin S} : \A j \in {i \in 0..n : i \notin S} : m <= j
  <2> DEFINE T == {i \in 0..n : i \notin S}
  <2>1. T \subseteq Nat /\ T # {}
    BY <1>1
  <2> HIDE DEF T
  <2>2. \E x \in T : \A y \in T : x <= y
    BY <2>1, LeastNat
  <2> QED BY <2>2 DEF T
<1>3. m # 0 /\ m - 1 \in 0..n /\ m - 1 < n /\ ~ (m <= m - 1) /\ (m - 1) + 1 = m
  OBVIOUS
<1>4. m - 1 \in S
  BY <1>2, <1>3
<1> QED BY <1>3, <1>4

(* Where a line stands: how many events are before it, and how many lines  *)
(* of its own.                                                             *)
LEMMA Halves ==
  ASSUME NEW a \in Nat
  PROVE  /\ a \div 2 \in Nat /\ a % 2 \in 0..1 /\ a = 2 * (a \div 2) + (a % 2)
         /\ a % 2 = 0 => (a + 1) \div 2 = a \div 2 /\ (a + 1) % 2 = 1
         /\ a % 2 = 1 => (a + 1) \div 2 = (a \div 2) + 1 /\ (a + 1) % 2 = 0
OBVIOUS

(* What remains of a number by three, one further.                         *)
LEMMA Thirds ==
  ASSUME NEW a \in Nat
  PROVE  /\ a \div 3 \in Nat /\ a % 3 \in 0..2 /\ a = 3 * (a \div 3) + (a % 3)
         /\ a % 3 # 2 => (a + 1) \div 3 = a \div 3 /\ (a + 1) % 3 = (a % 3) + 1
         /\ a % 3 = 2 => (a + 1) \div 3 = (a \div 3) + 1 /\ (a + 1) % 3 = 0
OBVIOUS

-----------------------------------------------------------------------------
(* The dialects.                                                           *)

(* An event leaves counts.                                                 *)
LEMMA ApplyCounts ==
  ASSUME NEW kind \in Kinds, NEW type, NEW d \in Payload, NEW u \in Usage
  PROVE  Apply(kind, type, d, u) \in Usage
<1>1. d.usage \in Usage
  BY DEF Payload
<1>2. \A x \in Usage : Summed(x) \in Usage
  BY DEF Summed, Usage
<1>3. Responses(type, d, u) \in Usage
  BY <1>1, <1>2 DEF Responses
<1>4. Anthropic(type, d, u) \in Usage
  BY <1>1, <1>2 DEF Anthropic, Positive, Usage
<1>5. Chat(d, u) \in Usage
  BY <1>1, <1>2 DEF Chat, Positive, Usage
<1> QED BY <1>3, <1>4, <1>5 DEF Apply, Kinds

-----------------------------------------------------------------------------
(* What the events say.                                                    *)

(* Told is the end of a walk through the events.                           *)
LEMMA ToldWalks ==
  ASSUME NEW kind \in Kinds, NEW ev \in Seq(Events)
  PROVE  \E f \in [0..Len(ev) -> Usage] :
           /\ f[0] = NoUsage
           /\ \A i \in 1..Len(ev) : f[i] = Apply(kind, ev[i].type, ev[i].data, f[i - 1])
           /\ Told(kind, ev) = f[Len(ev)]
<1> DEFINE N == Len(ev)
           Step(i, u) == Apply(kind, ev[i].type, ev[i].data, u)
           Walk(n, f) == f[0] = NoUsage /\ \A i \in 1..n : f[i] = Step(i, f[i - 1])
           S == {n \in 0..N : \E f \in [0..n -> Usage] : Walk(n, f)}
<1>1. N \in Nat /\ \A i \in 1..N : ev[i].data \in Payload
  <2>1. N \in Nat /\ \A i \in 1..N : ev[i] \in Events
    OBVIOUS
  <2> QED BY <2>1 DEF Events
<1>2. \A i \in 1..N : \A u \in Usage : Step(i, u) \in Usage
  BY <1>1, ApplyCounts
<1>3. 0 \in S
  <2> DEFINE f == [i \in 0..0 |-> NoUsage]
  <2>1. f \in [0..0 -> Usage] /\ f[0] = NoUsage
    BY DEF Usage, NoUsage
  <2>2. \A i \in 1..0 : f[i] = Step(i, f[i - 1])
    OBVIOUS
  <2>3. 0 \in 0..N
    BY <1>1
  <2> HIDE DEF f, Step, N
  <2> QED BY <2>1, <2>2, <2>3
<1>4. ASSUME NEW n \in 0..N, n < N, n \in S PROVE n + 1 \in S
  <2>1. PICK f \in [0..n -> Usage] : Walk(n, f)
    BY <1>4
  <2> HIDE DEF Step, N
  <2> DEFINE g == [i \in 0..(n + 1) |-> IF i = n + 1 THEN Step(n + 1, f[n]) ELSE f[i]]
  <2>2. n \in 0..n /\ n + 1 \in 1..N /\ f[n] \in Usage
    BY <1>1, <1>4, <2>1
  <2>3. g \in [0..(n + 1) -> Usage]
    BY <1>1, <1>2, <2>1, <2>2
  <2>4. g[0] = NoUsage
    BY <1>1, <1>4, <2>1
  <2>5. ASSUME NEW i \in 1..(n + 1) PROVE g[i] = Step(i, g[i - 1])
    <3>1. CASE i = n + 1
      <4>1. i - 1 = n /\ i - 1 \in 0..(n + 1) /\ i \in 0..(n + 1) /\ n # n + 1
        BY <1>1, <1>4, <3>1
      <4>2. g[i] = Step(n + 1, f[n]) /\ g[i - 1] = f[n]
        BY <3>1, <4>1
      <4> QED BY <3>1, <4>2
    <3>2. CASE i # n + 1
      <4>1. i \in 1..n /\ i \in 0..(n + 1) /\ i - 1 \in 0..(n + 1) /\ i - 1 # n + 1
        BY <1>1, <1>4, <3>2
      <4>2. g[i] = f[i] /\ g[i - 1] = f[i - 1]
        BY <3>2, <4>1
      <4> QED BY <2>1, <4>1, <4>2
    <3> QED BY <3>1, <3>2
  <2>6. n + 1 \in 0..N
    BY <2>2, <1>1
  <2> HIDE DEF g
  <2> QED BY <2>3, <2>4, <2>5, <2>6
<1>5. N \in S
  <2> HIDE DEF S
  <2>1. \A i \in 0..N : i \in S
    BY <1>1, <1>3, <1>4, AllUpto
  <2> QED BY <1>1, <2>1
<1>6. PICK f \in [0..N -> Usage] : Walk(N, f)
  BY <1>5
<1> DEFINE Eqn(g) == g = [i \in 0..N |-> IF i = 0 THEN NoUsage ELSE Step(i, g[i - 1])]
<1>7. Eqn(f)
  <2>1. \A i \in 0..N : i # 0 => i \in 1..N
    BY <1>1
  <2> HIDE DEF Step, N
  <2> QED BY <1>6, <2>1
<1> DEFINE t == CHOOSE g : Eqn(g)
<1>8. Eqn(t)
  BY <1>7
<1>9. Told(kind, ev) = t[N]
  BY DEF Told
<1>10. t[0] = NoUsage /\ \A i \in 1..N : t[i] = Step(i, t[i - 1])
  <2>1. 0 \in 0..N /\ \A i \in 1..N : i \in 0..N /\ i # 0
    BY <1>1
  <2> HIDE DEF Step, N, t
  <2> QED BY <1>8, <2>1
<1>11. \A i \in 0..N : t[i] = f[i]
  <2> HIDE DEF Step, N, t
  <2> DEFINE T == {i \in 0..N : t[i] = f[i]}
  <2>1. 0 \in T
    BY <1>1, <1>6, <1>10
  <2>2. ASSUME NEW i \in 0..N, i < N, i \in T PROVE i + 1 \in T
    <3>1. i + 1 \in 1..N /\ (i + 1) - 1 = i /\ i + 1 \in 0..N
      BY <1>1, <2>2
    <3>2. t[i + 1] = Step(i + 1, t[i]) /\ f[i + 1] = Step(i + 1, f[i])
      BY <1>6, <1>10, <3>1
    <3> QED BY <2>2, <3>1, <3>2
  <2>3. \A i \in 0..N : i \in T
    <3> HIDE DEF T
    <3> QED BY <1>1, <2>1, <2>2, AllUpto
  <2> QED BY <2>3
<1>12. t[N] = f[N]
  BY <1>1, <1>11
<1> HIDE DEF t
<1> QED BY <1>6, <1>9, <1>12

(* It says a usage, nothing of no events, and of one event more what this  *)
(* one adds.                                                               *)
LEMMA ToldNext ==
  ASSUME NEW kind \in Kinds, NEW ev \in Seq(Events), NEW m \in 0..Len(ev)
  PROVE  /\ Told(kind, SubSeq(ev, 1, m)) \in Usage
         /\ m = 0 => Told(kind, SubSeq(ev, 1, m)) = NoUsage
         /\ m < Len(ev) =>
              Told(kind, SubSeq(ev, 1, m + 1)) =
                Apply(kind, ev[m + 1].type, ev[m + 1].data, Told(kind, SubSeq(ev, 1, m)))
<1> DEFINE p == SubSeq(ev, 1, m)
           q == SubSeq(ev, 1, m + 1)
<1>1. /\ m \in Nat /\ p \in Seq(Events) /\ Len(p) = m
      /\ \A i \in 1..m : p[i] = ev[i]
  OBVIOUS
<1>2. PICK f \in [0..m -> Usage] :
        /\ f[0] = NoUsage
        /\ \A i \in 1..m : f[i] = Apply(kind, ev[i].type, ev[i].data, f[i - 1])
        /\ Told(kind, p) = f[m]
  <2> HIDE DEF p
  <2> QED BY <1>1, ToldWalks
<1>3. ASSUME m < Len(ev)
      PROVE  Told(kind, q) = Apply(kind, ev[m + 1].type, ev[m + 1].data, f[m])
  <2>1. /\ q \in Seq(Events) /\ Len(q) = m + 1
        /\ \A i \in 1..(m + 1) : q[i] = ev[i]
    BY <1>3
  <2> HIDE DEF q
  <2>2. PICK g \in [0..Len(q) -> Usage] :
          /\ g[0] = NoUsage
          /\ \A i \in 1..Len(q) : g[i] = Apply(kind, q[i].type, q[i].data, g[i - 1])
          /\ Told(kind, q) = g[Len(q)]
    BY <2>1, ToldWalks, Zenon
  <2> DEFINE T == {i \in 0..m : f[i] = g[i]}
  <2>3. \A i \in 0..m : i \in T
    <3>1. 0 \in T
      BY <1>1, <1>2, <2>2
    <3>2. ASSUME NEW i \in 0..m, i < m, i \in T PROVE i + 1 \in T
      <4>1. /\ i + 1 \in 1..m /\ i + 1 \in 1..(m + 1) /\ (i + 1) - 1 = i
            /\ i + 1 \in 0..m
        BY <1>1, <3>2
      <4>2. f[i + 1] = Apply(kind, ev[i + 1].type, ev[i + 1].data, f[i])
        BY <1>2, <4>1
      <4>3. g[i + 1] = Apply(kind, ev[i + 1].type, ev[i + 1].data, g[i])
        BY <2>1, <2>2, <4>1
      <4> QED BY <3>2, <4>1, <4>2, <4>3
    <3> HIDE DEF T
    <3> QED BY <1>1, <3>1, <3>2, AllUpto
  <2>4. \A i \in 0..m : f[i] = g[i]
    BY <2>3
  <2>5. (m + 1) - 1 = m /\ m + 1 \in 1..(m + 1)
    BY <1>1
  <2>6. g[m + 1] = Apply(kind, ev[m + 1].type, ev[m + 1].data, g[m]) /\ f[m] = g[m]
    <3>1. m \in 0..m
      BY <1>1
    <3> QED BY <2>1, <2>2, <2>4, <2>5, <3>1
  <2> QED BY <2>1, <2>2, <2>6
<1>4. f[m] \in Usage
  BY <1>1, <1>2
<1> HIDE DEF p, q
<1>5. Told(kind, p) \in Usage /\ (m = 0 => Told(kind, p) = NoUsage)
      /\ (m < Len(ev) => Told(kind, q) = Apply(kind, ev[m + 1].type, ev[m + 1].data,
                                               Told(kind, p)))
  BY <1>2, <1>3, <1>4
<1> QED BY <1>5 DEF p, q

-----------------------------------------------------------------------------
(* The scanner.                                                            *)

(* Of a lines of an answer s: the complete events, what they say, the      *)
(* lines of the next one; and the scanner that has read them.              *)
Before(s, a) == a \div Height(s.kind)
Heard(s, m) == Told(s.kind, SubSeq(s.events, 1, m))
Cut(s, a) ==
  LET e == s.events[Before(s, a) + 1]
      r == a % Height(s.kind)
  IN CASE r = 0 -> << >>
       [] r = 1 /\ s.kind = "chat" -> <<DataLine(e.data)>>
       [] r = 1 /\ s.kind # "chat" -> <<TypeLine(e.type)>>
       [] OTHER -> <<TypeLine(e.type), DataLine(e.data)>>
Upto(s, a) == [buf |-> Cut(s, a), usage |-> Heard(s, Before(s, a))]

Answers == [kind : Kinds, body : BOOLEAN, events : Seq(Events)]
Lined(s) == Wire(s.kind, s.events)

(* An answer has two or three lines for each event, and where they are.    *)
LEMMA Layout ==
  ASSUME NEW s \in Answers
  PROVE  /\ s.kind \in Kinds /\ s.events \in Seq(Events)
         /\ Len(Lined(s)) \in Nat /\ Len(Lined(s)) = Height(s.kind) * Len(s.events)
         /\ Lined(s) \in Seq({Lined(s)[i] : i \in 1..Len(Lined(s))})
         /\ \A a \in 0..Len(Lined(s)) :
              /\ a \in Nat /\ Before(s, a) \in 0..Len(s.events)
              /\ a < Len(Lined(s)) =>
                   /\ Before(s, a) < Len(s.events)
                   /\ Lined(s)[a + 1] = Block(s.kind, s.events[Before(s, a) + 1])
                                             [(a % Height(s.kind)) + 1]
<1> DEFINE n == Len(s.events)
           h == Height(s.kind)
<1>1. s.kind \in Kinds /\ s.events \in Seq(Events)
  BY DEF Answers
<1>2. n \in Nat
  BY <1>1
<1>3. (s.kind = "chat" /\ h = 2) \/ (s.kind # "chat" /\ h = 3)
  BY DEF Height
<1>4. h * n \in Nat
  BY <1>2, <1>3
<1>5. /\ Lined(s) = [i \in 1..(h * n) |->
                       Block(s.kind, s.events[((i - 1) \div h) + 1])[((i - 1) % h) + 1]]
  BY DEF Lined, Wire
<1> HIDE DEF n, h
<1>6. /\ Len(Lined(s)) = h * n
      /\ Lined(s) \in Seq({Lined(s)[i] : i \in 1..Len(Lined(s))})
  <2> DEFINE f == Lined(s)
  <2>1. DOMAIN f = 1..(h * n) /\ Len(f) = h * n /\ f = [i \in 1..(h * n) |-> f[i]]
    BY <1>4, <1>5
  <2> HIDE DEF f
  <2>2. f \in Seq({f[i] : i \in 1..(h * n)})
    BY <1>4, <2>1
  <2> QED BY <2>1, <2>2 DEF f
<1>7. ASSUME NEW a \in 0..(h * n)
      PROVE  /\ a \in Nat /\ a \div h \in 0..n
             /\ a < h * n => /\ a \div h < n
                             /\ Lined(s)[a + 1] =
                                  Block(s.kind, s.events[(a \div h) + 1])[(a % h) + 1]
  <2>1. a \in Nat
    BY <1>4
  <2>2. a \div h \in 0..n /\ (a < h * n => a \div h < n)
    <3>1. CASE h = 2
      BY <1>2, <2>1, <3>1, Halves
    <3>2. CASE h = 3
      BY <1>2, <2>1, <3>2, Thirds
    <3> QED BY <1>3, <3>1, <3>2
  <2>3. ASSUME a < h * n
        PROVE  Lined(s)[a + 1] = Block(s.kind, s.events[(a \div h) + 1])[(a % h) + 1]
    <3>1. a + 1 \in 1..(h * n) /\ (a + 1) - 1 = a
      BY <1>4, <2>1, <2>3
    <3> QED BY <1>5, <3>1
  <2> QED BY <2>1, <2>2, <2>3
<1>8. ASSUME NEW a \in 0..Len(Lined(s))
      PROVE  /\ a \in Nat /\ Before(s, a) \in 0..n
             /\ a < Len(Lined(s)) =>
                  /\ Before(s, a) < n
                  /\ Lined(s)[a + 1] = Block(s.kind, s.events[Before(s, a) + 1])[(a % h) + 1]
  <2> DEFINE N == h * n
             d == a \div h
  <2>1. a \in 0..N /\ Len(Lined(s)) = N
    BY <1>6
  <2>2. Before(s, a) = d
    BY DEF Before, h
  <2>3. /\ a \in Nat /\ d \in 0..n
        /\ a < N => /\ d < n
                    /\ Lined(s)[a + 1] = Block(s.kind, s.events[d + 1])[(a % h) + 1]
    BY <1>7, <2>1
  <2> HIDE DEF N, d
  <2> QED BY <2>1, <2>2, <2>3
<1> QED BY <1>1, <1>4, <1>6, <1>8 DEF n, h

(* The lines of an event, parsed: where they are, and what comes of them.  *)
Marked(lines, l) == {i \in DOMAIN lines : lines[i].line = l}

(* What Parse makes of a block, by where its lines are marked.             *)
LEMMA ParseBy ==
  ASSUME NEW kind, NEW lines, NEW u
  PROVE  ParseEvent(kind, lines, u) =
           IF Marked(lines, "data") = {} THEN u
           ELSE Apply(kind, IF Marked(lines, "event") = {} THEN "none"
                            ELSE lines[Max(Marked(lines, "event"))].of,
                      lines[Max(Marked(lines, "data"))].of, u)
BY DEF ParseEvent, Marked

(* The fields of the two kinds of line.                                    *)
LEMMA LineParts ==
  /\ \A t : TypeLine(t).line = "event" /\ TypeLine(t).of = t
  /\ \A d : DataLine(d).line = "data" /\ DataLine(d).of = d
  /\ Max({1}) = 1 /\ Max({2}) = 2
BY DEF TypeLine, DataLine, Max

(* A block of a type alone says nothing of usage.                          *)
LEMMA ParseTypeAlone ==
  ASSUME NEW kind, NEW t, NEW u
  PROVE  ParseEvent(kind, <<TypeLine(t)>>, u) = u
<1> DEFINE l == TypeLine(t)
<1>1. l.line = "event"
  BY LineParts
<1> HIDE DEF l
<1>2. Marked(<<l>>, "data") = {}
  BY <1>1 DEF Marked
<1> QED BY <1>2, ParseBy DEF l

(* Nor does an empty one.                                                  *)
LEMMA ParseNoLine ==
  ASSUME NEW kind, NEW u
  PROVE  ParseEvent(kind, << >>, u) = u
<1>1. Marked(<< >>, "data") = {}
  BY DEF Marked
<1> QED BY <1>1, ParseBy

(* A block of data alone is the event without a type.                      *)
LEMMA ParseDataAlone ==
  ASSUME NEW kind, NEW d, NEW u
  PROVE  ParseEvent(kind, <<DataLine(d)>>, u) = Apply(kind, "none", d, u)
<1> DEFINE l == DataLine(d)
           b == <<l>>
<1>1. l.line = "data" /\ l.of = d
  BY LineParts
<1> HIDE DEF l
<1>2. Marked(b, "data") = {1} /\ Marked(b, "event") = {} /\ b[1].of = d
  BY <1>1 DEF Marked
<1>3. {1} # {} /\ Max({1}) = 1
  BY LineParts
<1> HIDE DEF b
<1>4. ParseEvent(kind, b, u) = Apply(kind, "none", d, u)
  BY <1>2, <1>3, ParseBy
<1> QED BY <1>4 DEF b, l

(* A type and data are the event.                                          *)
LEMMA ParseTypeAndData ==
  ASSUME NEW kind, NEW t, NEW d, NEW u
  PROVE  ParseEvent(kind, <<TypeLine(t), DataLine(d)>>, u) = Apply(kind, t, d, u)
<1> DEFINE k == TypeLine(t)
           l == DataLine(d)
           b == <<k, l>>
<1>1. l.line = "data" /\ l.of = d /\ k.line = "event" /\ k.of = t
  BY LineParts
<1> HIDE DEF k, l
<1>2. /\ Marked(b, "data") = {2} /\ Marked(b, "event") = {1}
      /\ b[1].of = t /\ b[2].of = d
  BY <1>1 DEF Marked
<1>3. {1} # {} /\ {2} # {} /\ Max({1}) = 1 /\ Max({2}) = 2
  BY LineParts
<1> HIDE DEF b
<1>4. ParseEvent(kind, b, u) = Apply(kind, t, d, u)
  BY <1>2, <1>3, ParseBy
<1> QED BY <1>4 DEF b, k, l

(* A second line.                                                          *)
LEMMA AppendSecond ==
  ASSUME NEW x, NEW y
  PROVE  Append(<<x>>, y) = <<x, y>>
<1> DEFINE T == {x, y}
           s == Append(<<x>>, y)
           t == <<x, y>>
<1>1. s \in Seq(T) /\ Len(s) = 2 /\ s[1] = x /\ s[2] = y
  <2>1. x \in T /\ y \in T
    OBVIOUS
  <2> HIDE DEF T
  <2> QED BY <2>1
<1>2. t \in Seq(T) /\ Len(t) = 2 /\ t[1] = x /\ t[2] = y
  OBVIOUS
<1> HIDE DEF s, t, T
<1>3. \A i \in 1..Len(s) : s[i] = t[i]
  BY <1>1, <1>2
<1>4. s = t
  BY <1>1, <1>2, <1>3, SeqEqual
<1> QED BY <1>4 DEF s, t

(* One line more.                                                          *)
LEMMA ReadLine ==
  ASSUME NEW s \in Answers, NEW a \in 0..Len(Lined(s)), a < Len(Lined(s))
  PROVE  Scan(s.kind, Upto(s, a), Lined(s)[a + 1]) = Upto(s, a + 1)
<1> DEFINE m == Before(s, a)
           e == s.events[m + 1]
           h == Height(s.kind)
           l == Lined(s)[a + 1]
           u == Heard(s, m)
<1>0. a \in Nat
  BY Layout
<1>1. /\ a \in Nat /\ m \in 0..Len(s.events) /\ m < Len(s.events)
      /\ s.kind \in Kinds /\ s.events \in Seq(Events)
      /\ l = Block(s.kind, e)[(a % h) + 1]
  BY Layout
<1>2. /\ m = a \div h /\ Before(s, a + 1) = (a + 1) \div h
  BY DEF Before
<1>3. Heard(s, m + 1) = Apply(s.kind, e.type, e.data, u)
  BY <1>1, ToldNext DEF Heard
<1>4. \A t, d : TypeLine(t) # Blank /\ DataLine(d) # Blank
  BY DEF TypeLine, DataLine, Blank
<1>6. /\ Upto(s, a) = [buf |-> Cut(s, a), usage |-> u]
      /\ Upto(s, a + 1) = [buf |-> Cut(s, a + 1), usage |-> Heard(s, Before(s, a + 1))]
  BY DEF Upto
<1>7. (s.kind = "chat" /\ h = 2) \/ (s.kind # "chat" /\ h = 3)
  BY DEF Height
<1>8. \A x, y : Append(<< >>, x) = <<x>> /\ Append(<<x>>, y) = <<x, y>>
  <2>1. \A x : Append(<< >>, x) = <<x>>
    OBVIOUS
  <2> QED BY <2>1, AppendSecond
<1>14. ASSUME l # Blank, Append(Cut(s, a), l) = Cut(s, a + 1), Before(s, a + 1) = m
       PROVE  Scan(s.kind, Upto(s, a), l) = Upto(s, a + 1)
  <2> HIDE DEF m, l, u
  <2>1. Scan(s.kind, Upto(s, a), l) = [buf |-> Append(Cut(s, a), l), usage |-> u]
    <3> DEFINE r == Upto(s, a)
    <3>1. r = [buf |-> Cut(s, a), usage |-> u]
      BY <1>6
    <3> HIDE DEF r
    <3>2. r.buf = Cut(s, a) /\ [r EXCEPT !.buf = Append(@, l)] = [buf |-> Append(r.buf, l), usage |-> u]
      BY <3>1
    <3>3. Scan(s.kind, r, l) = [r EXCEPT !.buf = Append(@, l)]
      BY <1>14 DEF Scan
    <3> QED BY <3>2, <3>3 DEF r
  <2>2. Upto(s, a + 1) = [buf |-> Cut(s, a + 1), usage |-> u]
    BY <1>6, <1>14 DEF u
  <2> QED BY <1>14, <2>1, <2>2
<1>15. ASSUME l = Blank, ParseEvent(s.kind, Cut(s, a), u) = Heard(s, m + 1),
              Cut(s, a + 1) = << >>, Before(s, a + 1) = m + 1
       PROVE  Scan(s.kind, Upto(s, a), l) = Upto(s, a + 1)
  <2> HIDE DEF m, l, u
  <2>1. Scan(s.kind, Upto(s, a), l)
          = [buf |-> << >>, usage |-> ParseEvent(s.kind, Cut(s, a), u)]
    BY <1>6, <1>15 DEF Scan
  <2>2. Upto(s, a + 1) = [buf |-> << >>, usage |-> Heard(s, m + 1)]
    BY <1>6, <1>15
  <2> QED BY <1>15, <2>1, <2>2
<1>9. CASE s.kind = "chat" /\ a % h = 0
  <2>1. a % 2 = 0 /\ h = 2
    BY <1>7, <1>9
  <2>2. Before(s, a + 1) = m /\ (a + 1) % h = 1
    BY <1>0, <1>2, <2>1, Halves
  <2>3. l = DataLine(e.data)
    BY <1>1, <1>9, <2>1 DEF Block
  <2>4. Cut(s, a) = << >> /\ Cut(s, a + 1) = <<DataLine(e.data)>>
    BY <1>9, <2>2 DEF Cut
  <2>5. Append(Cut(s, a), l) = Cut(s, a + 1) /\ l # Blank
    BY <1>4, <1>8, <2>3, <2>4
  <2> HIDE DEF m, e, h
  <2> QED BY <1>14, <2>2, <2>5
<1>10. CASE s.kind = "chat" /\ a % h # 0
  <2>1. a % 2 = 1 /\ h = 2
    BY <1>0, <1>7, <1>10, Halves
  <2>2. Before(s, a + 1) = m + 1 /\ (a + 1) % h = 0
    BY <1>0, <1>2, <2>1, Halves
  <2>3. l = Blank
    BY <1>1, <1>10, <2>1 DEF Block
  <2>4. Cut(s, a) = <<DataLine(e.data)>> /\ Cut(s, a + 1) = << >>
    BY <1>10, <2>1, <2>2 DEF Cut
  <2>5. Apply(s.kind, "none", e.data, u) = Apply(s.kind, e.type, e.data, u)
    BY <1>10 DEF Apply
  <2> HIDE DEF m, e, h, u
  <2>6. ParseEvent(s.kind, <<DataLine(e.data)>>, u) = Apply(s.kind, "none", e.data, u)
    <3> DEFINE k == s.kind
               d == e.data
    <3> HIDE DEF k, d
    <3>1. ParseEvent(k, <<DataLine(d)>>, u) = Apply(k, "none", d, u)
      BY ParseDataAlone
    <3> QED BY <3>1 DEF k, d
  <2> QED BY <1>3, <1>15, <2>2, <2>3, <2>4, <2>5, <2>6
<1>11. CASE s.kind # "chat" /\ a % h = 0
  <2>1. a % 3 = 0 /\ h = 3
    BY <1>7, <1>11
  <2>2. Before(s, a + 1) = m /\ (a + 1) % h = 1
    BY <1>0, <1>2, <2>1, Thirds
  <2>3. l = TypeLine(e.type)
    BY <1>1, <1>11, <2>1 DEF Block
  <2>4. Cut(s, a) = << >> /\ Cut(s, a + 1) = <<TypeLine(e.type)>>
    BY <1>11, <2>2 DEF Cut
  <2>5. Append(Cut(s, a), l) = Cut(s, a + 1) /\ l # Blank
    BY <1>4, <1>8, <2>3, <2>4
  <2> HIDE DEF m, e, h
  <2> QED BY <1>14, <2>2, <2>5
<1>12. CASE s.kind # "chat" /\ a % h = 1
  <2>1. a % 3 = 1 /\ h = 3
    BY <1>7, <1>12
  <2>2. Before(s, a + 1) = m /\ (a + 1) % h = 2
    BY <1>0, <1>2, <2>1, Thirds
  <2>3. l = DataLine(e.data)
    BY <1>1, <1>12, <2>1 DEF Block
  <2>4. /\ Cut(s, a) = <<TypeLine(e.type)>>
        /\ Cut(s, a + 1) = <<TypeLine(e.type), DataLine(e.data)>>
    BY <1>12, <2>2 DEF Cut
  <2>5. Append(Cut(s, a), l) = Cut(s, a + 1) /\ l # Blank
    BY <1>4, <1>8, <2>3, <2>4
  <2> HIDE DEF m, e, h
  <2> QED BY <1>14, <2>2, <2>5
<1>13. CASE s.kind # "chat" /\ a % h \notin {0, 1}
  <2>1. a % 3 = 2 /\ h = 3
    BY <1>0, <1>7, <1>13, Thirds
  <2>2. Before(s, a + 1) = m + 1 /\ (a + 1) % h = 0
    BY <1>0, <1>2, <2>1, Thirds
  <2>3. l = Blank
    BY <1>1, <1>13, <2>1 DEF Block
  <2>4. Cut(s, a) = <<TypeLine(e.type), DataLine(e.data)>> /\ Cut(s, a + 1) = << >>
    BY <1>13, <2>1, <2>2 DEF Cut
  <2> HIDE DEF m, e, h, u
  <2>5. ParseEvent(s.kind, <<TypeLine(e.type), DataLine(e.data)>>, u)
          = Apply(s.kind, e.type, e.data, u)
    <3> DEFINE k == s.kind
               t == e.type
               d == e.data
    <3> HIDE DEF k, t, d
    <3>1. ParseEvent(k, <<TypeLine(t), DataLine(d)>>, u) = Apply(k, t, d, u)
      BY ParseTypeAndData
    <3> QED BY <3>1 DEF k, t, d
  <2> QED BY <1>3, <1>15, <2>2, <2>3, <2>4, <2>5
<1> QED BY <1>9, <1>10, <1>11, <1>12, <1>13

(* Nothing read yet.                                                       *)
LEMMA ReadNothing ==
  ASSUME NEW s \in Answers
  PROVE  Upto(s, 0) = Scanner /\ 0 \in 0..Len(Lined(s))
<1>1. s.kind \in Kinds /\ s.events \in Seq(Events) /\ Len(Lined(s)) \in Nat
  BY Layout
<1>2. Before(s, 0) = 0 /\ 0 % Height(s.kind) = 0
  BY Halves, Thirds DEF Before, Height
<1>3. 0 \in 0..Len(s.events)
  BY <1>1
<1>4. Heard(s, 0) = NoUsage
  BY <1>1, <1>3, ToldNext DEF Heard
<1>5. Cut(s, 0) = << >>
  BY <1>2 DEF Cut
<1> QED BY <1>1, <1>2, <1>4, <1>5 DEF Upto, Scanner

(* The events whose data is among the first a lines.                       *)
Arrived(s, a) == (a + 1) \div Height(s.kind)

(* One line more of an answer is one event more when it is data.           *)
LEMMA ArrivedNext ==
  ASSUME NEW s \in Answers, NEW a \in 0..Len(Lined(s)), a < Len(Lined(s))
  PROVE  Arrived(s, a + 1) = IF Lined(s)[a + 1].line = "data" THEN Arrived(s, a) + 1
                             ELSE Arrived(s, a)
<1> DEFINE e == s.events[Before(s, a) + 1]
           h == Height(s.kind)
<1>1. /\ a \in Nat /\ Lined(s)[a + 1] = Block(s.kind, e)[(a % h) + 1]
  BY Layout
<1>2. /\ \A t : TypeLine(t).line = "event"
      /\ \A d : DataLine(d).line = "data"
      /\ Blank.line = "blank"
  BY DEF TypeLine, DataLine, Blank
<1>3. CASE s.kind = "chat"
  <2>1. h = 2 /\ Arrived(s, a) = (a + 1) \div 2 /\ Arrived(s, a + 1) = ((a + 1) + 1) \div 2
    BY <1>3 DEF Height, Arrived
  <2>2. Block(s.kind, e) = <<DataLine(e.data), Blank>>
    BY <1>3 DEF Block
  <2> HIDE DEF e
  <2>3. CASE a % 2 = 0
    <3>1. Lined(s)[a + 1].line = "data"
      BY <1>1, <1>2, <2>1, <2>2, <2>3
    <3>2. ((a + 1) + 1) \div 2 = ((a + 1) \div 2) + 1
      BY <1>1, <2>3
    <3> QED BY <2>1, <3>1, <3>2
  <2>4. CASE a % 2 = 1
    <3>1. Lined(s)[a + 1].line = "blank"
      BY <1>1, <1>2, <2>1, <2>2, <2>4
    <3>2. ((a + 1) + 1) \div 2 = (a + 1) \div 2
      BY <1>1, <2>4
    <3> QED BY <2>1, <3>1, <3>2
  <2> QED BY <1>1, <2>3, <2>4, Halves
<1>4. CASE s.kind # "chat"
  <2>1. h = 3 /\ Arrived(s, a) = (a + 1) \div 3 /\ Arrived(s, a + 1) = ((a + 1) + 1) \div 3
    BY <1>4 DEF Height, Arrived
  <2>2. Block(s.kind, e) = <<TypeLine(e.type), DataLine(e.data), Blank>>
    BY <1>4 DEF Block
  <2> HIDE DEF e
  <2>3. CASE a % 3 = 0
    <3>1. Lined(s)[a + 1].line = "event"
      BY <1>1, <1>2, <2>1, <2>2, <2>3
    <3>2. ((a + 1) + 1) \div 3 = (a + 1) \div 3
      BY <1>1, <2>3
    <3> QED BY <2>1, <3>1, <3>2
  <2>4. CASE a % 3 = 1
    <3>1. Lined(s)[a + 1].line = "data"
      BY <1>1, <1>2, <2>1, <2>2, <2>4
    <3>2. ((a + 1) + 1) \div 3 = ((a + 1) \div 3) + 1
      BY <1>1, <2>4
    <3> QED BY <2>1, <3>1, <3>2
  <2>5. CASE a % 3 = 2
    <3>1. Lined(s)[a + 1].line = "blank"
      BY <1>1, <1>2, <2>1, <2>2, <2>5
    <3>2. ((a + 1) + 1) \div 3 = (a + 1) \div 3
      BY <1>1, <2>5
    <3> QED BY <2>1, <3>1, <3>2
  <2> QED BY <1>1, <2>3, <2>4, <2>5, Thirds
<1> QED BY <1>3, <1>4

(* A chunk, wherever it is cut.                                            *)
LEMMA FeedLines ==
  ASSUME NEW s \in Answers, NEW a \in 0..Len(Lined(s)), NEW b \in (a + 1)..Len(Lined(s))
  PROVE  Feed(s.kind, Upto(s, a), SubSeq(Lined(s), a + 1, b)) = Upto(s, b)
<1> DEFINE c == SubSeq(Lined(s), a + 1, b)
           n == b - a
           Step(x, i) == Scan(s.kind, x, c[i])
           Eqn(f) == f = [i \in 0..n |-> IF i = 0 THEN Upto(s, a) ELSE Step(f[i - 1], i)]
           g == [i \in 0..n |-> Upto(s, a + i)]
           t == CHOOSE f : Eqn(f)
<1>1. a \in Nat /\ b \in Nat /\ n \in Nat /\ Len(Lined(s)) \in Nat /\ b <= Len(Lined(s))
  BY Layout
<1>2. Len(c) = n /\ \A i \in 1..n : c[i] = Lined(s)[a + i]
  <2> DEFINE T == {Lined(s)[i] : i \in 1..Len(Lined(s))}
             l == Lined(s)
  <2>1. l \in Seq(T)
    BY Layout
  <2> HIDE DEF l, T
  <2>2. Len(SubSeq(l, a + 1, b)) = n /\ \A i \in 1..n : SubSeq(l, a + 1, b)[i] = l[a + i]
    BY <1>1, <2>1 DEF l
  <2> QED BY <2>2 DEF l
<1> HIDE DEF c
<1>3. \A i \in 1..n : Step(Upto(s, a + (i - 1)), i) = Upto(s, a + i)
  <2> TAKE i \in 1..n
  <2> DEFINE d == a + (i - 1)
  <2>1. d \in 0..Len(Lined(s)) /\ d < Len(Lined(s)) /\ d + 1 = a + i
    BY <1>1
  <2> HIDE DEF d
  <2>2. Scan(s.kind, Upto(s, d), Lined(s)[d + 1]) = Upto(s, d + 1)
    BY <2>1, ReadLine
  <2> QED BY <1>2, <2>1, <2>2 DEF d
<1>4. a + 0 = a
  BY <1>1
<1>5. \A i \in 1..n : i \in 0..n /\ i - 1 \in 0..n /\ i # 0
  BY <1>1
<1>6. \A i \in 0..n : i = 0 \/ i \in 1..n
  BY <1>1
<1>7. Eqn(g)
  <2> DEFINE r == [i \in 0..n |-> IF i = 0 THEN Upto(s, a) ELSE Step(g[i - 1], i)]
  <2>1. ASSUME NEW i \in 0..n PROVE r[i] = g[i]
    <3>1. CASE i = 0
      BY <1>4, <3>1
    <3>2. CASE i \in 1..n
      <4>1. g[i - 1] = Upto(s, a + (i - 1)) /\ g[i] = Upto(s, a + i)
        BY <1>5, <3>2
      <4>2. r[i] = Step(g[i - 1], i)
        BY <1>5, <3>2
      <4> HIDE DEF Step, g, r
      <4> QED BY <1>3, <3>2, <4>1, <4>2
    <3> QED BY <1>6, <3>1, <3>2
  <2> HIDE DEF Step
  <2>2. r = g
    BY <2>1
  <2> QED BY <2>2
<1>8. Eqn(t)
  BY <1>7
<1>9. Feed(s.kind, Upto(s, a), c) = t[n]
  BY <1>2 DEF Feed
<1>10. t[0] = Upto(s, a) /\ \A i \in 1..n : t[i] = Step(t[i - 1], i)
  <2>1. 0 \in 0..n
    BY <1>1
  <2> HIDE DEF Step, t, n
  <2> QED BY <1>5, <1>8, <2>1
<1> HIDE DEF t, g, Step, n
<1> DEFINE T == {i \in 0..n : t[i] = Upto(s, a + i)}
<1>11. 0 \in T
  BY <1>1, <1>4, <1>10
<1>12. ASSUME NEW i \in 0..n, i < n, i \in T PROVE i + 1 \in T
  <2>1. i + 1 \in 1..n /\ (i + 1) - 1 = i /\ i + 1 \in 0..n
    BY <1>1, <1>12
  <2>2. t[i + 1] = Step(t[i], i + 1)
    BY <1>10, <2>1
  <2>3. Step(Upto(s, a + i), i + 1) = Upto(s, a + (i + 1))
    BY <1>3, <2>1
  <2> QED BY <1>12, <2>1, <2>2, <2>3
<1>13. \A i \in 0..n : i \in T
  <2> HIDE DEF T
  <2> QED BY <1>1, <1>11, <1>12, AllUpto
<1>14. t[n] = Upto(s, a + n) /\ a + n = b
  <2>1. n \in 0..n /\ a + n = b
    BY <1>1 DEF n
  <2> QED BY <1>13, <2>1
<1> QED BY <1>9, <1>14 DEF c

(* The end, wherever it comes: an event without its empty line counts if   *)
(* its data is there.                                                      *)
LEMMA DoneHeard ==
  ASSUME NEW s \in Answers, NEW a \in 0..Len(Lined(s))
  PROVE  /\ Arrived(s, a) \in 0..Len(s.events)
         /\ Heard(s, Arrived(s, a)) \in Usage /\ Heard(s, Before(s, a)) \in Usage
         /\ Done(s.kind, Upto(s, a)) = Heard(s, Arrived(s, a))
<1> DEFINE m == Before(s, a)
           e == s.events[m + 1]
           h == Height(s.kind)
           n == Len(s.events)
           u == Heard(s, m)
<1>0. a \in Nat
  BY Layout
<1>1. /\ a \in Nat /\ m \in 0..n /\ s.kind \in Kinds /\ s.events \in Seq(Events)
      /\ Len(Lined(s)) = h * n /\ n \in Nat /\ a <= h * n
  <2>1. /\ s.kind \in Kinds /\ s.events \in Seq(Events)
        /\ a \in Nat /\ m \in 0..n /\ Len(Lined(s)) \in Nat /\ Len(Lined(s)) = h * n
    BY Layout
  <2>2. n \in Nat /\ a <= Len(Lined(s))
    BY <2>1
  <2> QED BY <2>1, <2>2
<1>2. m = a \div h /\ Arrived(s, a) = (a + 1) \div h
  BY DEF Before, Arrived
<1>3. (s.kind = "chat" /\ h = 2) \/ (s.kind # "chat" /\ h = 3)
  BY DEF Height
<1>4. \A i \in 0..n : Heard(s, i) \in Usage
  BY <1>1, ToldNext DEF Heard
<1>5. m < n => Heard(s, m + 1) = Apply(s.kind, e.type, e.data, u)
  BY <1>1, ToldNext DEF Heard
<1>6. Done(s.kind, Upto(s, a)) = ParseEvent(s.kind, Cut(s, a), u)
  BY DEF Done, Upto
<1>7. ASSUME Arrived(s, a) = m, ParseEvent(s.kind, Cut(s, a), u) = u
      PROVE  /\ Arrived(s, a) \in 0..n
             /\ Done(s.kind, Upto(s, a)) = Heard(s, Arrived(s, a))
  BY <1>1, <1>6, <1>7
<1>8. ASSUME m < n, Arrived(s, a) = m + 1,
             ParseEvent(s.kind, Cut(s, a), u) = Apply(s.kind, e.type, e.data, u)
      PROVE  /\ Arrived(s, a) \in 0..n
             /\ Done(s.kind, Upto(s, a)) = Heard(s, Arrived(s, a))
  <2> HIDE DEF m, e, h, n, u
  <2> QED BY <1>1, <1>5, <1>6, <1>8
<1>14. SUFFICES /\ Arrived(s, a) \in 0..n
                /\ Done(s.kind, Upto(s, a)) = Heard(s, Arrived(s, a))
  BY <1>1, <1>4
<1>9. CASE s.kind = "chat" /\ a % h = 0
  <2>1. Arrived(s, a) = m
    BY <1>0, <1>2, <1>3, <1>9, Halves
  <2>2. Cut(s, a) = << >>
    BY <1>9 DEF Cut
  <2> QED BY <1>4, <1>7, <1>1, <2>1, <2>2, ParseNoLine
<1>10. CASE s.kind = "chat" /\ a % h # 0
  <2>1. a % 2 = 1 /\ h = 2 /\ Arrived(s, a) = m + 1
    BY <1>0, <1>2, <1>3, <1>10, Halves
  <2>2. m < n
    BY <1>1, <1>2, <2>1, Halves
  <2>3. Cut(s, a) = <<DataLine(e.data)>>
    BY <1>10, <2>1 DEF Cut
  <2>4. Apply(s.kind, "none", e.data, u) = Apply(s.kind, e.type, e.data, u)
    BY <1>10 DEF Apply
  <2>5. ParseEvent(s.kind, <<DataLine(e.data)>>, u) = Apply(s.kind, "none", e.data, u)
    <3> DEFINE k == s.kind
               d == e.data
    <3> HIDE DEF k, d, u
    <3>1. ParseEvent(k, <<DataLine(d)>>, u) = Apply(k, "none", d, u)
      BY ParseDataAlone
    <3> QED BY <3>1 DEF k, d
  <2> HIDE DEF m, e, h, n, u
  <2> QED BY <1>1, <1>4, <1>8, <2>1, <2>2, <2>3, <2>4, <2>5
<1>11. CASE s.kind # "chat" /\ a % h = 0
  <2>1. Arrived(s, a) = m
    BY <1>0, <1>2, <1>3, <1>11, Thirds
  <2>2. Cut(s, a) = << >>
    BY <1>11 DEF Cut
  <2> QED BY <1>4, <1>7, <1>1, <2>1, <2>2, ParseNoLine
<1>12. CASE s.kind # "chat" /\ a % h = 1
  <2>1. Arrived(s, a) = m
    BY <1>0, <1>2, <1>3, <1>12, Thirds
  <2>2. Cut(s, a) = <<TypeLine(e.type)>>
    BY <1>12 DEF Cut
  <2>3. ParseEvent(s.kind, <<TypeLine(e.type)>>, u) = u
    <3> DEFINE k == s.kind
               t == e.type
    <3> HIDE DEF k, t, u
    <3>1. ParseEvent(k, <<TypeLine(t)>>, u) = u
      BY ParseTypeAlone
    <3> QED BY <3>1 DEF k, t
  <2> HIDE DEF m, e, h, n, u
  <2> QED BY <1>1, <1>4, <1>7, <2>1, <2>2, <2>3
<1>13. CASE s.kind # "chat" /\ a % h \notin {0, 1}
  <2>1. a % 3 = 2 /\ h = 3 /\ Arrived(s, a) = m + 1
    BY <1>0, <1>2, <1>3, <1>13, Thirds
  <2>2. m < n
    BY <1>1, <1>2, <2>1, Thirds
  <2>3. Cut(s, a) = <<TypeLine(e.type), DataLine(e.data)>>
    BY <1>13, <2>1 DEF Cut
  <2>4. ParseEvent(s.kind, <<TypeLine(e.type), DataLine(e.data)>>, u)
          = Apply(s.kind, e.type, e.data, u)
    <3> DEFINE k == s.kind
               t == e.type
               d == e.data
    <3> HIDE DEF k, t, d, u
    <3>1. ParseEvent(k, <<TypeLine(t), DataLine(d)>>, u) = Apply(k, t, d, u)
      BY ParseTypeAndData
    <3> QED BY <3>1 DEF k, t, d
  <2> HIDE DEF m, e, h, n, u
  <2> QED BY <1>1, <1>4, <1>8, <2>1, <2>2, <2>3, <2>4
<1> HIDE DEF m, e, h, n, u
<1> QED BY <1>9, <1>10, <1>11, <1>12, <1>13

(* What the events say of which a lines arrived, and what may be recorded  *)
(* of them if nothing more comes: with a part of the data that is next.    *)
OneTorn(s, m, c) == Append(SubSeq(s.events, 1, m), [s.events[m + 1] EXCEPT !.data = c])
Parts(s, a) == IF a < Len(Lined(s)) /\ Lined(s)[a + 1].line = "data"
               THEN Torn(s.events[Arrived(s, a) + 1].data) ELSE {}
Recordable(s, a) ==
  {Heard(s, Arrived(s, a))}
    \cup {Told(s.kind, OneTorn(s, Arrived(s, a), c)) : c \in Parts(s, a)}

(* A part of a payload is a payload.                                       *)
LEMMA TornPayload ==
  ASSUME NEW d \in Payload
  PROVE  Torn(d) \subseteq Payload
<1>1. d.usage \in Usage /\ d.given \in BOOLEAN
  BY DEF Payload
<1>2. /\ 0..d.usage.input \subseteq Nat /\ 0..d.usage.output \subseteq Nat
      /\ 0..d.usage.total \subseteq Nat
  BY <1>1 DEF Usage
<1> QED BY <1>1, <1>2 DEF Torn, Payload, Usage

(* One event, of which a part came, after m whole ones.                    *)
LEMMA ToldTorn ==
  ASSUME NEW s \in Answers, NEW m \in 0..Len(s.events), m < Len(s.events),
         NEW c \in Payload
  PROVE  /\ Told(s.kind, OneTorn(s, m, c))
               = Apply(s.kind, s.events[m + 1].type, c, Heard(s, m))
         /\ Told(s.kind, OneTorn(s, m, c)) \in Usage
<1> DEFINE ev == s.events
           e == [ev[m + 1] EXCEPT !.data = c]
           p == SubSeq(ev, 1, m)
           q == OneTorn(s, m, c)
           k == s.kind
<1>1. k \in Kinds /\ ev \in Seq(Events) /\ m \in Nat /\ m + 1 \in 1..Len(ev)
  <2>1. k \in Kinds /\ ev \in Seq(Events)
    BY Layout
  <2> HIDE DEF ev
  <2>2. Len(ev) \in Nat /\ m \in 0..Len(ev) /\ m < Len(ev)
    BY <2>1 DEF ev
  <2> QED BY <2>1, <2>2
<1>2. ev[m + 1] \in Events
  BY <1>1
<1>3. e \in Events /\ e.data = c /\ e.type = ev[m + 1].type
  BY <1>2 DEF Events
<1>4. p \in Seq(Events) /\ Len(p) = m
  BY <1>1
<1>5. q = Append(p, e)
  BY DEF OneTorn
<1> HIDE DEF ev, e, p, q, k
<1>6. /\ q \in Seq(Events) /\ Len(q) = m + 1 /\ q[m + 1] = e
      /\ \A i \in 1..m : q[i] = p[i]
  BY <1>1, <1>3, <1>4, <1>5
<1>7. SubSeq(q, 1, m + 1) = q /\ SubSeq(q, 1, m) = p
  <2>1. /\ SubSeq(q, 1, m) \in Seq(Events) /\ Len(SubSeq(q, 1, m)) = m
        /\ \A i \in 1..m : SubSeq(q, 1, m)[i] = q[i]
    BY <1>1, <1>6
  <2>2. SubSeq(q, 1, m) = p
    BY <1>4, <1>6, <2>1, SeqEqual
  <2>3. /\ SubSeq(q, 1, m + 1) \in Seq(Events) /\ Len(SubSeq(q, 1, m + 1)) = m + 1
        /\ \A i \in 1..(m + 1) : SubSeq(q, 1, m + 1)[i] = q[i]
    BY <1>1, <1>6
  <2> QED BY <1>6, <2>2, <2>3, SeqEqual
<1>8. Told(k, q) = Apply(k, e.type, e.data, Told(k, p)) /\ Told(k, p) \in Usage
  <2>1. m \in 0..Len(q) /\ m < Len(q)
    BY <1>1, <1>6
  <2>2. /\ Told(k, SubSeq(q, 1, m + 1)) =
             Apply(k, q[m + 1].type, q[m + 1].data, Told(k, SubSeq(q, 1, m)))
        /\ Told(k, SubSeq(q, 1, m)) \in Usage
    BY <1>1, <1>6, <2>1, ToldNext, Zenon
  <2> QED BY <1>6, <1>7, <2>2
<1>9. Told(k, q) \in Usage
  BY <1>1, <1>3, <1>8, ApplyCounts
<1>10. Told(k, p) = Heard(s, m)
  BY DEF Heard, k, p, ev
<1> QED BY <1>3, <1>8, <1>9, <1>10 DEF k, q, ev

(* The end inside of a data line: its part is the data of the event.       *)
LEMMA DoneTorn ==
  ASSUME NEW s \in Answers, NEW a \in 0..Len(Lined(s)), a < Len(Lined(s)),
         Lined(s)[a + 1].line = "data", NEW c \in Torn(Lined(s)[a + 1].of)
  PROVE  LET t == [Upto(s, a) EXCEPT !.buf = Append(@, DataLine(c))]
             m == Arrived(s, a)
         IN /\ Done(s.kind, t) = Told(s.kind, OneTorn(s, m, c))
            /\ Done(s.kind, t) \in Usage
            /\ Lined(s)[a + 1].of = s.events[m + 1].data
<1> DEFINE m == Before(s, a)
           e == s.events[m + 1]
           h == Height(s.kind)
           u == Heard(s, m)
           t == [Upto(s, a) EXCEPT !.buf = Append(@, DataLine(c))]
           k == s.kind
<1>1. /\ a \in Nat /\ m \in 0..Len(s.events) /\ m < Len(s.events)
      /\ k \in Kinds /\ s.events \in Seq(Events)
      /\ Lined(s)[a + 1] = Block(k, e)[(a % h) + 1]
  BY Layout
<1>2. /\ m = a \div h /\ Arrived(s, a) = (a + 1) \div h
  BY DEF Before, Arrived
<1>3. (k = "chat" /\ h = 2) \/ (k # "chat" /\ h = 3)
  BY DEF Height
<1>4. /\ \A x : TypeLine(x).line = "event" /\ DataLine(x).line = "data" /\ DataLine(x).of = x
      /\ Blank.line = "blank"
  BY DEF TypeLine, DataLine, Blank
<1>5. t.usage = u /\ t.buf = Append(Cut(s, a), DataLine(c))
  BY DEF Upto
<1>6. Done(k, t) = ParseEvent(k, Append(Cut(s, a), DataLine(c)), u)
  BY <1>5 DEF Done
<1>7. \A x, y : Append(<< >>, x) = <<x>> /\ Append(<<x>>, y) = <<x, y>>
  <2>1. \A x : Append(<< >>, x) = <<x>>
    OBVIOUS
  <2> QED BY <2>1, AppendSecond
<1>8. /\ Arrived(s, a) = m /\ Lined(s)[a + 1].of = e.data
      /\ Done(k, t) = Apply(k, e.type, c, u)
  <2>1. CASE k = "chat"
    <3>1. h = 2 /\ Block(k, e) = <<DataLine(e.data), Blank>>
      BY <1>3, <2>1 DEF Block
    <3> HIDE DEF e, u, t, m
    <3>2. a % 2 = 0
      <4>1. CASE a % 2 = 1
        <5>1. Lined(s)[a + 1] = Blank
          BY <1>1, <3>1, <4>1
        <5> QED BY <1>4, <5>1
      <4> QED BY <1>1, <4>1, Halves
    <3>3. Arrived(s, a) = m
      BY <1>1, <1>2, <3>1, <3>2, Halves
    <3>4. Lined(s)[a + 1] = DataLine(e.data)
      BY <1>1, <3>1, <3>2
    <3>5. Cut(s, a) = << >>
      BY <3>1, <3>2 DEF Cut, h
    <3>6. Done(k, t) = ParseEvent(k, <<DataLine(c)>>, u)
      BY <1>6, <1>7, <3>5
    <3>7. ParseEvent(k, <<DataLine(c)>>, u) = Apply(k, "none", c, u)
      BY ParseDataAlone
    <3>8. Apply(k, "none", c, u) = Apply(k, e.type, c, u)
      BY <2>1 DEF Apply
    <3> QED BY <1>4, <3>3, <3>4, <3>6, <3>7, <3>8
  <2>2. CASE k # "chat"
    <3>1. h = 3 /\ Block(k, e) = <<TypeLine(e.type), DataLine(e.data), Blank>>
      BY <1>3, <2>2 DEF Block
    <3>9. Cut(s, a) = IF a % h = 1 THEN <<TypeLine(e.type)>> ELSE Cut(s, a)
      BY <2>2, <3>1 DEF Cut
    <3> HIDE DEF e, u, t, m
    <3>2. a % 3 = 1
      <4>1. CASE a % 3 = 0
        <5>1. Lined(s)[a + 1] = TypeLine(e.type)
          BY <1>1, <3>1, <4>1
        <5> QED BY <1>4, <5>1
      <4>2. CASE a % 3 = 2
        <5>1. Lined(s)[a + 1] = Blank
          BY <1>1, <3>1, <4>2
        <5> QED BY <1>4, <5>1
      <4> QED BY <1>1, <4>1, <4>2, Thirds
    <3>3. Arrived(s, a) = m
      BY <1>1, <1>2, <3>1, <3>2, Thirds
    <3>4. Lined(s)[a + 1] = DataLine(e.data)
      BY <1>1, <3>1, <3>2
    <3>5. Cut(s, a) = <<TypeLine(e.type)>>
      BY <3>1, <3>2, <3>9
    <3>6. Done(k, t) = ParseEvent(k, <<TypeLine(e.type), DataLine(c)>>, u)
      BY <1>6, <1>7, <3>5
    <3>7. ParseEvent(k, <<TypeLine(e.type), DataLine(c)>>, u) = Apply(k, e.type, c, u)
      BY ParseTypeAndData
    <3> QED BY <1>4, <3>3, <3>4, <3>6, <3>7
  <2> QED BY <2>1, <2>2
<1>9. c \in Payload
  <2>1. e \in Events
    BY <1>1
  <2>2. e.data \in Payload
    BY <2>1 DEF Events
  <2> QED BY <1>8, <2>2, TornPayload
<1>10. /\ Told(s.kind, OneTorn(s, m, c)) = Apply(k, e.type, c, u)
       /\ Told(s.kind, OneTorn(s, m, c)) \in Usage
  BY <1>1, <1>9, ToldTorn
<1> HIDE DEF u, t, m
<1> QED BY <1>8, <1>10 DEF t

(* Wherever the answer that a goroutine relays ends, what the scanner makes *)
(* of it may be recorded.                                                  *)
LEMMA EndingsHeard ==
  ASSUME NEW w, stream[w] \in Answers, NEW a \in 0..Len(Lined(stream[w])),
         NEW t \in Endings(w, Upto(stream[w], a), a)
  PROVE  Done(Kind(w), t) \in Recordable(stream[w], a) \cap Usage
<1> DEFINE s == stream[w]
           l == Lined(s)[a + 1]
<1>1. Kind(w) = s.kind /\ Lines(w) = Lined(s)
  BY DEF Kind, Lines, Lined
<1>2. CASE t = Upto(s, a)
  <2>1. Done(s.kind, Upto(s, a)) = Heard(s, Arrived(s, a)) /\ Heard(s, Arrived(s, a)) \in Usage
    BY DoneHeard
  <2> QED BY <1>1, <1>2, <2>1 DEF Recordable
<1>3. CASE t # Upto(s, a)
  <2>1. /\ a < Len(Lined(s)) /\ l.line = "data"
        /\ \E c \in Torn(l.of) : t = [Upto(s, a) EXCEPT !.buf = Append(@, DataLine(c))]
    BY <1>1, <1>3 DEF Endings
  <2>2. PICK c \in Torn(l.of) : t = [Upto(s, a) EXCEPT !.buf = Append(@, DataLine(c))]
    BY <2>1
  <2>3. /\ Done(s.kind, t) = Told(s.kind, OneTorn(s, Arrived(s, a), c))
        /\ Done(s.kind, t) \in Usage
        /\ l.of = s.events[Arrived(s, a) + 1].data
    BY <2>1, <2>2, DoneTorn
  <2>4. c \in Parts(s, a)
    BY <2>1, <2>3 DEF Parts
  <2>5. Done(s.kind, t) \in Recordable(s, a)
    BY <2>3, <2>4 DEF Recordable
  <2> QED BY <1>1, <2>3, <2>5
<1> QED BY <1>2, <1>3

(* The data lines are counted by Arrived.                                  *)
LEMMA DataLines ==
  ASSUME NEW s \in Answers, NEW a \in 0..Len(Lined(s))
  PROVE  Cardinality({i \in 1..a : Lined(s)[i].line = "data"}) = Arrived(s, a)
<1> DEFINE N == Len(Lined(s))
           D(n) == {i \in 1..n : Lined(s)[i].line = "data"}
           T == {n \in 0..N : IsFiniteSet(D(n)) /\ Cardinality(D(n)) = Arrived(s, n)}
<1>1. N \in Nat
  BY Layout
<1>2. 0 \in T
  <2>1. D(0) = {}
    OBVIOUS
  <2>2. Arrived(s, 0) = 0
    BY DEF Arrived, Height
  <2> HIDE DEF D
  <2> QED BY <1>1, <2>1, <2>2, FS_EmptySet
<1>3. ASSUME NEW n \in 0..N, n < N, n \in T PROVE n + 1 \in T
  <2>1. n \in Nat /\ n + 1 \in 0..N
    BY <1>1, <1>3
  <2>2. IsFiniteSet(D(n)) /\ Cardinality(D(n)) = Arrived(s, n)
    BY <1>3
  <2>3. Arrived(s, n + 1) = IF Lined(s)[n + 1].line = "data" THEN Arrived(s, n) + 1
                            ELSE Arrived(s, n)
    BY <1>3, ArrivedNext
  <2>4. CASE Lined(s)[n + 1].line = "data"
    <3>1. D(n + 1) = D(n) \cup {n + 1} /\ n + 1 \notin D(n)
      BY <2>1, <2>4
    <3> HIDE DEF D
    <3>2. IsFiniteSet(D(n + 1)) /\ Cardinality(D(n + 1)) = Cardinality(D(n)) + 1
      BY <2>2, <3>1, FS_AddElement
    <3> QED BY <2>1, <2>2, <2>3, <2>4, <3>2
  <2>5. CASE Lined(s)[n + 1].line # "data"
    <3>1. D(n + 1) = D(n)
      BY <2>1, <2>5
    <3> HIDE DEF D
    <3> QED BY <2>1, <2>2, <2>3, <2>5, <3>1
  <2> QED BY <2>4, <2>5
<1>4. a \in T
  <2> HIDE DEF T
  <2>1. \A n \in 0..N : n \in T
    BY <1>1, <1>2, <1>3, AllUpto
  <2> QED BY <2>1
<1> QED BY <1>4

-----------------------------------------------------------------------------
(* The queue and the store.                                                *)

(* The keys of the store are different.                                    *)
LEMMA KeysApart ==
  /\ \A k \in Sums : k # Pin
  /\ \A j, k \in Kinds : /\ Day # Part(k) /\ Day # Bill(k) /\ Part(j) # Bill(k)
                         /\ Part(j) = Part(k) => j = k
                         /\ Bill(j) = Bill(k) => j = k
  /\ Day \in Sums /\ \A k \in Kinds : Part(k) \in Sums /\ Bill(k) \in Sums
  /\ Part("responses") \in Sums /\ Part("claude") \in Sums /\ Part("chat") \in Sums
BY DEF Sums, Kinds, Day, Part, Bill, Pin

(* A key is not among the operations q, or one of them writes it last.     *)
LEMMA LastWrite ==
  ASSUME NEW q, Len(q) \in Nat, NEW k
  PROVE  \/ \A i \in 1..Len(q) : q[i].key # k
         \/ \E i \in 1..Len(q) : q[i].key = k /\ \A j \in (i + 1)..Len(q) : q[j].key # k
<1> DEFINE T == {n \in 0..Len(q) : n < Len(q) /\ q[Len(q) - n].key = k}
<1>1. CASE T = {}
  <2>1. ASSUME NEW i \in 1..Len(q) PROVE q[i].key # k
    <3>1. Len(q) - i \in 0..Len(q) /\ Len(q) - i < Len(q) /\ Len(q) - (Len(q) - i) = i
      OBVIOUS
    <3>2. Len(q) - i \notin T
      BY <1>1
    <3> QED BY <3>1, <3>2
  <2> QED BY <2>1
<1>2. CASE T # {}
  <2>1. PICK n \in T : \A m \in T : n <= m
    <3>1. T \subseteq Nat
      OBVIOUS
    <3> HIDE DEF T
    <3> QED BY <1>2, <3>1, LeastNat
  <2>2. Len(q) - n \in 1..Len(q) /\ q[Len(q) - n].key = k
    BY <2>1
  <2>3. ASSUME NEW j \in ((Len(q) - n) + 1)..Len(q) PROVE q[j].key # k
    <3>1. /\ Len(q) - j \in 0..Len(q) /\ Len(q) - j < Len(q)
          /\ Len(q) - (Len(q) - j) = j /\ ~ (n <= Len(q) - j)
      BY <2>1
    <3>2. Len(q) - j \notin T
      BY <2>1, <3>1
    <3> QED BY <3>1, <3>2
  <2> QED BY <2>2, <2>3
<1> QED BY <1>1, <1>2

(* The value of a key is the one written last.                             *)
LEMMA ReplayAt ==
  ASSUME NEW st, NEW q, Len(q) \in Nat, NEW k \in Sums \cup {Pin}
  PROVE  /\ (\A i \in 1..Len(q) : q[i].key # k) => Behind!Replay(st, q)[k] = st[k]
         /\ \A i \in 1..Len(q) :
              q[i].key = k /\ (\A j \in (i + 1)..Len(q) : q[j].key # k) =>
                Behind!Replay(st, q)[k] = q[i].val
<1> DEFINE W == Behind!Writes(q, k)
           last == CHOOSE i \in W : \A j \in W : j <= i
<1>1. W = {i \in 1..Len(q) : q[i].key = k}
  BY DEF Behind!Writes
<1>2. Behind!Replay(st, q)[k] = IF W = {} THEN st[k] ELSE q[last].val
  BY DEF Behind!Replay
<1>3. ASSUME \A i \in 1..Len(q) : q[i].key # k
      PROVE  Behind!Replay(st, q)[k] = st[k]
  <2>1. W = {}
    BY <1>1, <1>3
  <2> QED BY <1>2, <2>1
<1>4. ASSUME NEW i \in 1..Len(q), q[i].key = k, \A j \in (i + 1)..Len(q) : q[j].key # k
      PROVE  Behind!Replay(st, q)[k] = q[i].val
  <2>1. i \in W /\ \A j \in W : j <= i
    <3>1. ASSUME NEW j \in W PROVE j <= i
      <4>1. j \in 1..Len(q) /\ q[j].key = k
        BY <1>1
      <4>2. j \notin (i + 1)..Len(q)
        BY <1>4, <4>1
      <4> QED BY <4>1, <4>2
    <3> QED BY <1>1, <1>4, <3>1
  <2>2. last \in W /\ \A j \in W : j <= last
    BY <2>1
  <2>3. last = i
    <3>1. last <= i /\ i <= last /\ last \in 1..Len(q)
      BY <1>1, <2>1, <2>2
    <3> HIDE DEF last
    <3> QED BY <3>1
  <2> HIDE DEF last, W
  <2> QED BY <1>2, <2>1, <2>3
<1> QED BY <1>3, <1>4

(* The operations c are those of a, then those of b.                       *)
Joined(a, b, c) ==
  /\ Len(a) \in Nat /\ Len(b) \in Nat /\ Len(c) \in Nat
  /\ \A i \in 1..Len(a) : i \in 1..Len(c) /\ c[i] = a[i]
  /\ \A i \in 1..Len(b) : Len(a) + i \in 1..Len(c) /\ c[Len(a) + i] = b[i]
  /\ \A i \in 1..Len(c) : i <= Len(a) + Len(b)

(* Operations replayed in two parts.                                       *)
LEMMA ReplayJoin ==
  ASSUME NEW st, NEW a, NEW b, NEW c, NEW k \in Sums \cup {Pin}, Joined(a, b, c)
  PROVE  Behind!Replay(Behind!Replay(st, a), b)[k] = Behind!Replay(st, c)[k]
<1> USE DEF Joined
<1> DEFINE r == Behind!Replay(st, a)
<1>0. Len(a) \in Nat /\ Len(b) \in Nat /\ Len(c) \in Nat
  OBVIOUS
<1>1. ASSUME NEW j \in 1..Len(c)
      PROVE  \/ j \in 1..Len(a) /\ c[j] = a[j]
             \/ j - Len(a) \in 1..Len(b) /\ c[j] = b[j - Len(a)]
  <2>1. CASE j <= Len(a)
    BY <2>1
  <2>2. CASE ~ (j <= Len(a))
    <3>1. j - Len(a) \in 1..Len(b) /\ Len(a) + (j - Len(a)) = j
      BY <2>2
    <3>2. c[Len(a) + (j - Len(a))] = b[j - Len(a)]
      BY <3>1
    <3> QED BY <3>1, <3>2
  <2> QED BY <2>1, <2>2
<1> HIDE DEF r
<1>2. CASE \E i \in 1..Len(b) : b[i].key = k /\ \A j \in (i + 1)..Len(b) : b[j].key # k
  <2>1. PICK i \in 1..Len(b) : b[i].key = k /\ \A j \in (i + 1)..Len(b) : b[j].key # k
    BY <1>2
  <2>2. Behind!Replay(r, b)[k] = b[i].val
    BY <2>1, ReplayAt
  <2>3. Len(a) + i \in 1..Len(c) /\ c[Len(a) + i] = b[i]
    OBVIOUS
  <2>4. ASSUME NEW j \in ((Len(a) + i) + 1)..Len(c) PROVE c[j].key # k
    <3>1. j \in 1..Len(c) /\ j \notin 1..Len(a)
      OBVIOUS
    <3>2. j <= Len(a) + Len(b)
      BY <3>1
    <3>3. j - Len(a) \in (i + 1)..Len(b)
      BY <3>1, <3>2
    <3> QED BY <1>1, <2>1, <3>1, <3>3
  <2>5. Behind!Replay(st, c)[k] = c[Len(a) + i].val
    <3> DEFINE p == Len(a) + i
    <3>1. p \in 1..Len(c) /\ c[p].key = k /\ \A j \in (p + 1)..Len(c) : c[j].key # k
      BY <2>1, <2>3, <2>4
    <3> HIDE DEF p
    <3>2. Behind!Replay(st, c)[k] = c[p].val
      BY <3>1, ReplayAt
    <3> QED BY <3>2 DEF p
  <2> QED BY <2>2, <2>3, <2>5 DEF r
<1>3. CASE \A i \in 1..Len(b) : b[i].key # k
  <2>1. Behind!Replay(r, b)[k] = r[k]
    BY <1>3, ReplayAt
  <2>2. CASE \E i \in 1..Len(a) : a[i].key = k /\ \A j \in (i + 1)..Len(a) : a[j].key # k
    <3>1. PICK i \in 1..Len(a) : a[i].key = k /\ \A j \in (i + 1)..Len(a) : a[j].key # k
      BY <2>2
    <3>2. r[k] = a[i].val
      BY <3>1, ReplayAt DEF r
    <3>3. i \in 1..Len(c) /\ c[i] = a[i]
      OBVIOUS
    <3>4. ASSUME NEW j \in (i + 1)..Len(c) PROVE c[j].key # k
      <4>1. j \in 1..Len(c) /\ (j \in 1..Len(a) => j \in (i + 1)..Len(a))
        OBVIOUS
      <4> QED BY <1>1, <1>3, <3>1, <4>1
    <3>5. Behind!Replay(st, c)[k] = c[i].val
      <4>1. i \in 1..Len(c) /\ c[i].key = k /\ \A j \in (i + 1)..Len(c) : c[j].key # k
        BY <3>1, <3>3, <3>4
      <4> QED BY <4>1, ReplayAt
    <3> QED BY <2>1, <3>2, <3>3, <3>5 DEF r
  <2>3. CASE \A i \in 1..Len(a) : a[i].key # k
    <3>1. r[k] = st[k]
      BY <2>3, ReplayAt DEF r
    <3>2. \A j \in 1..Len(c) : c[j].key # k
      BY <1>1, <1>3, <2>3
    <3> HIDE DEF Joined
    <3>3. Behind!Replay(st, c)[k] = st[k]
      BY <1>0, <3>2, ReplayAt
    <3>4. Behind!Replay(r, b)[k] = st[k]
      BY <2>1, <3>1
    <3> QED BY <3>3, <3>4 DEF r
  <2> HIDE DEF Joined
  <2>4. \/ \A i \in 1..Len(a) : a[i].key # k
        \/ \E i \in 1..Len(a) : a[i].key = k /\ \A j \in (i + 1)..Len(a) : a[j].key # k
    BY <1>0, LastWrite
  <2> QED BY <2>2, <2>3, <2>4
<1> HIDE DEF Joined
<1>4. \/ \A i \in 1..Len(b) : b[i].key # k
      \/ \E i \in 1..Len(b) : b[i].key = k /\ \A j \in (i + 1)..Len(b) : b[j].key # k
  BY <1>0, LastWrite
<1> QED BY <1>2, <1>3, <1>4

(* Without operations the store is what it was.                            *)
LEMMA ReplayNothing ==
  ASSUME NEW st, NEW k \in Sums \cup {Pin}
  PROVE  Behind!Replay(st, << >>)[k] = st[k]
<1>1. Len(<< >>) = 0 /\ \A i \in 1..0 : FALSE
  OBVIOUS
<1> QED BY <1>1, ReplayAt

(* Operations and stores of the right types.                               *)
Moments == 0..MaxTime \cup {None}
Writings == [key : Sums, val : Totals] \cup [key : {Pin}, val : Moments]
Shelved(st) == /\ \A k \in Sums : st[k] \in Totals \cup {None}
               /\ st[Pin] \in Moments

(* The value of k once the n oldest operations are committed.              *)
Then(n, k) == Behind!Replay(stored, SubSeq(queued, 1, n))[k]

QueueTyped ==
  /\ stored = [k \in Sums \cup {Pin} |-> stored[k]] /\ Shelved(stored)
  /\ queued \in Seq(Writings) /\ Len(queued) <= MaxQueue

(* Committing operations keeps the types of the store.                     *)
LEMMA ReplayTyped ==
  ASSUME NEW st, Shelved(st), NEW q \in Seq(Writings)
  PROVE  Shelved(Behind!Replay(st, q))
<1>1. Len(q) \in Nat /\ \A i \in 1..Len(q) : q[i] \in Writings
  OBVIOUS
<1>2. ASSUME NEW k \in Sums \cup {Pin}
      PROVE  \/ Behind!Replay(st, q)[k] = st[k]
             \/ \E i \in 1..Len(q) : q[i].key = k /\ Behind!Replay(st, q)[k] = q[i].val
  <2>1. CASE \A i \in 1..Len(q) : q[i].key # k
    BY <1>1, <2>1, ReplayAt
  <2>2. CASE \E i \in 1..Len(q) : q[i].key = k /\ \A j \in (i + 1)..Len(q) : q[j].key # k
    <3>1. PICK i \in 1..Len(q) : q[i].key = k /\ \A j \in (i + 1)..Len(q) : q[j].key # k
      BY <2>2
    <3>2. Behind!Replay(st, q)[k] = q[i].val
      BY <1>1, <3>1, ReplayAt
    <3> QED BY <3>1, <3>2
  <2> QED BY <1>1, <2>1, <2>2, LastWrite
<1>3. ASSUME NEW k \in Sums PROVE Behind!Replay(st, q)[k] \in Totals \cup {None}
  <2>1. \A i \in 1..Len(q) : q[i].key = k => q[i].val \in Totals
    BY <1>1, KeysApart DEF Writings
  <2> QED BY <1>2, <2>1 DEF Shelved
<1>4. Behind!Replay(st, q)[Pin] \in Moments
  <2>1. \A i \in 1..Len(q) : q[i].key = Pin => q[i].val \in Moments
    BY <1>1, KeysApart DEF Writings
  <2> QED BY <1>2, <2>1 DEF Shelved
<1> QED BY <1>3, <1>4 DEF Shelved

(* Between the store and what is accepted.                                 *)
LEMMA ThenEnds ==
  ASSUME QueueTyped
  PROVE  /\ Len(queued) \in Nat
         /\ \A k \in Sums \cup {Pin} :
              Then(0, k) = stored[k] /\ Then(Len(queued), k) = Accepted(k)
         /\ \A n \in 0..Len(queued) : \A k \in Sums : Then(n, k) \in Totals \cup {None}
         /\ Accepted(Pin) \in Moments
<1>1. /\ queued \in Seq(Writings) /\ Len(queued) \in Nat /\ Shelved(stored)
  BY DEF QueueTyped
<1>2. SubSeq(queued, 1, 0) = << >> /\ SubSeq(queued, 1, Len(queued)) = queued
  BY <1>1
<1>3. \A k \in Sums \cup {Pin} : Behind!Replay(stored, << >>)[k] = stored[k]
  <2>1. Len(<< >>) = 0
    OBVIOUS
  <2> QED BY <2>1, ReplayAt
<1>4. ASSUME NEW n \in 0..Len(queued)
      PROVE  Shelved(Behind!Replay(stored, SubSeq(queued, 1, n)))
  <2>1. SubSeq(queued, 1, n) \in Seq(Writings)
    BY <1>1
  <2> QED BY <1>1, <2>1, ReplayTyped
<1>5. Len(queued) \in 0..Len(queued)
  BY <1>1
<1>6. \A k \in Sums \cup {Pin} :
        Then(0, k) = stored[k] /\ Then(Len(queued), k) = Accepted(k)
  BY <1>2, <1>3 DEF Then, Accepted
<1>7. \A n \in 0..Len(queued) : \A k \in Sums : Then(n, k) \in Totals \cup {None}
  BY <1>4 DEF Shelved, Then
<1>8. Accepted(Pin) \in Moments
  BY <1>1, ReplayTyped DEF Shelved, Accepted
<1> QED BY <1>1, <1>6, <1>7, <1>8

(* An operation is accepted behind the others.                             *)
LEMMA Accepts ==
  ASSUME QueueTyped, NEW op \in Writings, Behind!Accept(op)
  PROVE  /\ queued' \in Seq(Writings) /\ Len(queued') = Len(queued) + 1
         /\ stored' = stored
         /\ \A k \in Sums \cup {Pin} :
              Accepted(k)' = IF op.key = k THEN op.val ELSE Accepted(k)
         /\ \A k \in Sums \cup {Pin} :
              /\ \A n \in 0..Len(queued) : Then(n, k)' = Then(n, k)
              /\ \A n : n = Len(queued) + 1 => Then(n, k)' = Accepted(k)'
<1>1. queued \in Seq(Writings) /\ Len(queued) \in Nat
  BY DEF QueueTyped
<1>2. queued' = Append(queued, op) /\ stored' = stored
  BY DEF Behind!Accept
<1>3. /\ queued' \in Seq(Writings) /\ Len(queued') = Len(queued) + 1
      /\ queued'[Len(queued) + 1] = op
      /\ \A i \in 1..Len(queued) : queued'[i] = queued[i]
      /\ \A n \in 0..Len(queued) : SubSeq(queued', 1, n) = SubSeq(queued, 1, n)
      /\ SubSeq(queued', 1, Len(queued) + 1) = queued'
  BY <1>1, <1>2
<1>4. ASSUME NEW k \in Sums \cup {Pin}
      PROVE  Accepted(k)' = IF op.key = k THEN op.val ELSE Accepted(k)
  <2> DEFINE q == queued'
             N == Len(queued)
  <2>1. Accepted(k)' = Behind!Replay(stored, q)[k]
    BY <1>2 DEF Accepted
  <2>2. /\ N \in Nat /\ Len(q) = N + 1 /\ Len(q) \in Nat /\ q[N + 1] = op
        /\ \A i \in 1..N : q[i] = queued[i]
    BY <1>1, <1>3
  <2>3. CASE op.key = k
    <3>1. Len(q) \in 1..Len(q) /\ q[Len(q)].key = k /\ q[Len(q)].val = op.val
      BY <2>2, <2>3
    <3>2. \A j \in (Len(q) + 1)..Len(q) : q[j].key # k
      BY <2>2
    <3> HIDE DEF q, N
    <3>3. Behind!Replay(stored, q)[k] = q[Len(q)].val
      BY <2>2, <3>1, <3>2, ReplayAt
    <3> QED BY <2>1, <2>3, <3>1, <3>3
  <2>4. CASE op.key # k
    <3> DEFINE p == queued
    <3> HIDE DEF q, N, p
    <3>1. Accepted(k) = Behind!Replay(stored, p)[k] /\ N = Len(p)
      BY DEF Accepted, p, N
    <3>2. Behind!Replay(stored, q)[k] = Behind!Replay(stored, p)[k]
      <4>1. \A i \in 1..Len(q) : i = N + 1 \/ i \in 1..N
        BY <2>2
      <4>2. /\ \A i \in 1..N : i \in 1..Len(q) /\ q[i] = p[i]
            /\ q[N + 1].key # k
        BY <2>2, <2>4 DEF p
      <4>3. CASE \A i \in 1..Len(p) : p[i].key # k
        <5>1. \A i \in 1..Len(q) : q[i].key # k
          BY <3>1, <4>1, <4>2, <4>3
        <5> QED BY <2>2, <3>1, <4>3, <5>1, ReplayAt
      <4>4. CASE \E i \in 1..Len(p) : p[i].key = k /\ \A j \in (i + 1)..Len(p) : p[j].key # k
        <5>1. PICK i \in 1..Len(p) : p[i].key = k /\ \A j \in (i + 1)..Len(p) : p[j].key # k
          BY <4>4
        <5>2. \A j \in (i + 1)..Len(q) : j = N + 1 \/ (j \in (i + 1)..Len(p) /\ j \in 1..N)
          BY <2>2, <3>1
        <5>3. \A j \in (i + 1)..Len(q) : q[j].key # k
          BY <4>2, <5>1, <5>2
        <5>4. i \in 1..Len(q) /\ q[i] = p[i]
          BY <3>1, <4>2
        <5>5. Behind!Replay(stored, q)[k] = q[i].val
          BY <2>2, <5>1, <5>3, <5>4, ReplayAt
        <5>6. Behind!Replay(stored, p)[k] = p[i].val
          <6>1. Len(p) \in Nat
            BY <2>2, <3>1
          <6> QED BY <5>1, <6>1, ReplayAt
        <5> QED BY <5>4, <5>5, <5>6
      <4> QED BY <2>2, <3>1, <4>3, <4>4, LastWrite
    <3> QED BY <2>1, <2>4, <3>1, <3>2
  <2> QED BY <2>3, <2>4
<1>5. ASSUME NEW k \in Sums \cup {Pin}
      PROVE  /\ \A n \in 0..Len(queued) : Then(n, k)' = Then(n, k)
             /\ \A n : n = Len(queued) + 1 => Then(n, k)' = Accepted(k)'
  <2>1. ASSUME NEW n \in 0..Len(queued) PROVE Then(n, k)' = Then(n, k)
    BY <1>2, <1>3 DEF Then
  <2>2. ASSUME NEW n, n = Len(queued) + 1 PROVE Then(n, k)' = Accepted(k)'
    BY <1>3, <2>2 DEF Then, Accepted
  <2> QED BY <2>1, <2>2
<1> QED BY <1>2, <1>3, <1>4, <1>5

(* A commit moves the store along, a failed one drops its operations.      *)
LEMMA Commits ==
  ASSUME QueueTyped, NEW n \in 1..Len(queued), Behind!Commit(n) \/ Behind!Drop(n)
  PROVE  /\ QueueTyped' /\ Len(queued') = Len(queued) - n /\ n \in 0..Len(queued)
         /\ \A i \in 1..Len(queued') : n + i \in 1..Len(queued) /\ queued'[i] = queued[n + i]
         /\ Behind!Commit(n) =>
              \A k \in Sums \cup {Pin} :
                /\ stored'[k] = Then(n, k)
                /\ Accepted(k)' = Accepted(k)
                /\ \A m \in 0..Len(queued') :
                     n + m \in 0..Len(queued) /\ Then(m, k)' = Then(n + m, k)
<1> DEFINE a == SubSeq(queued, 1, n)
           r == SubSeq(queued, n + 1, Len(queued))
<1>1. /\ queued \in Seq(Writings) /\ Len(queued) \in Nat /\ Len(queued) <= MaxQueue
      /\ Shelved(stored) /\ n \in Nat /\ n <= Len(queued) /\ MaxQueue \in Nat
      /\ n \in 0..Len(queued)
  BY AccountingAssumption DEF QueueTyped
<1>2. /\ a \in Seq(Writings) /\ Len(a) = n /\ \A i \in 1..n : a[i] = queued[i]
      /\ r \in Seq(Writings) /\ Len(r) = Len(queued) - n
      /\ \A i \in 1..(Len(queued) - n) : r[i] = queued[n + i]
  BY <1>1
<1>3. queued' = r
  BY DEF Behind!Commit, Behind!Drop, Behind!Rest
<1>4. Behind!Commit(n) => stored' = Behind!Replay(stored, a)
  BY DEF Behind!Commit
<1>5. Behind!Drop(n) => stored' = stored
  BY DEF Behind!Drop
<1> HIDE DEF a, r
<1>6. Shelved(Behind!Replay(stored, a))
  BY <1>1, <1>2, ReplayTyped
<1>7. Behind!Replay(stored, a) = [k \in Sums \cup {Pin} |-> Behind!Replay(stored, a)[k]]
  BY DEF Behind!Replay
<1>8. QueueTyped'
  <2>1. stored' = [k \in Sums \cup {Pin} |-> stored'[k]] /\ Shelved(stored')
    <3>1. CASE Behind!Commit(n)
      BY <1>4, <1>6, <1>7, <3>1
    <3>2. CASE Behind!Drop(n)
      BY <1>5, <3>2 DEF QueueTyped
    <3> QED BY <3>1, <3>2
  <2>2. queued' \in Seq(Writings) /\ Len(queued') <= MaxQueue
    BY <1>1, <1>2, <1>3
  <2> QED BY <2>1, <2>2 DEF QueueTyped, Shelved
<1>9. \A i \in 1..Len(queued') : n + i \in 1..Len(queued) /\ queued'[i] = queued[n + i]
  BY <1>1, <1>2, <1>3
<1>10. ASSUME Behind!Commit(n), NEW k \in Sums \cup {Pin}, NEW m \in 0..Len(queued')
       PROVE  n + m \in 0..Len(queued) /\ Then(m, k)' = Then(n + m, k)
  <2> DEFINE b == SubSeq(r, 1, m)
             c == SubSeq(queued, 1, n + m)
  <2>1. n + m \in 0..Len(queued) /\ m \in Nat /\ m <= Len(r)
    BY <1>1, <1>2, <1>3
  <2>2. /\ Len(b) = m /\ \A i \in 1..m : b[i] = queued[n + i]
    <3>1. r \in Seq(Writings) /\ m \in Nat /\ m <= Len(r)
      BY <1>2, <2>1
    <3>2. Len(b) = m /\ \A i \in 1..m : b[i] = r[i]
      BY <3>1
    <3>3. \A i \in 1..m : i \in 1..(Len(queued) - n)
      BY <1>2, <3>1
    <3> HIDE DEF b
    <3> QED BY <1>2, <3>2, <3>3
  <2>3. /\ Len(c) = n + m /\ \A i \in 1..(n + m) : c[i] = queued[i]
    BY <1>1, <2>1
  <2>4. Then(m, k)' = Behind!Replay(Behind!Replay(stored, a), b)[k]
    BY <1>3, <1>4, <1>10 DEF Then
  <2>5. Then(n + m, k) = Behind!Replay(stored, c)[k]
    BY DEF Then
  <2> HIDE DEF b, c
  <2>6. Joined(a, b, c)
    <3>1. Len(a) = n /\ Len(b) = m /\ Len(c) = n + m
      BY <1>2, <2>2, <2>3
    <3>2. \A i \in 1..n : i \in 1..(n + m) /\ c[i] = a[i]
      BY <1>1, <1>2, <2>1, <2>3
    <3>3. ASSUME NEW i \in 1..m PROVE n + i \in 1..(n + m) /\ c[n + i] = b[i]
      <4>1. n + i \in 1..(n + m)
        BY <1>1, <2>1
      <4>2. c[n + i] = queued[n + i] /\ b[i] = queued[n + i]
        BY <2>2, <2>3, <4>1
      <4> QED BY <4>1, <4>2
    <3> QED BY <1>1, <2>1, <3>1, <3>2, <3>3 DEF Joined
  <2>7. Behind!Replay(Behind!Replay(stored, a), b)[k] = Behind!Replay(stored, c)[k]
    BY <2>6, ReplayJoin
  <2> QED BY <2>1, <2>4, <2>5, <2>7
<1>11. ASSUME Behind!Commit(n), NEW k \in Sums \cup {Pin}
       PROVE  stored'[k] = Then(n, k) /\ Accepted(k)' = Accepted(k)
  <2>1. stored'[k] = Then(n, k)
    BY <1>4, <1>11 DEF Then, a
  <2>2. Accepted(k)' = Behind!Replay(Behind!Replay(stored, a), r)[k]
    BY <1>3, <1>4, <1>11 DEF Accepted
  <2> DEFINE c == queued
  <2>3. Accepted(k) = Behind!Replay(stored, c)[k]
    BY DEF Accepted
  <2>4. Joined(a, r, c)
    BY <1>1, <1>2 DEF Joined
  <2> HIDE DEF c
  <2>5. Behind!Replay(Behind!Replay(stored, a), r)[k] = Behind!Replay(stored, c)[k]
    BY <2>4, ReplayJoin
  <2> QED BY <2>1, <2>2, <2>3, <2>5
<1> QED BY <1>1, <1>2, <1>3, <1>8, <1>9, <1>10, <1>11

-----------------------------------------------------------------------------
(* What the goroutines have in hand.                                       *)

Places == {"idle", "unpin", "relay", "pin", "record", "put"}
Own(k) == <<Day, Part(k), Bill(k)>>

(* The last one, two or three snapshots of a request of kind k.            *)
Snaps(q, k) ==
  /\ q \in Seq([key : Sums, val : Totals]) /\ Len(q) \in 1..3
  /\ \A i \in 1..Len(q) : q[i].key = Own(k)[(i + 3) - Len(q)]

(* What a goroutine at p has of its answer s.                              *)
Fit(p, s, a, c) ==
  /\ p \in {"idle", "put"} => s = None
  /\ p \in {"unpin", "relay", "pin", "record"} => s \in Streams
  /\ p \in {"idle", "put", "unpin"} => a = 0 /\ c = Scanner
  /\ p = "relay" => a \in 0..Len(Lined(s)) /\ c = Upto(s, a)
  /\ p \in {"pin", "record"} =>
       /\ c.usage \in Usage
       /\ ~s.body => a \in 0..Len(Lined(s)) /\ c.usage \in Recordable(s, a)

(* What it has to queue.                                                   *)
Held(p, q) ==
  /\ p \in {"idle", "unpin", "relay", "record"} => q = << >>
  /\ p = "pin" => \E t \in 0..MaxTime : q = <<[key |-> Pin, val |-> t]>>
  /\ p = "put" => \E k \in Kinds : Snaps(q, k)

At(w) == /\ Fit(pc[w], stream[w], arrived[w], scanner[w])
         /\ Held(pc[w], puts[w])

Shapes ==
  /\ pc \in [Workers -> Places] /\ success \in [Workers -> BOOLEAN]
  /\ stream = [w \in Workers |-> stream[w]] /\ arrived = [w \in Workers |-> arrived[w]]
  /\ scanner = [w \in Workers |-> scanner[w]] /\ puts = [w \in Workers |-> puts[w]]

Hands == Shapes /\ \A w \in Workers : At(w)

Data == /\ now \in 0..MaxTime /\ begun \in 0..MaxLines /\ events \in 0..MaxEvents
        /\ mem \in [Sums -> Totals \cup {None}] /\ counted \in [Sums -> Totals]
        /\ pinned \in Moments
        /\ {overtaken, lost, dropped, raced} \subseteq BOOLEAN

Typed == Data /\ QueueTyped /\ Hands

(* One goroutine moved.                                                    *)
LEMMA OneMoves ==
  ASSUME Hands, NEW w \in Workers, Shapes',
         \A u \in Workers \ {w} : /\ pc'[u] = pc[u] /\ stream'[u] = stream[u]
                                  /\ arrived'[u] = arrived[u] /\ scanner'[u] = scanner[u]
                                  /\ puts'[u] = puts[u],
         At(w)'
  PROVE  Hands'
<1>1. ASSUME NEW u \in Workers PROVE At(u)'
  <2>1. CASE u = w
    BY <2>1
  <2>2. CASE u # w
    BY <2>2 DEF Hands, At
  <2> QED BY <2>1, <2>2
<1> QED BY <1>1 DEF Hands

(* None moved.                                                             *)
LEMMA NoneMoves ==
  ASSUME Hands, UNCHANGED <<pc, relay, puts>>
  PROVE  Hands'
BY DEF Hands, At, Shapes, relay

(* An answer that is begun.                                                *)
LEMMA FirstLine ==
  ASSUME NEW s \in Streams
  PROVE  /\ s \in Answers /\ s # None /\ s.kind \in Kinds
         /\ Len(Lined(s)) \in Nat /\ Upto(s, 0) = Scanner /\ 0 \in 0..Len(Lined(s))
         /\ s.body => s.events[1].data \in Payload
<1>1. s \in Answers /\ s # None
  BY AccountingAssumption DEF Answers
<1>2. s.kind \in Kinds /\ s.events \in Seq(Events) /\ Len(Lined(s)) \in Nat
  BY <1>1, Layout
<1>3. s.body => s.events[1].data \in Payload
  <2>1. s.body => Len(s.events) = 1
    BY AccountingAssumption
  <2>2. s.body => s.events[1] \in Events
    BY <1>2, <2>1
  <2> QED BY <2>2 DEF Events
<1> QED BY <1>1, <1>2, <1>3, ReadNothing

(* The end of an answer: where its goroutine goes, what it takes along.    *)
LEMMA Closes ==
  ASSUME Typed, NEW w \in Workers, pc[w] = "relay", NEW u \in Usage, NEW ok \in BOOLEAN,
         Close(w, u, ok), arrived' = [arrived EXCEPT ![w] = arrived'[w]],
         stream' = stream,
         ~stream[w].body => /\ arrived'[w] \in 0..Len(Lined(stream[w]))
                            /\ u \in Recordable(stream[w], arrived'[w])
  PROVE  Hands' /\ pc'[w] # "put" /\ \A x \in Workers \ {w} : pc'[x] = pc[x] /\ puts'[x] = puts[x]
<1>1. Hands /\ Shapes /\ At(w)
  BY DEF Typed, Hands
<1>2. now \in 0..MaxTime
  BY DEF Typed, Data
<1>3. /\ scanner' = [scanner EXCEPT ![w] = [buf |-> << >>, usage |-> u]]
      /\ success' = [success EXCEPT ![w] = ok]
  BY DEF Close
<1>4. stream[w] \in Streams /\ puts[w] = << >>
  BY <1>1 DEF At, Fit, Held
<1>5. /\ scanner'[w].usage = u /\ scanner' = [x \in Workers |-> scanner'[x]]
      /\ success' \in [Workers -> BOOLEAN]
      /\ arrived' = [x \in Workers |-> arrived'[x]]
      /\ stream' = [x \in Workers |-> stream'[x]]
      /\ \A x \in Workers \ {w} : arrived'[x] = arrived[x] /\ scanner'[x] = scanner[x]
  BY <1>1, <1>3 DEF Shapes
<1>6. /\ pc' \in [Workers -> Places] /\ puts' = [x \in Workers |-> puts'[x]]
      /\ \A x \in Workers \ {w} : pc'[x] = pc[x] /\ puts'[x] = puts[x]
      /\ pc'[w] \in {"pin", "record"} /\ Held(pc'[w], puts'[w])
  <2>1. CASE Kind(w) = "responses" /\ ok
    <3>1. pc' = [pc EXCEPT ![w] = "pin"] /\ puts' = [puts EXCEPT ![w] = <<[key |-> Pin, val |-> now]>>]
      BY <2>1 DEF Close, Goto
    <3>2. pc'[w] = "pin" /\ puts'[w] = <<[key |-> Pin, val |-> now]>>
      BY <1>1, <3>1 DEF Shapes
    <3>3. Held(pc'[w], puts'[w])
      BY <1>2, <3>2 DEF Held
    <3> QED BY <1>1, <3>1, <3>2, <3>3 DEF Shapes, Places
  <2>2. CASE ~ (Kind(w) = "responses" /\ ok)
    <3>1. pc' = [pc EXCEPT ![w] = "record"] /\ puts' = puts
      BY <2>2 DEF Close, Goto
    <3>2. pc'[w] = "record" /\ puts'[w] = << >>
      BY <1>1, <1>4, <3>1 DEF Shapes
    <3>3. Held(pc'[w], puts'[w])
      BY <3>2 DEF Held
    <3> QED BY <1>1, <3>1, <3>2, <3>3 DEF Shapes, Places
  <2> QED BY <2>1, <2>2
<1>7. Shapes'
  BY <1>5, <1>6 DEF Shapes
<1>8. At(w)'
  <2>1. Fit(pc'[w], stream[w], arrived'[w], scanner'[w])
    <3> DEFINE p == pc'[w]
               a == arrived'[w]
               c == scanner'[w]
               s == stream[w]
    <3>1. p \in {"pin", "record"} /\ c.usage = u /\ s \in Streams
      BY <1>4, <1>5, <1>6
    <3>2. ~s.body => a \in 0..Len(Lined(s)) /\ u \in Recordable(s, a)
      OBVIOUS
    <3> HIDE DEF p, c, a, s
    <3>3. Fit(p, s, a, c)
      BY ONLY u \in Usage, <3>1, <3>2 DEF Fit
    <3> QED BY <3>3 DEF p, c, a, s
  <2> QED BY <1>6, <2>1 DEF At
<1> QED BY <1>1, <1>5, <1>6, <1>7, <1>8, OneMoves

(* Nothing of the totals and the queue moves, nothing new is to be queued  *)
(* to them.                                                                *)
Still == /\ UNCHANGED <<mem, disk, hist>>
         /\ now' \in Nat /\ now <= now'
         /\ \A u \in Workers : /\ pc'[u] = "put" <=> pc[u] = "put"
                               /\ pc'[u] = "put" => puts'[u] = puts[u]

(* A step of one goroutine that is still.                                  *)
LEMMA StaysStill ==
  ASSUME Typed, NEW w \in Workers, UNCHANGED <<now, mem, disk, hist>>,
         pc[w] # "put", pc'[w] # "put",
         \A x \in Workers \ {w} : pc'[x] = pc[x] /\ puts'[x] = puts[x]
  PROVE  Still
<1>1. now \in Nat
  BY AccountingAssumption DEF Typed, Data
<1>2. ASSUME NEW x \in Workers
      PROVE  /\ pc'[x] = "put" <=> pc[x] = "put"
             /\ pc'[x] = "put" => puts'[x] = puts[x]
  BY <1>2
<1> QED BY <1>1, <1>2 DEF Still, disk, hist

(* Types of what has not moved.                                            *)
LEMMA DataKept ==
  ASSUME Typed, UNCHANGED <<now, events, mem, disk, hist>>, begun' \in 0..MaxLines
  PROVE  Data' /\ QueueTyped'
BY DEF Typed, Data, QueueTyped, Shelved, disk, hist

(* A request is taken up.                                                  *)
LEMMA Begins ==
  ASSUME Typed, NEW w \in Workers, NEW s \in Streams, Begin(w, s)
  PROVE  Typed' /\ Still
<1>1. Hands /\ Shapes /\ At(w) /\ begun \in 0..MaxLines /\ MaxLines \in Nat
  BY AccountingAssumption DEF Typed, Hands, Data
<1> DEFINE p == IF s.kind = "responses" /\ Expired THEN "unpin" ELSE "relay"
<1>2. /\ pc[w] = "idle" /\ begun + Len(Lined(s)) <= MaxLines
      /\ begun' = begun + Len(Lined(s))
      /\ stream' = [stream EXCEPT ![w] = s] /\ pc' = [pc EXCEPT ![w] = p]
      /\ arrived' = arrived /\ scanner' = scanner /\ success' = success /\ puts' = puts
      /\ UNCHANGED <<now, events, mem, disk, hist>>
  BY DEF Begin, Goto, Lined
<1>3. p \in {"unpin", "relay"}
  OBVIOUS
<1> HIDE DEF p
<1>4. /\ Len(Lined(s)) \in Nat /\ Upto(s, 0) = Scanner /\ 0 \in 0..Len(Lined(s))
  BY FirstLine
<1>5. begun' \in 0..MaxLines
  BY <1>1, <1>2, <1>4
<1>6. Shapes' /\ pc'[w] = p /\ stream'[w] = s
  BY <1>1, <1>2, <1>3 DEF Shapes, Places
<1>7. At(w)'
  <2>1. arrived[w] = 0 /\ scanner[w] = Scanner /\ puts[w] = << >>
    BY <1>1, <1>2 DEF At, Fit, Held
  <2>2. Fit(p, s, 0, Scanner)
    BY <1>3, <1>4 DEF Fit
  <2>3. Held(p, << >>)
    BY <1>3 DEF Held
  <2> QED BY <1>2, <1>6, <2>1, <2>2, <2>3 DEF At
<1>8. \A x \in Workers \ {w} : pc'[x] = pc[x] /\ stream'[x] = stream[x]
  BY <1>1, <1>2 DEF Shapes
<1>9. Hands'
  BY <1>1, <1>2, <1>6, <1>7, <1>8, OneMoves
<1>10. Data' /\ QueueTyped'
  BY <1>2, <1>5, DataKept
<1>11. Still
  BY <1>2, <1>3, <1>6, <1>8, StaysStill
<1> QED BY <1>9, <1>10, <1>11 DEF Typed

(* A chunk arrives.                                                        *)
LEMMA Chunks ==
  ASSUME Typed, NEW w \in Workers, Chunk(w)
  PROVE  Typed' /\ Still
<1>1. Hands /\ Shapes /\ At(w) /\ begun \in 0..MaxLines
  BY DEF Typed, Hands, Data
<1>2. /\ pc[w] = "relay" /\ ~stream[w].body /\ begun' = begun /\ stream' = stream
      /\ UNCHANGED <<now, events, mem, disk, hist>>
  BY DEF Chunk, clock
<1> DEFINE s == stream[w]
           a == arrived[w]
<1>3. PICK b \in (a + 1)..Len(Lined(s)) :
        LET c == Feed(Kind(w), scanner[w], SubSeq(Lines(w), a + 1, b))
        IN /\ arrived' = [arrived EXCEPT ![w] = b]
           /\ \/ /\ scanner' = [scanner EXCEPT ![w] = c]
                 /\ UNCHANGED <<pc, success, puts>>
              \/ \E t \in Endings(w, c, b) : Close(w, Done(Kind(w), t), FALSE)
  BY DEF Chunk, Lines, Lined, Kind
<1>4. /\ s \in Streams /\ s \in Answers /\ a \in 0..Len(Lined(s)) /\ scanner[w] = Upto(s, a)
      /\ puts[w] = << >> /\ Len(Lined(s)) \in Nat
  BY <1>1, <1>2, FirstLine DEF At, Fit, Held
<1>5. Feed(Kind(w), scanner[w], SubSeq(Lines(w), a + 1, b)) = Upto(s, b)
  <2>1. Kind(w) = s.kind /\ Lines(w) = Lined(s)
    BY DEF Kind, Lines, Lined
  <2> HIDE DEF s, a
  <2> QED BY <1>4, <2>1, FeedLines
<1>6. b \in 0..Len(Lined(s))
  BY <1>4
<1>7. arrived' = [arrived EXCEPT ![w] = b] /\ arrived'[w] = b
  BY <1>1, <1>3 DEF Shapes
<1>8. Data' /\ QueueTyped'
  BY <1>1, <1>2, DataKept
<1>9. CASE scanner' = [scanner EXCEPT ![w] = Upto(s, b)] /\ UNCHANGED <<pc, success, puts>>
  <2>1. Shapes' /\ scanner'[w] = Upto(s, b)
    BY <1>1, <1>2, <1>7, <1>9 DEF Shapes
  <2>2. At(w)'
    <3>1. Fit("relay", s, b, Upto(s, b))
      BY <1>4, <1>6 DEF Fit
    <3>2. Held("relay", << >>)
      BY DEF Held
    <3> QED BY <1>2, <1>4, <1>7, <1>9, <2>1, <3>1, <3>2 DEF At
  <2>3. \A x \in Workers \ {w} : arrived'[x] = arrived[x] /\ scanner'[x] = scanner[x]
    BY <1>1, <1>7, <1>9 DEF Shapes
  <2>4. Hands'
    BY <1>1, <1>2, <1>9, <2>1, <2>2, <2>3, OneMoves
  <2>5. Still
    BY <1>2, <1>9, StaysStill
  <2> QED BY <1>8, <2>4, <2>5 DEF Typed
<1>10. CASE \E t \in Endings(w, Upto(s, b), b) : Close(w, Done(Kind(w), t), FALSE)
  <2>0. PICK t \in Endings(w, Upto(s, b), b) : Close(w, Done(Kind(w), t), FALSE)
    BY <1>10
  <2> DEFINE u == Done(Kind(w), t)
  <2>1. u \in Recordable(s, b) \cap Usage
    BY <1>4, <1>6, <2>0, EndingsHeard
  <2>2. Close(w, u, FALSE) /\ u \in Usage
    BY <2>0, <2>1
  <2>3. arrived' = [arrived EXCEPT ![w] = arrived'[w]]
    BY <1>7
  <2>4. arrived'[w] \in 0..Len(Lined(stream[w])) /\ u \in Recordable(stream[w], arrived'[w])
    BY <1>6, <1>7, <2>1
  <2> HIDE DEF u, s
  <2>5. Hands' /\ pc'[w] # "put" /\ \A x \in Workers \ {w} : pc'[x] = pc[x] /\ puts'[x] = puts[x]
    BY <1>2, <2>2, <2>3, <2>4, Closes
  <2>6. Still
    BY <1>2, <2>5, StaysStill
  <2> QED BY <1>8, <2>5, <2>6 DEF Typed
<1> QED BY <1>3, <1>5, <1>9, <1>10

(* A stream ends.                                                          *)
LEMMA Ended ==
  ASSUME Typed, NEW w \in Workers, StreamEnds(w)
  PROVE  Typed' /\ Still
<1>1. Hands /\ Shapes /\ At(w) /\ begun \in 0..MaxLines
  BY DEF Typed, Hands, Data
<1>2. /\ pc[w] = "relay" /\ ~stream[w].body /\ begun' = begun /\ stream' = stream
      /\ arrived' = arrived /\ UNCHANGED <<now, events, mem, disk, hist>>
  BY DEF StreamEnds, clock
<1> DEFINE s == stream[w]
           a == arrived[w]
<1>3. PICK ok \in BOOLEAN, t \in Endings(w, scanner[w], a) : Close(w, Done(Kind(w), t), ok)
  BY DEF StreamEnds
<1> DEFINE u == Done(Kind(w), t)
<1>4. /\ s \in Answers /\ a \in 0..Len(Lined(s)) /\ scanner[w] = Upto(s, a)
  BY <1>1, <1>2, FirstLine DEF At, Fit
<1>5. arrived' = [arrived EXCEPT ![w] = arrived'[w]] /\ arrived'[w] = a
  BY <1>1, <1>2 DEF Shapes
<1>6. u \in Recordable(s, a) \cap Usage
  BY <1>3, <1>4, EndingsHeard
<1>7. Close(w, u, ok)
  BY <1>3
<1>8. arrived'[w] \in 0..Len(Lined(stream[w])) /\ u \in Recordable(stream[w], arrived'[w])
  BY <1>4, <1>5, <1>6
<1> HIDE DEF u, s, a
<1>9. Hands' /\ pc'[w] # "put" /\ \A x \in Workers \ {w} : pc'[x] = pc[x] /\ puts'[x] = puts[x]
  BY <1>2, <1>5, <1>6, <1>7, <1>8, Closes
<1>10. Data' /\ QueueTyped'
  BY <1>1, <1>2, DataKept
<1>11. Still
  BY <1>2, <1>9, StaysStill
<1> QED BY <1>9, <1>10, <1>11 DEF Typed

(* A document is read.                                                     *)
LEMMA DocumentRead ==
  ASSUME Typed, NEW w \in Workers, ReadDocument(w)
  PROVE  Typed' /\ Still
<1>1. Hands /\ Shapes /\ At(w) /\ begun \in 0..MaxLines
  BY DEF Typed, Hands, Data
<1>2. /\ pc[w] = "relay" /\ stream[w].body /\ begun' = begun /\ stream' = stream
      /\ UNCHANGED <<now, events, mem, disk, hist>>
  BY DEF ReadDocument, clock
<1> DEFINE s == stream[w]
           d == s.events[1].data
           u(ok) == ReadBody(d, ok)
<1>3. PICK ok \in BOOLEAN :
        /\ arrived' = [arrived EXCEPT ![w] = IF ok THEN Len(Lines(w)) ELSE 0]
        /\ Close(w, u(ok), ok)
  BY DEF ReadDocument
<1>4. u(ok) \in Usage
  <2>1. d \in Payload
    BY <1>1, <1>2, FirstLine DEF At, Fit
  <2>2. d.usage \in Usage
    BY <2>1 DEF Payload
  <2> HIDE DEF d
  <2> QED BY <2>2 DEF ReadBody, Summed, NoUsage, Usage
<1>5. arrived' = [arrived EXCEPT ![w] = arrived'[w]]
  BY <1>1, <1>3 DEF Shapes
<1> HIDE DEF u, s
<1>6. Hands' /\ pc'[w] # "put" /\ \A x \in Workers \ {w} : pc'[x] = pc[x] /\ puts'[x] = puts[x]
  BY <1>2, <1>3, <1>4, <1>5, Closes
<1>7. Data' /\ QueueTyped'
  BY <1>1, <1>2, DataKept
<1>8. Still
  BY <1>2, <1>6, StaysStill
<1> QED BY <1>6, <1>7, <1>8 DEF Typed

(* The clock.                                                              *)
LEMMA Ticks ==
  ASSUME Typed, Tick
  PROVE  Typed' /\ Still
<1>1. now \in 0..MaxTime /\ MaxTime \in Nat
  BY AccountingAssumption DEF Typed, Data
<1>2. now' = now + 1 /\ now < MaxTime /\ UNCHANGED <<begun, events, mem, disk, pc, relay, puts, hist>>
  BY DEF Tick
<1>3. now' \in 0..MaxTime /\ now' \in Nat /\ now <= now'
  BY <1>1, <1>2
<1>4. Hands'
  BY <1>2, NoneMoves DEF Typed
<1>5. Data' /\ QueueTyped'
  BY <1>2, <1>3 DEF Typed, Data, QueueTyped, Shelved, disk, hist
<1>6. Still
  BY <1>2, <1>3 DEF Still
<1> QED BY <1>4, <1>5, <1>6 DEF Typed

(* Something is queued.                                                    *)
LEMMA Queues ==
  ASSUME Typed, NEW op \in Writings, Write(op.key, op.val)
  PROVE  /\ Behind!Accept(op) /\ QueueTyped'
<1>1. op = [key |-> op.key, val |-> op.val]
  BY DEF Writings
<1>2. Behind!Accept(op) /\ Len(queued) < MaxQueue
  BY <1>1 DEF Write
<1>3. QueueTyped /\ MaxQueue \in Nat /\ Len(queued) \in Nat
  BY AccountingAssumption DEF Typed, QueueTyped
<1>4. queued' \in Seq(Writings) /\ Len(queued') = Len(queued) + 1 /\ stored' = stored
  BY <1>2, <1>3, Accepts
<1>5. Len(queued') <= MaxQueue
  BY <1>2, <1>3, <1>4
<1> QED BY <1>2, <1>3, <1>4, <1>5 DEF QueueTyped, Shelved

(* An expired pin is deleted.                                              *)
LEMMA Unpins ==
  ASSUME Typed, NEW w \in Workers, Unpin(w)
  PROVE  /\ Typed' /\ [key |-> Pin, val |-> None] \in Writings
         /\ Behind!Accept([key |-> Pin, val |-> None])
         /\ UNCHANGED <<clock, mem, puts, counted>>
         /\ raced' = (raced \/ Accepted(Pin) # stored[Pin] \/ ~Expired)
         /\ UNCHANGED <<pinned, overtaken, lost, dropped>>
         /\ \A u \in Workers : pc'[u] = "put" <=> pc[u] = "put"
<1> DEFINE op == [key |-> Pin, val |-> None]
<1>1. op \in Writings /\ op.key = Pin /\ op.val = None
  BY DEF Writings, Moments
<1>2. /\ pc[w] = "unpin" /\ Write(Pin, None) /\ pc' = [pc EXCEPT ![w] = "relay"]
      /\ raced' = (raced \/ Accepted(Pin) # stored[Pin] \/ ~Expired)
      /\ UNCHANGED <<clock, mem, relay, puts, counted, pinned, overtaken, lost, dropped>>
  BY DEF Unpin, Goto
<1> HIDE DEF op
<1>3. Behind!Accept(op) /\ QueueTyped'
  BY <1>1, <1>2, Queues
<1>4. Hands /\ Shapes /\ At(w)
  BY DEF Typed, Hands
<1>5. Shapes' /\ pc'[w] = "relay" /\ \A x \in Workers \ {w} : pc'[x] = pc[x]
  BY <1>2, <1>4 DEF Shapes, Places, relay
<1>6. At(w)'
  <2>1. /\ stream[w] \in Streams /\ arrived[w] = 0 /\ scanner[w] = Scanner /\ puts[w] = << >>
    BY <1>2, <1>4 DEF At, Fit, Held
  <2>2. Fit("relay", stream[w], 0, Scanner)
    BY <2>1, FirstLine DEF Fit
  <2>3. Held("relay", << >>)
    BY DEF Held
  <2> QED BY <1>2, <1>5, <2>1, <2>2, <2>3 DEF At, relay
<1>7. Hands'
  BY <1>2, <1>4, <1>5, <1>6, OneMoves DEF relay
<1>8. Data'
  BY <1>2 DEF Typed, Data, clock
<1>9. \A u \in Workers : pc'[u] = "put" <=> pc[u] = "put"
  BY <1>2, <1>5
<1> QED BY <1>1, <1>2, <1>3, <1>7, <1>8, <1>9 DEF Typed, op

(* The keys a request is counted under.                                    *)
Sums3(k) == {Day, Part(k), Bill(k)}

(* The keys of the snapshots, one by one.                                  *)
LEMMA OwnKeys ==
  ASSUME NEW k \in Kinds
  PROVE  /\ Own(k)[1] = Day /\ Own(k)[2] = Part(k) /\ Own(k)[3] = Bill(k)
         /\ \A i \in 1..3 : Own(k)[i] \in Sums3(k) /\ Own(k)[i] \in Sums
         /\ Sums3(k) \subseteq Sums /\ Day # Part(k) /\ Day # Bill(k) /\ Part(k) # Bill(k)
<1>1. Own(k)[1] = Day /\ Own(k)[2] = Part(k) /\ Own(k)[3] = Bill(k)
  BY DEF Own
<1>2. Sums3(k) \subseteq Sums /\ Day # Part(k) /\ Day # Bill(k) /\ Part(k) # Bill(k)
  BY KeysApart DEF Sums3
<1>3. \A i \in 1..3 : i = 1 \/ i = 2 \/ i = 3
  OBVIOUS
<1>4. ASSUME NEW i \in 1..3 PROVE Own(k)[i] \in Sums3(k) /\ Own(k)[i] \in Sums
  <2>1. Own(k)[i] \in Sums3(k)
    BY <1>1, <1>3 DEF Sums3
  <2> QED BY <1>2, <2>1
<1> QED BY <1>1, <1>2, <1>4

(* Totals that are shown, and what a request adds to them.                 *)
LEMMA Shows ==
  ASSUME Typed
  PROVE  /\ \A k \in Sums : /\ InUse(k) \in Totals /\ Loaded(k) \in Totals
                            /\ counted[k] \in Totals /\ stored[k] \in Totals \cup {None}
         /\ \A w \in Workers : pc[w] = "record" =>
              \A t \in Totals : Bump(w, t) \in Totals /\ Bump(w, t).requests = t.requests + 1
         /\ None \notin Totals
<1>1. Nothing \in Totals /\ None \notin Totals
  BY AccountingAssumption DEF Nothing, Totals
<1>2. ASSUME NEW k \in Sums
      PROVE  /\ InUse(k) \in Totals /\ Loaded(k) \in Totals
             /\ counted[k] \in Totals /\ stored[k] \in Totals \cup {None}
  <2>1. stored[k] \in Totals \cup {None} /\ mem[k] \in Totals \cup {None} /\ counted[k] \in Totals
    BY DEF Typed, Data, QueueTyped, Shelved
  <2>2. Loaded(k) \in Totals
    BY <1>1, <2>1 DEF Loaded
  <2> QED BY <2>1, <2>2 DEF InUse
<1>3. ASSUME NEW w \in Workers, pc[w] = "record", NEW t \in Totals
      PROVE  Bump(w, t) \in Totals /\ Bump(w, t).requests = t.requests + 1
  <2>1. scanner[w].usage \in Usage
    BY <1>3 DEF Typed, Hands, At, Fit
  <2>2. scanner[w].usage.total \in Nat
    BY <2>1 DEF Usage
  <2>3. t.requests \in Nat /\ t.errors \in Nat /\ t.tokens \in Nat
    BY DEF Totals
  <2> QED BY <2>2, <2>3 DEF Bump, Totals
<1> QED BY <1>1, <1>2, <1>3

(* A request is recorded.                                                  *)
LEMMA Records ==
  ASSUME Typed, NEW w \in Workers, Record(w)
  PROVE  /\ Typed' /\ Kind(w) \in Kinds /\ pc[w] = "record" /\ UNCHANGED <<clock, disk>>
         /\ UNCHANGED <<pinned, overtaken, lost, dropped, raced>>
         /\ \A k \in Sums3(Kind(w)) : /\ mem'[k] = Bump(w, InUse(k))
                                      /\ counted'[k] = Bump(w, counted[k])
         /\ \A k \in Sums \ Sums3(Kind(w)) : mem'[k] = mem[k] /\ counted'[k] = counted[k]
         /\ Snaps(puts'[w], Kind(w)) /\ Len(puts'[w]) = 3
         /\ \A i \in 1..3 : /\ puts'[w][i].key = Own(Kind(w))[i]
                            /\ puts'[w][i].val = Bump(w, InUse(Own(Kind(w))[i]))
         /\ pc'[w] = "put"
         /\ \A x \in Workers \ {w} : pc'[x] = pc[x] /\ puts'[x] = puts[x]
<1> DEFINE K == Kind(w)
           q == [i \in 1..3 |-> [key |-> Own(K)[i], val |-> Bump(w, InUse(Own(K)[i]))]]
<1>1. Hands /\ Shapes /\ At(w) /\ pc[w] = "record"
  BY DEF Typed, Hands, Record
<1>2. K \in Kinds
  BY <1>1, FirstLine DEF At, Fit, Kind
<1>3. Range(Touched(w)) = Sums3(K) /\ Touched(w) = Own(K)
  <2>1. Touched(w) = Own(K)
    BY DEF Touched, Own
  <2>2. DOMAIN Own(K) = 1..3
    BY DEF Own
  <2>3. \A i \in 1..3 : i = 1 \/ i = 2 \/ i = 3
    OBVIOUS
  <2>4. Range(Own(K)) = {Own(K)[i] : i \in 1..3}
    BY <2>2 DEF Range
  <2>5. {Own(K)[i] : i \in 1..3} = Sums3(K)
    BY <1>2, <2>3, OwnKeys DEF Sums3
  <2> QED BY <2>1, <2>4, <2>5
<1>4. /\ mem' = [k \in Sums |-> IF k \in Sums3(K) THEN Bump(w, InUse(k)) ELSE mem[k]]
      /\ counted' = [k \in Sums |-> IF k \in Sums3(K) THEN Bump(w, counted[k]) ELSE counted[k]]
      /\ puts' = [puts EXCEPT ![w] = q]
      /\ pc' = [pc EXCEPT ![w] = "put"] /\ stream' = [stream EXCEPT ![w] = None]
      /\ arrived' = [arrived EXCEPT ![w] = 0] /\ scanner' = [scanner EXCEPT ![w] = Scanner]
      /\ success' = [success EXCEPT ![w] = TRUE]
      /\ UNCHANGED <<clock, disk, pinned, overtaken, lost, dropped, raced>>
  BY <1>3 DEF Record, Goto
<1>5. /\ \A k \in Sums : InUse(k) \in Totals /\ counted[k] \in Totals
      /\ \A t \in Totals : Bump(w, t) \in Totals
  BY <1>1, Shows
<1>6. /\ \A k \in Sums3(K) : mem'[k] = Bump(w, InUse(k)) /\ counted'[k] = Bump(w, counted[k])
      /\ \A k \in Sums \ Sums3(K) : mem'[k] = mem[k] /\ counted'[k] = counted[k]
  <2>1. Sums3(K) \subseteq Sums
    BY <1>2, OwnKeys
  <2> QED BY <1>4, <2>1
<1>7. mem' \in [Sums -> Totals \cup {None}] /\ counted' \in [Sums -> Totals]
  <2>1. mem \in [Sums -> Totals \cup {None}]
    BY DEF Typed, Data
  <2> QED BY <1>4, <1>5, <2>1
<1>8. /\ Snaps(q, K) /\ Len(q) = 3
      /\ \A i \in 1..3 : q[i].key = Own(K)[i] /\ q[i].val = Bump(w, InUse(Own(K)[i]))
  <2>1. \A i \in 1..3 : Own(K)[i] \in Sums /\ Bump(w, InUse(Own(K)[i])) \in Totals
    BY <1>2, <1>5, OwnKeys
  <2>2. q \in [1..3 -> [key : Sums, val : Totals]]
    BY <2>1
  <2>3. q \in Seq([key : Sums, val : Totals]) /\ Len(q) = 3
    BY <2>2
  <2>4. \A i \in 1..3 : q[i].key = Own(K)[i] /\ q[i].val = Bump(w, InUse(Own(K)[i]))
    OBVIOUS
  <2> HIDE DEF q, K
  <2>5. \A i \in 1..3 : (i + 3) - 3 = i
    OBVIOUS
  <2>6. Snaps(q, K)
    BY <2>3, <2>4, <2>5 DEF Snaps
  <2> QED BY <2>3, <2>4, <2>6
<1> HIDE DEF q, K
<1>9. /\ Shapes' /\ pc'[w] = "put" /\ puts'[w] = q /\ stream'[w] = None /\ arrived'[w] = 0
      /\ scanner'[w] = Scanner
      /\ \A x \in Workers \ {w} : /\ pc'[x] = pc[x] /\ stream'[x] = stream[x]
                                  /\ arrived'[x] = arrived[x] /\ scanner'[x] = scanner[x]
                                  /\ puts'[x] = puts[x]
  BY <1>1, <1>4 DEF Shapes, Places
<1>10. At(w)'
  <2>1. Fit("put", None, 0, Scanner)
    BY DEF Fit
  <2>2. Held("put", q)
    BY <1>2, <1>8 DEF Held
  <2> QED BY <1>9, <2>1, <2>2 DEF At
<1>11. Hands'
  BY <1>1, <1>9, <1>10, OneMoves
<1>12. Data'
  BY <1>4, <1>7 DEF Typed, Data, clock
<1>13. QueueTyped'
  BY <1>4 DEF Typed, QueueTyped, Shelved, disk
<1>14. Typed'
  BY <1>11, <1>12, <1>13 DEF Typed
<1>15. /\ UNCHANGED <<clock, disk>> /\ UNCHANGED <<pinned, overtaken, lost, dropped, raced>>
  BY <1>4
<1>16. Snaps(puts'[w], K) /\ Len(puts'[w]) = 3
  BY <1>8, <1>9
<1>17. \A i \in 1..3 : /\ puts'[w][i].key = Own(K)[i]
                       /\ puts'[w][i].val = Bump(w, InUse(Own(K)[i]))
  BY <1>8, <1>9
<1> QED BY <1>1, <1>2, <1>6, <1>9, <1>14, <1>15, <1>16, <1>17 DEF K

(* A sequence without its first element.                                   *)
LEMMA FirstAndRest ==
  ASSUME NEW S, NEW s \in Seq(S), Len(s) >= 1
  PROVE  /\ s # << >> /\ Head(s) = s[1] /\ Tail(s) \in Seq(S) /\ Len(Tail(s)) = Len(s) - 1
         /\ \A i \in 1..Len(Tail(s)) : Tail(s)[i] = s[i + 1]
         /\ Len(s) = 1 => Tail(s) = << >>
<1>1. s # << >>
  OBVIOUS
<1>2. Tail(s) \in Seq(S) /\ Len(Tail(s)) = Len(s) - 1
  BY <1>1, HeadTailProperties
<1>3. \A i \in 1..Len(Tail(s)) : Tail(s)[i] = s[i + 1]
  BY <1>1, HeadTailProperties
<1>4. Len(s) = 1 => Tail(s) = << >>
  <2> DEFINE t == Tail(s)
  <2>1. t \in Seq(S) /\ (Len(s) = 1 => Len(t) = 0)
    BY <1>2
  <2> HIDE DEF t
  <2>2. Len(t) = 0 => t = << >>
    BY <2>1
  <2> QED BY <2>1, <2>2 DEF t
<1>5. Head(s) = s[1]
  OBVIOUS
<1> QED BY <1>1, <1>2, <1>3, <1>4, <1>5

(* Snapshots that are left.                                                *)
LEMMA SnapsLeft ==
  ASSUME NEW q, NEW k \in Kinds, Snaps(q, k)
  PROVE  /\ q # << >> /\ Head(q) = q[1] /\ q[1] \in [key : Sums, val : Totals]
         /\ Len(q) = 1 => Tail(q) = << >> /\ q[1].key = Bill(k)
         /\ Len(q) = 2 => q[1].key = Part(k) /\ q[2].key = Bill(k)
         /\ Len(q) = 3 => q[1].key = Day /\ q[2].key = Part(k) /\ q[3].key = Bill(k)
         /\ Len(q) # 1 => /\ Snaps(Tail(q), k) /\ Len(Tail(q)) = Len(q) - 1
                          /\ \A i \in 1..Len(Tail(q)) : Tail(q)[i] = q[i + 1]
         /\ \A i \in 1..Len(q) : q[i].val \in Totals /\ q[i].key \in Sums3(k)
<1> DEFINE T == [key : Sums, val : Totals]
           n == Len(q)
<1>1. q \in Seq(T) /\ n \in 1..3 /\ \A i \in 1..n : q[i].key = Own(k)[(i + 3) - n]
  BY DEF Snaps
<1>2. q # << >> /\ Head(q) = q[1] /\ q[1] \in T /\ \A i \in 1..n : q[i] \in T
  <2> HIDE DEF T
  <2>1. Len(q) >= 1 /\ 1 \in 1..n
    BY <1>1
  <2>2. q # << >> /\ Head(q) = q[1]
    BY <1>1, <2>1, FirstAndRest
  <2> QED BY <1>1, <2>1, <2>2
<1>3. /\ Own(k)[1] = Day /\ Own(k)[2] = Part(k) /\ Own(k)[3] = Bill(k)
      /\ \A i \in 1..3 : Own(k)[i] \in Sums3(k)
  BY OwnKeys
<1>4. n = 1 => Tail(q) = << >> /\ q[1].key = Bill(k)
  <2>1. n = 1 => q[1].key = Own(k)[3]
    BY <1>1
  <2>2. n = 1 => Tail(q) = << >>
    <3> HIDE DEF T
    <3>1. Len(q) >= 1
      BY <1>1
    <3> QED BY <1>1, <3>1, FirstAndRest
  <2> QED BY <1>3, <2>1, <2>2
<1>5. n = 2 => q[1].key = Part(k) /\ q[2].key = Bill(k)
  <2>1. n = 2 => q[1].key = Own(k)[2] /\ q[2].key = Own(k)[3]
    BY <1>1
  <2> QED BY <1>3, <2>1
<1>6. n = 3 => q[1].key = Day /\ q[2].key = Part(k) /\ q[3].key = Bill(k)
  <2>1. n = 3 => q[1].key = Own(k)[1] /\ q[2].key = Own(k)[2] /\ q[3].key = Own(k)[3]
    BY <1>1
  <2> QED BY <1>3, <2>1
<1>7. ASSUME n # 1
      PROVE  /\ Snaps(Tail(q), k) /\ Len(Tail(q)) = n - 1
             /\ \A i \in 1..Len(Tail(q)) : Tail(q)[i] = q[i + 1]
  <2> DEFINE t == Tail(q)
  <2>1. t \in Seq(T) /\ Len(t) = n - 1 /\ \A i \in 1..Len(t) : t[i] = q[i + 1]
    BY <1>1, <1>2
  <2>2. Len(t) \in 1..3
    BY <1>1, <1>7, <2>1
  <2> HIDE DEF t
  <2>3. ASSUME NEW i \in 1..Len(t) PROVE t[i].key = Own(k)[(i + 3) - Len(t)]
    <3>1. i + 1 \in 1..n /\ ((i + 1) + 3) - n = (i + 3) - Len(t)
      BY <1>1, <2>1, <2>2
    <3>2. q[i + 1].key = Own(k)[((i + 1) + 3) - n]
      BY <1>1, <3>1
    <3>3. t[i] = q[i + 1]
      BY <2>1
    <3> QED BY <3>1, <3>2, <3>3
  <2>4. Snaps(t, k)
    BY <2>1, <2>2, <2>3 DEF Snaps
  <2> QED BY <2>1, <2>4 DEF t
<1>8. ASSUME NEW i \in 1..n PROVE q[i].val \in Totals /\ q[i].key \in Sums3(k)
  <2>1. (i + 3) - n \in 1..3
    BY <1>1
  <2> QED BY <1>1, <1>2, <1>3, <2>1
<1> QED BY <1>2, <1>4, <1>5, <1>6, <1>7, <1>8

(* What is queued of what a goroutine has in hand.                         *)
LEMMA Puts ==
  ASSUME Typed, NEW w \in Workers, Put(w)
  PROVE  /\ Typed' /\ Head(puts[w]) \in Writings /\ Behind!Accept(Head(puts[w]))
         /\ UNCHANGED <<clock, mem, counted, lost, dropped>>
         /\ overtaken' = (overtaken \/ Later(Head(puts[w])))
         /\ \A x \in Workers \ {w} : pc'[x] = pc[x] /\ puts'[x] = puts[x]
         /\ pc[w] = "pin" => /\ Head(puts[w]).key = Pin /\ Head(puts[w]).val \in 0..MaxTime
                             /\ pinned' = Head(puts[w]).val /\ raced' = FALSE
                             /\ pc'[w] = "record"
         /\ pc[w] # "pin" => /\ pc[w] = "put" /\ UNCHANGED <<pinned, raced>>
                             /\ Len(puts[w]) = 1 => pc'[w] = "idle"
                             /\ Len(puts[w]) # 1 => pc'[w] = "put" /\ puts'[w] = Tail(puts[w])
<1> DEFINE q == puts[w]
           op == Head(q)
<1>1. Hands /\ Shapes /\ At(w) /\ pc[w] \in {"pin", "put"}
  BY DEF Typed, Hands, Put
<1>2. Fit(pc[w], stream[w], arrived[w], scanner[w]) /\ Held(pc[w], q)
  BY <1>1 DEF At
<1> DEFINE p == IF pc[w] = "pin" THEN "record" ELSE IF Len(q) = 1 THEN "idle" ELSE "put"
<1>3. /\ Write(op.key, op.val) /\ puts' = [puts EXCEPT ![w] = Tail(q)]
      /\ overtaken' = (overtaken \/ Later(op))
      /\ IF pc[w] = "pin" THEN pinned' = op.val /\ raced' = FALSE ELSE UNCHANGED <<pinned, raced>>
      /\ pc' = [pc EXCEPT ![w] = p]
      /\ UNCHANGED <<clock, mem, relay, counted, lost, dropped>>
  <2>1. puts' = [puts EXCEPT ![w] = Tail(@)]
    BY DEF Put
  <2>2. puts' = [puts EXCEPT ![w] = Tail(q)]
    BY <1>1, <2>1 DEF Shapes
  <2> QED BY <2>2 DEF Put, Goto
<1>4. pc[w] = "pin" => /\ op.key = Pin /\ op.val \in 0..MaxTime /\ op \in Writings
                       /\ p = "record" /\ Tail(q) = << >>
  <2>1. SUFFICES ASSUME pc[w] = "pin"
                 PROVE  /\ op.key = Pin /\ op.val \in 0..MaxTime /\ op \in Writings
                        /\ p = "record" /\ Tail(q) = << >>
    OBVIOUS
  <2>2. PICK t \in 0..MaxTime : q = <<[key |-> Pin, val |-> t]>>
    BY <1>2, <2>1 DEF Held
  <2>3. op = [key |-> Pin, val |-> t] /\ Tail(q) = << >>
    BY <2>2
  <2>4. [key |-> Pin, val |-> t] \in Writings
    BY DEF Writings, Moments
  <2>5. p = "record"
    BY <2>1
  <2> HIDE DEF op, p
  <2> QED BY <2>3, <2>4, <2>5
<1>5. pc[w] # "pin" => /\ pc[w] = "put" /\ op \in Writings
                       /\ Len(q) = 1 => p = "idle" /\ Tail(q) = << >>
                       /\ Len(q) # 1 => p = "put" /\ \E k \in Kinds : Snaps(Tail(q), k)
  <2>1. SUFFICES ASSUME pc[w] # "pin"
                 PROVE  /\ pc[w] = "put" /\ op \in Writings
                        /\ Len(q) = 1 => p = "idle" /\ Tail(q) = << >>
                        /\ Len(q) # 1 => p = "put" /\ \E k \in Kinds : Snaps(Tail(q), k)
    OBVIOUS
  <2>2. pc[w] = "put"
    BY <1>1, <2>1
  <2>3. PICK k \in Kinds : Snaps(q, k)
    BY <1>2, <2>2 DEF Held
  <2>4. /\ op \in [key : Sums, val : Totals]
        /\ Len(q) = 1 => Tail(q) = << >>
        /\ Len(q) # 1 => Snaps(Tail(q), k)
    BY <2>3, SnapsLeft
  <2>5. op \in Writings
    BY <2>4 DEF Writings
  <2>6. (Len(q) = 1 => p = "idle") /\ (Len(q) # 1 => p = "put")
    BY <2>1
  <2> HIDE DEF op, p
  <2> QED BY <2>2, <2>4, <2>5, <2>6
<1> HIDE DEF q, op, p
<1>6. op \in Writings
  BY <1>1, <1>4, <1>5
<1>7. Behind!Accept(op) /\ QueueTyped'
  BY <1>3, <1>6, Queues
<1>8. p \in {"record", "idle", "put"}
  BY <1>4, <1>5
<1>9. /\ Shapes' /\ pc'[w] = p /\ puts'[w] = Tail(q)
      /\ \A x \in Workers \ {w} : pc'[x] = pc[x] /\ puts'[x] = puts[x]
  BY <1>1, <1>3, <1>8 DEF Shapes, Places, relay
<1>10. At(w)'
  <2>1. Fit(p, stream[w], arrived[w], scanner[w])
    <3>1. CASE pc[w] = "pin"
      <4>1. p = "record"
        BY <1>4, <3>1
      <4> QED BY <1>2, <3>1, <4>1 DEF Fit
    <3>2. CASE pc[w] # "pin"
      <4>1. p \in {"idle", "put"} /\ pc[w] = "put"
        BY <1>5, <3>2
      <4> QED BY <1>2, <4>1 DEF Fit
    <3> QED BY <3>1, <3>2
  <2>2. Held(p, Tail(q))
    <3>1. p \in {"record", "idle"} => Tail(q) = << >>
      BY <1>4, <1>5
    <3>2. p = "put" => \E k \in Kinds : Snaps(Tail(q), k)
      BY <1>4, <1>5
    <3> QED BY <1>8, <3>1, <3>2 DEF Held
  <2> QED BY <1>3, <1>9, <2>1, <2>2 DEF At, relay
<1>11. Hands'
  BY <1>1, <1>3, <1>9, <1>10, OneMoves DEF relay
<1>12. Data'
  <2>1. pinned' \in Moments /\ raced' \in BOOLEAN
    BY <1>3, <1>4 DEF Typed, Data, Moments
  <2>2. overtaken' \in BOOLEAN
    BY <1>3 DEF Later
  <2> QED BY <1>3, <2>1, <2>2 DEF Typed, Data, clock
<1>13. Typed'
  BY <1>7, <1>11, <1>12 DEF Typed
<1>14. /\ pc[w] = "pin" => /\ op.key = Pin /\ op.val \in 0..MaxTime
                           /\ pinned' = op.val /\ raced' = FALSE /\ pc'[w] = "record"
       /\ pc[w] # "pin" => /\ pc[w] = "put" /\ UNCHANGED <<pinned, raced>>
                           /\ Len(q) = 1 => pc'[w] = "idle"
                           /\ Len(q) # 1 => pc'[w] = "put" /\ puts'[w] = Tail(q)
  BY <1>3, <1>4, <1>5, <1>9
<1>15. UNCHANGED <<clock, mem, counted, lost, dropped>> /\ overtaken' = (overtaken \/ Later(op))
  BY <1>3
<1> QED BY <1>6, <1>7, <1>9, <1>13, <1>14, <1>15 DEF op, q

(* The dashboard, the transactions and the end of the process.             *)
LEMMA Loads ==
  ASSUME Typed, Today
  PROVE  /\ Typed' /\ UNCHANGED <<clock, disk, pc, relay, puts, hist>>
         /\ mem[Day] = None /\ mem'[Day] = Loaded(Day)
         /\ \A k \in Sums \ {Day} : mem'[k] = mem[k]
<1>1. /\ mem[Day] = None /\ mem' = [mem EXCEPT ![Day] = Loaded(Day)]
      /\ UNCHANGED <<clock, disk, pc, relay, puts, hist>>
  BY DEF Today
<1>2. mem \in [Sums -> Totals \cup {None}] /\ Loaded(Day) \in Totals /\ Day \in Sums
  BY Shows, KeysApart DEF Typed, Data
<1>3. /\ mem' \in [Sums -> Totals \cup {None}] /\ mem'[Day] = Loaded(Day)
      /\ \A k \in Sums \ {Day} : mem'[k] = mem[k]
  BY <1>1, <1>2
<1>4. Hands'
  BY <1>1, NoneMoves DEF Typed
<1>5. Data' /\ QueueTyped'
  BY <1>1, <1>3 DEF Typed, Data, QueueTyped, Shelved, clock, disk, hist
<1> QED BY <1>1, <1>3, <1>4, <1>5 DEF Typed

(* A transaction, or one that fails.                                       *)
LEMMA CommitTyped ==
  ASSUME Typed, NEW n \in 1..Len(queued), Commit(n) \/ CommitFails(n)
  PROVE  /\ Typed' /\ UNCHANGED <<now, mem, pc, puts, counted, pinned, overtaken, lost, raced>>
         /\ Commit(n) => Behind!Commit(n) /\ dropped' = dropped
         /\ CommitFails(n) => Behind!Drop(n) /\ dropped'
<1>1. /\ UNCHANGED <<now, begun, mem, pc, relay, puts, counted, pinned, overtaken, lost, raced>>
      /\ Commit(n) => Behind!Commit(n) /\ dropped' = dropped
      /\ CommitFails(n) => Behind!Drop(n) /\ dropped' = TRUE
      /\ events' = events \/ (events < MaxEvents /\ events' = events + 1)
  BY DEF Commit, CommitFails, Event, hist, clock
<1>2. Hands'
  BY <1>1, NoneMoves DEF Typed
<1>3. QueueTyped'
  BY <1>1, Commits DEF Typed
<1>4. Data'
  <2>1. events' \in 0..MaxEvents
    BY <1>1, AccountingAssumption DEF Typed, Data
  <2>2. dropped' \in BOOLEAN
    BY <1>1 DEF Typed, Data
  <2> QED BY <1>1, <2>1, <2>2 DEF Typed, Data
<1> QED BY <1>1, <1>2, <1>3, <1>4 DEF Typed

(* The process ends and begins again.                                      *)
LEMMA Restarts ==
  ASSUME Typed, Restart
  PROVE  /\ Typed' /\ queued' = << >> /\ UNCHANGED <<now, stored, counted, pinned, overtaken>>
         /\ UNCHANGED <<dropped, raced>>
         /\ lost' = (lost \/ queued # << >> \/ \E w \in Workers : puts[w] # << >>)
         /\ \A k \in Sums : mem'[k] = None
         /\ \A w \in Workers : pc'[w] = "idle"
<1>1. /\ queued' = << >> /\ UNCHANGED <<now, begun, stored, counted, pinned, overtaken, dropped, raced>>
      /\ lost' = (lost \/ queued # << >> \/ \E w \in Workers : puts[w] # << >>)
      /\ mem' = [k \in Sums |-> None] /\ pc' = [w \in Workers |-> "idle"]
      /\ stream' = [w \in Workers |-> None] /\ arrived' = [w \in Workers |-> 0]
      /\ scanner' = [w \in Workers |-> Scanner] /\ success' = [w \in Workers |-> TRUE]
      /\ puts' = [w \in Workers |-> << >>] /\ events < MaxEvents /\ events' = events + 1
  BY DEF Restart, Event, Behind!Crash
<1>2. Shapes'
  BY <1>1 DEF Shapes, Places
<1>3. \A w \in Workers : At(w)'
  <2>1. Fit("idle", None, 0, Scanner) /\ Held("idle", << >>)
    BY DEF Fit, Held
  <2> QED BY <1>1, <2>1 DEF At
<1>4. QueueTyped'
  <2>1. << >> \in Seq(Writings) /\ Len(<< >>) = 0 /\ MaxQueue \in Nat
    BY AccountingAssumption
  <2> QED BY <1>1, <2>1 DEF Typed, QueueTyped, Shelved
<1>5. Data'
  <2>1. events' \in 0..MaxEvents
    BY <1>1, AccountingAssumption DEF Typed, Data
  <2>2. lost' \in BOOLEAN
    BY <1>1
  <2> QED BY <1>1, <2>1, <2>2 DEF Typed, Data
<1>6. \A k \in Sums : mem'[k] = None
  BY <1>1
<1>7. \A w \in Workers : pc'[w] = "idle"
  BY <1>1
<1> QED BY <1>1, <1>2, <1>3, <1>4, <1>5, <1>6, <1>7 DEF Typed, Hands

(* Types hold at first, and every step keeps them.                         *)
LEMMA TypedInit ==
  ASSUME Init
  PROVE  Typed
<1> USE DEF Init
<1>1. Shapes
  BY DEF Shapes, Places
<1>2. \A w \in Workers : At(w)
  <2>1. Fit("idle", None, 0, Scanner) /\ Held("idle", << >>)
    BY DEF Fit, Held
  <2> QED BY <2>1 DEF At
<1>3. QueueTyped
  <2>1. << >> \in Seq(Writings) /\ Len(<< >>) = 0 /\ MaxQueue \in Nat
    BY AccountingAssumption
  <2>2. Shelved(stored)
    BY DEF Shelved, Moments
  <2> QED BY <2>1, <2>2 DEF QueueTyped
<1>4. Data
  <2>1. Nothing \in Totals
    BY DEF Nothing, Totals
  <2>2. 0 \in 0..MaxTime /\ 0 \in 0..MaxLines /\ 0 \in 0..MaxEvents
    BY AccountingAssumption
  <2>3. mem \in [Sums -> Totals \cup {None}] /\ counted \in [Sums -> Totals]
    BY <2>1
  <2>4. {overtaken, lost, dropped, raced} \subseteq BOOLEAN /\ pinned \in Moments
    BY DEF Moments
  <2> QED BY <2>2, <2>3, <2>4 DEF Data
<1> QED BY <1>1, <1>2, <1>3, <1>4 DEF Typed, Hands

(* A step of the specification is one of these.                            *)
Restful == Still \/ \E w \in Workers : Unpin(w) \/ Record(w) \/ Put(w)
Moving == \/ Restful \/ Today \/ Restart
          \/ \E n \in 1..Len(queued) : Commit(n) \/ CommitFails(n)

(* Each of them keeps the types.                                           *)
LEMMA TypedStep ==
  ASSUME Typed, [Next]_vars
  PROVE  Typed' /\ Moving
<1>1. CASE UNCHANGED vars
  <2>1. Hands'
    BY <1>1, NoneMoves DEF Typed, vars
  <2>2. Data' /\ QueueTyped'
    BY <1>1, DataKept DEF Typed, Data, vars, clock
  <2>3. Still
    BY <1>1, AccountingAssumption DEF Typed, Data, vars, clock, Still
  <2> QED BY <2>1, <2>2, <2>3 DEF Typed, Moving, Restful
<1>2. ASSUME NEW w \in Workers, NEW s \in Streams, Begin(w, s)
      PROVE  Typed' /\ Moving
  BY <1>2, Begins DEF Moving, Restful
<1>3. ASSUME NEW w \in Workers, Unpin(w)
      PROVE  Typed' /\ Moving
  BY <1>3, Unpins DEF Moving, Restful
<1>4. ASSUME NEW w \in Workers, Chunk(w)
      PROVE  Typed' /\ Moving
  BY <1>4, Chunks DEF Moving, Restful
<1>5. ASSUME NEW w \in Workers, StreamEnds(w)
      PROVE  Typed' /\ Moving
  BY <1>5, Ended DEF Moving, Restful
<1>6. ASSUME NEW w \in Workers, ReadDocument(w)
      PROVE  Typed' /\ Moving
  BY <1>6, DocumentRead DEF Moving, Restful
<1>7. ASSUME NEW w \in Workers, Record(w)
      PROVE  Typed' /\ Moving
  BY <1>7, Records DEF Moving, Restful
<1>8. ASSUME NEW w \in Workers, Put(w)
      PROVE  Typed' /\ Moving
  BY <1>8, Puts DEF Moving, Restful
<1>9. CASE Today
  BY <1>9, Loads DEF Moving
<1>10. CASE Tick
  BY <1>10, Ticks DEF Moving, Restful
<1>11. CASE Restart
  BY <1>11, Restarts DEF Moving
<1>12. ASSUME NEW n \in 1..Len(queued), Commit(n) \/ CommitFails(n)
       PROVE  Typed' /\ Moving
  <2>1. Typed'
    BY <1>12, CommitTyped
  <2> QED BY <1>12, <2>1 DEF Moving
<1> QED BY <1>1, <1>2, <1>3, <1>4, <1>5, <1>6, <1>7, <1>8, <1>9, <1>10, <1>11, <1>12 DEF Next

(* So the types hold throughout.                                           *)
LEMMA TypedAlways == Spec => []Typed
<1>1. Init => Typed
  BY TypedInit
<1>2. Typed /\ [Next]_vars => Typed'
  BY TypedStep
<1> QED BY <1>1, <1>2, PTL DEF Spec

(* Types; what a goroutine has in hand agrees with where it is.            *)
THEOREM TypeIsInvariant == Spec => []TypeOK
<1>1. Typed => TypeOK
  <2> SUFFICES ASSUME Typed PROVE TypeOK
    OBVIOUS
  <2>1. /\ Data /\ QueueTyped /\ Hands
    BY DEF Typed
  <2>2. ASSUME NEW i \in DOMAIN queued
        PROVE  queued[i].key = Pin \/ (queued[i].key \in Sums /\ queued[i].val \in Totals)
    <3>1. queued[i] \in Writings
      BY <2>1 DEF QueueTyped
    <3> QED BY <3>1 DEF Writings
  <2>3. ASSUME NEW w \in Workers
        PROVE  /\ pc[w] \in {"idle", "unpin", "relay", "pin", "record", "put"}
               /\ stream[w] \in Streams \cup {None}
               /\ stream[w] = None <=> pc[w] \in {"idle", "put"}
               /\ scanner[w].usage \in Usage /\ success[w] \in BOOLEAN
               /\ puts[w] # << >> <=> pc[w] \in {"pin", "put"}
    <3> DEFINE p == pc[w]
               s == stream[w]
               a == arrived[w]
               c == scanner[w]
               q == puts[w]
    <3>1. Fit(p, s, a, c) /\ Held(p, q) /\ p \in Places /\ success[w] \in BOOLEAN
      BY <2>1 DEF Hands, At, Shapes
    <3> HIDE DEF p, s, a, c, q
    <3>2. s \in Streams \cup {None} /\ (s = None <=> p \in {"idle", "put"})
      BY <3>1, FirstLine DEF Fit, Places
    <3>3. c.usage \in Usage
      <4>1. CASE p \in {"idle", "put", "unpin"}
        BY <3>1, <4>1 DEF Fit, Scanner, NoUsage, Usage
      <4>2. CASE p = "relay"
        <5>1. s \in Answers /\ a \in 0..Len(Lined(s)) /\ c = Upto(s, a)
          BY <3>1, <4>2, FirstLine DEF Fit
        <5>2. Heard(s, Before(s, a)) \in Usage
          BY <5>1, DoneHeard
        <5> QED BY <5>1, <5>2 DEF Upto
      <4>3. CASE p \in {"pin", "record"}
        BY <3>1, <4>3 DEF Fit
      <4> QED BY <3>1, <4>1, <4>2, <4>3 DEF Places
    <3>4. q # << >> <=> p \in {"pin", "put"}
      <4>1. CASE p = "pin"
        BY <3>1, <4>1 DEF Held
      <4>2. CASE p = "put"
        BY <3>1, <4>2, SnapsLeft DEF Held
      <4>3. CASE p \notin {"pin", "put"}
        BY <3>1, <4>3 DEF Held, Places
      <4> QED BY <4>1, <4>2, <4>3
    <3> QED BY <3>1, <3>2, <3>3, <3>4 DEF p, s, c, q, Places
  <2>4. /\ \A k \in Sums : stored[k] \in Totals \cup {None}
        /\ {stored[Pin], pinned} \subseteq 0..MaxTime \cup {None}
    BY <2>1 DEF QueueTyped, Shelved, Data, Moments
  <2> QED BY <2>1, <2>2, <2>3, <2>4 DEF TypeOK, Data, QueueTyped
<1> QED BY <1>1, TypedAlways, PTL

(* However an answer was cut into chunks, and whether it came to its end,  *)
(* was broken off or lost its client, the usage recorded of it is what the *)
(* events that came say, one of which a part came counted by what gjson    *)
(* reads of it (relay/usage.go:31-51, relay/stream.go:35-71).              *)
THEOREM UsageIsOfStream == Spec => []UsageOfStream
<1>1. Typed => UsageOfStream
  <2> SUFFICES ASSUME Typed, NEW w \in Workers, pc[w] \in {"pin", "record"}, ~stream[w].body
               PROVE  \E read \in Readings(w) : scanner[w].usage = Told(Kind(w), read)
    BY DEF UsageOfStream
  <2> DEFINE s == stream[w]
             a == arrived[w]
             data == {i \in 1..a : Lined(s)[i].line = "data"}
  <2>1. s \in Answers /\ a \in 0..Len(Lined(s)) /\ scanner[w].usage \in Recordable(s, a)
    BY FirstLine DEF Typed, Hands, At, Fit
  <2>2. Kind(w) = s.kind /\ Lines(w) = Lined(s)
    BY DEF Kind, Lines, Lined
  <2>3. Came(w) = SubSeq(s.events, 1, Cardinality(data))
    BY <2>2 DEF Came
  <2>4. Cardinality(data) = Arrived(s, a)
    <3> HIDE DEF s, a
    <3> QED BY <2>1, DataLines
  <2> DEFINE m == Arrived(s, a)
             p == SubSeq(s.events, 1, m)
  <2>5. m \in 0..Len(s.events) /\ s.events \in Seq(Events)
    BY <2>1, DoneHeard, Layout
  <2>6. Came(w) = p /\ Len(p) = m
    <3>1. m \in Nat /\ m <= Len(s.events)
      BY <2>5
    <3> HIDE DEF m, s
    <3>2. Len(SubSeq(s.events, 1, m)) = m
      BY <2>5, <3>1
    <3> QED BY <2>3, <2>4, <3>2 DEF m
  <2>7. CASE scanner[w].usage = Heard(s, m)
    BY <2>2, <2>6, <2>7 DEF Heard, Readings
  <2>8. CASE scanner[w].usage # Heard(s, m)
    <3>1. PICK c \in Parts(s, a) : scanner[w].usage = Told(s.kind, OneTorn(s, m, c))
      BY <2>1, <2>8 DEF Recordable
    <3>2. OneTorn(s, m, c) \in Readings(w)
      BY <2>2, <2>6, <3>1 DEF Readings, OneTorn, Parts
    <3> QED BY <2>2, <3>1, <3>2
  <2> QED BY <2>7, <2>8
<1> QED BY <1>1, TypedAlways, PTL

-----------------------------------------------------------------------------
(* The totals: from memory by way of the goroutines and the queue to the   *)
(* store.                                                                  *)

Snapshots == [key : Sums, val : Totals]

(* The snapshots that goroutines have still to queue.                      *)
InHand == {op \in Snapshots :
             \E w \in Workers : pc[w] = "put" /\ \E i \in 1..Len(puts[w]) : puts[w][i] = op}

(* What is in hand is of no other kind.                                    *)
LEMMA HandTyped ==
  ASSUME Typed, NEW w \in Workers, pc[w] = "put"
  PROVE  \E k \in Kinds : Snaps(puts[w], k)
BY DEF Typed, Hands, At, Held

(* It stays there while nothing is queued.                                 *)
LEMMA HandStill ==
  ASSUME \A u \in Workers : /\ pc'[u] = "put" <=> pc[u] = "put"
                            /\ pc'[u] = "put" => puts'[u] = puts[u]
  PROVE  InHand' = InHand
BY DEF InHand

(* It leaves one by one.                                                   *)
LEMMA HandPuts ==
  ASSUME Typed, NEW w \in Workers, Put(w)
  PROVE  /\ pc[w] = "pin" => InHand' = InHand
         /\ pc[w] # "pin" => /\ Head(puts[w]) \in InHand
                             /\ InHand' \subseteq InHand
                             /\ InHand \subseteq InHand' \cup {Head(puts[w])}
<1>1. /\ \A x \in Workers \ {w} : pc'[x] = pc[x] /\ puts'[x] = puts[x]
      /\ pc[w] = "pin" => pc'[w] = "record"
      /\ pc[w] # "pin" => /\ pc[w] = "put"
                          /\ Len(puts[w]) = 1 => pc'[w] = "idle"
                          /\ Len(puts[w]) # 1 => pc'[w] = "put" /\ puts'[w] = Tail(puts[w])
  BY Puts
<1>2. CASE pc[w] = "pin"
  <2>1. \A u \in Workers : /\ pc'[u] = "put" <=> pc[u] = "put"
                           /\ pc'[u] = "put" => puts'[u] = puts[u]
    BY <1>1, <1>2
  <2> QED BY <1>2, <2>1, HandStill
<1>3. CASE pc[w] # "pin"
  <2> DEFINE q == puts[w]
  <2>1. pc[w] = "put"
    BY <1>1, <1>3
  <2>2. PICK k \in Kinds : Snaps(q, k)
    BY <2>1, HandTyped
  <2>3. q \in Seq(Snapshots) /\ Len(q) \in 1..3
    BY <2>2 DEF Snaps, Snapshots
  <2>4. Head(q) = q[1] /\ q[1] \in Snapshots /\ 1 \in 1..Len(q)
    <3> DEFINE n == Len(q)
    <3>1. n \in 1..3
      BY <2>3
    <3> HIDE DEF n
    <3>2. 1 \in 1..n
      BY <3>1
    <3>3. 1 \in 1..Len(q)
      BY <3>2 DEF n
    <3> HIDE DEF q
    <3> QED BY <2>2, <3>3, SnapsLeft DEF Snapshots
  <2>5. Len(q) # 1 => /\ Len(Tail(q)) = Len(q) - 1
                      /\ \A i \in 1..Len(Tail(q)) : Tail(q)[i] = q[i + 1]
    BY <2>2, SnapsLeft
  <2>6. Head(q) \in InHand
    BY <2>1, <2>4 DEF InHand
  <2>7. ASSUME NEW op \in InHand' PROVE op \in InHand
    <3>1. PICK x \in Workers : /\ op \in Snapshots
                               /\ pc'[x] = "put" /\ \E i \in 1..Len(puts'[x]) : puts'[x][i] = op
      BY DEF InHand
    <3>2. PICK i \in 1..Len(puts'[x]) : puts'[x][i] = op
      BY <3>1
    <3>3. CASE x # w
      BY <1>1, <3>1, <3>3 DEF InHand
    <3>4. CASE x = w
      <4>1. Len(q) # 1 /\ puts'[w] = Tail(q)
        BY <1>1, <1>3, <3>1, <3>4
      <4>2. i + 1 \in 1..Len(q) /\ q[i + 1] = op
        BY <2>3, <2>5, <3>2, <3>4, <4>1
      <4> QED BY <2>1, <3>1, <4>2 DEF InHand
    <3> QED BY <3>3, <3>4
  <2>8. ASSUME NEW op \in InHand, op # Head(q) PROVE op \in InHand'
    <3>1. PICK x \in Workers : /\ op \in Snapshots
                               /\ pc[x] = "put" /\ \E i \in 1..Len(puts[x]) : puts[x][i] = op
      BY DEF InHand
    <3>2. PICK i \in 1..Len(puts[x]) : puts[x][i] = op
      BY <3>1
    <3>3. CASE x # w
      <4>1. pc'[x] = "put" /\ puts'[x] = puts[x]
        BY <1>1, <3>1, <3>3
      <4> QED BY <3>1, <4>1 DEF InHand
    <3>4. CASE x = w
      <4>1. i # 1 /\ i \in 1..Len(q)
        BY <2>4, <2>8, <3>2, <3>4
      <4>2. Len(q) # 1 /\ i - 1 \in 1..(Len(q) - 1) /\ (i - 1) + 1 = i
        <5> DEFINE n == Len(q)
        <5>1. n \in 1..3 /\ i # 1 /\ i \in 1..n
          BY <2>3, <4>1
        <5> HIDE DEF n
        <5>2. n # 1 /\ i - 1 \in 1..(n - 1) /\ (i - 1) + 1 = i
          BY <5>1
        <5> QED BY <5>2 DEF n
      <4>3. /\ pc'[w] = "put" /\ i - 1 \in 1..Len(puts'[w])
            /\ puts'[w][i - 1] = q[(i - 1) + 1]
        BY <1>1, <1>3, <2>5, <4>2
      <4>4. puts'[w][i - 1] = op
        BY <3>2, <3>4, <4>2, <4>3
      <4> QED BY <3>1, <4>3, <4>4 DEF InHand
    <3> QED BY <3>3, <3>4
  <2> QED BY <1>3, <2>6, <2>7, <2>8
<1> QED BY <1>2, <1>3

(* The snapshots of a request join it.                                     *)
LEMMA HandRecords ==
  ASSUME Typed, NEW w \in Workers, Record(w)
  PROVE  /\ InHand \subseteq InHand'
         /\ \A op \in InHand' : \/ op \in InHand
                                \/ /\ op.key \in Sums3(Kind(w))
                                   /\ op.val = Bump(w, InUse(op.key))
         /\ \A k \in Sums3(Kind(w)) :
              \E op \in InHand' : op.key = k /\ op.val = Bump(w, InUse(k))
<1> DEFINE K == Kind(w)
           q == puts'[w]
<1>1. /\ K \in Kinds /\ Len(q) = 3 /\ pc[w] = "record" /\ pc'[w] = "put" /\ Snaps(q, K)
      /\ \A i \in 1..3 : q[i].key = Own(K)[i] /\ q[i].val = Bump(w, InUse(Own(K)[i]))
      /\ \A x \in Workers \ {w} : pc'[x] = pc[x] /\ puts'[x] = puts[x]
  BY Records
<1>2. \A i \in 1..3 : q[i] \in Snapshots
  <2>1. q \in Seq(Snapshots) /\ Len(q) = 3
    BY <1>1 DEF Snaps, Snapshots
  <2> HIDE DEF q
  <2>2. \A i \in 1..Len(q) : q[i] \in Snapshots
    BY <2>1
  <2> QED BY <2>1, <2>2
<1>3. \A i \in 1..3 : Own(K)[i] \in Sums3(K)
  BY <1>1, OwnKeys
<1>4. ASSUME NEW op \in InHand PROVE op \in InHand'
  BY <1>1 DEF InHand
<1>5. ASSUME NEW op \in InHand'
      PROVE  \/ op \in InHand
             \/ op.key \in Sums3(K) /\ op.val = Bump(w, InUse(op.key))
  <2>1. PICK x \in Workers : /\ op \in Snapshots
                             /\ pc'[x] = "put" /\ \E i \in 1..Len(puts'[x]) : puts'[x][i] = op
    BY DEF InHand
  <2>2. PICK i \in 1..Len(puts'[x]) : puts'[x][i] = op
    BY <2>1
  <2>3. CASE x # w
    BY <1>1, <2>1, <2>3 DEF InHand
  <2>4. CASE x = w
    <3>1. i \in 1..3 /\ op = q[i]
      BY <1>1, <2>2, <2>4
    <3> HIDE DEF q, K
    <3> QED BY <1>1, <1>3, <3>1
  <2> QED BY <2>3, <2>4
<1>6. ASSUME NEW k \in Sums3(K)
      PROVE  \E op \in InHand' : op.key = k /\ op.val = Bump(w, InUse(k))
  <2>1. \E i \in 1..3 : Own(K)[i] = k
    <3>1. Own(K)[1] = Day /\ Own(K)[2] = Part(K) /\ Own(K)[3] = Bill(K)
      BY <1>1, OwnKeys
    <3> QED BY <3>1 DEF Sums3
  <2>2. PICK i \in 1..3 : Own(K)[i] = k
    BY <2>1
  <2>3. q[i] \in InHand'
    BY <1>1, <1>2 DEF InHand
  <2>4. q[i].key = k /\ q[i].val = Bump(w, InUse(k))
    BY <1>1, <2>2
  <2> QED BY <2>3, <2>4
<1> QED BY <1>4, <1>5, <1>6

(* What the store and memory know of k is no more than what was counted.   *)
Bounded(k) ==
  LET c == counted[k].requests
  IN /\ mem[k] # None => mem[k].requests <= c
     /\ stored[k] # None => stored[k].requests <= c
     /\ \A i \in 1..Len(queued) : queued[i].key = k => queued[i].val.requests <= c
     /\ \A op \in InHand : op.key = k => op.val.requests <= c

(* A total that is on its way to the store is in memory.                   *)
InMemory(k) ==
  mem[k] = None => /\ \A i \in 1..Len(queued) : queued[i].key # k
                   /\ \A op \in InHand : op.key # k

Value(t) == IF t = None THEN Nothing ELSE t

(* What was counted is in use, and it is accepted or in some hand.         *)
Exact(k) ==
  /\ InUse(k) = counted[k]
  /\ Value(Accepted(k)) = counted[k] \/ \E op \in InHand : op.key = k /\ op.val = counted[k]
  /\ \A op \in InHand : op.key = k /\ op.val.requests = counted[k].requests =>
                          op.val = counted[k]

Faultless == ~lost /\ ~dropped /\ ~overtaken
Counts == \A k \in Sums : Bounded(k) /\ InMemory(k) /\ (Faultless => Exact(k))

(* The queue after something was accepted.                                 *)
LEMMA AcceptedLast ==
  ASSUME QueueTyped, NEW op \in Writings, Behind!Accept(op)
  PROVE  \A i \in 1..Len(queued') :
           queued'[i] = op \/ (i \in 1..Len(queued) /\ queued'[i] = queued[i])
<1>1. queued \in Seq(Writings) /\ queued' = Append(queued, op)
  BY DEF QueueTyped, Behind!Accept
<1>2. /\ Len(queued') = Len(queued) + 1 /\ queued'[Len(queued) + 1] = op
      /\ \A i \in 1..Len(queued) : queued'[i] = queued[i]
  BY <1>1
<1>3. \A i \in 1..(Len(queued) + 1) : i = Len(queued) + 1 \/ i \in 1..Len(queued)
  BY <1>1
<1> QED BY <1>2, <1>3

(* What is stored of k was stored, or waited in the queue.                 *)
LEMMA ThenFrom ==
  ASSUME QueueTyped, NEW n \in 0..Len(queued), NEW k \in Sums \cup {Pin}
  PROVE  \/ Then(n, k) = stored[k]
         \/ \E i \in 1..Len(queued) : queued[i].key = k /\ Then(n, k) = queued[i].val
<1> DEFINE b == SubSeq(queued, 1, n)
<1>1. queued \in Seq(Writings) /\ n \in Nat /\ n <= Len(queued)
  BY DEF QueueTyped
<1>2. Len(b) = n /\ \A i \in 1..n : b[i] = queued[i] /\ i \in 1..Len(queued)
  BY <1>1
<1>3. Then(n, k) = Behind!Replay(stored, b)[k]
  BY DEF Then
<1> HIDE DEF b
<1>4. Len(b) \in Nat /\ \A i \in 1..Len(b) : b[i] = queued[i] /\ i \in 1..Len(queued)
  BY <1>1, <1>2
<1>5. CASE \A i \in 1..Len(b) : b[i].key # k
  BY <1>3, <1>4, <1>5, ReplayAt
<1>6. CASE \E i \in 1..Len(b) : b[i].key = k /\ \A j \in (i + 1)..Len(b) : b[j].key # k
  <2>1. PICK i \in 1..Len(b) : b[i].key = k /\ \A j \in (i + 1)..Len(b) : b[j].key # k
    BY <1>6
  <2>2. Behind!Replay(stored, b)[k] = b[i].val
    BY <1>4, <2>1, ReplayAt
  <2>3. i \in 1..Len(queued) /\ b[i] = queued[i]
    BY <1>4, <2>1
  <2> QED BY <1>3, <2>1, <2>2, <2>3
<1>7. \/ \A i \in 1..Len(b) : b[i].key # k
      \/ \E i \in 1..Len(b) : b[i].key = k /\ \A j \in (i + 1)..Len(b) : b[j].key # k
  <2>1. Len(b) \in Nat
    BY <1>4
  <2> QED BY <2>1, LastWrite
<1> QED BY <1>5, <1>6, <1>7

(* A step that leaves memory, the store and all hands alone, and queues    *)
(* nothing or something of another key.                                    *)
LEMMA CountsKept ==
  ASSUME Typed, Counts, NEW k \in Sums, UNCHANGED <<mem, stored, counted>>, InHand' = InHand,
         lost => lost', dropped => dropped', overtaken => overtaken',
         Accepted(k)' = Accepted(k),
         \A i \in 1..Len(queued') :
           queued'[i].key # k \/ \E j \in 1..Len(queued) : queued'[i] = queued[j]
  PROVE  /\ Bounded(k)' /\ InMemory(k)' /\ (Faultless' => Exact(k)')
<1>1. Bounded(k) /\ InMemory(k) /\ (Faultless => Exact(k))
  BY DEF Counts
<1>2. Bounded(k)'
  BY <1>1 DEF Bounded
<1>3. InMemory(k)'
  BY <1>1 DEF InMemory
<1>4. InUse(k)' = InUse(k)
  BY DEF InUse, Loaded
<1>5. Faultless' => Exact(k)'
  BY <1>1, <1>4 DEF Exact, Faultless
<1> QED BY <1>2, <1>3, <1>5

(* A step of the clock or of an answer does not touch the totals.          *)
LEMMA CountsStill ==
  ASSUME Typed, Counts, Still
  PROVE  Counts'
<1>1. UNCHANGED <<mem, stored, queued, counted, lost, dropped, overtaken>>
  BY DEF Still, disk, hist
<1>2. InHand' = InHand
  BY HandStill DEF Still
<1>3. ASSUME NEW k \in Sums PROVE Bounded(k)' /\ InMemory(k)' /\ (Faultless' => Exact(k)')
  <2>1. Accepted(k)' = Accepted(k)
    BY <1>1 DEF Accepted
  <2> QED BY <1>1, <1>2, <2>1, CountsKept
<1> QED BY <1>3 DEF Counts

(* A pin is queued.                                                        *)
LEMMA CountsPin ==
  ASSUME Typed, Counts, NEW op \in Writings, op.key = Pin, Behind!Accept(op),
         UNCHANGED <<mem, counted>>, InHand' = InHand,
         lost => lost', dropped => dropped', overtaken => overtaken'
  PROVE  Counts'
<1>1. QueueTyped
  BY DEF Typed
<1>2. ASSUME NEW k \in Sums PROVE Bounded(k)' /\ InMemory(k)' /\ (Faultless' => Exact(k)')
  <2>1. op.key # k
    BY KeysApart
  <2>2. Accepted(k)' = Accepted(k) /\ stored' = stored
    BY <1>1, <2>1, Accepts
  <2>3. \A i \in 1..Len(queued') :
          queued'[i].key # k \/ \E j \in 1..Len(queued) : queued'[i] = queued[j]
    BY <1>1, <2>1, AcceptedLast
  <2> QED BY <2>2, <2>3, CountsKept
<1> QED BY <1>2 DEF Counts

(* A snapshot is queued.                                                   *)
LEMMA CountsPut ==
  ASSUME Typed, Counts, NEW w \in Workers, Put(w), pc[w] # "pin"
  PROVE  Counts'
<1> DEFINE op == Head(puts[w])
<1>1. QueueTyped
  BY DEF Typed
<1>2. /\ op \in Writings /\ Behind!Accept(op) /\ UNCHANGED <<mem, counted, lost, dropped>>
      /\ overtaken' = (overtaken \/ Later(op))
  BY Puts
<1>3. op \in InHand /\ InHand' \subseteq InHand /\ InHand \subseteq InHand' \cup {op}
  BY HandPuts
<1> HIDE DEF op
<1>4. op.key \in Sums /\ op.val \in Totals
  BY <1>3 DEF InHand, Snapshots
<1>5. /\ stored' = stored
      /\ \A k \in Sums : Accepted(k)' = IF op.key = k THEN op.val ELSE Accepted(k)
      /\ \A i \in 1..Len(queued') :
           queued'[i] = op \/ (i \in 1..Len(queued) /\ queued'[i] = queued[i])
  BY <1>1, <1>2, Accepts, AcceptedLast
<1>6. ASSUME NEW k \in Sums PROVE Bounded(k)' /\ InMemory(k)' /\ (Faultless' => Exact(k)')
  <2>1. Bounded(k) /\ InMemory(k) /\ (Faultless => Exact(k))
    BY DEF Counts
  <2>2. Bounded(k)'
    BY <1>2, <1>3, <1>5, <2>1 DEF Bounded
  <2>3. InMemory(k)'
    BY <1>2, <1>3, <1>5, <2>1 DEF InMemory
  <2>4. ASSUME Faultless' PROVE Exact(k)'
    <3>1. Exact(k) /\ ~Later(op)
      BY <1>2, <2>1, <2>4 DEF Faultless
    <3>2. InUse(k)' = counted'[k]
      BY <1>2, <1>5, <3>1 DEF Exact, InUse, Loaded
    <3>3. \A x \in InHand' : x.key = k /\ x.val.requests = counted'[k].requests =>
                               x.val = counted'[k]
      BY <1>2, <1>3, <3>1 DEF Exact
    <3>4. \/ Value(Accepted(k)') = counted'[k]
          \/ \E x \in InHand' : x.key = k /\ x.val = counted'[k]
      <4>1. CASE op.key # k
        <5>1. Accepted(k)' = Accepted(k)
          BY <1>5, <4>1
        <5> QED BY <1>2, <1>3, <3>1, <4>1, <5>1 DEF Exact
      <4>2. CASE op.key = k
        <5>1. Accepted(k)' = op.val
          BY <1>5, <4>2
        <5>2. Value(op.val) = op.val
          BY <1>4, Shows DEF Value
        <5>3. CASE \E x \in InHand : x.key = k /\ x.val = counted[k]
          BY <1>2, <1>3, <5>1, <5>2, <5>3
        <5>4. CASE Value(Accepted(k)) = counted[k]
          <6>1. op.val.requests <= counted[k].requests
            BY <1>3, <2>1, <4>2 DEF Bounded
          <6>2. counted[k].requests \in Nat /\ op.val.requests \in Nat
            BY <1>4, Shows DEF Totals
          <6>3. counted[k].requests <= op.val.requests
            <7>1. CASE Accepted(k) = None
              <8>1. counted[k].requests = 0
                BY <5>4, <7>1 DEF Value, Nothing
              <8> QED BY <6>2, <8>1
            <7>2. CASE Accepted(k) # None
              <8>1. Accepted(k) = counted[k]
                BY <5>4, <7>2 DEF Value
              <8>2. ~(counted[k].requests > op.val.requests)
                BY <3>1, <4>2, <7>2, <8>1, KeysApart DEF Later
              <8> QED BY <6>2, <8>2
            <7> QED BY <7>1, <7>2
          <6>4. op.val.requests = counted[k].requests
            BY <6>1, <6>2, <6>3
          <6>5. op.val = counted[k]
            BY <1>3, <3>1, <4>2, <6>4 DEF Exact
          <6> QED BY <1>2, <5>1, <5>2, <6>5
        <5> QED BY <3>1, <5>3, <5>4 DEF Exact
      <4> QED BY <4>1, <4>2
    <3> QED BY <3>2, <3>3, <3>4 DEF Exact
  <2> QED BY <2>2, <2>3, <2>4
<1> QED BY <1>6 DEF Counts

(* A request is recorded.                                                  *)
LEMMA CountsRecord ==
  ASSUME Typed, Counts, NEW w \in Workers, Record(w)
  PROVE  Counts'
<1> DEFINE S == Sums3(Kind(w))
<1>1. /\ pc[w] = "record" /\ UNCHANGED <<stored, queued, lost, dropped, overtaken>>
      /\ \A k \in S : mem'[k] = Bump(w, InUse(k)) /\ counted'[k] = Bump(w, counted[k])
      /\ \A k \in Sums \ S : mem'[k] = mem[k] /\ counted'[k] = counted[k]
  BY Records DEF disk
<1>2. /\ InHand \subseteq InHand'
      /\ \A op \in InHand' : op \in InHand \/ (op.key \in S /\ op.val = Bump(w, InUse(op.key)))
      /\ \A k \in S : \E op \in InHand' : op.key = k /\ op.val = Bump(w, InUse(k))
  BY HandRecords
<1> HIDE DEF S
<1>3. /\ \A k \in Sums : InUse(k) \in Totals /\ counted[k] \in Totals
      /\ \A t \in Totals : Bump(w, t) \in Totals /\ Bump(w, t).requests = t.requests + 1
      /\ None \notin Totals
  BY <1>1, Shows
<1>4. ASSUME NEW k \in Sums PROVE Bounded(k)' /\ InMemory(k)' /\ (Faultless' => Exact(k)')
  <2>1. Bounded(k) /\ InMemory(k) /\ (Faultless => Exact(k))
    BY DEF Counts
  <2>2. Accepted(k)' = Accepted(k) /\ (Faultless' => Faultless)
    BY <1>1 DEF Accepted, Faultless
  <2>3. CASE k \notin S
    <3>1. mem'[k] = mem[k] /\ counted'[k] = counted[k]
      BY <1>1, <2>3
    <3>2. \A op \in InHand' : op.key = k => op \in InHand
      BY <1>2, <2>3
    <3>3. InUse(k)' = InUse(k)
      BY <1>1, <3>1 DEF InUse, Loaded
    <3>4. Bounded(k)'
      BY <1>1, <2>1, <3>1, <3>2 DEF Bounded
    <3>5. InMemory(k)'
      BY <1>1, <2>1, <3>1, <3>2 DEF InMemory
    <3>6. Faultless' => Exact(k)'
      BY <1>2, <2>1, <2>2, <3>1, <3>2, <3>3 DEF Exact
    <3> QED BY <3>4, <3>5, <3>6
  <2>4. CASE k \in S
    <3> DEFINE u == Bump(w, InUse(k))
               c == Bump(w, counted[k])
    <3>1. mem'[k] = u /\ counted'[k] = c
      BY <1>1, <2>4
    <3>2. /\ u \in Totals /\ u.requests = InUse(k).requests + 1 /\ u # None
          /\ c \in Totals /\ c.requests = counted[k].requests + 1
          /\ InUse(k).requests \in Nat /\ counted[k].requests \in Nat
      BY <1>3 DEF Totals
    <3>3. InUse(k).requests <= counted[k].requests
      BY <2>1, <3>2 DEF Bounded, InUse, Loaded, Nothing
    <3>4. \A op \in InHand' : op.key = k => op \in InHand \/ op.val = u
      BY <1>2
    <3>5. \E op \in InHand' : op.key = k /\ op.val = u
      BY <1>2, <2>4
    <3> HIDE DEF u, c
    <3>6. \A n : n <= counted[k].requests /\ n \in Nat => n <= c.requests
      BY <3>2
    <3>7. Bounded(k)'
      <4>1. mem'[k].requests <= c.requests
        BY <3>1, <3>2, <3>3
      <4>2. stored'[k] # None => stored'[k].requests <= c.requests
        <5>1. stored[k] # None => stored[k].requests \in Nat
          BY Shows DEF Totals
        <5> QED BY <1>1, <2>1, <3>6, <5>1 DEF Bounded
      <4>3. ASSUME NEW i \in 1..Len(queued'), queued'[i].key = k
            PROVE  queued'[i].val.requests <= c.requests
        <5>1. queued[i].val \in Totals
          <6>1. queued[i] \in Writings
            BY <1>1 DEF Typed, QueueTyped
          <6> QED BY <1>1, <4>3, <6>1, KeysApart DEF Writings
        <5> QED BY <1>1, <2>1, <3>6, <4>3, <5>1 DEF Bounded, Totals
      <4>4. ASSUME NEW op \in InHand', op.key = k PROVE op.val.requests <= c.requests
        <5>1. CASE op \in InHand
          <6>1. op.val.requests \in Nat
            BY <5>1 DEF InHand, Snapshots, Totals
          <6> QED BY <2>1, <3>6, <4>4, <5>1, <6>1 DEF Bounded
        <5>2. CASE op.val = u
          BY <3>2, <3>3, <5>2
        <5> QED BY <3>4, <4>4, <5>1, <5>2
      <4> QED BY <3>1, <4>1, <4>2, <4>3, <4>4 DEF Bounded
    <3>8. InMemory(k)'
      BY <3>1, <3>2 DEF InMemory
    <3>9. ASSUME Faultless' PROVE Exact(k)'
      <4>1. Exact(k)
        BY <2>1, <2>2, <3>9
      <4>2. u = c
        BY <4>1 DEF Exact, u, c
      <4>3. InUse(k)' = c
        BY <3>1, <3>2, <4>2 DEF InUse
      <4>4. ASSUME NEW op \in InHand', op.key = k, op.val.requests = c.requests
            PROVE  op.val = c
        <5>1. CASE op \in InHand
          <6>1. op.val.requests <= counted[k].requests
            BY <2>1, <4>4, <5>1 DEF Bounded
          <6> QED BY <3>2, <4>4, <6>1
        <5>2. CASE op.val = u
          BY <4>2, <5>2
        <5> QED BY <3>4, <4>4, <5>1, <5>2
      <4> QED BY <3>1, <3>5, <4>2, <4>3, <4>4 DEF Exact
    <3> QED BY <3>7, <3>8, <3>9
  <2> QED BY <2>3, <2>4
<1> QED BY <1>4 DEF Counts

(* The dashboard loads the total of the day.                               *)
LEMMA CountsToday ==
  ASSUME Typed, Counts, Today
  PROVE  Counts'
<1>1. /\ UNCHANGED <<stored, queued, pc, puts, counted, lost, dropped, overtaken>>
      /\ mem[Day] = None /\ mem'[Day] = Loaded(Day)
      /\ \A k \in Sums \ {Day} : mem'[k] = mem[k]
  BY Loads DEF disk, hist
<1>2. InHand' = InHand
  BY <1>1, HandStill
<1>3. ASSUME NEW k \in Sums PROVE Bounded(k)' /\ InMemory(k)' /\ (Faultless' => Exact(k)')
  <2>1. Bounded(k) /\ InMemory(k) /\ (Faultless => Exact(k))
    BY DEF Counts
  <2>2. Accepted(k)' = Accepted(k) /\ (Faultless' => Faultless)
    BY <1>1 DEF Accepted, Faultless
  <2>3. Loaded(k) \in Totals /\ None \notin Totals /\ counted[k].requests \in Nat
    BY Shows DEF Totals
  <2>4. mem'[k] = mem[k] \/ (mem'[k] = Loaded(k) /\ mem[k] = None)
    BY <1>1
  <2>5. InUse(k)' = InUse(k)
    BY <1>1, <2>3, <2>4 DEF InUse, Loaded
  <2>6. Bounded(k)'
    <3>1. Loaded(k).requests <= counted[k].requests
      BY <2>1, <2>3 DEF Bounded, Loaded, Nothing
    <3> QED BY <1>1, <1>2, <2>1, <2>4, <3>1 DEF Bounded
  <2>7. InMemory(k)'
    BY <1>1, <1>2, <2>1, <2>3, <2>4 DEF InMemory
  <2>8. Faultless' => Exact(k)'
    BY <1>1, <1>2, <2>1, <2>2, <2>5 DEF Exact
  <2> QED BY <2>6, <2>7, <2>8
<1> QED BY <1>3 DEF Counts

(* A transaction, or a failed one.                                         *)
LEMMA CountsCommit ==
  ASSUME Typed, Counts, NEW n \in 1..Len(queued), Commit(n) \/ CommitFails(n)
  PROVE  Counts'
<1>1. /\ UNCHANGED <<mem, pc, puts, counted, overtaken, lost>>
      /\ Commit(n) => Behind!Commit(n) /\ dropped' = dropped
      /\ CommitFails(n) => Behind!Drop(n) /\ dropped'
  BY CommitTyped
<1>2. QueueTyped
  BY DEF Typed
<1>3. /\ n \in 0..Len(queued)
      /\ \A i \in 1..Len(queued') : n + i \in 1..Len(queued) /\ queued'[i] = queued[n + i]
      /\ Behind!Commit(n) =>
           \A k \in Sums : stored'[k] = Then(n, k) /\ Accepted(k)' = Accepted(k)
  BY <1>1, <1>2, Commits
<1>4. InHand' = InHand
  BY <1>1, HandStill
<1>5. ASSUME NEW k \in Sums PROVE Bounded(k)' /\ InMemory(k)' /\ (Faultless' => Exact(k)')
  <2>1. Bounded(k) /\ InMemory(k) /\ (Faultless => Exact(k))
    BY DEF Counts
  <2>2. \/ stored'[k] = stored[k]
        \/ \E i \in 1..Len(queued) : queued[i].key = k /\ stored'[k] = queued[i].val
    <3>1. CASE Commit(n)
      BY <1>1, <1>2, <1>3, <3>1, ThenFrom
    <3>2. CASE CommitFails(n)
      BY <1>1, <3>2 DEF Behind!Drop
    <3> QED BY <3>1, <3>2
  <2>3. Bounded(k)'
    BY <1>1, <1>3, <1>4, <2>1, <2>2 DEF Bounded
  <2>4. InMemory(k)'
    BY <1>1, <1>3, <1>4, <2>1 DEF InMemory
  <2>5. ASSUME Faultless' PROVE Exact(k)'
    <3>1. Behind!Commit(n) /\ Exact(k)
      BY <1>1, <2>1, <2>5 DEF Faultless
    <3>2. Accepted(k)' = Accepted(k)
      BY <1>3, <3>1
    <3>3. InUse(k)' = InUse(k)
      BY <1>1, <2>1, <2>2 DEF InMemory, InUse, Loaded
    <3> QED BY <1>1, <1>4, <3>1, <3>2, <3>3 DEF Exact
  <2> QED BY <2>3, <2>4, <2>5
<1> QED BY <1>5 DEF Counts

(* The process ends, and begins with what is stored.                       *)
LEMMA CountsRestart ==
  ASSUME Typed, Counts, Restart
  PROVE  Counts'
<1>1. /\ queued' = << >> /\ UNCHANGED <<stored, counted, overtaken, dropped>>
      /\ lost' = (lost \/ queued # << >> \/ \E w \in Workers : puts[w] # << >>)
      /\ \A k \in Sums : mem'[k] = None
      /\ \A w \in Workers : pc'[w] = "idle"
  BY Restarts
<1>2. InHand' = {}
  BY <1>1 DEF InHand
<1>3. Len(<< >>) = 0 /\ \A i \in 1..0 : FALSE
  OBVIOUS
<1>4. ASSUME NEW k \in Sums PROVE Bounded(k)' /\ InMemory(k)' /\ (Faultless' => Exact(k)')
  <2>1. Bounded(k) /\ InMemory(k) /\ (Faultless => Exact(k))
    BY DEF Counts
  <2>2. Bounded(k)'
    BY <1>1, <1>2, <1>3, <2>1 DEF Bounded
  <2>3. InMemory(k)'
    BY <1>1, <1>2, <1>3 DEF InMemory
  <2>4. ASSUME Faultless' PROVE Exact(k)'
    <3>1. Exact(k) /\ queued = << >> /\ \A w \in Workers : puts[w] = << >>
      BY <1>1, <2>1, <2>4 DEF Faultless
    <3>2. InHand = {}
      BY <1>3, <3>1 DEF InHand
    <3>3. Accepted(k) = stored[k]
      <4>1. queued = << >> /\ QueueTyped
        BY <3>1 DEF Typed
      <4>2. Behind!Replay(stored, << >>)[k] = stored[k]
        BY <1>3, ReplayAt
      <4> QED BY <4>1, <4>2 DEF Accepted
    <3>4. Accepted(k)' = Accepted(k)
      BY <1>1, <3>1 DEF Accepted
    <3>5. Value(Accepted(k)) = counted[k]
      BY <3>1, <3>2 DEF Exact
    <3>6. InUse(k)' = counted[k]
      BY <1>1, <3>3, <3>5 DEF InUse, Loaded, Value
    <3> QED BY <1>1, <1>2, <3>4, <3>5, <3>6 DEF Exact
  <2> QED BY <2>2, <2>3, <2>4
<1> QED BY <1>4 DEF Counts

(* Counts holds at first, and every step keeps it.                         *)
LEMMA CountsInit ==
  ASSUME Init
  PROVE  Counts
<1>1. /\ \A k \in Sums : mem[k] = None /\ counted[k] = Nothing /\ stored[k] = None
      /\ queued = << >> /\ \A w \in Workers : pc[w] = "idle"
  BY DEF Init
<1>2. InHand = {}
  BY <1>1 DEF InHand
<1>3. Len(<< >>) = 0 /\ \A i \in 1..0 : FALSE
  OBVIOUS
<1>4. ASSUME NEW k \in Sums PROVE Bounded(k) /\ InMemory(k) /\ Exact(k)
  <2>1. Bounded(k)
    BY <1>1, <1>2, <1>3 DEF Bounded
  <2>2. InMemory(k)
    BY <1>1, <1>2, <1>3 DEF InMemory
  <2>3. Accepted(k) = None
    <3>1. Behind!Replay(stored, << >>)[k] = stored[k]
      BY <1>3, ReplayAt
    <3> QED BY <1>1, <3>1 DEF Accepted
  <2>4. InUse(k) = counted[k] /\ Value(Accepted(k)) = counted[k]
    BY <1>1, <2>3 DEF InUse, Loaded, Value
  <2> QED BY <1>2, <2>1, <2>2, <2>4 DEF Exact
<1> QED BY <1>4 DEF Counts

(* Every step keeps Counts.                                                *)
LEMMA CountsStep ==
  ASSUME Typed, Counts, [Next]_vars
  PROVE  Counts'
<1>1. Moving
  BY TypedStep
<1>2. CASE Still
  BY <1>2, CountsStill
<1>3. ASSUME NEW w \in Workers, Unpin(w) PROVE Counts'
  <2> DEFINE op == [key |-> Pin, val |-> None]
  <2>1. /\ op \in Writings /\ Behind!Accept(op) /\ op.key = Pin
        /\ UNCHANGED <<mem, counted, puts, overtaken, lost, dropped>>
        /\ \A u \in Workers : pc'[u] = "put" <=> pc[u] = "put"
    BY <1>3, Unpins
  <2> HIDE DEF op
  <2>2. InHand' = InHand
    BY <2>1, HandStill
  <2> QED BY <2>1, <2>2, CountsPin
<1>4. ASSUME NEW w \in Workers, Record(w) PROVE Counts'
  BY <1>4, CountsRecord
<1>5. ASSUME NEW w \in Workers, Put(w) PROVE Counts'
  <2>1. CASE pc[w] = "pin"
    <3> DEFINE op == Head(puts[w])
    <3>1. /\ op \in Writings /\ Behind!Accept(op) /\ op.key = Pin
          /\ UNCHANGED <<mem, counted, lost, dropped>> /\ (overtaken => overtaken')
          /\ InHand' = InHand
      BY <1>5, <2>1, Puts, HandPuts
    <3> HIDE DEF op
    <3> QED BY <3>1, CountsPin
  <2>2. CASE pc[w] # "pin"
    BY <1>5, <2>2, CountsPut
  <2> QED BY <2>1, <2>2
<1>6. CASE Today
  BY <1>6, CountsToday
<1>7. CASE Restart
  BY <1>7, CountsRestart
<1>8. ASSUME NEW n \in 1..Len(queued), Commit(n) \/ CommitFails(n) PROVE Counts'
  BY <1>8, CountsCommit
<1> QED BY <1>1, <1>2, <1>3, <1>4, <1>5, <1>6, <1>7, <1>8 DEF Moving, Restful

(* So it holds throughout.                                                 *)
LEMMA CountsAlways == Spec => []Counts
<1>1. Init => Counts
  BY CountsInit
<1>2. Typed /\ Counts /\ [Next]_vars => Counts'
  BY CountsStep
<1> QED BY <1>1, <1>2, TypedAlways, PTL DEF Spec

(* The totals shown, over any number of restarts, never exceed what was    *)
(* recorded; and they are exactly that unless a commit failed, the process *)
(* ended before everything was committed, or a snapshot was overtaken in   *)
(* the queue (recorder.go).                                                *)
THEOREM CountsAreExact == Spec => []CountsExact
<1>1. Typed /\ Counts => CountsExact
  <2> SUFFICES ASSUME Typed, Counts, NEW k \in Sums
               PROVE  /\ Shown(k).requests <= counted[k].requests
                      /\ ~lost /\ ~dropped /\ ~overtaken => Shown(k) = counted[k]
    BY DEF CountsExact
  <2>1. Bounded(k) /\ (Faultless => Exact(k))
    BY DEF Counts
  <2>2. counted[k].requests \in Nat
    BY Shows DEF Totals
  <2>3. Shown(k).requests <= counted[k].requests
    BY <2>1, <2>2 DEF Bounded, Shown, InUse, Loaded, Nothing
  <2> QED BY <2>1, <2>3 DEF Exact, Faultless, Shown
<1> QED BY <1>1, TypedAlways, CountsAlways, PTL

-----------------------------------------------------------------------------
(* The parts and the whole.  V[k][d] is how many of the first d requests   *)
(* of the day were of kind k, after a restart of those that the store      *)
(* still knows.                                                            *)

Requests(t) == IF t = None THEN 0 ELSE t.requests

(* What is accepted of k, and what is stored of it after n operations.     *)
End(k) == Requests(Accepted(k))
Mark(n, k) == Requests(Then(n, k))
Used(k) == InUse(k).requests

Divides(V) ==
  /\ V \in [Kinds -> [Nat -> Nat]]
  /\ \A d \in Nat : (V["responses"][d] + V["claude"][d]) + V["chat"][d] <= d
  /\ \A k \in Kinds : \A d, e \in Nat : d <= e => V[k][d] <= V[k][e]

(* In memory: the day's requests are all that V knows.                     *)
InStep(V) ==
  \A k \in Kinds : /\ Used(Part(k)) <= V[k][Used(Day)] /\ Used(Bill(k)) <= Used(Part(k))
                   /\ \A d \in Nat : d >= Used(Day) => V[k][d] = V[k][Used(Day)]

(* In a goroutine's hands: each snapshot has its whole before it.          *)
Fits(V, q, k) ==
  /\ Len(q) = 3 => /\ q[2].val.requests <= V[k][q[1].val.requests]
                   /\ q[3].val.requests <= q[2].val.requests
  /\ Len(q) = 2 => /\ q[1].val.requests <= V[k][End(Day)]
                   /\ q[2].val.requests <= q[1].val.requests
  /\ Len(q) = 1 => q[1].val.requests <= End(Part(k))

HandFits(V, w) == \E k \in Kinds : Snaps(puts[w], k) /\ Fits(V, puts[w], k)
AllFit(V) == \A w \in Workers : pc[w] = "put" => HandFits(V, w)

(* In the store, wherever a crash cuts the queue.                          *)
Whole(V, n) == \A k \in Kinds : /\ Mark(n, Part(k)) <= V[k][Mark(n, Day)]
                                /\ Mark(n, Bill(k)) <= Mark(n, Part(k))
WholeAll(V) == \A n \in 0..Len(queued) : Whole(V, n)

Parted == ~overtaken /\ ~dropped =>
            \E V \in [Kinds -> [Nat -> Nat]] :
              Divides(V) /\ InStep(V) /\ AllFit(V) /\ WholeAll(V)

(* Requests are numbers.                                                   *)
LEMMA Numbers ==
  ASSUME Typed
  PROVE  /\ Len(queued) \in Nat
         /\ \A k \in Sums : Used(k) \in Nat /\ End(k) \in Nat /\ Mark(0, k) = Requests(stored[k])
                            /\ Mark(Len(queued), k) = End(k)
                            /\ Loaded(k).requests = Requests(stored[k])
         /\ \A n \in 0..Len(queued) : \A k \in Sums : Mark(n, k) \in Nat
<1>1. QueueTyped
  BY DEF Typed
<1>2. /\ Len(queued) \in Nat
      /\ \A k \in Sums \cup {Pin} :
              Then(0, k) = stored[k] /\ Then(Len(queued), k) = Accepted(k)
      /\ \A n \in 0..Len(queued) : \A k \in Sums : Then(n, k) \in Totals \cup {None}
  BY <1>1, ThenEnds
<1>3. \A t \in Totals \cup {None} : Requests(t) \in Nat
  BY DEF Requests, Totals
<1>4. \A n \in 0..Len(queued) : \A k \in Sums : Mark(n, k) \in Nat
  BY <1>2, <1>3 DEF Mark
<1>5. ASSUME NEW k \in Sums
      PROVE  /\ Used(k) \in Nat /\ End(k) \in Nat /\ Mark(0, k) = Requests(stored[k])
             /\ Mark(Len(queued), k) = End(k)
             /\ Loaded(k).requests = Requests(stored[k])
  <2>1. Used(k) \in Nat
    BY Shows DEF Used, Totals
  <2>2. Mark(0, k) = Requests(stored[k]) /\ Mark(Len(queued), k) = End(k)
    BY <1>2 DEF Mark, End
  <2>3. Len(queued) \in 0..Len(queued)
    BY <1>2
  <2>4. End(k) \in Nat
    BY <1>4, <2>2, <2>3
  <2>5. Loaded(k).requests = Requests(stored[k])
    BY DEF Loaded, Requests, Nothing
  <2> QED BY <2>1, <2>2, <2>4, <2>5
<1> QED BY <1>2, <1>4, <1>5

(* The marks after something was accepted.                                 *)
LEMMA MarkNext ==
  ASSUME Typed, NEW op \in Writings, Behind!Accept(op), NEW V, WholeAll(V),
         \A k \in Kinds : End(Part(k))' <= V[k][End(Day)'] /\ End(Bill(k))' <= End(Part(k))'
  PROVE  WholeAll(V)'
<1>1. QueueTyped /\ Len(queued) \in Nat
  BY Numbers DEF Typed
<1>2. /\ Len(queued') = Len(queued) + 1
      /\ \A k \in Sums \cup {Pin} :
           /\ \A n \in 0..Len(queued) : Then(n, k)' = Then(n, k)
           /\ \A n : n = Len(queued) + 1 => Then(n, k)' = Accepted(k)'
  BY <1>1, Accepts
<1>3. ASSUME NEW n \in 0..Len(queued') PROVE Whole(V, n)'
  <2>1. n \in 0..Len(queued) \/ n = Len(queued) + 1
    BY <1>1, <1>2
  <2>2. CASE n \in 0..Len(queued)
    <3>1. \A k \in Sums : Mark(n, k)' = Mark(n, k)
      BY <1>2, <2>2 DEF Mark, Requests
    <3>2. Whole(V, n)
      BY <2>2 DEF WholeAll
    <3> QED BY <3>1, <3>2, KeysApart DEF Whole
  <2>3. CASE n = Len(queued) + 1
    <3>1. \A k \in Sums : Mark(n, k)' = End(k)'
      BY <1>2, <2>3 DEF Mark, End, Requests
    <3> QED BY <3>1, KeysApart DEF Whole
  <2> QED BY <2>1, <2>2, <2>3
<1> QED BY <1>3 DEF WholeAll

(* What goes on with the same store and queue.                             *)
LEMMA WholeKept ==
  ASSUME UNCHANGED <<stored, queued>>, NEW V, WholeAll(V)
  PROVE  WholeAll(V)' /\ \A k \in Sums : End(k)' = End(k)
<1>1. \A n, k : Mark(n, k)' = Mark(n, k)
  BY DEF Mark, Then, Requests
<1>2. \A k : End(k)' = End(k)
  BY DEF End, Accepted, Requests
<1> QED BY <1>1, <1>2 DEF WholeAll, Whole

(* Hands that stay fit while the accepted totals grow.                     *)
LEMMA StayFit ==
  ASSUME Typed, NEW V, Divides(V), NEW w \in Workers, pc[w] = "put", AllFit(V),
         puts'[w] = puts[w], \A k \in Sums : End(k)' \in Nat /\ End(k) <= End(k)'
  PROVE  HandFits(V, w)'
<1> DEFINE q == puts[w]
<1>1. PICK k \in Kinds : Snaps(q, k) /\ Fits(V, q, k)
  BY DEF AllFit, HandFits
<1>2. /\ End(Day) \in Nat /\ End(Day)' \in Nat /\ End(Day) <= End(Day)'
      /\ End(Part(k)) \in Nat /\ End(Part(k))' \in Nat /\ End(Part(k)) <= End(Part(k))'
  BY KeysApart, Numbers
<1>3. V[k][End(Day)] <= V[k][End(Day)'] /\ V[k][End(Day)] \in Nat /\ V[k][End(Day)'] \in Nat
  BY <1>2 DEF Divides
<1>4. \A i \in 1..Len(q) : q[i].val.requests \in Nat
  BY <1>1, SnapsLeft DEF Totals
<1>5. /\ Len(q) = 2 => q[1].val.requests <= V[k][End(Day)']
      /\ Len(q) = 1 => q[1].val.requests <= End(Part(k))'
  <2>1. Len(q) = 2 => q[1].val.requests \in Nat /\ q[1].val.requests <= V[k][End(Day)]
    BY <1>1, <1>4 DEF Fits
  <2>2. Len(q) = 1 => q[1].val.requests \in Nat /\ q[1].val.requests <= End(Part(k))
    BY <1>1, <1>4 DEF Fits
  <2> HIDE DEF q
  <2>3. Len(q) = 2 => q[1].val.requests <= V[k][End(Day)']
    BY <1>3, <2>1
  <2>4. Len(q) = 1 => q[1].val.requests <= End(Part(k))'
    BY <1>2, <2>2
  <2> QED BY <2>3, <2>4
<1>6. puts'[w] = q
  OBVIOUS
<1> HIDE DEF q
<1>7. Snaps(puts'[w], k)
  BY <1>1, <1>6
<1>8. Fits(V, puts[w], k)'
  BY <1>1, <1>5, <1>6 DEF Fits
<1> QED BY <1>7, <1>8 DEF HandFits

(* At the end of the queue the parts fit the whole.                        *)
LEMMA WholeEnd ==
  ASSUME Typed, NEW V, WholeAll(V), NEW k \in Kinds
  PROVE  End(Part(k)) <= V[k][End(Day)] /\ End(Bill(k)) <= End(Part(k))
<1>1. Len(queued) \in 0..Len(queued) /\ \A j \in Sums : Mark(Len(queued), j) = End(j)
  BY Numbers
<1>2. Whole(V, Len(queued))
  BY <1>1 DEF WholeAll
<1> QED BY <1>1, <1>2, KeysApart DEF Whole

(* A step that changes nothing of the totals.                              *)
LEMMA PartedSame ==
  ASSUME Typed, Parted, \A k \in Sums : Used(k)' = Used(k) /\ End(k)' = End(k),
         ~overtaken' /\ ~dropped' => ~overtaken /\ ~dropped,
         \A V : WholeAll(V) /\ ~dropped' => WholeAll(V)',
         \A u \in Workers : pc'[u] = "put" => pc[u] = "put" /\ puts'[u] = puts[u]
  PROVE  Parted'
<1> SUFFICES ASSUME ~overtaken', ~dropped'
             PROVE  \E V \in [Kinds -> [Nat -> Nat]] :
                      Divides(V) /\ InStep(V)' /\ AllFit(V)' /\ WholeAll(V)'
  BY DEF Parted, Divides
<1>1. PICK V \in [Kinds -> [Nat -> Nat]] :
        Divides(V) /\ InStep(V) /\ AllFit(V) /\ WholeAll(V)
  BY DEF Parted
<1>2. InStep(V)'
  <2>1. /\ Used(Day)' = Used(Day)
        /\ \A k \in Kinds : Used(Part(k))' = Used(Part(k)) /\ Used(Bill(k))' = Used(Bill(k))
    BY KeysApart
  <2> QED BY <1>1, <2>1 DEF InStep
<1>3. AllFit(V)'
  <2>1. \A k \in Sums : End(k)' \in Nat /\ End(k) <= End(k)'
    BY Numbers
  <2>2. ASSUME NEW w \in Workers, pc'[w] = "put" PROVE HandFits(V, w)'
    BY <1>1, <2>1, <2>2, StayFit
  <2> QED BY <2>2 DEF AllFit
<1>4. WholeAll(V)'
  BY <1>1
<1> QED BY <1>1, <1>2, <1>3, <1>4

(* A step of the clock or of an answer leaves the division as it is.       *)
LEMMA PartedStill ==
  ASSUME Typed, Parted, UNCHANGED <<mem, stored, queued, overtaken, dropped>>,
         \A u \in Workers : pc'[u] = "put" => pc[u] = "put" /\ puts'[u] = puts[u]
  PROVE  Parted'
<1>1. \A k \in Sums : Used(k)' = Used(k)
  BY DEF Used, InUse, Loaded
<1>2. \A k \in Sums : End(k)' = End(k)
  BY DEF End, Accepted, Requests
<1>3. \A V : WholeAll(V) => WholeAll(V)'
  BY WholeKept
<1> QED BY <1>1, <1>2, <1>3, PartedSame

(* A pin is queued.                                                        *)
LEMMA PartedPin ==
  ASSUME Typed, Parted, NEW op \in Writings, op.key = Pin, Behind!Accept(op), mem' = mem,
         overtaken => overtaken', dropped => dropped',
         \A u \in Workers : pc'[u] = "put" => pc[u] = "put" /\ puts'[u] = puts[u]
  PROVE  Parted'
<1>1. stored' = stored /\ \A k \in Sums : Accepted(k)' = Accepted(k)
  BY Accepts, KeysApart DEF Typed
<1>2. \A k \in Sums : Used(k)' = Used(k)
  BY <1>1 DEF Used, InUse, Loaded
<1>3. \A k \in Sums : End(k)' = End(k)
  BY <1>1 DEF End, Requests
<1>4. ASSUME NEW V, WholeAll(V) PROVE WholeAll(V)'
  <2>1. \A k \in Kinds : End(Part(k))' <= V[k][End(Day)'] /\ End(Bill(k))' <= End(Part(k))'
    <3>1. \A k \in Kinds : End(Part(k)) <= V[k][End(Day)] /\ End(Bill(k)) <= End(Part(k))
      BY <1>4, WholeEnd
    <3>2. /\ End(Day)' = End(Day)
          /\ \A k \in Kinds : End(Part(k))' = End(Part(k)) /\ End(Bill(k))' = End(Bill(k))
      BY <1>3, KeysApart
    <3> QED BY <3>1, <3>2
  <2> QED BY <1>4, <2>1, MarkNext
<1> QED BY <1>2, <1>3, <1>4, PartedSame

(* A transaction.                                                          *)
LEMMA PartedCommit ==
  ASSUME Typed, Counts, Parted, NEW n \in 1..Len(queued), Commit(n) \/ CommitFails(n)
  PROVE  Parted'
<1>1. /\ UNCHANGED <<mem, pc, puts, overtaken>>
      /\ Commit(n) => Behind!Commit(n) /\ dropped' = dropped
      /\ CommitFails(n) => Behind!Drop(n) /\ dropped'
  BY CommitTyped
<1>2. CASE dropped'
  BY <1>2 DEF Parted
<1>3. CASE ~dropped'
  <2>1. Behind!Commit(n) /\ QueueTyped
    BY <1>1, <1>3 DEF Typed
  <2>2. /\ n \in 0..Len(queued)
        /\ \A k \in Sums : /\ stored'[k] = Then(n, k) /\ Accepted(k)' = Accepted(k)
                           /\ \A m \in 0..Len(queued') :
                                n + m \in 0..Len(queued) /\ Then(m, k)' = Then(n + m, k)
    BY <2>1, Commits
  <2>3. ASSUME NEW k \in Sums PROVE Used(k)' = Used(k)
    <3>1. InMemory(k)
      BY DEF Counts
    <3>2. \/ stored'[k] = stored[k]
          \/ \E i \in 1..Len(queued) : queued[i].key = k
      BY <2>1, <2>2, ThenFrom
    <3>3. mem[k] = None => stored'[k] = stored[k]
      BY <3>1, <3>2 DEF InMemory
    <3> QED BY <1>1, <3>3 DEF Used, InUse, Loaded
  <2>4. \A k \in Sums : End(k)' = End(k)
    BY <2>2 DEF End, Requests
  <2>5. ASSUME NEW V, WholeAll(V) PROVE WholeAll(V)'
    <3>1. ASSUME NEW m \in 0..Len(queued') PROVE Whole(V, m)'
      <4>1. n + m \in 0..Len(queued)
        BY <2>2, <3>1, KeysApart
      <4>2. \A k \in Sums : Mark(m, k)' = Mark(n + m, k)
        BY <2>2, <3>1 DEF Mark, Requests
      <4>3. Whole(V, n + m)
        BY <2>5, <4>1 DEF WholeAll
      <4> QED BY <4>2, <4>3, KeysApart DEF Whole
    <3> QED BY <3>1 DEF WholeAll
  <2> QED BY <1>1, <1>3, <2>3, <2>4, <2>5, PartedSame
<1> QED BY <1>2, <1>3

(* The dashboard loads the total of the day.                               *)
LEMMA PartedToday ==
  ASSUME Typed, Parted, Today
  PROVE  Parted'
<1>1. /\ UNCHANGED <<stored, queued, pc, puts, dropped, overtaken>>
      /\ mem[Day] = None /\ mem'[Day] = Loaded(Day)
      /\ \A k \in Sums \ {Day} : mem'[k] = mem[k]
  BY Loads DEF disk, hist
<1>2. ASSUME NEW k \in Sums PROVE Used(k)' = Used(k)
  <2>1. Loaded(k) \in Totals /\ None \notin Totals
    BY Shows
  <2>2. mem'[k] = mem[k] \/ (mem'[k] = Loaded(k) /\ mem[k] = None)
    BY <1>1
  <2> QED BY <1>1, <2>1, <2>2 DEF Used, InUse, Loaded
<1>3. \A k \in Sums : End(k)' = End(k)
  BY <1>1 DEF End, Accepted, Requests
<1>4. \A V : WholeAll(V) => WholeAll(V)'
  BY <1>1, WholeKept
<1> QED BY <1>1, <1>2, <1>3, <1>4, PartedSame

(* A snapshot is queued: the parts accepted still fit the whole.           *)
LEMMA EndsFit ==
  ASSUME Typed, NEW V, Divides(V), WholeAll(V), NEW q, NEW k \in Kinds,
         Snaps(q, k), Fits(V, q, k),
         \A j \in Sums : End(j)' = IF q[1].key = j THEN q[1].val.requests ELSE End(j),
         End(q[1].key) <= q[1].val.requests
  PROVE  \A j \in Kinds : End(Part(j))' <= V[j][End(Day)'] /\ End(Bill(j))' <= End(Part(j))'
<1> DEFINE v == q[1].val.requests
<1>1. /\ Len(q) = 1 => q[1].key = Bill(k)
      /\ Len(q) = 2 => q[1].key = Part(k)
      /\ Len(q) = 3 => q[1].key = Day
  BY SnapsLeft
<1>2. Len(q) \in 1..3
  BY DEF Snaps
<1>3. v \in Nat
  <2>1. 1 \in 1..Len(q)
    <3> DEFINE n == Len(q)
    <3> HIDE DEF n
    <3>1. 1 \in 1..n
      BY <1>2 DEF n
    <3> QED BY <3>1 DEF n
  <2> QED BY <2>1, SnapsLeft DEF Totals
<1>4. /\ Len(q) = 2 => v <= V[k][End(Day)]
      /\ Len(q) = 1 => v <= End(Part(k))
  BY DEF Fits
<1> HIDE DEF v
<1>5. \A j \in Sums : End(j)' = IF q[1].key = j THEN v ELSE End(j)
  BY DEF v
<1>6. ASSUME NEW j \in Kinds
      PROVE  End(Part(j))' <= V[j][End(Day)'] /\ End(Bill(j))' <= End(Part(j))'
  <2>1. /\ End(Part(j)) <= V[j][End(Day)] /\ End(Bill(j)) <= End(Part(j))
        /\ End(Part(j)) \in Nat /\ End(Bill(j)) \in Nat /\ End(Day) \in Nat
        /\ \A d \in Nat : V[j][d] \in Nat
        /\ \A d, e \in Nat : d <= e => V[j][d] <= V[j][e]
    BY WholeEnd, Numbers, KeysApart DEF Divides
  <2>2. CASE Len(q) = 3
    <3>1. q[1].key = Day /\ End(Day) <= v
      BY <1>1, <2>2 DEF v
    <3>2. End(Day)' = v /\ End(Part(j))' = End(Part(j)) /\ End(Bill(j))' = End(Bill(j))
      BY <1>5, <3>1, KeysApart
    <3>3. V[j][End(Day)] <= V[j][v] /\ V[j][v] \in Nat /\ V[j][End(Day)] \in Nat
      BY <1>3, <2>1, <3>1
    <3> QED BY <2>1, <3>2, <3>3
  <2>3. CASE Len(q) = 2
    <3>1. q[1].key = Part(k) /\ End(Part(k)) <= v /\ v <= V[k][End(Day)]
      BY <1>1, <1>4, <2>3 DEF v
    <3>2. End(Day)' = End(Day) /\ End(Bill(j))' = End(Bill(j))
      BY <1>5, <3>1, KeysApart
    <3>3. CASE j = k
      <4>1. End(Part(j))' = v
        BY <1>5, <3>1, <3>3, KeysApart
      <4> QED BY <1>3, <2>1, <3>1, <3>2, <3>3, <4>1
    <3>4. CASE j # k
      <4>1. End(Part(j))' = End(Part(j))
        BY <1>5, <3>1, <3>4, KeysApart
      <4> QED BY <2>1, <3>2, <4>1
    <3> QED BY <3>3, <3>4
  <2>4. CASE Len(q) = 1
    <3>1. q[1].key = Bill(k) /\ v <= End(Part(k))
      BY <1>1, <1>4, <2>4
    <3>2. End(Day)' = End(Day) /\ End(Part(j))' = End(Part(j))
      BY <1>5, <3>1, KeysApart
    <3>3. End(Bill(j))' = IF j = k THEN v ELSE End(Bill(j))
      BY <1>5, <3>1, KeysApart
    <3> QED BY <1>3, <2>1, <3>1, <3>2, <3>3
  <2> QED BY <1>2, <2>2, <2>3, <2>4
<1> QED BY <1>6

(* A snapshot is queued: those before it in the same hand are.             *)
LEMMA PartedPut ==
  ASSUME Typed, Parted, NEW w \in Workers, Put(w), pc[w] # "pin"
  PROVE  Parted'
<1> SUFFICES ASSUME ~overtaken', ~dropped'
             PROVE  \E V \in [Kinds -> [Nat -> Nat]] :
                      Divides(V) /\ InStep(V)' /\ AllFit(V)' /\ WholeAll(V)'
  BY DEF Parted, Divides
<1> DEFINE q == puts[w]
           op == Head(q)
<1>1. /\ op \in Writings /\ Behind!Accept(op) /\ UNCHANGED <<mem, counted, lost, dropped>>
      /\ overtaken' = (overtaken \/ Later(op)) /\ pc[w] = "put"
      /\ Len(q) = 1 => pc'[w] = "idle"
      /\ Len(q) # 1 => pc'[w] = "put" /\ puts'[w] = Tail(q)
      /\ \A x \in Workers \ {w} : pc'[x] = pc[x] /\ puts'[x] = puts[x]
  BY Puts
<1>2. PICK V \in [Kinds -> [Nat -> Nat]] :
        Divides(V) /\ InStep(V) /\ AllFit(V) /\ WholeAll(V)
  BY <1>1 DEF Parted
<1>3. PICK k \in Kinds : Snaps(q, k) /\ Fits(V, q, k)
  BY <1>1, <1>2 DEF AllFit, HandFits
<1>4. /\ op = q[1] /\ op.key \in Sums /\ op.val \in Totals
      /\ Len(q) = 2 => q[1].key = Part(k)
      /\ Len(q) = 3 => q[1].key = Day
      /\ Len(q) # 1 => /\ Snaps(Tail(q), k) /\ Len(Tail(q)) = Len(q) - 1
                       /\ \A i \in 1..Len(Tail(q)) : Tail(q)[i] = q[i + 1]
      /\ Len(q) \in 1..3
  BY <1>3, SnapsLeft DEF Snaps
<1> DEFINE v == op.val.requests
<1> HIDE DEF q, op
<1>5. /\ stored' = stored
      /\ \A j \in Sums : Accepted(j)' = IF op.key = j THEN op.val ELSE Accepted(j)
  BY <1>1, Accepts DEF Typed
<1>6. op.val # None /\ v \in Nat
  BY <1>4, Shows DEF Totals
<1>7. \A j \in Sums : End(j)' = IF op.key = j THEN v ELSE End(j)
  BY <1>5, <1>6 DEF End, Requests
<1>8. End(op.key) <= v
  <2>1. ~Later(op) /\ op.key # Pin /\ End(op.key) \in Nat
    BY <1>1, <1>4, KeysApart, Numbers
  <2>2. CASE Accepted(op.key) = None
    BY <1>6, <2>2 DEF End, Requests
  <2>3. CASE Accepted(op.key) # None
    <3>1. ~(Accepted(op.key).requests > v) /\ End(op.key) = Accepted(op.key).requests
      BY <2>1, <2>3 DEF Later, End, Requests
    <3> QED BY <1>6, <2>1, <3>1
  <2> QED BY <2>2, <2>3
<1>9. \A j \in Sums : End(j)' \in Nat /\ End(j) <= End(j)'
  <2>1. \A j \in Sums : End(j) \in Nat
    BY Numbers
  <2> HIDE DEF v
  <2> QED BY <1>6, <1>7, <1>8, <2>1
<1>10. WholeAll(V)'
  <2>1. \A j \in Kinds : End(Part(j))' <= V[j][End(Day)'] /\ End(Bill(j))' <= End(Part(j))'
    BY <1>2, <1>3, <1>4, <1>7, <1>8, EndsFit
  <2> QED BY <1>1, <1>2, <2>1, MarkNext
<1>11. InStep(V)'
  <2>1. \A j \in Sums : Used(j)' = Used(j)
    BY <1>1, <1>5 DEF Used, InUse, Loaded
  <2>2. /\ Used(Day)' = Used(Day)
        /\ \A j \in Kinds : Used(Part(j))' = Used(Part(j)) /\ Used(Bill(j))' = Used(Bill(j))
    BY <2>1, KeysApart
  <2> QED BY <1>2, <2>2 DEF InStep
<1>12. AllFit(V)'
  <2>1. ASSUME NEW x \in Workers \ {w}, pc'[x] = "put" PROVE HandFits(V, x)'
    BY <1>1, <1>2, <1>9, <2>1, StayFit
  <2>2. ASSUME pc'[w] = "put" PROVE HandFits(V, w)'
    <3> DEFINE t == Tail(q)
    <3>1. puts'[w] = t /\ Snaps(t, k) /\ Len(t) = Len(q) - 1 /\ Len(q) \in {2, 3}
          /\ \A i \in 1..Len(t) : t[i] = q[i + 1]
      BY <1>1, <1>4, <2>2
    <3> HIDE DEF t
    <3>2. /\ Len(t) # 3
          /\ Len(t) = 2 => Len(q) = 3 /\ t[1] = q[2] /\ t[2] = q[3]
          /\ Len(t) = 1 => Len(q) = 2 /\ t[1] = q[2]
      <4> DEFINE n == Len(q)
                 m == Len(t)
      <4>1. m = n - 1 /\ n \in {2, 3} /\ \A i \in 1..m : t[i] = q[i + 1]
        BY <3>1
      <4> HIDE DEF n, m
      <4>2. CASE n = 2
        <5>1. m = 1 /\ 1 \in 1..m
          BY <4>1, <4>2
        <5>2. t[1] = q[1 + 1]
          BY <4>1, <5>1
        <5> QED BY <4>2, <5>1, <5>2 DEF n, m
      <4>3. CASE n = 3
        <5>1. m = 2 /\ 1 \in 1..m /\ 2 \in 1..m
          BY <4>1, <4>3
        <5>2. t[1] = q[1 + 1] /\ t[2] = q[2 + 1]
          BY <4>1, <5>1
        <5> QED BY <4>3, <5>1, <5>2 DEF n, m
      <4> QED BY <4>1, <4>2, <4>3
    <3>3. Len(t) = 2 => /\ t[1].val.requests <= V[k][End(Day)']
                        /\ t[2].val.requests <= t[1].val.requests
      <4>1. Len(t) = 2 => End(Day)' = q[1].val.requests
        BY <1>4, <1>7, <3>2, KeysApart
      <4> QED BY <1>3, <3>2, <4>1 DEF Fits
    <3>4. Len(t) = 1 => t[1].val.requests <= End(Part(k))'
      <4>1. Len(t) = 1 => End(Part(k))' = q[1].val.requests
        BY <1>4, <1>7, <3>2, KeysApart
      <4> QED BY <1>3, <3>2, <4>1 DEF Fits
    <3>5. Fits(V, puts[w], k)'
      BY <3>1, <3>2, <3>3, <3>4 DEF Fits
    <3> QED BY <3>1, <3>5 DEF HandFits
  <2> QED BY <2>1, <2>2 DEF AllFit
<1> QED BY <1>2, <1>10, <1>11, <1>12

(* What fits still fits when more may be of a kind.                        *)
LEMMA MoreFits ==
  ASSUME Typed, NEW V \in [Kinds -> [Nat -> Nat]], NEW W \in [Kinds -> [Nat -> Nat]],
         \A k \in Kinds : \A d \in Nat : V[k][d] <= W[k][d], AllFit(V), WholeAll(V)
  PROVE  AllFit(W) /\ WholeAll(W)
<1>1. \A k \in Kinds : \A d, n \in Nat : n <= V[k][d] => n <= W[k][d]
  <2>1. ASSUME NEW k \in Kinds, NEW d \in Nat, NEW n \in Nat, n <= V[k][d] PROVE n <= W[k][d]
    <3>1. V[k][d] \in Nat /\ W[k][d] \in Nat /\ V[k][d] <= W[k][d]
      OBVIOUS
    <3> QED BY <2>1, <3>1
  <2> QED BY <2>1
<1>2. ASSUME NEW w \in Workers, pc[w] = "put" PROVE HandFits(W, w)
  <2> DEFINE q == puts[w]
  <2>1. PICK k \in Kinds : Snaps(q, k) /\ Fits(V, q, k)
    BY <1>2 DEF AllFit, HandFits
  <2>2. \A i \in 1..Len(q) : q[i].val.requests \in Nat
    BY <2>1, SnapsLeft DEF Totals
  <2>3. End(Day) \in Nat
    BY Numbers, KeysApart
  <2>4. (Len(q) = 3 => q[1].val.requests \in Nat /\ q[2].val.requests \in Nat)
        /\ (Len(q) = 2 => q[1].val.requests \in Nat)
    <3> DEFINE n == Len(q)
               T == {i \in 1..n : q[i].val.requests \in Nat}
    <3>1. \A i \in 1..n : i \in T
      BY <2>2
    <3>2. (1 \in T => q[1].val.requests \in Nat) /\ (2 \in T => q[2].val.requests \in Nat)
      OBVIOUS
    <3> HIDE DEF n, T
    <3>3. (n = 3 => 1 \in T /\ 2 \in T) /\ (n = 2 => 1 \in T)
      BY <3>1
    <3> QED BY <3>2, <3>3 DEF n
  <2> HIDE DEF q
  <2>5. Fits(W, q, k)
    BY <1>1, <2>1, <2>3, <2>4 DEF Fits
  <2> QED BY <2>1, <2>5 DEF HandFits, q
<1>3. ASSUME NEW n \in 0..Len(queued) PROVE Whole(W, n)
  <2>1. Whole(V, n)
    BY <1>3 DEF WholeAll
  <2>2. \A k \in Kinds : Mark(n, Day) \in Nat /\ Mark(n, Part(k)) \in Nat
    BY <1>3, Numbers, KeysApart
  <2> QED BY <1>1, <2>1, <2>2 DEF Whole
<1> QED BY <1>2, <1>3 DEF AllFit, WholeAll

(* The sums of the kinds, one by one.                                      *)
LEMMA KindsAre == Kinds = {"responses", "claude", "chat"}
BY DEF Kinds

(* One more request of the kind K, after m of the day.                     *)
OneMore(V, K, m) ==
  [k \in Kinds |-> [d \in Nat |-> IF k = K /\ d > m THEN V[k][d] + 1 ELSE V[k][d]]]

(* A division of m requests with one more of kind K is one of m + 1.       *)
LEMMA OneMoreDivides ==
  ASSUME NEW V, Divides(V), NEW K \in Kinds, NEW m \in Nat,
         \A k \in Kinds : \A d \in Nat : d >= m => V[k][d] = V[k][m]
  PROVE  /\ OneMore(V, K, m) \in [Kinds -> [Nat -> Nat]]
         /\ Divides(OneMore(V, K, m))
         /\ \A k \in Kinds : \A d \in Nat : V[k][d] <= OneMore(V, K, m)[k][d]
         /\ \A k \in Kinds : \A d \in Nat : d >= m + 1 =>
              OneMore(V, K, m)[k][d] = OneMore(V, K, m)[k][m + 1]
         /\ \A k \in Kinds : OneMore(V, K, m)[k][m + 1] = IF k = K THEN V[k][m] + 1 ELSE V[k][m]
<1> DEFINE W == OneMore(V, K, m)
<1>1. \A k \in Kinds : \A d \in Nat : V[k][d] \in Nat
  BY DEF Divides
<1>2. \A k \in Kinds : \A d \in Nat : W[k][d] = IF k = K /\ d > m THEN V[k][d] + 1 ELSE V[k][d]
  BY DEF OneMore
<1>3. W \in [Kinds -> [Nat -> Nat]]
  BY <1>1 DEF OneMore
<1>4. ASSUME NEW k \in Kinds, NEW d \in Nat
      PROVE  /\ V[k][d] <= W[k][d] /\ W[k][d] \in Nat
             /\ d > m => W[k][d] = IF k = K THEN V[k][m] + 1 ELSE V[k][m]
             /\ ~(d > m) => W[k][d] = V[k][d]
  <2>1. V[k][d] \in Nat /\ (d > m => V[k][d] = V[k][m])
    BY <1>1
  <2>2. W[k][d] = IF k = K /\ d > m THEN V[k][d] + 1 ELSE V[k][d]
    BY <1>2
  <2> HIDE DEF W
  <2> QED BY <2>1, <2>2
<1>5. m + 1 \in Nat /\ m + 1 > m
  OBVIOUS
<1> HIDE DEF W
<1>6. ASSUME NEW d \in Nat PROVE (W["responses"][d] + W["claude"][d]) + W["chat"][d] <= d
  <2> DEFINE a(x) == V["responses"][x]
             b(x) == V["claude"][x]
             c(x) == V["chat"][x]
  <2>1. a(d) \in Nat /\ b(d) \in Nat /\ c(d) \in Nat /\ a(m) \in Nat /\ b(m) \in Nat /\ c(m) \in Nat
    BY <1>1, KindsAre
  <2>2. (a(d) + b(d)) + c(d) <= d /\ (a(m) + b(m)) + c(m) <= m
    BY DEF Divides
  <2>3. CASE d > m
    <3>1. /\ W["responses"][d] = IF "responses" = K THEN a(m) + 1 ELSE a(m)
          /\ W["claude"][d] = IF "claude" = K THEN b(m) + 1 ELSE b(m)
          /\ W["chat"][d] = IF "chat" = K THEN c(m) + 1 ELSE c(m)
      BY <1>4, <2>3, KindsAre
    <3>2. K = "responses" \/ K = "claude" \/ K = "chat"
      BY KindsAre
    <3>3. "responses" # "claude" /\ "responses" # "chat" /\ "claude" # "chat"
      OBVIOUS
    <3> HIDE DEF a, b, c
    <3> QED BY <2>1, <2>2, <2>3, <3>1, <3>2, <3>3
  <2>4. CASE ~(d > m)
    <3>1. /\ W["responses"][d] = a(d) /\ W["claude"][d] = b(d) /\ W["chat"][d] = c(d)
      BY <1>4, <2>4, KindsAre
    <3> QED BY <2>2, <3>1
  <2> QED BY <2>3, <2>4
<1>7. ASSUME NEW k \in Kinds, NEW d \in Nat, NEW e \in Nat, d <= e
      PROVE  W[k][d] <= W[k][e]
  <2>1. V[k][d] <= V[k][e] /\ (~(d > m) => V[k][d] <= V[k][m])
    BY <1>7 DEF Divides
  <2>2. V[k][d] \in Nat /\ V[k][e] \in Nat /\ V[k][m] \in Nat
    BY <1>1
  <2>3. CASE d > m
    <3>1. e > m
      BY <1>7, <2>3
    <3> QED BY <1>4, <2>2, <2>3, <3>1
  <2>4. CASE ~(d > m) /\ e > m
    <3>1. W[k][d] = V[k][d] /\ (W[k][e] = V[k][m] + 1 \/ W[k][e] = V[k][m])
      BY <1>4, <2>4
    <3> QED BY <2>1, <2>2, <2>4, <3>1
  <2>5. CASE ~(d > m) /\ ~(e > m)
    BY <1>4, <2>1, <2>5
  <2> QED BY <2>3, <2>4, <2>5
<1>8. Divides(W)
  BY <1>3, <1>6, <1>7 DEF Divides
<1>9. \A k \in Kinds : \A d \in Nat : d >= m + 1 => W[k][d] = W[k][m + 1]
  <2>1. ASSUME NEW k \in Kinds, NEW d \in Nat, d >= m + 1 PROVE W[k][d] = W[k][m + 1]
    <3>1. d > m
      BY <2>1
    <3> QED BY <1>4, <1>5, <3>1
  <2> QED BY <2>1
<1>10. \A k \in Kinds : W[k][m + 1] = IF k = K THEN V[k][m] + 1 ELSE V[k][m]
  BY <1>4, <1>5
<1> QED BY <1>3, <1>4, <1>8, <1>9, <1>10 DEF W

(* A request is recorded.                                                  *)
LEMMA PartedRecord ==
  ASSUME Typed, Parted, NEW w \in Workers, Record(w)
  PROVE  Parted'
<1> SUFFICES ASSUME ~overtaken', ~dropped'
             PROVE  \E V \in [Kinds -> [Nat -> Nat]] :
                      Divides(V) /\ InStep(V)' /\ AllFit(V)' /\ WholeAll(V)'
  BY DEF Parted, Divides
<1> DEFINE q == puts'[w]
<1>1. Kind(w) \in Kinds /\ Used(Day) \in Nat
  BY Records, Numbers, KeysApart
<1>2. PICK K \in Kinds : K = Kind(w)
  BY <1>1
<1>3. PICK m \in Nat : m = Used(Day)
  BY <1>1
<1>4. /\ K \in Kinds /\ pc[w] = "record" /\ UNCHANGED <<stored, queued, overtaken, dropped>>
      /\ \A k \in Sums3(K) : mem'[k] = Bump(w, InUse(k))
      /\ \A k \in Sums \ Sums3(K) : mem'[k] = mem[k]
      /\ Snaps(q, K) /\ Len(q) = 3
      /\ \A i \in 1..3 : q[i].val = Bump(w, InUse(Own(K)[i]))
      /\ \A x \in Workers \ {w} : pc'[x] = pc[x] /\ puts'[x] = puts[x]
  BY <1>2, Records DEF disk
<1>5. PICK V \in [Kinds -> [Nat -> Nat]] :
        Divides(V) /\ InStep(V) /\ AllFit(V) /\ WholeAll(V)
  BY <1>4 DEF Parted
<1>6. m \in Nat /\ \A k \in Sums : Used(k) \in Nat
  BY Numbers, KeysApart
<1>7. ASSUME NEW k \in Sums
      PROVE  Used(k)' = IF k \in Sums3(K) THEN Used(k) + 1 ELSE Used(k)
  <2>1. InUse(k) \in Totals /\ None \notin Totals
    BY Shows
  <2>2. Bump(w, InUse(k)) \in Totals /\ Bump(w, InUse(k)).requests = InUse(k).requests + 1
    BY <1>4, <2>1, Shows
  <2>3. CASE k \in Sums3(K)
    <3>1. mem'[k] = Bump(w, InUse(k)) /\ mem'[k] # None
      BY <1>4, <2>1, <2>2, <2>3
    <3>2. InUse(k)' = Bump(w, InUse(k))
      BY <3>1 DEF InUse
    <3> QED BY <2>2, <2>3, <3>2 DEF Used
  <2>4. CASE k \notin Sums3(K)
    BY <1>4, <2>4 DEF Used, InUse, Loaded
  <2> QED BY <2>3, <2>4
<1>8. /\ Used(Day)' = m + 1
      /\ \A k \in Kinds : /\ Used(Part(k))' = IF k = K THEN Used(Part(k)) + 1 ELSE Used(Part(k))
                          /\ Used(Bill(k))' = IF k = K THEN Used(Bill(k)) + 1 ELSE Used(Bill(k))
  <2>1. Day \in Sums3(K) /\ Day \in Sums
    BY KeysApart DEF Sums3
  <2>2. ASSUME NEW k \in Kinds
        PROVE  /\ Part(k) \in Sums /\ Bill(k) \in Sums
               /\ Part(k) \in Sums3(K) <=> k = K
               /\ Bill(k) \in Sums3(K) <=> k = K
    <3>1. /\ Day # Part(k) /\ Day # Bill(k) /\ Part(k) # Bill(K) /\ Part(K) # Bill(k)
          /\ Part(k) = Part(K) => k = K
          /\ Bill(k) = Bill(K) => k = K
      BY <1>4, KeysApart
    <3> QED BY <3>1, KeysApart DEF Sums3
  <2>3. Used(Day)' = m + 1
    BY <1>7, <1>3, <2>1
  <2>4. \A k \in Kinds : /\ Used(Part(k))' = IF k = K THEN Used(Part(k)) + 1 ELSE Used(Part(k))
                         /\ Used(Bill(k))' = IF k = K THEN Used(Bill(k)) + 1 ELSE Used(Bill(k))
    BY <1>7, <2>2
  <2> QED BY <2>3, <2>4
<1>9. \A k \in Kinds : /\ Used(Part(k)) <= V[k][m] /\ Used(Bill(k)) <= Used(Part(k))
                       /\ \A d \in Nat : d >= m => V[k][d] = V[k][m]
  BY <1>5, <1>3 DEF InStep
<1>10. PICK W \in [Kinds -> [Nat -> Nat]] :
      /\ Divides(W)
      /\ \A k \in Kinds : \A d \in Nat : V[k][d] <= W[k][d]
      /\ \A k \in Kinds : \A d \in Nat : d >= m + 1 => W[k][d] = W[k][m + 1]
      /\ \A k \in Kinds : W[k][m + 1] = IF k = K THEN V[k][m] + 1 ELSE V[k][m]
  <2>1. \A k \in Kinds : \A d \in Nat : d >= m => V[k][d] = V[k][m]
    BY <1>9
  <2>2. Divides(V)
    BY <1>5
  <2> DEFINE X == OneMore(V, K, m)
  <2>3. /\ X \in [Kinds -> [Nat -> Nat]] /\ Divides(X)
        /\ \A k \in Kinds : \A d \in Nat : V[k][d] <= X[k][d]
        /\ \A k \in Kinds : \A d \in Nat : d >= m + 1 => X[k][d] = X[k][m + 1]
        /\ \A k \in Kinds : X[k][m + 1] = IF k = K THEN V[k][m] + 1 ELSE V[k][m]
    BY <2>1, <2>2, OneMoreDivides
  <2> HIDE DEF X
  <2> QED BY <2>3
<1>11. AllFit(W) /\ WholeAll(W)
  <2> QED BY <1>5, <1>10, MoreFits
<1>12. WholeAll(W)' /\ \A k \in Sums : End(k)' = End(k)
  <2> QED BY <1>4, <1>11, WholeKept
<1>13. InStep(W)'
  <2>1. ASSUME NEW k \in Kinds
        PROVE  /\ Used(Part(k))' <= W[k][m + 1] /\ Used(Bill(k))' <= Used(Part(k))'
               /\ \A d \in Nat : d >= m + 1 => W[k][d] = W[k][m + 1]
    <3>1. /\ Used(Part(k)) \in Nat /\ Used(Bill(k)) \in Nat /\ V[k][m] \in Nat
          /\ Used(Part(k)) <= V[k][m] /\ Used(Bill(k)) <= Used(Part(k))
      BY <1>6, <1>9, KeysApart
    <3>2. /\ Used(Part(k))' = IF k = K THEN Used(Part(k)) + 1 ELSE Used(Part(k))
          /\ Used(Bill(k))' = IF k = K THEN Used(Bill(k)) + 1 ELSE Used(Bill(k))
          /\ W[k][m + 1] = IF k = K THEN V[k][m] + 1 ELSE V[k][m]
      BY <1>8, <1>10
    <3>3. \A d \in Nat : d >= m + 1 => W[k][d] = W[k][m + 1]
      BY <1>10
    <3>4. Used(Part(k))' <= W[k][m + 1] /\ Used(Bill(k))' <= Used(Part(k))'
      BY <3>1, <3>2
    <3> QED BY <3>3, <3>4
  <2> QED BY <1>8, <2>1 DEF InStep
<1>14. AllFit(W)'
  <2>1. \A k \in Sums : End(k)' \in Nat /\ End(k) <= End(k)'
    BY <1>12, Numbers
  <2>2. ASSUME NEW x \in Workers \ {w}, pc'[x] = "put" PROVE HandFits(W, x)'
    <3> QED BY <1>4, <1>10, <1>11, <2>1, <2>2, StayFit
  <2>3. HandFits(W, w)'
    <3>1. /\ q[1].val = Bump(w, InUse(Day)) /\ q[2].val = Bump(w, InUse(Part(K)))
          /\ q[3].val = Bump(w, InUse(Bill(K)))
      BY <1>4, OwnKeys
    <3>2. \A k \in Sums : Bump(w, InUse(k)).requests = Used(k) + 1
      BY <1>4, Shows DEF Used
    <3>3. /\ q[1].val.requests = m + 1 /\ q[2].val.requests = Used(Part(K)) + 1
          /\ q[3].val.requests = Used(Bill(K)) + 1
      BY <1>4, <1>3, <3>1, <3>2, KeysApart
    <3>4. /\ Used(Part(K)) \in Nat /\ Used(Bill(K)) \in Nat /\ V[K][m] \in Nat
          /\ Used(Part(K)) <= V[K][m] /\ Used(Bill(K)) <= Used(Part(K))
          /\ W[K][m + 1] = V[K][m] + 1
      BY <1>4, <1>6, <1>9, <1>10, KeysApart
    <3>5. /\ q[2].val.requests <= W[K][q[1].val.requests]
          /\ q[3].val.requests <= q[2].val.requests
      BY <3>3, <3>4
    <3>6. Fits(W, puts[w], K)'
      BY <1>4, <3>5 DEF Fits
    <3> QED BY <1>4, <3>6 DEF HandFits
  <2> QED BY <2>2, <2>3 DEF AllFit
<1> QED BY <1>10, <1>12, <1>13, <1>14

(* A division of the day that begins with m requests, p[k] of kind k.      *)
LEMMA Again ==
  ASSUME NEW m \in Nat, NEW p \in [Kinds -> Nat],
         (p["responses"] + p["claude"]) + p["chat"] <= m
  PROVE  \E W \in [Kinds -> [Nat -> Nat]] :
           Divides(W) /\ \A k \in Kinds : \A d \in Nat : d >= m => W[k][d] = p[k]
<1> DEFINE W == [k \in Kinds |-> [d \in Nat |-> IF d >= m THEN p[k] ELSE 0]]
<1>1. \A k \in Kinds : p[k] \in Nat
  OBVIOUS
<1>2. W \in [Kinds -> [Nat -> Nat]]
  BY <1>1
<1>3. \A k \in Kinds : \A d \in Nat : W[k][d] = IF d >= m THEN p[k] ELSE 0
  OBVIOUS
<1> HIDE DEF W
<1>4. ASSUME NEW d \in Nat PROVE (W["responses"][d] + W["claude"][d]) + W["chat"][d] <= d
  <2> DEFINE a == p["responses"]
             b == p["claude"]
             c == p["chat"]
  <2>1. a \in Nat /\ b \in Nat /\ c \in Nat /\ (a + b) + c <= m
    BY <1>1, KindsAre
  <2>2. /\ W["responses"][d] = IF d >= m THEN a ELSE 0
        /\ W["claude"][d] = IF d >= m THEN b ELSE 0
        /\ W["chat"][d] = IF d >= m THEN c ELSE 0
    BY <1>3, KindsAre
  <2> HIDE DEF a, b, c
  <2> QED BY <2>1, <2>2
<1>5. ASSUME NEW k \in Kinds, NEW d \in Nat, NEW e \in Nat, d <= e
      PROVE  W[k][d] <= W[k][e]
  <2>1. /\ W[k][d] = IF d >= m THEN p[k] ELSE 0
        /\ W[k][e] = IF e >= m THEN p[k] ELSE 0
        /\ p[k] \in Nat
    BY <1>1, <1>3
  <2> QED BY <1>5, <2>1
<1>6. Divides(W)
  BY <1>2, <1>4, <1>5 DEF Divides
<1> QED BY <1>2, <1>3, <1>6

(* The process ends.                                                       *)
LEMMA PartedRestart ==
  ASSUME Typed, Parted, Restart
  PROVE  Parted'
<1> SUFFICES ASSUME ~overtaken', ~dropped'
             PROVE  \E V \in [Kinds -> [Nat -> Nat]] :
                      Divides(V) /\ InStep(V)' /\ AllFit(V)' /\ WholeAll(V)'
  BY DEF Parted, Divides
<1>1. /\ queued' = << >> /\ UNCHANGED <<stored, overtaken, dropped>>
      /\ \A k \in Sums : mem'[k] = None
      /\ \A w \in Workers : pc'[w] = "idle"
  BY Restarts
<1>2. PICK V \in [Kinds -> [Nat -> Nat]] : Divides(V) /\ WholeAll(V)
  BY <1>1 DEF Parted
<1>3. PICK r \in [Sums -> Nat] : \A k \in Sums : r[k] = Requests(stored[k])
  <2> DEFINE r == [k \in Sums |-> Requests(stored[k])]
  <2>1. \A k \in Sums : Requests(stored[k]) \in Nat
    <3>1. 0 \in 0..Len(queued)
      BY Numbers
    <3> QED BY <3>1, Numbers
  <2>2. r \in [Sums -> Nat] /\ \A k \in Sums : r[k] = Requests(stored[k])
    BY <2>1
  <2> HIDE DEF r
  <2> QED BY <2>2
<1>4. \A k \in Kinds : r[Part(k)] <= V[k][r[Day]] /\ r[Bill(k)] <= r[Part(k)]
  <2>1. 0 \in 0..Len(queued) /\ \A k \in Sums : Mark(0, k) = r[k]
    BY <1>3, Numbers
  <2>2. Whole(V, 0)
    BY <1>2, <2>1 DEF WholeAll
  <2> QED BY <2>1, <2>2, KeysApart DEF Whole
<1>5. PICK m \in Nat : m = r[Day]
  BY KeysApart
<1>6. PICK p \in [Kinds -> Nat] : \A k \in Kinds : p[k] = r[Part(k)]
  <2> DEFINE p == [k \in Kinds |-> r[Part(k)]]
  <2>1. p \in [Kinds -> Nat] /\ \A k \in Kinds : p[k] = r[Part(k)]
    BY KeysApart
  <2> HIDE DEF p
  <2> QED BY <2>1
<1>7. (p["responses"] + p["claude"]) + p["chat"] <= m
  <2> DEFINE a == V["responses"][m]
             b == V["claude"][m]
             c == V["chat"][m]
  <2>1. a \in Nat /\ b \in Nat /\ c \in Nat /\ (a + b) + c <= m
    BY <1>2, KindsAre DEF Divides
  <2>2. p["responses"] <= a /\ p["claude"] <= b /\ p["chat"] <= c
    BY <1>4, <1>5, <1>6, KindsAre
  <2>3. p["responses"] \in Nat /\ p["claude"] \in Nat /\ p["chat"] \in Nat
    BY KindsAre
  <2> HIDE DEF a, b, c
  <2> QED BY <2>1, <2>2, <2>3
<1>8. PICK W \in [Kinds -> [Nat -> Nat]] :
        Divides(W) /\ \A k \in Kinds : \A d \in Nat : d >= m => W[k][d] = p[k]
  BY <1>7, Again
<1>9. \A k \in Sums : Used(k)' = r[k]
  <2>1. ASSUME NEW k \in Sums PROVE Used(k)' = r[k]
    <3>1. InUse(k)' = Loaded(k)
      BY <1>1 DEF InUse, Loaded
    <3>2. Loaded(k).requests = r[k]
      BY <1>3, Numbers
    <3> QED BY <3>1, <3>2 DEF Used
  <2> QED BY <2>1
<1>10. InStep(W)'
  <2>1. Used(Day)' = m /\ \A k \in Kinds : Used(Part(k))' = p[k] /\ Used(Bill(k))' = r[Bill(k)]
    BY <1>5, <1>6, <1>9, KeysApart
  <2>2. ASSUME NEW k \in Kinds
        PROVE  /\ p[k] <= W[k][m] /\ r[Bill(k)] <= p[k]
               /\ \A d \in Nat : d >= m => W[k][d] = W[k][m]
    <3>1. m >= m /\ p[k] \in Nat
      OBVIOUS
    <3>2. W[k][m] = p[k]
      BY <1>8, <3>1
    <3>3. r[Bill(k)] <= p[k]
      BY <1>4, <1>6
    <3>4. p[k] <= W[k][m]
      BY <3>1, <3>2
    <3>5. \A d \in Nat : d >= m => W[k][d] = W[k][m]
      BY <1>8, <3>2
    <3> QED BY <3>3, <3>4, <3>5
  <2> QED BY <2>1, <2>2 DEF InStep
<1>11. AllFit(W)'
  BY <1>1 DEF AllFit
<1>12. WholeAll(W)'
  <2>1. \A n \in 0..Len(queued') : n = 0
    BY <1>1
  <2>2. ASSUME NEW k \in Sums PROVE Mark(0, k)' = r[k]
    <3>1. SubSeq(<< >>, 1, 0) = << >> /\ Len(<< >>) = 0
      OBVIOUS
    <3>2. Then(0, k)' = Behind!Replay(stored, << >>)[k]
      BY <1>1, <3>1 DEF Then
    <3>3. Behind!Replay(stored, << >>)[k] = stored[k]
      BY ReplayNothing
    <3> QED BY <1>3, <3>2, <3>3 DEF Mark, Requests
  <2>3. ASSUME NEW k \in Kinds
        PROVE  Mark(0, Part(k))' <= W[k][Mark(0, Day)'] /\ Mark(0, Bill(k))' <= Mark(0, Part(k))'
    <3>1. /\ Mark(0, Part(k))' = p[k] /\ Mark(0, Day)' = m /\ Mark(0, Bill(k))' = r[Bill(k)]
      BY <1>5, <1>6, <2>2, KeysApart
    <3>2. m >= m /\ p[k] \in Nat
      OBVIOUS
    <3>3. W[k][m] = p[k]
      BY <1>8, <3>2
    <3>4. r[Bill(k)] <= p[k]
      BY <1>4, <1>6
    <3>5. p[k] <= p[k]
      BY <3>2
    <3> QED BY <3>1, <3>3, <3>4, <3>5
  <2>4. Whole(W, 0)'
    BY <2>3 DEF Whole
  <2> QED BY <2>1, <2>4 DEF WholeAll
<1> QED BY <1>8, <1>10, <1>11, <1>12

(* It holds at first, and every step keeps it.                             *)
LEMMA PartedInit ==
  ASSUME Init
  PROVE  Parted
<1>1. /\ \A k \in Sums : mem[k] = None /\ stored[k] = None
      /\ queued = << >> /\ \A w \in Workers : pc[w] = "idle"
  BY DEF Init
<1>2. PICK W \in [Kinds -> [Nat -> Nat]] :
        Divides(W) /\ \A k \in Kinds : \A d \in Nat : d >= 0 => W[k][d] = 0
  <2> DEFINE p == [k \in Kinds |-> 0]
             m == 0
  <2>1. m \in Nat /\ p \in [Kinds -> Nat]
    OBVIOUS
  <2>2. \A k \in Kinds : p[k] = 0
    OBVIOUS
  <2> HIDE DEF p
  <2>3. (p["responses"] + p["claude"]) + p["chat"] <= m
    BY <2>2, KindsAre
  <2> HIDE DEF m
  <2>4. \E W \in [Kinds -> [Nat -> Nat]] :
          Divides(W) /\ \A k \in Kinds : \A d \in Nat : d >= m => W[k][d] = p[k]
    BY <2>1, <2>3, Again
  <2> QED BY <2>2, <2>4 DEF m
<1>3. \A k \in Kinds : W[k][0] = 0
  BY <1>2
<1>4. \A k \in Sums : Used(k) = 0
  BY <1>1 DEF Used, InUse, Loaded, Nothing
<1>5. InStep(W)
  <2>1. Used(Day) = 0 /\ \A k \in Kinds : Used(Part(k)) = 0 /\ Used(Bill(k)) = 0
    BY <1>4, KeysApart
  <2> QED BY <1>2, <1>3, <2>1 DEF InStep
<1>6. AllFit(W)
  BY <1>1 DEF AllFit
<1>7. WholeAll(W)
  <2>1. \A n \in 0..Len(queued) : n = 0
    BY <1>1
  <2>2. ASSUME NEW k \in Sums PROVE Mark(0, k) = 0
    <3>1. SubSeq(<< >>, 1, 0) = << >> /\ Len(<< >>) = 0
      OBVIOUS
    <3>2. Then(0, k) = Behind!Replay(stored, << >>)[k]
      BY <1>1, <3>1 DEF Then
    <3>3. Behind!Replay(stored, << >>)[k] = stored[k]
      BY ReplayNothing
    <3> QED BY <1>1, <3>2, <3>3 DEF Mark, Requests
  <2>3. /\ Mark(0, Day) = 0
        /\ \A k \in Kinds : Mark(0, Part(k)) = 0 /\ Mark(0, Bill(k)) = 0
    BY <2>2, KeysApart
  <2>4. Whole(W, 0)
    BY <1>3, <2>3 DEF Whole
  <2> QED BY <2>1, <2>4 DEF WholeAll
<1> QED BY <1>2, <1>5, <1>6, <1>7 DEF Parted

(* Every step keeps Parted.                                                *)
LEMMA PartedStep ==
  ASSUME Typed, Counts, Parted, [Next]_vars
  PROVE  Parted'
<1>1. Moving
  BY TypedStep
<1>2. CASE Still
  BY <1>2, PartedStill DEF Still, disk, hist
<1>3. ASSUME NEW w \in Workers, Unpin(w) PROVE Parted'
  <2> DEFINE op == [key |-> Pin, val |-> None]
  <2>1. /\ op \in Writings /\ Behind!Accept(op) /\ op.key = Pin
        /\ UNCHANGED <<mem, puts, overtaken, dropped>>
        /\ \A u \in Workers : pc'[u] = "put" => pc[u] = "put"
    BY <1>3, Unpins
  <2> HIDE DEF op
  <2> QED BY <2>1, PartedPin
<1>4. ASSUME NEW w \in Workers, Record(w) PROVE Parted'
  BY <1>4, PartedRecord
<1>5. ASSUME NEW w \in Workers, Put(w) PROVE Parted'
  <2>1. CASE pc[w] = "pin"
    <3> DEFINE op == Head(puts[w])
    <3>1. /\ op \in Writings /\ Behind!Accept(op) /\ op.key = Pin
          /\ UNCHANGED <<mem, dropped>> /\ (overtaken => overtaken')
          /\ pc'[w] = "record"
          /\ \A x \in Workers \ {w} : pc'[x] = pc[x] /\ puts'[x] = puts[x]
      BY <1>5, <2>1, Puts
    <3>2. \A x \in Workers : pc'[x] = "put" => pc[x] = "put" /\ puts'[x] = puts[x]
      BY <3>1
    <3> HIDE DEF op
    <3> QED BY <3>1, <3>2, PartedPin
  <2>2. CASE pc[w] # "pin"
    BY <1>5, <2>2, PartedPut
  <2> QED BY <2>1, <2>2
<1>6. CASE Today
  BY <1>6, PartedToday
<1>7. CASE Restart
  BY <1>7, PartedRestart
<1>8. ASSUME NEW n \in 1..Len(queued), Commit(n) \/ CommitFails(n) PROVE Parted'
  BY <1>8, PartedCommit
<1> QED BY <1>1, <1>2, <1>3, <1>4, <1>5, <1>6, <1>7, <1>8 DEF Moving, Restful

(* The parts never come to more than the whole, wherever the process ends  *)
(* between the snapshots of a request; snapshots that were overtaken aside *)
(* (recorder.go).                                                          *)
THEOREM PartsStayWithinWhole == Spec => []PartsWithinWhole
<1>1. Typed /\ Parted => PartsWithinWhole
  <2> SUFFICES ASSUME Typed, Parted, ~overtaken, ~dropped
               PROVE  /\ Loaded(Day).requests >= (Loaded(Part("responses")).requests
                           + Loaded(Part("claude")).requests) + Loaded(Part("chat")).requests
                      /\ \A k \in Kinds : Loaded(Part(k)).requests >= Loaded(Bill(k)).requests
    BY DEF PartsWithinWhole
  <2> DEFINE L(k) == Loaded(k).requests
  <2>1. PICK V \in [Kinds -> [Nat -> Nat]] : Divides(V) /\ WholeAll(V)
    BY DEF Parted
  <2>2. 0 \in 0..Len(queued) /\ \A k \in Sums : Mark(0, k) = L(k) /\ L(k) \in Nat
    <3>1. 0 \in 0..Len(queued)
      BY Numbers
    <3> QED BY <3>1, Numbers
  <2>3. \A k \in Kinds : L(Part(k)) <= V[k][L(Day)] /\ L(Bill(k)) <= L(Part(k))
    <3>1. Whole(V, 0)
      BY <2>1, <2>2 DEF WholeAll
    <3> QED BY <2>2, <3>1, KeysApart DEF Whole
  <2>4. \A k \in Kinds : L(Part(k)) \in Nat /\ L(Bill(k)) \in Nat
    BY <2>2, KeysApart
  <2>5. PICK m \in Nat : m = L(Day)
    BY <2>2, KeysApart
  <2>6. L(Day) >= (L(Part("responses")) + L(Part("claude"))) + L(Part("chat"))
    <3> DEFINE a == V["responses"][m]
               b == V["claude"][m]
               c == V["chat"][m]
    <3>1. a \in Nat /\ b \in Nat /\ c \in Nat /\ (a + b) + c <= m
      BY <2>1, KindsAre DEF Divides
    <3>2. L(Part("responses")) <= a /\ L(Part("claude")) <= b /\ L(Part("chat")) <= c
      BY <2>3, <2>5, KindsAre
    <3>3. /\ L(Part("responses")) \in Nat /\ L(Part("claude")) \in Nat
          /\ L(Part("chat")) \in Nat
      BY <2>4, KindsAre
    <3> HIDE DEF a, b, c, L
    <3> QED BY <2>5, <3>1, <3>2, <3>3
  <2>7. \A k \in Kinds : L(Part(k)) >= L(Bill(k))
    <3> HIDE DEF L
    <3> QED BY <2>3, <2>4
  <2> QED BY <2>6, <2>7
<1>2. Init => Parted
  BY PartedInit
<1>3. Typed /\ Counts /\ Parted /\ [Next]_vars => Parted'
  BY PartedStep
<1> QED BY <1>1, <1>2, <1>3, TypedAlways, CountsAlways, PTL DEF Spec

-----------------------------------------------------------------------------
(* The pin that was put last will be in the store when what is accepted is *)
(* committed, or it had expired when it was deleted.                       *)

Unspoilt == ~raced /\ ~lost /\ ~dropped /\ pinned # None
Pinned == Unspoilt => Accepted(Pin) = pinned \/ (Accepted(Pin) = None /\ pinned < now)

(* A step that accepts no other pin.                                       *)
LEMMA PinnedKept ==
  ASSUME Typed, Pinned, Accepted(Pin)' = Accepted(Pin), pinned' = pinned,
         now' \in Nat, now <= now', raced => raced', lost => lost', dropped => dropped'
  PROVE  Pinned'
<1> SUFFICES ASSUME Unspoilt'
             PROVE  Accepted(Pin)' = pinned' \/ (Accepted(Pin)' = None /\ pinned' < now')
  BY DEF Pinned
<1>1. Unspoilt
  BY DEF Unspoilt
<1>2. now \in Nat /\ pinned \in Nat
  BY <1>1, AccountingAssumption DEF Typed, Data, Moments, Unspoilt
<1>3. Accepted(Pin) = pinned \/ (Accepted(Pin) = None /\ pinned < now)
  BY <1>1 DEF Pinned
<1>4. pinned < now => pinned < now'
  BY <1>2
<1> QED BY <1>3, <1>4

(* A pin is deleted: of those that had expired when this was decided, the  *)
(* one deleted is the one that was put last, or a fresh one has been put   *)
(* and is lost.                                                            *)
LEMMA PinnedUnpin ==
  ASSUME Typed, Pinned, NEW w \in Workers, Unpin(w)
  PROVE  Pinned'
<1> DEFINE op == [key |-> Pin, val |-> None]
<1>1. /\ op \in Writings /\ Behind!Accept(op) /\ op.key = Pin /\ op.val = None
      /\ UNCHANGED <<clock, pinned, lost, dropped>>
      /\ raced' = (raced \/ Accepted(Pin) # stored[Pin] \/ ~Expired)
  BY Unpins
<1> HIDE DEF op
<1>2. Accepted(Pin)' = None
  BY <1>1, Accepts DEF Typed
<1> SUFFICES ASSUME Unspoilt' PROVE pinned' < now'
  BY <1>2 DEF Pinned
<1>3. Unspoilt /\ Accepted(Pin) = stored[Pin] /\ Expired
  BY <1>1 DEF Unspoilt
<1>4. Accepted(Pin) # None /\ Accepted(Pin) < now
  BY <1>3 DEF Expired
<1>5. pinned < now
  BY <1>3, <1>4 DEF Pinned
<1> QED BY <1>1, <1>5 DEF clock

(* A pin or a snapshot is queued.                                          *)
LEMMA PinnedPut ==
  ASSUME Typed, Pinned, NEW w \in Workers, Put(w)
  PROVE  Pinned'
<1> DEFINE op == Head(puts[w])
<1>1. /\ op \in Writings /\ Behind!Accept(op)
      /\ UNCHANGED <<clock, mem, counted, lost, dropped>>
      /\ pc[w] = "pin" => op.key = Pin /\ pinned' = op.val
      /\ pc[w] # "pin" => pc[w] = "put" /\ UNCHANGED <<pinned, raced>>
  BY Puts
<1>2. Accepted(Pin)' = IF op.key = Pin THEN op.val ELSE Accepted(Pin)
  BY <1>1, Accepts DEF Typed
<1>3. CASE pc[w] = "pin"
  <2> HIDE DEF op
  <2> QED BY <1>1, <1>2, <1>3 DEF Pinned
<1>4. CASE pc[w] # "pin"
  <2>1. PICK k \in Kinds : Snaps(puts[w], k)
    BY <1>1, <1>4, HandTyped
  <2>2. op.key \in Sums
    BY <2>1, SnapsLeft
  <2> HIDE DEF op
  <2>3. Accepted(Pin)' = Accepted(Pin)
    BY <1>2, <2>2, KeysApart
  <2>4. now' = now /\ now \in Nat
    BY <1>1, AccountingAssumption DEF Typed, Data, clock
  <2>5. now' \in Nat /\ now <= now'
    BY <2>4
  <2> QED BY <1>1, <1>4, <2>3, <2>5, PinnedKept
<1> QED BY <1>3, <1>4

(* The steps that leave the pins alone: those of the totals, the           *)
(* transactions and the end of the process.                                *)
LEMMA PinnedStep ==
  ASSUME Typed, Pinned, [Next]_vars
  PROVE  Pinned'
<1>1. Moving /\ QueueTyped /\ now \in Nat /\ now <= now
  BY TypedStep, AccountingAssumption DEF Typed, Data
<1>2. CASE Still
  <2>1. UNCHANGED <<stored, queued, pinned, raced, lost, dropped>>
    BY <1>2 DEF Still, disk, hist
  <2>2. Accepted(Pin)' = Accepted(Pin)
    BY <2>1 DEF Accepted
  <2> QED BY <1>2, <2>1, <2>2, PinnedKept DEF Still
<1>3. ASSUME NEW w \in Workers, Unpin(w) PROVE Pinned'
  BY <1>3, PinnedUnpin
<1>4. ASSUME NEW w \in Workers, Record(w) PROVE Pinned'
  <2>1. UNCHANGED <<now, stored, queued, pinned, raced, lost, dropped>>
    BY <1>4 DEF Record, disk, clock
  <2>2. Accepted(Pin)' = Accepted(Pin)
    BY <2>1 DEF Accepted
  <2> QED BY <1>1, <2>1, <2>2, PinnedKept
<1>5. ASSUME NEW w \in Workers, Put(w) PROVE Pinned'
  BY <1>5, PinnedPut
<1>6. CASE Today
  <2>1. UNCHANGED <<now, stored, queued, pinned, raced, lost, dropped>>
    BY <1>6 DEF Today, disk, clock, hist
  <2>2. Accepted(Pin)' = Accepted(Pin)
    BY <2>1 DEF Accepted
  <2> QED BY <1>1, <2>1, <2>2, PinnedKept
<1>7. CASE Restart
  <2>1. /\ queued' = << >> /\ UNCHANGED <<now, stored, pinned, dropped, raced>>
        /\ lost' = (lost \/ queued # << >> \/ \E w \in Workers : puts[w] # << >>)
    BY <1>7, Restarts
  <2>2. CASE queued = << >>
    <3>1. Accepted(Pin)' = Accepted(Pin)
      BY <2>1, <2>2 DEF Accepted
    <3> QED BY <1>1, <2>1, <3>1, PinnedKept
  <2>3. CASE queued # << >>
    BY <2>1, <2>3 DEF Pinned, Unspoilt
  <2> QED BY <2>2, <2>3
<1>8. ASSUME NEW n \in 1..Len(queued), Commit(n) \/ CommitFails(n) PROVE Pinned'
  <2>1. /\ UNCHANGED <<now, pinned, lost, raced>>
        /\ Commit(n) => Behind!Commit(n) /\ dropped' = dropped
        /\ CommitFails(n) => dropped'
    BY <1>8, CommitTyped
  <2>2. CASE Commit(n)
    <3>1. Accepted(Pin)' = Accepted(Pin)
      BY <1>1, <2>1, <2>2, Commits
    <3> QED BY <1>1, <2>1, <2>2, <3>1, PinnedKept
  <2>3. CASE CommitFails(n)
    BY <2>1, <2>3 DEF Pinned, Unspoilt
  <2> QED BY <1>8, <2>2, <2>3
<1> QED BY <1>1, <1>2, <1>3, <1>4, <1>5, <1>6, <1>7, <1>8 DEF Moving, Restful

(* A pin that was put last, and that no lookup of an expired one deleted   *)
(* from behind, is in the store when the queue is empty and is found until *)
(* it expires (pinstore.go, pool.go).                                      *)
THEOREM PinIsKept == Spec => []PinKept
<1>1. Typed /\ Pinned => PinKept
  <2> SUFFICES ASSUME Typed, Pinned, pinned # None, pinned >= now,
                      ~raced, ~lost, ~dropped, queued = << >>
               PROVE  stored[Pin] = pinned /\ ~Expired
    BY DEF PinKept
  <2>1. pinned \in Nat /\ now \in Nat
    BY AccountingAssumption DEF Typed, Data, Moments
  <2>2. Accepted(Pin) = pinned
    BY <2>1 DEF Pinned, Unspoilt
  <2>3. Accepted(Pin) = stored[Pin]
    BY ReplayNothing DEF Accepted
  <2> QED BY <2>1, <2>2, <2>3 DEF Expired
<1>2. Init => Pinned
  BY DEF Init, Pinned, Unspoilt
<1>3. Typed /\ Pinned /\ [Next]_vars => Pinned'
  BY PinnedStep
<1> QED BY <1>1, <1>2, <1>3, TypedAlways, PTL DEF Spec

-----------------------------------------------------------------------------
(* The store behind the queue.                                             *)

(* What is queued is an operation as WriteBehind knows them.               *)
LEMMA WritingsAreOps == Writings \subseteq Behind!Op
BY DEF Writings, Moments, Behind!Op

(* Recording, pinning, looking up, restarting: whatever a request or the   *)
(* process does, the store moves as WriteBehind says, which PersistQueue   *)
(* implements: what is shown here of the store holds of the one behind     *)
(* control/persist.go (recorder.go:67-176, pinstore.go:25-53).             *)
THEOREM AccountingIsWriteBehind == Spec => Behind!Spec
<1>1. Init => Behind!Init
  <2> SUFFICES ASSUME Init PROVE Behind!Init
    OBVIOUS
  <2>1. stored = [k \in Sums \cup {Pin} |-> None] /\ queued = << >>
    BY DEF Init
  <2> QED BY <2>1 DEF Behind!Init
<1>2. Typed /\ [Next]_vars => [Behind!Next]_(Behind!vars)
  <2> SUFFICES ASSUME Typed, [Next]_vars PROVE [Behind!Next]_(Behind!vars)
    OBVIOUS
  <2>1. ASSUME NEW op \in Writings, Behind!Accept(op) PROVE Behind!Next
    BY <2>1, WritingsAreOps DEF Behind!Next
  <2>2. CASE Still
    BY <2>2 DEF Still, disk, Behind!vars
  <2>3. ASSUME NEW w \in Workers, Unpin(w) PROVE Behind!Next
    BY <2>1, <2>3, Unpins
  <2>4. ASSUME NEW w \in Workers, Put(w) PROVE Behind!Next
    BY <2>1, <2>4, Puts
  <2>5. ASSUME (\E w \in Workers : Record(w)) \/ Today PROVE UNCHANGED Behind!vars
    BY <2>5 DEF Record, Today, disk, Behind!vars
  <2>6. CASE Restart
    BY <2>6 DEF Restart, Behind!Next
  <2>7. ASSUME NEW n \in 1..Len(queued), Commit(n) \/ CommitFails(n) PROVE Behind!Next
    BY <2>7 DEF Commit, CommitFails, Behind!Next
  <2>8. Moving
    BY TypedStep
  <2> QED BY <2>2, <2>3, <2>4, <2>5, <2>6, <2>7, <2>8 DEF Moving, Restful
<1> QED BY <1>1, <1>2, TypedAlways, PTL DEF Spec, Behind!Spec
==============================================================================
